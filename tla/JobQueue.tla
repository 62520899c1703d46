------------------------------- MODULE JobQueue -------------------------------
(***************************************************************************)
(* The mail queue: a notification is queued with the write it is about,    *)
(* and the worker's tick claims, sends and settles up to a batch of them   *)
(* in one transaction.                                                     *)
(*                                                                         *)
(*   src/lib/db/queries/jobs.ts   enqueueJob, claimNextJob, markDelivered, *)
(*                                completeJob, failJob, purgeFinishedJobs  *)
(*   src/worker/jobs/notify.ts    processNotifications, deliver            *)
(*   src/worker/lock.ts           withAdvisoryLock                         *)
(*                                                                         *)
(* What a tick writes is its own until it commits; what it has mailed is   *)
(* out of reach of any rollback.  The mailer is taken to be configured.    *)
(***************************************************************************)
EXTENDS Naturals, Sequences, FiniteSets

CONSTANTS
  Jobs,          \* job_queue.id
  Recipients,    \* delivery keys: owner, admin, recipient:<listing>...
  To,            \* the keys of each job, in the order its handler writes to them
  Steadfast,     \* jobs whose handler goes on after a refusal (runQuote)
  Lapsing,       \* jobs that end unsent when there is nothing left to send
  Workers, NoWorker,
  MaxAttempts,   \* MAX_JOB_ATTEMPTS
  Batch,         \* BATCH
  Retention,     \* FINISHED_JOB_RETENTION_DAYS
  LastEnqueue, MaxTime,  \* bounds: when jobs are queued, and the clock
  MaxAborts              \* bound: ticks that die

NoJob == "none"
Unread == "unread"
Moot == "moot"

ASSUME QueueAssumption ==
  /\ To \in [Jobs -> Seq(Recipients)]
  /\ \A j \in Jobs : \A a, b \in DOMAIN To[j] : To[j][a] = To[j][b] => a = b
  /\ Steadfast \subseteq Jobs /\ Lapsing \subseteq Jobs
  /\ Unread \notin Recipients /\ Moot \notin Recipients
  /\ NoWorker \notin Workers /\ NoJob \notin Jobs
  /\ MaxAttempts \in Nat /\ Batch \in Nat \ {0} /\ Retention \in Nat
  /\ LastEnqueue \in Nat /\ MaxTime \in Nat /\ MaxAborts \in Nat

VARIABLES
  now,      \* lib/clock
  row,      \* job_queue, as committed
  tick,     \* each worker's open transaction
  lock,     \* the drain's advisory lock
  copies,   \* mails the provider has taken for each job and key
  snags,    \* what has kept a job's mails from going: keys the provider turned
            \* down, Unread or Moot
  aborted   \* ticks that have died, up to MaxAborts

mail == <<copies, snags>>
vars == <<now, row, tick, lock, mail, aborted>>

-----------------------------------------------------------------------------
Told(j) == {To[j][i] : i \in DOMAIN To[j]}

Rows ==
  [status : {"absent", "pending", "done", "failed", "purged"}, attempts : Nat, createdAt : Nat, runAfter : Nat,
   finishedAt : Nat, delivered : SUBSET Recipients, token : BOOLEAN]

Absent ==
  [status |-> "absent", attempts |-> 0, createdAt |-> 0, runAfter |-> 0,
   finishedAt |-> 0, delivered |-> {}, token |-> FALSE]

(* next: where its handler is in To; held: the jobs whose rows the tick has *)
(* locked; rows: as it left those.                                         *)
Ticks ==
  [pc : {"off", "pick", "send"}, taken : Nat, job : Jobs \cup {NoJob}, next : Nat \ {0},
   fresh : SUBSET Recipients, failing : BOOLEAN, held : SUBSET Jobs, rows : [Jobs -> Rows]]

Off ==
  [pc |-> "off", taken |-> 0, job |-> NoJob, next |-> 1,
   fresh |-> {}, failing |-> FALSE, held |-> {}, rows |-> [j \in Jobs |-> Absent]]

TypeOK ==
  /\ now \in Nat
  /\ row \in [Jobs -> Rows]
  /\ tick \in [Workers -> Ticks]
  /\ lock \in Workers \cup {NoWorker}
  /\ copies \in [Jobs -> [Recipients -> Nat]]
  /\ snags \in [Jobs -> SUBSET (Recipients \cup {Unread, Moot})]
  /\ aborted \in 0..MaxAborts

Init ==
  /\ now = 0
  /\ row = [j \in Jobs |-> Absent]
  /\ tick = [w \in Workers |-> Off]
  /\ lock = NoWorker
  /\ copies = [j \in Jobs |-> [r \in Recipients |-> 0]]
  /\ snags = [j \in Jobs |-> {}]
  /\ aborted = 0

-----------------------------------------------------------------------------
(* enqueueJob, in the transaction of the write it announces. *)
Enqueue(j) ==
  /\ row[j].status = "absent"
  /\ now <= LastEnqueue
  /\ row' = [row EXCEPT ![j] = [Absent EXCEPT !.status = "pending", !.createdAt = now,
                                              !.runAfter = now, !.token = TRUE]]
  /\ UNCHANGED <<now, tick, lock, mail, aborted>>

(* The clock stops at MaxTime, unless a retry is waiting for it.           *)
AdvanceClock ==
  /\ now < MaxTime \/ \E j \in Jobs : row[j].status = "pending" /\ row[j].runAfter > now
  /\ now' = now + 1
  /\ UNCHANGED <<row, tick, lock, mail, aborted>>

(* purgeFinishedJobs *)
Purge ==
  LET gone == {j \in Jobs : row[j].status \in {"done", "failed"} /\ row[j].finishedAt + Retention < now}
  IN /\ gone # {}
     /\ row' = [j \in Jobs |-> IF j \in gone THEN [Absent EXCEPT !.status = "purged"] ELSE row[j]]
     /\ UNCHANGED <<now, tick, lock, mail, aborted>>

-----------------------------------------------------------------------------
(* A tick: one transaction, under the advisory lock. *)

(* pg_try_advisory_xact_lock: a worker that finds it held skips this tick. *)
StartTick(w) ==
  /\ tick[w].pc = "off"
  /\ lock = NoWorker
  /\ lock' = w
  /\ tick' = [tick EXCEPT ![w].pc = "pick"]
  /\ UNCHANGED <<now, row, mail, aborted>>

(* A tick reads committed rows, its own writes over them.                  *)
Seen(w, j) == IF j \in tick[w].held THEN tick[w].rows[j] ELSE row[j]

(* claimNextJob: pending, due, and not locked by another tick.             *)
Due(w) ==
  {j \in Jobs :
     /\ Seen(w, j).status = "pending"
     /\ Seen(w, j).runAfter <= now
     /\ \A v \in Workers \ {w} : j \notin tick[v].held}

Before(a, b) == a.runAfter < b.runAfter \/ (a.runAfter = b.runAfter /\ a.createdAt <= b.createdAt)

Claim(w) ==
  /\ tick[w].pc = "pick"
  /\ tick[w].taken < Batch
  /\ \E j \in Due(w) :
       /\ \A i \in Due(w) : Before(Seen(w, j), Seen(w, i))
       /\ tick' = [tick EXCEPT ![w].pc = "send", ![w].taken = @ + 1, ![w].job = j,
                               ![w].next = 1, ![w].held = @ \cup {j}, ![w].rows[j] = Seen(w, j)]
  /\ UNCHANGED <<now, row, lock, mail, aborted>>

(* The handler comes to its next recipient, if there is one left.          *)
Writing(t) == t.pc = "send" /\ t.next <= Len(To[t.job])
Key(t) == To[t.job][t.next]

(* deliver: already sent on an earlier attempt. *)
Skip(w) ==
  /\ Writing(tick[w])
  /\ Key(tick[w]) \in tick[w].rows[tick[w].job].delivered
  /\ tick' = [tick EXCEPT ![w].next = @ + 1]
  /\ UNCHANGED <<now, row, lock, mail, aborted>>

(* deliver: the provider takes the mail. *)
Deliver(w) ==
  LET t == tick[w]
  IN /\ Writing(t) /\ Key(t) \notin t.rows[t.job].delivered
     /\ copies' = [copies EXCEPT ![t.job][Key(t)] = @ + 1]
     /\ tick' = [tick EXCEPT ![w].next = @ + 1, ![w].fresh = @ \cup {Key(t)}]
     /\ UNCHANGED <<now, row, lock, snags, aborted>>

(* Mutation: a refused mail is logged, not thrown.                         *)
SwallowRefusal(w) ==
  LET t == tick[w]
  IN /\ Writing(t) /\ Key(t) \notin t.rows[t.job].delivered
     /\ snags' = [snags EXCEPT ![t.job] = @ \cup {Key(t)}]
     /\ tick' = [tick EXCEPT ![w].next = @ + 1]
     /\ UNCHANGED <<now, row, lock, copies, aborted>>

(* Mutation: the first refusal ends every job.                             *)
StopAtRefusal(w) ==
  LET t == tick[w]
  IN /\ Writing(t) /\ Key(t) \notin t.rows[t.job].delivered
     /\ snags' = [snags EXCEPT ![t.job] = @ \cup {Key(t)}]
     /\ tick' = [tick EXCEPT ![w].failing = TRUE, ![w].next = Len(To[t.job]) + 1]
     /\ UNCHANGED <<now, row, lock, copies, aborted>>

(* The provider refuses it: the handler throws there, or, for a quote, at  *)
(* the end, when everyone else has been tried.                             *)
Refuse(w) ==
  LET t == tick[w]
  IN /\ Writing(t) /\ Key(t) \notin t.rows[t.job].delivered
     /\ snags' = [snags EXCEPT ![t.job] = @ \cup {Key(t)}]
     /\ tick' = [tick EXCEPT ![w].failing = TRUE,
                             ![w].next = IF t.job \in Steadfast THEN @ + 1 ELSE Len(To[t.job]) + 1]
     /\ UNCHANGED <<now, row, lock, copies, aborted>>

(* The handler throws before it has written to anybody: the row it is to   *)
(* announce is not there, or has nobody to tell or nothing to say yet, or  *)
(* the database failed it.                                                 *)
Throw(w) ==
  LET t == tick[w]
  IN /\ Writing(t) /\ t.next = 1
     /\ snags' = [snags EXCEPT ![t.job] = @ \cup {Unread}]
     /\ tick' = [tick EXCEPT ![w].failing = TRUE, ![w].next = Len(To[t.job]) + 1]
     /\ UNCHANGED <<now, row, lock, copies, aborted>>

(* It returns with nothing sent: a link already clicked or replaced, a     *)
(* request flagged as spam, an award revoked.                              *)
Lapse(w) ==
  LET t == tick[w]
  IN /\ Writing(t) /\ t.next = 1 /\ t.job \in Lapsing
     /\ snags' = [snags EXCEPT ![t.job] = @ \cup {Moot}]
     /\ tick' = [tick EXCEPT ![w].next = Len(To[t.job]) + 1]
     /\ UNCHANGED <<now, row, lock, copies, aborted>>

(* The job is settled as r, and the tick looks for another.                *)
Settle(w, r) ==
  /\ tick' = [tick EXCEPT ![w].pc = "pick", ![w].job = NoJob, ![w].fresh = {}, ![w].failing = FALSE,
                          ![w].rows[tick[w].job] = r]
  /\ UNCHANGED <<now, row, lock, mail, aborted>>

Complete(w) ==
  LET t == tick[w]
  IN /\ t.pc = "send" /\ ~Writing(t) /\ ~t.failing
     /\ Settle(w, [t.rows[t.job] EXCEPT !.status = "done", !.finishedAt = now, !.token = FALSE])

(* Mutation: what was sent before the failure is not written down.         *)
FailedUnmarked(r, fresh) ==
  IF r.attempts + 1 > MaxAttempts
  THEN [r EXCEPT !.attempts = @ + 1, !.status = "failed", !.finishedAt = now, !.token = FALSE]
  ELSE [r EXCEPT !.attempts = @ + 1, !.runAfter = now + 2 ^ r.attempts]

(* Mutation: the last failure forgets to park the job.                     *)
FailedForEver(r, fresh) ==
  [r EXCEPT !.delivered = @ \cup fresh, !.attempts = IF @ > MaxAttempts THEN @ ELSE @ + 1,
            !.runAfter = now]

(* Whatever was thrown: markDelivered, then failJob: 1, 2, 4... minutes to *)
(* the next attempt, and parked when the retries are used up.              *)
Failed(r, fresh) ==
  IF r.attempts + 1 > MaxAttempts
  THEN [r EXCEPT !.delivered = @ \cup fresh, !.attempts = @ + 1,
                 !.status = "failed", !.finishedAt = now, !.token = FALSE]
  ELSE [r EXCEPT !.delivered = @ \cup fresh, !.attempts = @ + 1, !.runAfter = now + 2 ^ r.attempts]

Fail(w) ==
  LET t == tick[w]
  IN /\ t.pc = "send" /\ ~Writing(t) /\ t.failing
     /\ Settle(w, Failed(t.rows[t.job], t.fresh))

Release(w) ==
  /\ tick' = [tick EXCEPT ![w] = Off]
  /\ lock' = NoWorker

Commit(w) ==
  /\ tick[w].pc = "pick"
  /\ tick[w].taken = Batch \/ Due(w) = {}
  /\ row' = [j \in Jobs |-> Seen(w, j)]
  /\ Release(w)
  /\ UNCHANGED <<now, mail, aborted>>

(* The process dies, or a statement outside the job's savepoint fails:     *)
(* every job of the tick is rolled back, mailed or not.                    *)
Abort(w) ==
  /\ tick[w].pc # "off"
  /\ aborted < MaxAborts
  /\ aborted' = aborted + 1
  /\ Release(w)
  /\ UNCHANGED <<now, row, mail>>

-----------------------------------------------------------------------------
TickStep(w) ==
  \/ Claim(w) \/ Skip(w) \/ Deliver(w) \/ Refuse(w) \/ Throw(w) \/ Lapse(w)
  \/ Complete(w) \/ Fail(w) \/ Commit(w)

Next ==
  \/ \E j \in Jobs : Enqueue(j)
  \/ AdvanceClock \/ Purge
  \/ \E w \in Workers : StartTick(w) \/ TickStep(w) \/ Abort(w)

Spec == Init /\ [][Next]_vars

(* Cron fires the drain every thirty seconds, a tick runs on, time passes. *)
Fairness ==
  /\ WF_vars(AdvanceClock)
  /\ WF_vars(\E w \in Workers : StartTick(w))
  /\ \A w \in Workers : WF_vars(TickStep(w))

FairSpec == Spec /\ Fairness

-----------------------------------------------------------------------------
(* Properties. *)

(* Nobody gets a second copy of a mail, whatever refusals and retries the  *)
(* job goes through, except for a tick that was rolled back after sending. *)
OneCopyPerTick == \A j \in Jobs, r \in Recipients : copies[j][r] <= 1 + aborted

(* A job is done only when everyone it is for has been written to, or there*)
(* was nothing left to send; a key is on its delivered list only when its  *)
(* mail went.                                                              *)
DoneMeansTold ==
  \A j \in Jobs :
    /\ \A r \in row[j].delivered : copies[j][r] > 0
    /\ row[j].status = "done" => Moot \in snags[j] \/ \A r \in Told(j) : copies[j][r] > 0

(* The live token a payload carries is there for every attempt still to    *)
(* come, and gone from the row of a job that cannot run again.             *)
TokenWhilePending == \A j \in Jobs : row[j].token = (row[j].status = "pending")

(* However a job ends whose handler goes on after a refusal, everyone      *)
(* whose own address was never refused has its mail: one bad address holds *)
(* up nobody else.  Only a handler that stopped before the first of them   *)
(* leaves them all without.                                                *)
WorkingAddressReached ==
  \A j \in Steadfast : row[j].status \in {"done", "failed"} =>
    \A r \in Told(j) : copies[j][r] > 0 \/ {r, Unread, Moot} \cap snags[j] # {}

(* Every queued job is settled or parked in the end.                       *)
EveryJobEnds == \A j \in Jobs : row[j].status = "pending" ~> row[j].status # "pending"

(* The queue as those who queue a notice see it (IdealDelivery): the rows  *)
(* and ticks, whichever of them commits or dies, keep its promise.         *)
Stage(j) ==
  CASE row[j].status = "absent"  -> "none"
    [] row[j].status = "pending" -> "owed"
    [] row[j].status = "done"    -> "told"
    [] row[j].status = "failed"  -> "parked"
    [] OTHER                     -> "forgotten"

Ideal == INSTANCE IdealDelivery WITH
  Addressees <- [j \in Jobs |-> Told(j)],
  stage <- [j \in Jobs |-> Stage(j)],
  refused <- [j \in Jobs |-> snags[j] \cap Recipients],
  unread <- {j \in Jobs : Unread \in snags[j]},
  moot <- {j \in Jobs : Moot \in snags[j]},
  losses <- aborted

ImplementsIdealDelivery == Ideal!Spec
=============================================================================
