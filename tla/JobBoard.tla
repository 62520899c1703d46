------------------------------- MODULE JobBoard -------------------------------
(***************************************************************************)
(* The jobs board: a post is free or owes a payment, an admin decides on   *)
(* it once that is settled, the worker reminds its poster and closes it.   *)
(*                                                                         *)
(*   src/lib/db/queries/job-board.ts  createJob, markJobPaid, approveJob,  *)
(*                                    rejectJob, expireDueJobs             *)
(*   src/lib/billing/orders.ts        settleJobOrder, applyJobCapture      *)
(*   src/worker/jobs/job-board.ts     runJobBoard                          *)
(*                                                                         *)
(* A decision, a webhook and a worker's tick lock the rows they read, and  *)
(* are one step each.  The return page locks nothing while PayPal answers: *)
(* it reads, captures, and marks in three steps.  The queue that carries   *)
(* the mails is JobQueue's; here a note waits until it is sent.            *)
(***************************************************************************)
EXTENDS Naturals, FiniteSets

CONSTANTS
  Posts,         \* jobs.id, each with its PayPal order if it owes a payment
  Visits,        \* loads of the return page
  Duration,      \* siteConfig.jobs.durationDays
  ReminderDays,  \* siteConfig.jobs.reminderDays
  MaxTime        \* bound on the clock

ASSUME BoardAssumption ==
  Duration \in Nat /\ ReminderDays \in Nat /\ MaxTime \in Nat

(* What PayPal can announce of a post's order: its own capture, one for    *)
(* another amount, one whose custom_id names another post.                 *)
Kinds == {"own", "other amount", "other post"}
Events == Posts \X Kinds

VARIABLES
  now,
  post,      \* the jobs row
  paypal,    \* the order at PayPal
  visit,     \* the open transaction of each return page
  processed, \* events in processed_events
  audit,     \* payment rows in audit_log: <<action, post>>
  notes,     \* notifications queued, not sent
  letters    \* mails that have gone out

mail == <<notes, letters>>
vars == <<now, post, paypal, visit, processed, audit, mail>>

-----------------------------------------------------------------------------
NoPost == "none"
NoteKinds == {"submitted", "decided", "expiring"}
LetterKinds == {"review", "approved", "rejected", "closing"}
Away == [pc |-> "idle", post |-> NoPost, amount |-> FALSE]

TypeOK ==
  /\ now \in 0..MaxTime
  /\ post \in [Posts -> [status : {"absent", "pending", "published", "removed", "expired"},
                         payment : {"free", "pending", "paid"}, expiresAt : Nat, reminded : BOOLEAN]]
  /\ paypal \in [Posts -> {"none", "created", "approved", "captured"}]
  /\ visit \in [Visits -> [pc : {"idle", "paypal", "mark"}, post : Posts \cup {NoPost}, amount : BOOLEAN]]
  /\ processed \in SUBSET Events
  /\ audit \in SUBSET ({"mismatch", "paid late", "paid"} \X Posts)
  /\ notes \in [NoteKinds -> [Posts -> Nat]]
  /\ letters \in [LetterKinds -> [Posts -> Nat]]

Init ==
  /\ now = 0
  /\ post = [p \in Posts |-> [status |-> "absent", payment |-> "pending", expiresAt |-> 0, reminded |-> FALSE]]
  /\ paypal = [p \in Posts |-> "none"]
  /\ visit = [v \in Visits |-> Away]
  /\ processed = {}
  /\ audit = {}
  /\ notes = [kind \in NoteKinds |-> [p \in Posts |-> 0]]
  /\ letters = [kind \in LetterKinds |-> [p \in Posts |-> 0]]

AdvanceClock ==
  /\ now < MaxTime
  /\ now' = now + 1
  /\ UNCHANGED <<post, paypal, visit, processed, audit, mail>>

Queue(kind, p) == notes' = [notes EXCEPT ![kind][p] = @ + 1]

-----------------------------------------------------------------------------
(* createJob: free for a Verified listing's owner, and told to the admin;  *)
(* otherwise the PayPal order is made in the same transaction.             *)
CreateFree(p) ==
  /\ post[p].status = "absent"
  /\ post' = [post EXCEPT ![p].status = "pending", ![p].payment = "free"]
  /\ Queue("submitted", p)
  /\ UNCHANGED <<now, paypal, visit, processed, audit, letters>>

CreatePaid(p) ==
  /\ post[p].status = "absent"
  /\ post' = [post EXCEPT ![p].status = "pending", ![p].payment = "pending"]
  /\ paypal' = [paypal EXCEPT ![p] = "created"]
  /\ UNCHANGED <<now, visit, processed, audit, mail>>

Approve(p) ==
  /\ paypal[p] = "created"
  /\ paypal' = [paypal EXCEPT ![p] = "approved"]
  /\ UNCHANGED <<now, post, visit, processed, audit, mail>>

(* Mutation: the settled row is not looked at again under its lock.        *)
MarkUnchecked(p) ==
  /\ post' = [post EXCEPT ![p].payment = "paid"]
  /\ audit' = audit \cup {<<"paid", p>>}
  /\ Queue("submitted", p)

(* markJobPaid, under the row's lock: the first settles and tells the      *)
(* admin; a post that has been decided is not brought back.                *)
MarkJobPaid(p) ==
  IF post[p].payment # "pending" THEN UNCHANGED <<post, audit, notes>>
  ELSE IF post[p].status # "pending"
  THEN audit' = audit \cup {<<"paid late", p>>} /\ UNCHANGED <<post, notes>>
  ELSE /\ post' = [post EXCEPT ![p].payment = "paid"]
       /\ audit' = audit \cup {<<"paid", p>>}
       /\ Queue("submitted", p)

(* Mutation: the mismatch is logged and nothing is written.                *)
LogMismatch(p) == UNCHANGED <<post, audit, notes>>

RecordMismatch(p) == audit' = audit \cup {<<"mismatch", p>>} /\ UNCHANGED <<post, notes>>

-----------------------------------------------------------------------------
(* The return page: settleJobOrder. *)

OpenReturnPage(v, p) ==
  /\ visit[v].pc = "idle"
  /\ paypal[p] # "none"
  /\ post[p].payment = "pending"
  /\ visit' = [visit EXCEPT ![v] = [pc |-> "paypal", post |-> p, amount |-> FALSE]]
  /\ UNCHANGED <<now, post, paypal, processed, audit, mail>>

(* captureOrder: made now, or made before and read back -- and a read-back *)
(* that fails counts as completed, with no amount.                         *)
Capture(v) ==
  LET p == visit[v].post
  IN /\ visit[v].pc = "paypal"
     /\ paypal[p] \in {"approved", "captured"}
     /\ paypal' = [paypal EXCEPT ![p] = "captured"]
     /\ \E read \in {TRUE, paypal[p] = "approved"} :
          visit' = [visit EXCEPT ![v].pc = "mark", ![v].amount = read]
     /\ UNCHANGED <<now, post, processed, audit, mail>>

Settle(v) ==
  LET p == visit[v].post
  IN /\ visit[v].pc = "mark"
     /\ IF visit[v].amount THEN MarkJobPaid(p) ELSE RecordMismatch(p)
     /\ visit' = [visit EXCEPT ![v] = Away]
     /\ UNCHANGED <<now, paypal, processed, letters>>

(* PayPal is out of reach, the order is not approved, or the process dies: *)
(* nothing is written.  The capture may have been made all the same.       *)
Leave(v) ==
  LET p == visit[v].post
  IN /\ visit[v].pc # "idle"
     /\ \/ UNCHANGED paypal
        \/ visit[v].pc = "paypal" /\ paypal[p] = "approved" /\ paypal' = [paypal EXCEPT ![p] = "captured"]
     /\ visit' = [visit EXCEPT ![v] = Away]
     /\ UNCHANGED <<now, post, processed, audit, mail>>

-----------------------------------------------------------------------------
(* The webhook: recordProcessedEvent and applyJobCapture, one transaction. *)

Emitted(p, k) == IF k = "own" THEN paypal[p] = "captured" ELSE paypal[p] # "none"

(* Mutation: the webhook turns away the post's own capture, which the     *)
(* return page settles.                                                    *)
ApplyOthers(p, k) ==
  /\ Emitted(p, k) /\ k # "own"
  /\ <<p, k>> \notin processed
  /\ processed' = processed \cup {<<p, k>>}
  /\ RecordMismatch(p)
  /\ UNCHANGED <<now, paypal, visit, letters>>

ApplyCapture(p, k) ==
  /\ Emitted(p, k)
  /\ <<p, k>> \notin processed
  /\ processed' = processed \cup {<<p, k>>}
  /\ IF k = "own" THEN MarkJobPaid(p) ELSE RecordMismatch(p)
  /\ UNCHANGED <<now, paypal, visit, letters>>

-----------------------------------------------------------------------------
(* The admin. *)

(* claimPending, and the refusal of an unpaid post.                        *)
Decidable(p) == post[p].status = "pending" /\ post[p].payment # "pending"

ApproveJob(p) ==
  /\ Decidable(p)
  /\ post' = [post EXCEPT ![p].status = "published", ![p].expiresAt = now + Duration]
  /\ Queue("decided", p)
  /\ UNCHANGED <<now, paypal, visit, processed, audit, letters>>

RejectJob(p) ==
  /\ Decidable(p)
  /\ post' = [post EXCEPT ![p].status = "removed"]
  /\ Queue("decided", p)
  /\ UNCHANGED <<now, paypal, visit, processed, audit, letters>>

-----------------------------------------------------------------------------
(* The worker. *)

Lapsed == {p \in Posts : post[p].status = "published" /\ post[p].expiresAt <= now}

ClosingSoon ==
  {p \in Posts : /\ post[p].status = "published" /\ ~post[p].reminded
                 /\ now < post[p].expiresAt /\ post[p].expiresAt <= now + ReminderDays}

(* runJobBoard: expireJobs, then enqueueExpiryReminders, in one tick.      *)
Tick ==
  /\ Lapsed \cup ClosingSoon # {}
  /\ post' = [p \in Posts |->
       IF p \in Lapsed THEN [post[p] EXCEPT !.status = "expired"]
       ELSE IF p \in ClosingSoon THEN [post[p] EXCEPT !.reminded = TRUE]
       ELSE post[p]]
  /\ notes' = [notes EXCEPT !["expiring"] =
       [p \in Posts |-> IF p \in ClosingSoon THEN @[p] + 1 ELSE @[p]]]
  /\ UNCHANGED <<now, paypal, visit, processed, audit, letters>>

(* Mutation: the letter says what was decided last, whatever was published *)
(* since: an expired post reads as turned down.                            *)
LetterByOpen(kind, p) ==
  CASE kind = "submitted" -> "review"
    [] kind = "decided" /\ post[p].status = "published" -> "approved"
    [] kind = "decided" /\ post[p].status \in {"removed", "expired"} -> "rejected"
    [] kind = "expiring" /\ post[p].status = "published" -> "closing"
    [] OTHER -> "nothing"

(* run: the row is read again, and decides which mail it is.               *)
Letter(kind, p) ==
  CASE kind = "submitted" -> "review"
    [] kind = "decided" /\ post[p].status \in {"published", "expired"} -> "approved"
    [] kind = "decided" /\ post[p].status = "removed" -> "rejected"
    [] kind = "expiring" /\ post[p].status = "published" -> "closing"
    [] OTHER -> "nothing"

SendNote(kind, p) ==
  /\ notes[kind][p] > 0
  /\ notes' = [notes EXCEPT ![kind][p] = @ - 1]
  /\ letters' = IF Letter(kind, p) \in LetterKinds
                THEN [letters EXCEPT ![Letter(kind, p)][p] = @ + 1] ELSE letters
  /\ UNCHANGED <<now, post, paypal, visit, processed, audit>>

-----------------------------------------------------------------------------
Next ==
  \/ AdvanceClock \/ Tick
  \/ \E p \in Posts :
       \/ CreateFree(p) \/ CreatePaid(p) \/ Approve(p) \/ ApproveJob(p) \/ RejectJob(p)
       \/ \E k \in Kinds : ApplyCapture(p, k)
       \/ \E kind \in NoteKinds : SendNote(kind, p)
  \/ \E v \in Visits : (\E p \in Posts : OpenReturnPage(v, p)) \/ Capture(v) \/ Settle(v) \/ Leave(v)

Spec == Init /\ [][Next]_vars

(* PayPal delivers until it is answered, cron ticks, the queue drains.     *)
(* Nothing makes a buyer come back or an admin decide.                     *)
Fairness ==
  /\ WF_vars(AdvanceClock)
  /\ WF_vars(Tick)
  /\ \A p \in Posts :
       /\ WF_vars(ApplyCapture(p, "own"))
       /\ \A kind \in NoteKinds : WF_vars(SendNote(kind, p))

FairSpec == Spec /\ Fairness

-----------------------------------------------------------------------------
(* Properties. *)

(* A post is decided only once it is settled -- free, or paid with money   *)
(* PayPal has taken -- so no capture ever finds its post decided, and the  *)
(* late-payment branch is never taken.                                     *)
DecidedWhenSettled ==
  \A p \in Posts :
    /\ post[p].status \notin {"absent", "pending"} => post[p].payment # "pending"
    /\ post[p].payment = "paid" => paypal[p] = "captured"
    /\ <<"paid late", p>> \notin audit

(* The admin hears of a post once, when it is settled and not before,      *)
(* however many return pages and webhooks settle it.                       *)
AdminToldOnce ==
  \A p \in Posts :
    notes["submitted"][p] + letters["review"][p]
      = IF post[p].status = "absent" \/ post[p].payment = "pending" THEN 0 ELSE 1

(* Money is never lost sight of: a capture whose event has been taken has  *)
(* paid for its post or is on the audit record for a refund.               *)
CapturesAccountedFor ==
  \A p \in Posts, k \in Kinds : <<p, k>> \in processed =>
    IF k = "own" THEN post[p].payment = "paid" ELSE <<"mismatch", p>> \in audit

(* The poster is told what was decided, once, and never both; and is       *)
(* reminded at most once that the post is closing.                         *)
PosterToldTruly ==
  \A p \in Posts :
    /\ letters["approved"][p] > 0 => post[p].status \in {"published", "expired"}
    /\ letters["rejected"][p] > 0 => post[p].status = "removed"
    /\ notes["decided"][p] + letters["approved"][p] + letters["rejected"][p]
         = IF post[p].status \in {"absent", "pending"} THEN 0 ELSE 1
    /\ notes["expiring"][p] + letters["closing"][p] <= 1

(* A decision stands: a post never returns to the queue or to the board,   *)
(* its closing date does not move, and a settled payment stays settled.    *)
DecisionsStand ==
  [][\A p \in Posts :
       /\ post[p].status \in {"published", "removed", "expired"} =>
            /\ post'[p].status \in {post[p].status} \cup
                 (IF post[p].status = "published" THEN {"expired"} ELSE {})
            /\ post'[p].expiresAt = post[p].expiresAt
       /\ post[p].payment # "pending" /\ post[p].status # "absent" =>
            post'[p].payment = post[p].payment]_vars

(* A post PayPal took the money for is marked paid, even when a return     *)
(* page could not read its capture back.                                   *)
PaidIsMarked == \A p \in Posts : paypal[p] = "captured" ~> post[p].payment = "paid"
=============================================================================
