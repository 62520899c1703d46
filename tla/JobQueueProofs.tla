---------------------------- MODULE JobQueueProofs ----------------------------
(* Safety of the mail queue, for every set of jobs, recipients and workers *)
(* and every bound on retries, batches and aborted ticks.                  *)
EXTENDS JobQueue, FiniteSetTheorems, TLAPS

(* The drain's advisory lock is held by the one worker whose tick is open. *)
Alone == \A w \in Workers : (tick[w].pc # "off") = (lock = w)

(* Why job j may be parked, given its mails c and snags f.                 *)
Troubled(j, c, f) ==
  \/ Unread \in f
  \/ /\ f \cap Recipients # {}
     /\ j \in Steadfast => \A k \in Told(j) : c[k] > 0 \/ k \in f

(* A row r of job j tells the truth about the mails c and snags f: who     *)
(* is on its delivered list has been written to, and a job is done when    *)
(* everyone has, and not before, unless it was moot; one that is parked    *)
(* met a refusal, or its handler stopped before the first mail.            *)
Honest(r, j, c, f) ==
  /\ \A k \in r.delivered : c[k] > 0
  /\ r.status = "done" => Moot \in f \/ \A k \in Told(j) : c[k] > 0
  /\ r.status = "failed" => Troubled(j, c, f)
  /\ r.token = (r.status = "pending")

(* What the tick t knows of the job it is sending. *)
Sending(t, c, f) ==
  /\ t.job \in t.held /\ t.rows[t.job].status = "pending"
  /\ \A k \in t.fresh : c[t.job][k] > 0 /\ \E i \in DOMAIN To[t.job] : i < t.next /\ To[t.job][i] = k
  /\ t.next = 1 => ~t.failing
  /\ t.failing => Unread \in f[t.job] \/ f[t.job] \cap Recipients # {}
  /\ ~t.failing => Moot \in f[t.job] \/ \A i \in DOMAIN To[t.job] : i < t.next => c[t.job][To[t.job][i]] > 0
  /\ \/ t.job \notin Steadfast
     \/ Unread \in f[t.job]
     \/ ~t.failing /\ ~Writing(t)
     \/ \A i \in DOMAIN To[t.job] : i < t.next => c[t.job][To[t.job][i]] > 0 \/ To[t.job][i] \in f[t.job]

(* An open tick has locked rows that are pending, and keeps honest rows.   *)
Open(w) ==
  /\ \A j \in tick[w].held : /\ row[j].status = "pending" /\ tick[w].rows[j].status \in {"pending", "done", "failed"}
                             /\ Honest(tick[w].rows[j], j, copies[j], snags[j])
  /\ tick[w].pc = "send" => Sending(tick[w], copies, snags)
  /\ tick[w].pc # "send" => tick[w].fresh = {} /\ ~tick[w].failing
  /\ tick[w].pc = "off" => tick[w].held = {}

(* No tick that goes on from t, or from the row r, will write to k again.  *)
Spent(r, k) == r.status # "pending" \/ k \in r.delivered
SpentBy(t, j, k) == Spent(t.rows[j], k) \/ (t.pc = "send" /\ t.job = j /\ k \in t.fresh)

(* A mail is sent once for each tick that died, and once more only when    *)
(* the tick that holds the row, or the row that stands, knows that it went.*)
Counted(j, k) ==
  /\ row[j].status = "absent" => copies[j][k] = 0
  /\ copies[j][k] <= aborted + 1
  /\ copies[j][k] = aborted + 1 =>
       /\ \A w \in Workers : j \in tick[w].held => SpentBy(tick[w], j, k)
       /\ (\A w \in Workers : j \notin tick[w].held) => Spent(row[j], k)

(* The inductive invariant. *)
IInv ==
  /\ TypeOK
  /\ Alone
  /\ \A j \in Jobs : Honest(row[j], j, copies[j], snags[j])
  /\ \A w \in Workers : Open(w)
  /\ \A j \in Jobs, k \in Recipients : Counted(j, k)

-----------------------------------------------------------------------------
(* The backoff is a number of minutes: 2^n counts the subsets of 1..n.     *)
LEMMA BackoffIsNat == ASSUME NEW n \in Nat PROVE 2 ^ n \in Nat
<1>1. IsFiniteSet(1 .. n) /\ Cardinality(1 .. n) = n
  BY FS_Interval
<1>2. IsFiniteSet(SUBSET (1 .. n)) /\ Cardinality(SUBSET (1 .. n)) = 2 ^ n
  BY <1>1, FS_SUBSET
<1> QED
  BY <1>2, FS_CardinalityType

LEMMA HonestKept ==
  ASSUME NEW j \in Jobs, NEW r \in Rows, NEW c, NEW d, NEW f, NEW g, Honest(r, j, c, f),
         \A k \in Recipients : c[k] > 0 => d[k] > 0, f \subseteq g
  PROVE  Honest(r, j, d, g)
<1>1. Told(j) \subseteq Recipients /\ r.delivered \subseteq Recipients
  BY QueueAssumption DEF Told, Rows
<1> QED
  BY <1>1 DEF Honest, Troubled

LEMMA Fields ==
  ASSUME TypeOK, NEW w \in Workers
  PROVE  /\ tick[w] \in Ticks
         /\ \A j \in Jobs : row[j] \in Rows /\ Seen(w, j) \in Rows
         /\ \A j \in Jobs : copies[j] \in [Recipients -> Nat]
BY DEF TypeOK, Ticks, Seen

(* Nobody else has a tick open. *)
LEMMA OnlyOne ==
  ASSUME IInv, NEW w \in Workers, tick[w].pc # "off", NEW v \in Workers \ {w}
  PROVE  tick[v].pc = "off" /\ tick[v].held = {}
BY QueueAssumption DEF IInv, Alone, Open

(* What a tick reads of a row is honest, and pending rows are the ones it  *)
(* may take.                                                               *)
LEMMA SeenHonest ==
  ASSUME IInv, NEW w \in Workers, NEW j \in Jobs
  PROVE  Honest(Seen(w, j), j, copies[j], snags[j])
BY DEF IInv, Open, Seen

LEMMA InitInv == Init => IInv
<1> SUFFICES ASSUME Init PROVE IInv
  OBVIOUS
<1>1. Absent \in Rows /\ Absent.status = "absent" /\ Absent.delivered = {} /\ Absent.token = FALSE
  BY DEF Absent, Rows
<1>2. Off \in Ticks /\ Off.pc = "off" /\ Off.held = {} /\ Off.fresh = {} /\ ~Off.failing
  BY <1>1 DEF Off, Ticks
<1>3. TypeOK
  BY <1>1, <1>2, QueueAssumption DEF Init, TypeOK
<1>4. Alone
  BY <1>2, QueueAssumption DEF Init, Alone
<1>5. \A j \in Jobs : Honest(row[j], j, copies[j], snags[j])
  BY <1>1 DEF Init, Honest
<1>6. \A w \in Workers : Open(w)
  BY <1>2 DEF Init, Open
<1>7. \A j \in Jobs, k \in Recipients : Counted(j, k)
  BY <1>1 DEF Init, Counted
<1> QED
  BY <1>3, <1>4, <1>5, <1>6, <1>7 DEF IInv

LEMMA EnqueueInv == ASSUME IInv, NEW j \in Jobs, Enqueue(j) PROVE IInv'
<1>e. j \notin UNION {tick[w].held : w \in Workers}
  BY DEF IInv, Open, Enqueue
<1> DEFINE r == [Absent EXCEPT !.status = "pending", !.createdAt = now, !.runAfter = now, !.token = TRUE]
<1>1. now \in Nat
  BY DEF IInv, TypeOK
<1>2. r \in Rows /\ r.status = "pending" /\ r.delivered = {} /\ r.token = TRUE
  BY <1>1 DEF Absent, Rows
<1>u. /\ row' = [row EXCEPT ![j] = r] /\ row \in [Jobs -> Rows]
      /\ UNCHANGED <<now, tick, lock, copies, snags, aborted>>
  BY DEF Enqueue, mail, IInv, TypeOK
<1> HIDE DEF r
<1>3. TypeOK'
  BY <1>2, <1>u DEF IInv, TypeOK
<1>4. Alone'
  BY <1>u DEF IInv, Alone
<1>5. \A i \in Jobs : Honest(row'[i], i, copies'[i], snags'[i])
  BY <1>u, <1>2 DEF IInv, Honest
<1>6. \A w \in Workers : Open(w)'
  BY <1>u, <1>e DEF IInv, Open
<1>7. ASSUME NEW i \in Jobs, NEW k \in Recipients PROVE Counted(i, k)'
  <2>1. copies[i] \in [Recipients -> Nat] /\ aborted \in Nat
    BY DEF IInv, TypeOK
  <2>2. Counted(i, k)
    BY DEF IInv
  <2>3. CASE i = j
    BY <2>1, <2>2, <2>3, <1>u, <1>2, <1>e DEF Counted, Enqueue
  <2>4. CASE i # j
    BY <2>2, <2>4, <1>u DEF Counted
  <2> QED
    BY <2>3, <2>4
<1> QED
  BY <1>3, <1>4, <1>5, <1>6, <1>7 DEF IInv

LEMMA ClockInv == ASSUME IInv, AdvanceClock PROVE IInv'
<1>1. TypeOK' /\ UNCHANGED <<row, tick, lock, copies, snags, aborted>>
  BY DEF AdvanceClock, mail, IInv, TypeOK
<1> QED
  BY <1>1 DEF IInv, Alone, Open, Counted

LEMMA PurgeInv == ASSUME IInv, Purge PROVE IInv'
<1> DEFINE gone == {j \in Jobs : row[j].status \in {"done", "failed"} /\ row[j].finishedAt + Retention < now}
           r == [Absent EXCEPT !.status = "purged"]
<1>1. r \in Rows /\ r.status = "purged" /\ r.delivered = {} /\ r.token = FALSE
  BY DEF Absent, Rows
<1>u. /\ row' = [j \in Jobs |-> IF j \in gone THEN r ELSE row[j]] /\ row \in [Jobs -> Rows]
      /\ UNCHANGED <<now, tick, lock, copies, snags, aborted>>
  BY DEF Purge, mail, IInv, TypeOK
<1>g. \A j \in gone : row[j].status # "pending" /\ row[j].status # "absent"
  OBVIOUS
<1>s. gone \subseteq Jobs
  OBVIOUS
<1> HIDE DEF r, gone
<1>3. TypeOK'
  BY <1>1, <1>u DEF IInv, TypeOK
<1>4. Alone'
  BY <1>u DEF IInv, Alone
<1>5. \A i \in Jobs : Honest(row'[i], i, copies'[i], snags'[i])
  BY <1>u, <1>1 DEF IInv, Honest
<1>6. \A w \in Workers : Open(w)'
  <2> TAKE w \in Workers
  <2>1. Open(w) /\ tick[w].held \subseteq Jobs
    BY DEF IInv, TypeOK, Ticks
  <2> QED
    BY <2>1, <1>u, <1>g DEF Open
<1>7. ASSUME NEW i \in Jobs, NEW k \in Recipients PROVE Counted(i, k)'
  <2>2. Counted(i, k)
    BY DEF IInv
  <2> QED
    BY <2>2, <1>u, <1>1 DEF Counted, Spent
<1> QED
  BY <1>3, <1>4, <1>5, <1>6, <1>7 DEF IInv

-----------------------------------------------------------------------------
(* The tick's own steps. *)

LEMMA StartInv == ASSUME IInv, NEW w \in Workers, StartTick(w) PROVE IInv'
<1> DEFINE t == tick[w]  u == [t EXCEPT !.pc = "pick"]
<1>1. t \in Ticks /\ u \in Ticks
  BY DEF IInv, TypeOK, Ticks
<1>2. /\ u.pc = "pick" /\ u.held = t.held /\ u.rows = t.rows /\ u.job = t.job /\ u.fresh = t.fresh
      /\ u.failing = t.failing /\ t.pc = "off" /\ t.held = {} /\ t.fresh = {} /\ ~t.failing
  BY <1>1 DEF Ticks, StartTick, IInv, Open
<1>u. /\ tick' = [tick EXCEPT ![w] = u] /\ tick \in [Workers -> Ticks] /\ lock' = w /\ lock = NoWorker
      /\ UNCHANGED <<now, row, copies, snags, aborted>>
  BY DEF StartTick, mail, IInv, TypeOK
<1> HIDE DEF u
<1>v. \A v \in Workers : tick'[v] = IF v = w THEN u ELSE tick[v]
  BY <1>u
<1>3. TypeOK'
  BY <1>1, <1>u DEF IInv, TypeOK
<1>4. Alone'
  BY <1>u, <1>v, <1>2, QueueAssumption DEF IInv, Alone
<1>6. \A v \in Workers : Open(v)'
  BY <1>u, <1>v, <1>2 DEF IInv, Open
<1>7. ASSUME NEW i \in Jobs, NEW k \in Recipients PROVE Counted(i, k)'
  <2>1. Counted(i, k)
    BY DEF IInv
  <2> QED
    BY <2>1, <1>u, <1>v, <1>2 DEF Counted
<1> QED
  BY <1>3, <1>4, <1>u, <1>6, <1>7 DEF IInv

LEMMA ClaimInv == ASSUME IInv, NEW w \in Workers, Claim(w) PROVE IInv'
<1>p. PICK j \in Due(w) :
        tick' = [tick EXCEPT ![w].pc = "send", ![w].taken = @ + 1, ![w].job = j, ![w].next = 1,
                             ![w].held = @ \cup {j}, ![w].rows[j] = Seen(w, j)]
  BY DEF Claim
<1> DEFINE t == tick[w]
           q == [t.rows EXCEPT ![j] = Seen(w, j)]
           u == [t EXCEPT !.pc = "send", !.taken = @ + 1, !.job = j, !.next = 1,
                          !.held = @ \cup {j}, !.rows = q]
<1>j. j \in Jobs /\ Seen(w, j).status = "pending" /\ Seen(w, j) \in Rows /\ Honest(Seen(w, j), j, copies[j], snags[j])
  BY SeenHonest, Fields DEF Due, IInv
<1>1. t \in Ticks /\ t.pc = "pick" /\ t.fresh = {} /\ ~t.failing
  BY DEF IInv, TypeOK, Open, Claim
<1>q. q \in [Jobs -> Rows] /\ q[j] = Seen(w, j) /\ \A i \in Jobs \ {j} : q[i] = t.rows[i]
  BY <1>1, <1>j DEF Ticks
<1>a. [tick EXCEPT ![w] = u]
        = [tick EXCEPT ![w].pc = "send", ![w].taken = @ + 1, ![w].job = j, ![w].next = 1,
                       ![w].held = @ \cup {j}, ![w].rows[j] = Seen(w, j)]
  BY <1>1 DEF Ticks, IInv, TypeOK
<1> HIDE DEF q
<1>2. u \in Ticks
  <2>1. t.held \cup {j} \in SUBSET Jobs /\ t.taken + 1 \in Nat /\ 1 \in Nat \ {0}
    BY <1>1, <1>j DEF Ticks
  <2> QED
    BY <2>1, <1>1, <1>j, <1>q DEF Ticks
<1>3. /\ u.pc = "send" /\ u.job = j /\ u.next = 1 /\ u.held = t.held \cup {j} /\ u.fresh = {} /\ ~u.failing
      /\ u.rows[j] = Seen(w, j) /\ \A i \in Jobs \ {j} : u.rows[i] = t.rows[i]
  <2>1. u.pc = "send" /\ u.job = j /\ u.next = 1 /\ u.held = t.held \cup {j} /\ u.fresh = t.fresh /\ u.failing = t.failing /\ u.rows = q
    BY <1>1 DEF Ticks
  <2> QED
    BY <2>1, <1>1, <1>q
<1>u. /\ tick' = [tick EXCEPT ![w] = u] /\ tick \in [Workers -> Ticks]
      /\ UNCHANGED <<now, row, lock, copies, snags, aborted>>
  BY <1>p, <1>a DEF Claim, mail, IInv, TypeOK
<1> HIDE DEF u
<1>v. \A v \in Workers : tick'[v] = IF v = w THEN u ELSE tick[v]
  BY <1>u
<1>4. TypeOK'
  BY <1>2, <1>u DEF IInv, TypeOK
<1>5. Alone'
  BY <1>u, <1>v, <1>3, <1>1 DEF IInv, Alone
<1>r. row[j].status = "pending" /\ (j \notin t.held => Seen(w, j) = row[j])
  <2>1. Open(w)
    BY DEF IInv
  <2> QED
    BY <1>j, <2>1 DEF Seen, Open
<1>6. ASSUME NEW v \in Workers PROVE Open(v)'
  <2>1. Open(v)
    BY DEF IInv
  <2>2. CASE v # w
    BY <2>1, <2>2, <1>v, <1>u DEF Open
  <2>3. CASE v = w
    <3>1. Sending(u, copies, snags)
      <4>1. u.fresh = {} /\ \A i \in DOMAIN To[j] : ~(i < 1)
        <5>1. To[j] \in Seq(Recipients)
          BY <1>j, QueueAssumption
        <5> QED
          BY <5>1, <1>3
      <4> QED
        BY <4>1, <1>3, <1>j DEF Sending
    <3>2. \A i \in u.held : row[i].status = "pending" /\ u.rows[i].status \in {"pending", "done", "failed"} /\ Honest(u.rows[i], i, copies[i], snags[i])
      <4>1. t.held \subseteq Jobs
        BY <1>1 DEF Ticks
      <4> QED
        BY <4>1, <2>1, <2>3, <1>3, <1>j, <1>r DEF Open
    <3> QED
      BY <3>1, <3>2, <2>3, <1>v, <1>u, <1>3 DEF Open
  <2> QED
    BY <2>2, <2>3
<1>7. ASSUME NEW i \in Jobs, NEW k \in Recipients PROVE Counted(i, k)'
  <2>1. Counted(i, k)
    BY DEF IInv
  <2>2. \A v \in Workers \ {w} : tick[v].held = {}
    BY <1>1, OnlyOne
  <2>3. CASE i # j
    BY <2>1, <2>2, <2>3, <1>u, <1>v, <1>3, <1>1 DEF Counted, SpentBy
  <2>4. CASE i = j
    <3>1. copies[j][k] = aborted + 1 => Spent(Seen(w, j), k)
      BY <2>1, <2>2, <2>4, <1>1, <1>r DEF Counted, SpentBy, Seen
    <3> QED
      BY <3>1, <2>1, <2>2, <2>4, <1>u, <1>v, <1>3 DEF Counted, SpentBy
  <2> QED
    BY <2>3, <2>4
<1> QED
  BY <1>4, <1>5, <1>u, <1>6, <1>7 DEF IInv

(* A step of the handler touches only its own job's mails, and writes to   *)
(* nobody the tick did not know to be unwritten.                           *)
LEMMA HandlerInv ==
  ASSUME IInv, NEW w \in Workers, tick[w].pc = "send",
         UNCHANGED <<now, row, lock, aborted>>,
         \A i \in Jobs : copies'[i] \in [Recipients -> Nat] /\ snags[i] \subseteq snags'[i],
         copies' \in [Jobs -> [Recipients -> Nat]], snags' \in [Jobs -> SUBSET (Recipients \cup {Unread, Moot})],
         \A i \in Jobs \ {tick[w].job} : copies'[i] = copies[i],
         \A k \in Recipients : copies[tick[w].job][k] > 0 => copies'[tick[w].job][k] > 0,
         \E u \in Ticks :
           /\ tick' = [tick EXCEPT ![w] = u]
           /\ u.pc = "send" /\ u.job = tick[w].job /\ u.held = tick[w].held /\ u.rows = tick[w].rows
           /\ tick[w].fresh \subseteq u.fresh
           /\ Sending(u, copies', snags')
           /\ \A k \in Recipients :
                copies'[u.job][k] # copies[u.job][k] => copies'[u.job][k] <= aborted + 1 /\ k \in u.fresh
  PROVE  IInv'
<1> DEFINE t == tick[w]
<1>p. PICK u \in Ticks :
        /\ tick' = [tick EXCEPT ![w] = u]
        /\ u.pc = "send" /\ u.job = t.job /\ u.held = t.held /\ u.rows = t.rows
        /\ t.fresh \subseteq u.fresh
        /\ Sending(u, copies', snags')
        /\ \A k \in Recipients :
             copies'[u.job][k] # copies[u.job][k] => copies'[u.job][k] <= aborted + 1 /\ k \in u.fresh
  OBVIOUS
<1>t. /\ TypeOK /\ t \in Ticks /\ t.job \in Jobs /\ t.job \in t.held /\ row[t.job].status = "pending"
      /\ tick \in [Workers -> Ticks]
  BY DEF IInv, Open, Sending, TypeOK, Ticks
<1>v. \A v \in Workers : tick'[v] = IF v = w THEN u ELSE tick[v]
  BY <1>p, <1>t
<1>o. \A v \in Workers \ {w} : tick[v].pc = "off" /\ tick[v].held = {}
  BY OnlyOne
<1>m. \A i \in Jobs : \A k \in Recipients : copies[i][k] > 0 => copies'[i][k] > 0
  OBVIOUS
<1>h. ASSUME NEW i \in Jobs, NEW r \in Rows, Honest(r, i, copies[i], snags[i])
      PROVE  Honest(r, i, copies'[i], snags'[i])
  <2>1. \A k \in Recipients : copies[i][k] > 0 => copies'[i][k] > 0
    BY <1>m
  <2>2. snags[i] \subseteq snags'[i]
    OBVIOUS
  <2> QED
    BY <2>1, <2>2, <1>h, HonestKept
<1>3. TypeOK'
  BY <1>p, <1>t DEF TypeOK
<1>4. Alone'
  BY <1>v, <1>p DEF IInv, Alone
<1>5. \A i \in Jobs : Honest(row'[i], i, copies'[i], snags'[i])
  <2>1. \A i \in Jobs : row[i] \in Rows /\ Honest(row[i], i, copies[i], snags[i]) /\ row'[i] = row[i]
    BY <1>t DEF IInv, TypeOK
  <2> QED
    BY <2>1, <1>h
<1>6. ASSUME NEW v \in Workers PROVE Open(v)'
  <2>1. Open(v)
    BY DEF IInv
  <2>2. CASE v # w
    BY <2>1, <2>2, <1>v, <1>o DEF Open
  <2>3. CASE v = w
    <3>1. \A i \in t.held : i \in Jobs /\ t.rows[i] \in Rows
      BY <1>t DEF Ticks
    <3>2. \A i \in t.held : row[i].status = "pending" /\ t.rows[i].status \in {"pending", "done", "failed"} /\ Honest(t.rows[i], i, copies[i], snags[i])
      BY <2>1, <2>3 DEF Open
    <3>3. \A i \in t.held : row'[i].status = "pending" /\ t.rows[i].status \in {"pending", "done", "failed"} /\ Honest(t.rows[i], i, copies'[i], snags'[i])
      BY <3>1, <3>2, <1>h
    <3> QED
      BY <3>3, <2>3, <1>v, <1>p DEF Open
  <2> QED
    BY <2>2, <2>3
<1>7. ASSUME NEW i \in Jobs, NEW k \in Recipients PROVE Counted(i, k)'
  <2>1. Counted(i, k)
    BY DEF IInv
  <2>2. CASE copies'[i][k] = copies[i][k]
    BY <2>1, <2>2, <1>v, <1>p DEF Counted, SpentBy
  <2>3. CASE copies'[i][k] # copies[i][k]
    <3>1. i = t.job /\ k \in u.fresh /\ copies'[i][k] <= aborted + 1
      BY <2>3, <1>p
    <3> QED
      BY <3>1, <1>v, <1>p, <1>t, <1>o DEF Counted, SpentBy
  <2> QED
    BY <2>2, <2>3
<1> QED
  BY <1>3, <1>4, <1>5, <1>6, <1>7 DEF IInv

(* What holds of a tick t that has come to a key. *)
Faced(t) ==
  /\ TypeOK /\ t \in Ticks /\ tick \in [Workers -> Ticks] /\ t.pc = "send"
  /\ t.job \in Jobs /\ Sending(t, copies, snags)
  /\ t.next \in Nat \ {0} /\ Key(t) \in Recipients
  /\ DOMAIN To[t.job] = 1 .. Len(To[t.job]) /\ Len(To[t.job]) \in Nat
  /\ \A i \in DOMAIN To[t.job] : To[t.job][i] \in Recipients
  /\ \A i \in DOMAIN To[t.job] : i < t.next + 1 => i < t.next \/ To[t.job][i] = Key(t)
  /\ \A i \in DOMAIN To[t.job] : To[t.job][i] = Key(t) => i = t.next
  /\ t.next \in DOMAIN To[t.job]
  /\ Honest(t.rows[t.job], t.job, copies[t.job], snags[t.job])

LEMMA Facing ==
  ASSUME IInv, NEW w \in Workers, Writing(tick[w])
  PROVE  Faced(tick[w])
<1> DEFINE t == tick[w]
<1>1. /\ TypeOK /\ t \in Ticks /\ tick \in [Workers -> Ticks] /\ t.pc = "send"
      /\ t.job \in Jobs /\ t.next \in Nat \ {0} /\ Sending(t, copies, snags)
      /\ Honest(t.rows[t.job], t.job, copies[t.job], snags[t.job])
  BY DEF IInv, TypeOK, Open, Sending, Ticks, Writing
<1>2. To[t.job] \in Seq(Recipients)
  BY <1>1, QueueAssumption
<1>3. t.next \in DOMAIN To[t.job] /\ DOMAIN To[t.job] = 1 .. Len(To[t.job])
  BY <1>1, <1>2 DEF Writing
<1> QED
  BY <1>1, <1>2, <1>3, QueueAssumption DEF Key, Faced

(* A key the tick has still to write to has a copy for each loss at most.  *)
LEMMA UnsentYet ==
  ASSUME IInv, NEW w \in Workers, Writing(tick[w]),
         Key(tick[w]) \notin tick[w].rows[tick[w].job].delivered
  PROVE  copies[tick[w].job][Key(tick[w])] <= aborted
<1> DEFINE t == tick[w]
<1>w. Faced(t)
  BY Facing
<1>1. Key(t) \notin t.fresh
  BY <1>w DEF Sending, Faced
<1>2. ~SpentBy(t, t.job, Key(t))
  BY <1>1, <1>w DEF SpentBy, Spent, Sending, Faced
<1>3. Counted(t.job, Key(t)) /\ t.job \in t.held
  BY <1>w DEF IInv, Sending, Faced
<1>4. copies[t.job][Key(t)] \in Nat /\ aborted \in Nat
  BY <1>w DEF Faced, TypeOK
<1>5. copies[t.job][Key(t)] # aborted + 1
  BY <1>2, <1>3 DEF Counted
<1>6. copies[t.job][Key(t)] <= aborted + 1
  BY <1>3 DEF Counted
<1>7. \A c, a \in Nat : c # a + 1 /\ c <= a + 1 => c <= a
  OBVIOUS
<1> QED
  BY <1>4, <1>5, <1>6, <1>7

LEMMA SkipInv == ASSUME IInv, NEW w \in Workers, Skip(w) PROVE IInv'
<1> DEFINE t == tick[w]  u == [t EXCEPT !.next = @ + 1]
<1>w. Faced(t)
  BY Facing DEF Skip
<1>1. u \in Ticks /\ u.next = t.next + 1 /\ u.pc = "send" /\ u.job = t.job /\ u.held = t.held
      /\ u.rows = t.rows /\ u.fresh = t.fresh /\ u.failing = t.failing
  <2>1. t.next + 1 \in Nat \ {0} /\ t \in Ticks
    BY <1>w DEF Faced
  <2> QED
    BY <2>1, <1>w DEF Ticks, Faced
<1>2. tick' = [tick EXCEPT ![w] = u]
  BY DEF Skip
<1>3. copies[t.job][Key(t)] > 0
  BY <1>w DEF Skip, Honest, Faced
<1> HIDE DEF u
<1>4. Sending(u, copies, snags)
  <2>1. \/ t.job \notin Steadfast
        \/ Unread \in snags[t.job]
        \/ \A i \in DOMAIN To[t.job] : i < t.next => copies[t.job][To[t.job][i]] > 0 \/ To[t.job][i] \in snags[t.job]
    BY <1>w DEF Skip, Sending, Faced
  <2>2. \/ u.job \notin Steadfast
        \/ Unread \in snags[u.job]
        \/ \A i \in DOMAIN To[u.job] : i < u.next => copies[u.job][To[u.job][i]] > 0 \/ To[u.job][i] \in snags[u.job]
    BY <2>1, <1>1, <1>3, <1>w DEF Faced
  <2>3. u.next # 1
    BY <1>1, <1>w DEF Faced
  <2>4. ~u.failing => Moot \in snags[u.job] \/ \A i \in DOMAIN To[u.job] : i < u.next => copies[u.job][To[u.job][i]] > 0
    BY <1>1, <1>3, <1>w DEF Sending, Faced
  <2>5. \A k \in u.fresh : copies[u.job][k] > 0 /\ \E i \in DOMAIN To[u.job] : i < u.next /\ To[u.job][i] = k
    BY <1>1, <1>w DEF Sending, Faced
  <2> QED
    BY <2>2, <2>3, <2>4, <2>5, <1>1, <1>w DEF Sending, Faced
<1>5. UNCHANGED <<now, row, lock, copies, snags, aborted>>
  BY DEF Skip, mail
<1> QED
  BY <1>1, <1>2, <1>4, <1>5, <1>w, HandlerInv DEF TypeOK, Faced

LEMMA DeliverInv == ASSUME IInv, NEW w \in Workers, Deliver(w) PROVE IInv'
<1> DEFINE t == tick[w]  u == [t EXCEPT !.next = @ + 1, !.fresh = @ \cup {Key(t)}]
<1>w. Faced(t)
  BY Facing DEF Deliver
<1>1. u \in Ticks /\ u.next = t.next + 1 /\ u.pc = "send" /\ u.job = t.job /\ u.held = t.held
      /\ u.rows = t.rows /\ u.fresh = t.fresh \cup {Key(t)} /\ u.failing = t.failing
  <2>1. t.next + 1 \in Nat \ {0} /\ t \in Ticks /\ t.fresh \cup {Key(t)} \in SUBSET Recipients
    BY <1>w DEF Ticks, Faced
  <2> QED
    BY <2>1, <1>w DEF Ticks, Faced
<1>2. tick' = [tick EXCEPT ![w] = u]
  BY DEF Deliver
<1>3. /\ copies' = [copies EXCEPT ![t.job] = [copies[t.job] EXCEPT ![Key(t)] = @ + 1]]
      /\ UNCHANGED <<now, row, lock, snags, aborted>>
  BY DEF Deliver
<1>c. copies \in [Jobs -> [Recipients -> Nat]] /\ snags \in [Jobs -> SUBSET (Recipients \cup {Unread, Moot})] /\ aborted \in Nat
  BY DEF IInv, TypeOK
<1>4. /\ copies' \in [Jobs -> [Recipients -> Nat]]
      /\ \A i \in Jobs \ {t.job} : copies'[i] = copies[i]
      /\ copies'[t.job][Key(t)] = copies[t.job][Key(t)] + 1
      /\ \A k \in Recipients \ {Key(t)} : copies'[t.job][k] = copies[t.job][k]
  BY <1>3, <1>c, <1>w DEF Faced
<1>d. \A k \in Recipients : copies[t.job][k] \in Nat
  BY <1>c, <1>w DEF Faced
<1>8. \A k \in Recipients : copies[t.job][k] > 0 => copies'[t.job][k] > 0
  BY <1>4, <1>d
<1> HIDE DEF u
<1>5. copies[t.job][Key(t)] <= aborted
  BY UnsentYet DEF Deliver
<1>6. Sending(u, copies', snags')
  <2>1. \A k \in Recipients : copies[t.job][k] > 0 => copies'[t.job][k] > 0
    BY <1>8
  <2>2. copies'[t.job][Key(t)] > 0
    <3>1. Key(t) \in Recipients
      BY <1>w DEF Faced
    <3> QED
      BY <3>1, <1>4, <1>d
  <2>3. \A k \in t.fresh : k \in Recipients
    BY <1>w DEF Ticks, Faced
  <2>4. u.job \in u.held /\ u.rows[u.job].status = "pending"
    BY <1>1, <1>w DEF Sending, Faced
  <2>5. \A k \in u.fresh : copies'[u.job][k] > 0 /\ \E i \in DOMAIN To[u.job] : i < u.next /\ To[u.job][i] = k
    BY <1>1, <2>1, <2>2, <2>3, <1>w DEF Sending, Key, Faced
  <2>6. ~u.failing => Moot \in snags'[u.job] \/ \A i \in DOMAIN To[u.job] : i < u.next => copies'[u.job][To[u.job][i]] > 0
    BY <1>1, <1>3, <2>1, <2>2, <1>w DEF Sending, Faced
  <2>7. \/ u.job \notin Steadfast
        \/ Unread \in snags'[u.job]
        \/ \A i \in DOMAIN To[u.job] : i < u.next =>
             copies'[u.job][To[u.job][i]] > 0 \/ To[u.job][i] \in snags'[u.job]
    <3>1. \/ t.job \notin Steadfast
          \/ Unread \in snags[t.job]
          \/ \A i \in DOMAIN To[t.job] : i < t.next => copies[t.job][To[t.job][i]] > 0 \/ To[t.job][i] \in snags[t.job]
      BY <1>w DEF Deliver, Sending, Faced
    <3> QED
      BY <3>1, <1>1, <1>3, <2>1, <2>2, <1>w DEF Faced
  <2>8. u.failing => Unread \in snags'[u.job] \/ snags'[u.job] \cap Recipients # {}
    BY <1>1, <1>3, <1>w DEF Sending, Faced
  <2>9. u.next # 1
    BY <1>1, <1>w DEF Faced
  <2> QED
    BY <2>4, <2>5, <2>6, <2>7, <2>8, <2>9 DEF Sending
<1>7. \A k \in Recipients : copies'[u.job][k] # copies[u.job][k] => copies'[u.job][k] <= aborted + 1 /\ k \in u.fresh
  <2>1. copies'[t.job][Key(t)] <= aborted + 1
    <3>1. copies[t.job][Key(t)] \in Nat
      BY <1>w, <1>d DEF Faced
    <3> QED
      BY <3>1, <1>4, <1>5, <1>c
  <2>2. \A k \in Recipients : copies'[t.job][k] # copies[t.job][k] => k = Key(t)
    BY <1>4
  <2> QED
    BY <2>1, <2>2, <1>1
<1> QED
  BY <1>1, <1>2, <1>3, <1>4, <1>6, <1>7, <1>8, <1>c, <1>w, HandlerInv DEF Faced

LEMMA RefuseInv == ASSUME IInv, NEW w \in Workers, Refuse(w) PROVE IInv'
<1> DEFINE t == tick[w]
           n == IF t.job \in Steadfast THEN t.next + 1 ELSE Len(To[t.job]) + 1
           u == [t EXCEPT !.failing = TRUE, !.next = n]
<1>w. Faced(t)
  BY Facing DEF Refuse
<1>n. n \in Nat \ {0} /\ n >= t.next /\ (t.job \in Steadfast => n = t.next + 1)
  BY <1>w DEF Faced
<1>x. n > 1
  BY <1>w DEF Faced
<1>2. tick' = [tick EXCEPT ![w] = u]
  BY DEF Refuse
<1> HIDE DEF n
<1>1. u \in Ticks /\ u.next = n /\ u.pc = "send" /\ u.job = t.job /\ u.held = t.held
      /\ u.rows = t.rows /\ u.fresh = t.fresh /\ u.failing = TRUE
  BY <1>w, <1>n DEF Ticks, Faced
<1> HIDE DEF u
<1>3. /\ snags' = [snags EXCEPT ![t.job] = @ \cup {Key(t)}]
      /\ UNCHANGED <<now, row, lock, copies, aborted>>
  BY DEF Refuse
<1>c. copies \in [Jobs -> [Recipients -> Nat]] /\ snags \in [Jobs -> SUBSET (Recipients \cup {Unread, Moot})]
  BY DEF IInv, TypeOK
<1>4. /\ snags' \in [Jobs -> SUBSET (Recipients \cup {Unread, Moot})]
      /\ \A i \in Jobs : snags[i] \subseteq snags'[i]
      /\ Key(t) \in snags'[t.job]
  BY <1>3, <1>c, <1>w DEF Faced
<1>5. Sending(u, copies', snags')
  <2>1. \A k \in u.fresh : copies'[u.job][k] > 0 /\ \E i \in DOMAIN To[u.job] : i < u.next /\ To[u.job][i] = k
    BY <1>1, <1>3, <1>n, <1>w DEF Sending, Faced
  <2>2. \/ u.job \notin Steadfast
        \/ Unread \in snags'[u.job]
        \/ \A i \in DOMAIN To[u.job] : i < u.next =>
             copies'[u.job][To[u.job][i]] > 0 \/ To[u.job][i] \in snags'[u.job]
    <3>1. \/ t.job \notin Steadfast
          \/ Unread \in snags[t.job]
          \/ \A i \in DOMAIN To[t.job] : i < t.next => copies[t.job][To[t.job][i]] > 0 \/ To[t.job][i] \in snags[t.job]
      BY <1>w DEF Refuse, Sending, Faced
    <3>2. snags[t.job] \subseteq snags'[t.job]
      BY <1>4, <1>w DEF Faced
    <3> QED
      BY <3>1, <3>2, <1>1, <1>3, <1>4, <1>n, <1>w DEF Faced
  <2>3. snags'[u.job] \cap Recipients # {}
    BY <1>1, <1>4, <1>w DEF Faced
  <2>4. u.next # 1
    BY <1>1, <1>n, <1>x
  <2> QED
    BY <2>1, <2>2, <2>3, <2>4, <1>1, <1>w DEF Sending, Faced
<1> QED
  BY <1>1, <1>2, <1>3, <1>4, <1>5, <1>c, <1>w, HandlerInv DEF Faced

(* A handler that stops before its first mail, throwing or with nothing to *)
(* send.                                                                   *)
LEMMA StopInv ==
  ASSUME IInv, NEW w \in Workers, Throw(w) \/ Lapse(w)
  PROVE  IInv'
<1> DEFINE t == tick[w]
           n == Len(To[t.job]) + 1
           g == IF Throw(w) THEN TRUE ELSE t.failing
           x == IF Throw(w) THEN Unread ELSE Moot
           u == [t EXCEPT !.failing = g, !.next = n]
<1>0. Writing(t) /\ t.next = 1
  BY DEF Throw, Lapse
<1>w. Faced(t)
  BY <1>0, Facing
<1>n. n \in Nat \ {0} /\ n > 1
  BY <1>w, <1>0 DEF Faced
<1>f. t.failing = FALSE
  BY <1>0, <1>w DEF Sending, Faced, Ticks
<1>2. tick' = [tick EXCEPT ![w] = u]
  <2>1. CASE Throw(w)
    BY <2>1 DEF Throw
  <2>2. CASE ~Throw(w)
    <3>1. Lapse(w)
      BY <2>2
    <3>2. u = [t EXCEPT !.next = n]
      BY <2>2, <1>w DEF Faced, Ticks
    <3> HIDE DEF u
    <3> QED
      BY <3>1, <3>2 DEF Lapse
  <2> QED
    BY <2>1, <2>2
<1>3. /\ snags' = [snags EXCEPT ![t.job] = @ \cup {x}]
      /\ UNCHANGED <<now, row, lock, copies, aborted>>
  <2>1. CASE Throw(w)
    BY <2>1 DEF Throw
  <2>2. CASE ~Throw(w)
    BY <2>2 DEF Lapse
  <2> QED
    BY <2>1, <2>2
<1>g. g \in BOOLEAN /\ (g => x = Unread) /\ (~g => x = Moot) /\ x \in {Unread, Moot}
  BY <1>f
<1> HIDE DEF n, g, x
<1>1. u \in Ticks /\ u.next = n /\ u.pc = "send" /\ u.job = t.job /\ u.held = t.held
      /\ u.rows = t.rows /\ u.fresh = t.fresh /\ u.failing = g
  BY <1>w, <1>n, <1>g DEF Ticks, Faced
<1> HIDE DEF u
<1>c. copies \in [Jobs -> [Recipients -> Nat]] /\ snags \in [Jobs -> SUBSET (Recipients \cup {Unread, Moot})]
  BY DEF IInv, TypeOK
<1>4. /\ snags' \in [Jobs -> SUBSET (Recipients \cup {Unread, Moot})]
      /\ \A i \in Jobs : snags[i] \subseteq snags'[i]
      /\ x \in snags'[t.job]
  BY <1>3, <1>c, <1>g, <1>w DEF Faced
<1>5. Sending(u, copies', snags')
  <2>1. \A k \in u.fresh : copies'[u.job][k] > 0 /\ \E i \in DOMAIN To[u.job] : i < u.next /\ To[u.job][i] = k
    BY <1>1, <1>3, <1>n, <1>0, <1>w DEF Sending, Faced
  <2>2. ~Writing(u)
    BY <1>1, <1>w DEF Writing, Faced, n
  <2>3. u.next # 1
    BY <1>1, <1>n
  <2>4. u.failing => Unread \in snags'[u.job]
    BY <1>1, <1>4, <1>g
  <2>5. ~u.failing => Moot \in snags'[u.job]
    BY <1>1, <1>4, <1>g
  <2>6. u.job \in u.held /\ u.rows[u.job].status = "pending"
    BY <1>1, <1>w DEF Sending, Faced
  <2> QED
    BY <2>1, <2>2, <2>3, <2>4, <2>5, <2>6 DEF Sending
<1> QED
  BY <1>1, <1>2, <1>3, <1>4, <1>5, <1>c, <1>w, HandlerInv DEF Faced

-----------------------------------------------------------------------------
(* A job is settled: the row the tick keeps becomes r. *)
LEMMA SettleInv ==
  ASSUME IInv, NEW w \in Workers, tick[w].pc = "send", NEW r \in Rows, Settle(w, r),
         Honest(r, tick[w].job, copies[tick[w].job], snags[tick[w].job]),
         r.status \in {"pending", "done", "failed"},
         \A k \in Recipients : SpentBy(tick[w], tick[w].job, k) => Spent(r, k)
  PROVE  IInv'
<1> DEFINE t == tick[w]
           q == [t.rows EXCEPT ![t.job] = r]
           u == [t EXCEPT !.pc = "pick", !.job = NoJob, !.fresh = {}, !.failing = FALSE, !.rows = q]
<1>t. /\ TypeOK /\ t \in Ticks /\ t.job \in Jobs /\ t.job \in t.held
      /\ tick \in [Workers -> Ticks]
  BY DEF IInv, Open, Sending, TypeOK, Ticks
<1>q. q \in [Jobs -> Rows] /\ q[t.job] = r /\ \A i \in Jobs \ {t.job} : q[i] = t.rows[i]
  BY <1>t DEF Ticks
<1>u. tick' = [tick EXCEPT ![w] = u] /\ UNCHANGED <<now, row, lock, copies, snags, aborted>>
  <2>1. [tick EXCEPT ![w] = u]
          = [tick EXCEPT ![w].pc = "pick", ![w].job = NoJob, ![w].fresh = {}, ![w].failing = FALSE,
                         ![w].rows[tick[w].job] = r]
    BY <1>t DEF Ticks
  <2> QED
    BY <2>1 DEF Settle, mail
<1> HIDE DEF q
<1>1. /\ u \in Ticks /\ u.pc = "pick" /\ u.fresh = {} /\ u.failing = FALSE /\ u.held = t.held /\ u.rows = q
  BY <1>t, <1>q DEF Ticks
<1> HIDE DEF u
<1>v. \A v \in Workers : tick'[v] = IF v = w THEN u ELSE tick[v]
  BY <1>u, <1>t
<1>o. \A v \in Workers \ {w} : tick[v].pc = "off" /\ tick[v].held = {}
  BY OnlyOne
<1>3. TypeOK'
  BY <1>1, <1>u, <1>t DEF TypeOK
<1>4. Alone'
  BY <1>u, <1>v, <1>1 DEF IInv, Alone
<1>5. \A i \in Jobs : Honest(row'[i], i, copies'[i], snags'[i])
  BY <1>u DEF IInv
<1>6. ASSUME NEW v \in Workers PROVE Open(v)'
  <2>1. Open(v)
    BY DEF IInv
  <2>2. CASE v # w
    BY <2>1, <2>2, <1>v, <1>u DEF Open
  <2>3. CASE v = w
    <3>1. \A i \in t.held : i \in Jobs
      BY <1>t DEF Ticks
    <3>2. \A i \in t.held : q[i].status \in {"pending", "done", "failed"} /\ Honest(q[i], i, copies[i], snags[i])
      BY <3>1, <2>1, <2>3, <1>q DEF Open
    <3> QED
      BY <3>2, <2>1, <2>3, <1>v, <1>u, <1>1 DEF Open
  <2> QED
    BY <2>2, <2>3
<1>7. ASSUME NEW i \in Jobs, NEW k \in Recipients PROVE Counted(i, k)'
  <2>1. Counted(i, k)
    BY DEF IInv
  <2>2. i \in t.held => (SpentBy(t, i, k) => Spent(q[i], k))
    BY <1>q DEF SpentBy
  <2>3. SpentBy(u, i, k) <=> Spent(q[i], k)
    BY <1>1 DEF SpentBy
  <2> QED
    BY <2>1, <2>2, <2>3, <1>v, <1>u, <1>1, <1>o DEF Counted
<1> QED
  BY <1>3, <1>4, <1>5, <1>6, <1>7 DEF IInv

(* A tick that has come to the end of its handler has faced every key.     *)
LEMMA Through ==
  ASSUME IInv, NEW w \in Workers, tick[w].pc = "send", ~Writing(tick[w])
  PROVE  LET t == tick[w]
         IN /\ t \in Ticks /\ t.job \in Jobs /\ t.job \in t.held
            /\ t.rows[t.job] \in Rows /\ t.rows[t.job].status = "pending"
            /\ Honest(t.rows[t.job], t.job, copies[t.job], snags[t.job])
            /\ \A k \in t.fresh : copies[t.job][k] > 0
            /\ t.failing => Troubled(t.job, copies[t.job], snags[t.job])
            /\ ~t.failing => Moot \in snags[t.job] \/ \A k \in Told(t.job) : copies[t.job][k] > 0
<1> DEFINE t == tick[w]
<1>1. /\ t \in Ticks /\ t.job \in Jobs /\ t.job \in t.held /\ t.next \in Nat \ {0} /\ t.rows[t.job] \in Rows
      /\ Honest(t.rows[t.job], t.job, copies[t.job], snags[t.job]) /\ Sending(t, copies, snags)
  BY DEF IInv, TypeOK, Open, Sending, Ticks
<1>2. To[t.job] \in Seq(Recipients)
  BY <1>1, QueueAssumption
<1>3. \A i \in DOMAIN To[t.job] : i < t.next
  BY <1>1, <1>2 DEF Writing
<1> QED
  BY <1>1, <1>3 DEF Sending, Told, Troubled

LEMMA CompleteInv == ASSUME IInv, NEW w \in Workers, Complete(w) PROVE IInv'
<1> DEFINE t == tick[w]
           r == [t.rows[t.job] EXCEPT !.status = "done", !.finishedAt = now, !.token = FALSE]
<1>0. t.pc = "send" /\ ~Writing(t) /\ ~t.failing /\ Settle(w, r) /\ now \in Nat
  BY DEF Complete, IInv, TypeOK
<1>1. /\ t.rows[t.job] \in Rows
      /\ Honest(t.rows[t.job], t.job, copies[t.job], snags[t.job])
      /\ Moot \in snags[t.job] \/ \A k \in Told(t.job) : copies[t.job][k] > 0
  BY <1>0, Through
<1>2. r \in Rows /\ r.status = "done" /\ r.delivered = t.rows[t.job].delivered /\ r.token = FALSE
  BY <1>0, <1>1 DEF Rows
<1> HIDE DEF r
<1>3. Honest(r, t.job, copies[t.job], snags[t.job])
  BY <1>1, <1>2 DEF Honest
<1>4. \A k \in Recipients : Spent(r, k)
  BY <1>2 DEF Spent
<1> QED
  BY <1>0, <1>2, <1>3, <1>4, SettleInv

LEMMA FailInv == ASSUME IInv, NEW w \in Workers, Fail(w) PROVE IInv'
<1> DEFINE t == tick[w]
           o == t.rows[t.job]
           r == Failed(o, t.fresh)
<1>0. t.pc = "send" /\ ~Writing(t) /\ t.failing /\ Settle(w, r) /\ now \in Nat
  BY DEF Fail, IInv, TypeOK
<1>1. /\ o \in Rows /\ o.status = "pending" /\ t.fresh \subseteq Recipients
      /\ Honest(o, t.job, copies[t.job], snags[t.job])
      /\ \A k \in t.fresh : copies[t.job][k] > 0
      /\ Troubled(t.job, copies[t.job], snags[t.job])
  BY <1>0, Through DEF Ticks
<1>2. /\ r \in Rows /\ r.delivered = o.delivered \cup t.fresh
      /\ r.status \in {"pending", "failed"} /\ r.token = (r.status = "pending")
  <2>1. now + 2 ^ o.attempts \in Nat /\ o.attempts + 1 \in Nat /\ o.token = TRUE
    <3>1. o.attempts \in Nat
      BY <1>1 DEF Rows
    <3>2. 2 ^ o.attempts \in Nat
      BY <3>1, BackoffIsNat
    <3>3. o.token = TRUE
      <4> HIDE DEF o
      <4> QED
        BY <1>1 DEF Honest
    <3>4. now + 2 ^ o.attempts \in Nat
      <4> DEFINE e == 2 ^ o.attempts
      <4>1. e \in Nat
        BY <3>2
      <4> HIDE DEF e
      <4>2. now + e \in Nat
        BY <4>1, <1>0
      <4> QED
        BY <4>2 DEF e
    <3> QED
      BY <3>1, <3>3, <3>4
  <2> DEFINE b == now + 2 ^ o.attempts
  <2>2. r = IF o.attempts + 1 > MaxAttempts
            THEN [o EXCEPT !.delivered = @ \cup t.fresh, !.attempts = @ + 1,
                           !.status = "failed", !.finishedAt = now, !.token = FALSE]
            ELSE [o EXCEPT !.delivered = @ \cup t.fresh, !.attempts = @ + 1, !.runAfter = b]
    BY DEF Failed
  <2>3. o.delivered \cup t.fresh \in SUBSET Recipients
    BY <1>1 DEF Rows
  <2> HIDE DEF b, r, o
  <2>4. CASE o.attempts + 1 > MaxAttempts
    <3>1. r = [o EXCEPT !.delivered = @ \cup t.fresh, !.attempts = @ + 1,
                        !.status = "failed", !.finishedAt = now, !.token = FALSE]
      BY <2>2, <2>4
    <3> QED
      BY <3>1, <2>1, <2>3, <1>0, <1>1 DEF Rows
  <2>5. CASE ~(o.attempts + 1 > MaxAttempts)
    <3>1. r = [o EXCEPT !.delivered = @ \cup t.fresh, !.attempts = @ + 1, !.runAfter = b]
      BY <2>2, <2>5
    <3>2. b \in Nat
      BY <2>1 DEF b
    <3> QED
      BY <3>1, <3>2, <2>1, <2>3, <1>0, <1>1 DEF Rows
  <2> QED
    BY <2>4, <2>5
<1> HIDE DEF r
<1>3. Honest(r, t.job, copies[t.job], snags[t.job])
  BY <1>1, <1>2 DEF Honest
<1>4. \A k \in Recipients : SpentBy(t, t.job, k) => Spent(r, k)
  BY <1>1, <1>2 DEF Spent, SpentBy
<1> QED
  BY <1>0, <1>2, <1>3, <1>4, SettleInv

LEMMA CommitInv == ASSUME IInv, NEW w \in Workers, Commit(w) PROVE IInv'
<1> DEFINE t == tick[w]
<1>t. t \in Ticks /\ t.pc = "pick" /\ tick \in [Workers -> Ticks]
  BY DEF Commit, IInv, TypeOK
<1>f. Off \in Ticks /\ Off.pc = "off" /\ Off.held = {} /\ Off.fresh = {} /\ ~Off.failing
  BY DEF Off, Ticks, Absent, Rows
<1>u. /\ row' = [j \in Jobs |-> Seen(w, j)] /\ tick' = [tick EXCEPT ![w] = Off] /\ lock' = NoWorker /\ lock = w
      /\ UNCHANGED <<now, copies, snags, aborted>>
  BY <1>t DEF Commit, Release, mail, IInv, Alone
<1>v. \A v \in Workers : tick'[v] = IF v = w THEN Off ELSE tick[v]
  BY <1>u, <1>t
<1>o. \A v \in Workers \ {w} : tick[v].pc = "off" /\ tick[v].held = {}
  BY <1>t, OnlyOne
<1>3. TypeOK'
  BY <1>u, <1>f, Fields DEF IInv, TypeOK
<1>4. Alone'
  BY <1>u, <1>v, <1>f, <1>o, QueueAssumption DEF IInv, Alone
<1>5. \A i \in Jobs : Honest(row'[i], i, copies'[i], snags'[i])
  BY <1>u, SeenHonest
<1>6. \A v \in Workers : Open(v)'
  BY <1>u, <1>v, <1>f, <1>o DEF IInv, Open
<1>7. ASSUME NEW i \in Jobs, NEW k \in Recipients PROVE Counted(i, k)'
  <2>1. Counted(i, k)
    BY DEF IInv
  <2>2. row'[i].status = "absent" => row[i].status = "absent"
    BY <1>u DEF IInv, Open, Seen
  <2>3. copies[i][k] = aborted + 1 => Spent(row'[i], k)
    BY <2>1, <1>u, <1>t, <1>o DEF Counted, SpentBy, Seen
  <2> QED
    BY <2>1, <2>2, <2>3, <1>u, <1>v, <1>f, <1>o DEF Counted
<1> QED
  BY <1>3, <1>4, <1>5, <1>6, <1>7 DEF IInv

LEMMA AbortInv == ASSUME IInv, NEW w \in Workers, Abort(w) PROVE IInv'
<1> DEFINE t == tick[w]
<1>t. t.pc # "off" /\ tick \in [Workers -> Ticks]
  BY DEF Abort, IInv, TypeOK
<1>f. Off \in Ticks /\ Off.pc = "off" /\ Off.held = {} /\ Off.fresh = {} /\ ~Off.failing
  BY DEF Off, Ticks, Absent, Rows
<1>u. /\ tick' = [tick EXCEPT ![w] = Off] /\ lock' = NoWorker /\ lock = w /\ aborted' = aborted + 1
      /\ aborted < MaxAborts /\ UNCHANGED <<now, row, copies, snags>>
  BY <1>t DEF Abort, Release, mail, IInv, Alone
<1>a. aborted \in Nat /\ aborted' \in 0 .. MaxAborts
  BY <1>u, QueueAssumption DEF IInv, TypeOK
<1>v. \A v \in Workers : tick'[v] = IF v = w THEN Off ELSE tick[v]
  BY <1>u, <1>t
<1>o. \A v \in Workers \ {w} : tick[v].pc = "off" /\ tick[v].held = {}
  BY <1>t, OnlyOne
<1>3. TypeOK'
  BY <1>u, <1>f, <1>a DEF IInv, TypeOK
<1>4. Alone'
  BY <1>u, <1>v, <1>f, <1>o, QueueAssumption DEF IInv, Alone
<1>5. \A i \in Jobs : Honest(row'[i], i, copies'[i], snags'[i])
  BY <1>u DEF IInv
<1>6. \A v \in Workers : Open(v)'
  BY <1>u, <1>v, <1>f, <1>o DEF IInv, Open
<1>7. ASSUME NEW i \in Jobs, NEW k \in Recipients PROVE Counted(i, k)'
  <2>1. Counted(i, k) /\ copies[i][k] \in Nat
    BY DEF IInv, TypeOK
  <2> QED
    BY <2>1, <1>u, <1>a DEF Counted
<1> QED
  BY <1>3, <1>4, <1>5, <1>6, <1>7 DEF IInv

-----------------------------------------------------------------------------
(* IInv is inductive. *)
THEOREM Consecution == IInv /\ [Next]_vars => IInv'
<1> SUFFICES ASSUME IInv, [Next]_vars PROVE IInv'
  OBVIOUS
<1>1. ASSUME NEW j \in Jobs, Enqueue(j) PROVE IInv'
  BY <1>1, EnqueueInv
<1>2. CASE AdvanceClock
  BY <1>2, ClockInv
<1>3. CASE Purge
  BY <1>3, PurgeInv
<1>4. ASSUME NEW w \in Workers, StartTick(w) PROVE IInv'
  BY <1>4, StartInv
<1>5. ASSUME NEW w \in Workers, TickStep(w) PROVE IInv'
  BY <1>5, ClaimInv, SkipInv, DeliverInv, RefuseInv, StopInv, CompleteInv, FailInv, CommitInv DEF TickStep
<1>6. ASSUME NEW w \in Workers, Abort(w) PROVE IInv'
  BY <1>6, AbortInv
<1>7. CASE UNCHANGED vars
  BY <1>7 DEF vars, mail, IInv, TypeOK, Alone, Open, Counted
<1> QED
  BY <1>1, <1>2, <1>3, <1>4, <1>5, <1>6, <1>7 DEF Next

(* Every reachable state satisfies the inductive invariant. *)
THEOREM Invariance == Spec => []IInv
  BY InitInv, Consecution, PTL DEF Spec

(* Every variable keeps its type. *)
THEOREM TypeCorrect == Spec => []TypeOK
<1>1. IInv => TypeOK
  BY DEF IInv
<1> QED
  BY <1>1, Invariance, PTL

(* Nobody gets a second copy of a mail, except for ticks that died after   *)
(* sending it (processNotifications, markDelivered, failJob).              *)
THEOREM OneCopy == Spec => []OneCopyPerTick
<1>1. IInv => OneCopyPerTick
  BY DEF IInv, Counted, OneCopyPerTick, TypeOK
<1> QED
  BY <1>1, Invariance, PTL

(* A job is done only when everyone it is for has been written to, or      *)
(* nothing was left to send (processNotifications, completeJob).           *)
THEOREM DoneIsTold == Spec => []DoneMeansTold
<1>1. IInv => DoneMeansTold
  BY DEF IInv, Honest, DoneMeansTold
<1> QED
  BY <1>1, Invariance, PTL

(* One bad address holds up nobody else of a job that goes on after it.    *)
THEOREM OthersReached == Spec => []WorkingAddressReached
<1>1. IInv => WorkingAddressReached
  BY QueueAssumption DEF IInv, Honest, Troubled, WorkingAddressReached
<1> QED
  BY <1>1, Invariance, PTL

(* A live token is in a row exactly as long as the job can run again.      *)
THEOREM TokenScrubbed == Spec => []TokenWhilePending
<1>1. IInv => TokenWhilePending
  BY DEF IInv, Honest, TokenWhilePending
<1> QED
  BY <1>1, Invariance, PTL

-----------------------------------------------------------------------------
(* The queue keeps the promise of IdealDelivery, step by step.             *)

LEMMA IdealInit ==
  ASSUME Init
  PROVE  Ideal!Init
<1>1. \A j \in Jobs : snags[j] = {}
  BY DEF Init
<1>2. /\ [j \in Jobs |-> snags[j] \cap Recipients] = [j \in Jobs |-> {}]
      /\ {j \in Jobs : Unread \in snags[j]} = {} /\ {j \in Jobs : Moot \in snags[j]} = {}
  BY <1>1
<1> QED
  BY <1>2 DEF Init, Ideal!Init, Stage, Absent

LEMMA IdealStutter ==
  ASSUME UNCHANGED <<row, copies, snags, aborted>>
  PROVE  UNCHANGED Ideal!idealVars
BY DEF Ideal!idealVars, Stage

(* Each status is a stage of its own. *)
LEMMA StageByStatus ==
  ASSUME NEW j \in Jobs
  PROVE  /\ row[j].status = "absent" => Stage(j) = "none"
         /\ row[j].status = "pending" => Stage(j) = "owed"
         /\ row[j].status = "done" => Stage(j) = "told"
         /\ row[j].status = "failed" => Stage(j) = "parked"
         /\ row[j].status = "purged" => Stage(j) = "forgotten"
BY DEF Stage

LEMMA StageByStatusNext ==
  ASSUME NEW j \in Jobs
  PROVE  /\ row'[j].status = "pending" => Stage(j)' = "owed"
         /\ row'[j].status = "done" => Stage(j)' = "told"
         /\ row'[j].status = "failed" => Stage(j)' = "parked"
         /\ row'[j].status = "purged" => Stage(j)' = "forgotten"
         /\ row'[j] = row[j] => Stage(j)' = Stage(j)
BY DEF Stage

LEMMA IdealEnqueue ==
  ASSUME IInv, NEW j \in Jobs, Enqueue(j)
  PROVE  Ideal!Owe(j)
<1>1. row \in [Jobs -> Rows] /\ row[j].status = "absent"
  BY DEF IInv, TypeOK, Enqueue
<1>2. row'[j].status = "pending" /\ \A i \in Jobs \ {j} : row'[i] = row[i]
  BY <1>1 DEF Enqueue, Absent
<1>3. Stage(j) = "none" /\ Stage(j)' = "owed" /\ \A i \in Jobs \ {j} : Stage(i)' = Stage(i)
  BY <1>1, <1>2, StageByStatus, StageByStatusNext
<1>4. [i \in Jobs |-> Stage(i)]' = [[i \in Jobs |-> Stage(i)] EXCEPT ![j] = "owed"]
  BY <1>3
<1> QED
  BY <1>3, <1>4 DEF Ideal!Owe, Enqueue, mail

(* A job the tick is sending is owed, to the key its handler has come to.  *)
LEMMA Owed ==
  ASSUME IInv, NEW w \in Workers, Writing(tick[w])
  PROVE  LET t == tick[w]
         IN t.job \in Jobs /\ Key(t) \in Told(t.job) /\ Key(t) \in Recipients /\ Stage(t.job) = "owed"
<1> DEFINE t == tick[w]
<1>1. Faced(t)
  BY Facing
<1>2. row[t.job].status = "pending"
  BY <1>1 DEF IInv, Open, Sending, Faced
<1> QED
  BY <1>1, <1>2, StageByStatus DEF Faced, Told, Key

LEMMA IdealDeliver ==
  ASSUME IInv, NEW w \in Workers, Deliver(w)
  PROVE  Ideal!Send(tick[w].job, Key(tick[w]))
<1> DEFINE t == tick[w]
<1>1. t.job \in Jobs /\ Key(t) \in Told(t.job) /\ Stage(t.job) = "owed"
  BY Owed DEF Deliver
<1>2. copies[t.job][Key(t)] <= aborted
  BY UnsentYet DEF Deliver
<1> QED
  BY <1>1, <1>2, StageByStatusNext DEF Ideal!Send, Deliver

LEMMA IdealRefuse ==
  ASSUME IInv, NEW w \in Workers, Refuse(w)
  PROVE  \E j \in Jobs, k \in Recipients : Ideal!TurnDown(j, k)
<1> DEFINE t == tick[w]
<1>1. t.job \in Jobs /\ Key(t) \in Told(t.job) /\ Stage(t.job) = "owed"
  BY Owed DEF Refuse
<1>2. Key(t) \in Recipients /\ snags \in [Jobs -> SUBSET (Recipients \cup {Unread, Moot})]
  BY Owed DEF Refuse, IInv, TypeOK
<1>p. PICK j \in Jobs, k \in Recipients : j = t.job /\ k = Key(t)
  BY <1>1, <1>2
<1>3. /\ k # Unread /\ k # Moot /\ Stage(j) = "owed" /\ k \in Told(j)
      /\ snags' = [snags EXCEPT ![j] = @ \cup {k}] /\ UNCHANGED <<row, copies, aborted>>
  BY <1>1, <1>2, <1>p, QueueAssumption DEF Refuse
<1>4. \A i \in Jobs : snags'[i] = IF i = j THEN snags[i] \cup {k} ELSE snags[i]
  BY <1>2, <1>3
<1>5. {i \in Jobs : Unread \in snags[i]}' = {i \in Jobs : Unread \in snags[i]}
  BY <1>3, <1>4
<1>6. {i \in Jobs : Moot \in snags[i]}' = {i \in Jobs : Moot \in snags[i]}
  BY <1>3, <1>4
<1>7. [i \in Jobs |-> snags[i] \cap Recipients]'
        = [[i \in Jobs |-> snags[i] \cap Recipients] EXCEPT ![j] = @ \cup {k}]
  <2>1. k \in Recipients /\ snags[j] \subseteq Recipients \cup {Unread, Moot}
    BY <1>2, <1>p
  <2>2. (snags[j] \cup {k}) \cap Recipients = (snags[j] \cap Recipients) \cup {k}
    BY <2>1
  <2>3. \A i \in Jobs : (snags'[i] \cap Recipients) = IF i = j THEN (snags[i] \cap Recipients) \cup {k} ELSE snags[i] \cap Recipients
    BY <2>2, <1>4
  <2> QED
    BY <2>3
<1>8. [i \in Jobs |-> Stage(i)]' = [i \in Jobs |-> Stage(i)]
  BY <1>3, StageByStatusNext
<1>9. Ideal!TurnDown(j, k)
  BY <1>3, <1>5, <1>6, <1>7, <1>8 DEF Ideal!TurnDown
<1> QED
  BY <1>9

(* A handler that throws misses what it was to announce; one that lapses   *)
(* finds it moot.                                                          *)
LEMMA IdealStop ==
  ASSUME IInv, NEW w \in Workers, Throw(w) \/ Lapse(w)
  PROVE  \E j \in Jobs : Ideal!MissSubject(j) \/ Ideal!BecomeMoot(j)
<1>0. tick[w].job \in Jobs
  BY Owed DEF Throw, Lapse
<1>p. PICK j \in Jobs : j = tick[w].job
  BY <1>0
<1>1. /\ j \in Jobs /\ Stage(j) = "owed" /\ snags \in [Jobs -> SUBSET (Recipients \cup {Unread, Moot})]
      /\ Unread # Moot
  BY <1>p, Owed DEF Throw, Lapse, IInv, TypeOK, Unread, Moot
<1>2. UNCHANGED <<row, copies, aborted>>
  BY DEF Throw, Lapse
<1>s. [i \in Jobs |-> Stage(i)]' = [i \in Jobs |-> Stage(i)]
  BY <1>2, StageByStatusNext
<1>3. CASE Throw(w)
  <2>1. \A i \in Jobs : snags'[i] = IF i = j THEN snags[i] \cup {Unread} ELSE snags[i]
    BY <1>1, <1>p, <1>3 DEF Throw
  <2>2. [i \in Jobs |-> snags[i] \cap Recipients]' = [i \in Jobs |-> snags[i] \cap Recipients]
    <3>1. (snags[j] \cup {Unread}) \cap Recipients = snags[j] \cap Recipients
      BY QueueAssumption
    <3>2. \A i \in Jobs : (snags'[i] \cap Recipients) = snags[i] \cap Recipients
      BY <2>1, <3>1
    <3> QED
      BY <3>2
  <2>3. {i \in Jobs : Moot \in snags[i]}' = {i \in Jobs : Moot \in snags[i]}
    BY <2>1, <1>1
  <2>4. {i \in Jobs : Unread \in snags[i]}' = {i \in Jobs : Unread \in snags[i]} \cup {j}
    BY <2>1, <1>1
  <2>5. Ideal!MissSubject(j)
    BY <2>2, <2>3, <2>4, <1>1, <1>2, <1>s DEF Ideal!MissSubject
  <2> QED
    BY <2>5
<1>4. CASE Lapse(w)
  <2>1. \A i \in Jobs : snags'[i] = IF i = j THEN snags[i] \cup {Moot} ELSE snags[i]
    BY <1>1, <1>p, <1>4 DEF Lapse
  <2>2. [i \in Jobs |-> snags[i] \cap Recipients]' = [i \in Jobs |-> snags[i] \cap Recipients]
    <3>1. (snags[j] \cup {Moot}) \cap Recipients = snags[j] \cap Recipients
      BY QueueAssumption
    <3>2. \A i \in Jobs : (snags'[i] \cap Recipients) = snags[i] \cap Recipients
      BY <2>1, <3>1
    <3> QED
      BY <3>2
  <2>3. {i \in Jobs : Unread \in snags[i]}' = {i \in Jobs : Unread \in snags[i]}
    BY <2>1, <1>1
  <2>4. {i \in Jobs : Moot \in snags[i]}' = {i \in Jobs : Moot \in snags[i]} \cup {j}
    BY <2>1, <1>1
  <2>5. j \in Lapsing
    BY <1>p, <1>4 DEF Lapse
  <2>6. Ideal!BecomeMoot(j)
    BY <2>2, <2>3, <2>4, <2>5, <1>1, <1>2, <1>s DEF Ideal!BecomeMoot
  <2> QED
    BY <2>6
<1> QED
  BY <1>3, <1>4

LEMMA IdealAbort ==
  ASSUME NEW w \in Workers, Abort(w)
  PROVE  Ideal!Lose
BY StageByStatusNext DEF Ideal!Lose, Abort, mail

(* The commit tells and parks at once every job its tick has ended.        *)
LEMMA IdealCommit ==
  ASSUME IInv, NEW w \in Workers, Commit(w)
  PROVE  \E told, parked \in SUBSET Jobs : Ideal!Settle(told, parked)
<1> DEFINE told == {j \in tick[w].held : Seen(w, j).status = "done"}
           parked == {j \in tick[w].held : Seen(w, j).status = "failed"}
<1>1. /\ Open(w) /\ tick[w].held \subseteq Jobs
      /\ \A j \in Jobs : Honest(Seen(w, j), j, copies[j], snags[j])
  BY SeenHonest DEF IInv, TypeOK, Ticks
<1>2. /\ \A j \in Jobs : row'[j] = Seen(w, j)
      /\ UNCHANGED <<copies, snags, aborted>>
  BY DEF Commit, mail
<1> DEFINE lapsed == {j \in Jobs : Moot \in snags[j]}
           missed == {j \in Jobs : Unread \in snags[j]}
           said == [j \in Jobs |-> snags[j] \cap Recipients]
<1>3. \A j \in told : Stage(j) = "owed" /\ (j \in lapsed \/ \A r \in Told(j) : copies[j][r] > 0)
  BY <1>1, StageByStatus DEF Open, Honest
<1>r. \A j \in Jobs : \A r \in Told(j) : r \in Recipients
  BY QueueAssumption DEF Told
<1>4. \A j \in parked \ missed :
        /\ said[j] # {}
        /\ j \in Steadfast => \A r \in Told(j) : copies[j][r] > 0 \/ r \in said[j]
  BY <1>1, <1>r DEF Open, Honest, Troubled
<1>o. \A j \in parked : Stage(j) = "owed"
  BY <1>1, StageByStatus DEF Open
<1>u. UNCHANGED <<lapsed, missed, said>>
  BY <1>2
<1>5. ASSUME NEW j \in Jobs
      PROVE  Stage(j)' = IF j \in told THEN "told" ELSE IF j \in parked THEN "parked" ELSE Stage(j)
  <2>1. CASE j \in told \cup parked
    BY <1>2, <2>1, StageByStatusNext
  <2>2. CASE j \in tick[w].held /\ j \notin told \cup parked
    <3>1. row[j].status = "pending" /\ row'[j].status = "pending"
      BY <1>1, <1>2, <2>2 DEF Open, Seen
    <3> QED
      BY <3>1, <2>2, StageByStatus, StageByStatusNext
  <2>3. CASE j \notin tick[w].held
    BY <1>2, <2>3, StageByStatusNext DEF Seen
  <2> QED
    BY <2>1, <2>2, <2>3
<1>6. told \in SUBSET Jobs /\ parked \in SUBSET Jobs
  BY <1>1
<1> HIDE DEF told, parked
<1>7. Ideal!Settle(told, parked)
  BY <1>2, <1>3, <1>4, <1>o, <1>u, <1>5, <1>6 DEF Ideal!Settle, Ideal!Reached
<1> QED
  BY <1>6, <1>7

LEMMA IdealPurge ==
  ASSUME IInv, Purge
  PROVE  \E old \in SUBSET Jobs : Ideal!Forget(old)
<1> DEFINE old == {j \in Jobs : row[j].status \in {"done", "failed"} /\ row[j].finishedAt + Retention < now}
<1>1. /\ \A j \in old : row'[j].status = "purged"
      /\ \A j \in Jobs \ old : row'[j] = row[j]
      /\ UNCHANGED <<copies, snags, aborted>>
  BY DEF Purge, mail, Absent
<1>2. \A j \in old : j \in Jobs /\ Stage(j) \in {"told", "parked"}
  BY StageByStatus
<1> HIDE DEF old
<1>3. \A j \in Jobs : Stage(j)' = IF j \in old THEN "forgotten" ELSE Stage(j)
  BY <1>1, <1>2, StageByStatusNext
<1>4. Ideal!Forget(old)
  BY <1>1, <1>2, <1>3 DEF Ideal!Forget
<1> QED
  BY <1>2, <1>4

LEMMA IdealStep ==
  ASSUME IInv, [Next]_vars
  PROVE  [Ideal!Next]_(Ideal!idealVars)
<1>1. ASSUME NEW j \in Jobs, Enqueue(j) PROVE Ideal!Next
  BY <1>1, IdealEnqueue DEF Ideal!Next
<1>2. CASE AdvanceClock
  BY <1>2, IdealStutter DEF AdvanceClock, mail
<1>3. CASE Purge
  BY <1>3, IdealPurge DEF Ideal!Next
<1>4. ASSUME NEW w \in Workers, StartTick(w) PROVE UNCHANGED Ideal!idealVars
  BY <1>4, IdealStutter DEF StartTick, mail
<1>5. ASSUME NEW w \in Workers, Claim(w) \/ Skip(w) \/ Complete(w) \/ Fail(w) PROVE UNCHANGED Ideal!idealVars
  BY <1>5, IdealStutter DEF Claim, Skip, Complete, Fail, Settle, mail
<1>6. ASSUME NEW w \in Workers, Deliver(w) PROVE Ideal!Next
  BY <1>6, IdealDeliver, Owed DEF Ideal!Next, Deliver
<1>7. ASSUME NEW w \in Workers, Refuse(w) PROVE Ideal!Next
  <2>1. \E j \in Jobs, r \in Recipients : Ideal!TurnDown(j, r)
    BY <1>7, IdealRefuse
  <2> QED
    BY <2>1 DEF Ideal!Next
<1>11. ASSUME NEW w \in Workers, Throw(w) \/ Lapse(w) PROVE Ideal!Next
  <2>1. \E j \in Jobs : Ideal!MissSubject(j) \/ Ideal!BecomeMoot(j)
    BY <1>11, IdealStop
  <2> QED
    BY <2>1 DEF Ideal!Next
<1>8. ASSUME NEW w \in Workers, Commit(w) PROVE Ideal!Next
  BY <1>8, IdealCommit DEF Ideal!Next
<1>9. ASSUME NEW w \in Workers, Abort(w) PROVE Ideal!Next
  BY <1>9, IdealAbort DEF Ideal!Next
<1>10. CASE UNCHANGED vars
  BY <1>10, IdealStutter DEF vars, mail
<1> QED
  BY <1>1, <1>2, <1>3, <1>4, <1>5, <1>6, <1>7, <1>8, <1>9, <1>10, <1>11 DEF Next, TickStep

(* Whatever ticks commit, die or are skipped, the queue delivers as        *)
(* IdealDelivery promises (jobs.ts and processNotifications).              *)
THEOREM QueueDelivers == Spec => ImplementsIdealDelivery
<1>1. Init => Ideal!Init
  BY IdealInit
<1>2. IInv /\ [Next]_vars => [Ideal!Next]_(Ideal!idealVars)
  BY IdealStep
<1> QED
  BY <1>1, <1>2, Invariance, PTL DEF Spec, ImplementsIdealDelivery, Ideal!Spec
=============================================================================
