---------------------------- MODULE IdealDelivery ----------------------------
(***************************************************************************)
(* What the mail queue promises whoever queues a notice, with no rows,     *)
(* ticks, retries or clock: a notice queued is owed to its addressees; it  *)
(* is told when each has a copy, or when it had become moot; it is parked  *)
(* when an address was turned down or what it announces could not be read; *)
(* nobody is written to before or after, or twice, but for a copy whose    *)
(* record was lost.  JobQueue implements it.                               *)
(***************************************************************************)
EXTENDS Naturals

CONSTANTS
  Jobs, Recipients,
  Addressees,   \* of each job
  Steadfast,    \* jobs that are not parked while an addressee is untried
  Lapsing       \* jobs that may become moot

VARIABLES
  stage,    \* of each job: none, owed, told, parked, forgotten
  copies,   \* that went to each recipient of each job
  refused,  \* addresses turned down
  unread,   \* jobs whose handler failed before it wrote to anybody
  moot,     \* jobs with nothing left to send
  losses    \* times that what was sent went unrecorded

idealVars == <<stage, copies, refused, unread, moot, losses>>

Init ==
  /\ stage = [j \in Jobs |-> "none"]
  /\ copies = [j \in Jobs |-> [r \in Recipients |-> 0]]
  /\ refused = [j \in Jobs |-> {}]
  /\ unread = {} /\ moot = {}
  /\ losses = 0

Owe(j) ==
  /\ stage[j] = "none"
  /\ stage' = [stage EXCEPT ![j] = "owed"]
  /\ UNCHANGED <<copies, refused, unread, moot, losses>>

(* A first copy, or one more for each loss.                                *)
Send(j, r) ==
  /\ stage[j] = "owed" /\ r \in Addressees[j]
  /\ copies[j][r] <= losses
  /\ copies' = [copies EXCEPT ![j][r] = @ + 1]
  /\ UNCHANGED <<stage, refused, unread, moot, losses>>

TurnDown(j, r) ==
  /\ stage[j] = "owed" /\ r \in Addressees[j]
  /\ refused' = [refused EXCEPT ![j] = @ \cup {r}]
  /\ UNCHANGED <<stage, copies, unread, moot, losses>>

MissSubject(j) ==
  /\ stage[j] = "owed"
  /\ unread' = unread \cup {j}
  /\ UNCHANGED <<stage, copies, refused, moot, losses>>

BecomeMoot(j) ==
  /\ stage[j] = "owed" /\ j \in Lapsing
  /\ moot' = moot \cup {j}
  /\ UNCHANGED <<stage, copies, refused, unread, losses>>

Lose ==
  /\ losses' = losses + 1
  /\ UNCHANGED <<stage, copies, refused, unread, moot>>

Reached(j, r) == copies[j][r] > 0

Settle(told, parked) ==
  /\ \A j \in told : stage[j] = "owed" /\ (j \in moot \/ \A r \in Addressees[j] : Reached(j, r))
  /\ \A j \in parked \ unread :
       /\ refused[j] # {}
       /\ j \in Steadfast => \A r \in Addressees[j] : Reached(j, r) \/ r \in refused[j]
  /\ \A j \in parked : stage[j] = "owed"
  /\ stage' = [j \in Jobs |-> IF j \in told THEN "told" ELSE IF j \in parked THEN "parked" ELSE stage[j]]
  /\ UNCHANGED <<copies, refused, unread, moot, losses>>

Forget(old) ==
  /\ \A j \in old : stage[j] \in {"told", "parked"}
  /\ stage' = [j \in Jobs |-> IF j \in old THEN "forgotten" ELSE stage[j]]
  /\ UNCHANGED <<copies, refused, unread, moot, losses>>

Next ==
  \/ \E j \in Jobs : Owe(j) \/ MissSubject(j) \/ BecomeMoot(j)
  \/ \E j \in Jobs, r \in Recipients : Send(j, r) \/ TurnDown(j, r)
  \/ \E told, parked \in SUBSET Jobs : Settle(told, parked)
  \/ \E old \in SUBSET Jobs : Forget(old)
  \/ Lose

Spec == Init /\ [][Next]_idealVars
=============================================================================
