--------------------------- MODULE LeadIntakeProofs ---------------------------
(* Safety of LeadIntake, for every set of requests, listings and clicks.   *)
(* The argument is about the row's lock: a confirmation that has written   *)
(* its request holds it alone, and finds it pending when it commits.       *)
EXTENDS LeadIntake, TLAPS

(* Confirmations that hold their request's row.                            *)
Holds(s) == click[s].pc \in {"door", "commit"}

OpenIsOf == \A s \in Clicks : click[s].pc # "idle" => click[s].of \in Requests

HeldIsPending == \A s \in Clicks : Holds(s) => request[click[s].of].status = "pending"

HeldOnce == \A s, t \in Clicks : Holds(s) /\ Holds(t) /\ click[s].of = click[t].of => s = t

IInv == TypeOK /\ OneLeadPerRequest /\ OpenIsOf /\ HeldIsPending /\ HeldOnce

-----------------------------------------------------------------------------
Rows == [status : {"absent", "pending", "verified", "expired"},
         source : {"none", "quote", "capture", "enquiry"}, spam : BOOLEAN,
         to : SUBSET Listings, expires : Nat]
Opened == [pc : {"idle", "read", "door", "commit"}, of : Requests \cup {Nobody},
           lapsed : BOOLEAN, lead : BOOLEAN, at : Nat, beside : SUBSET Requests]
Leads == [made : Nat, at : Nat, beside : SUBSET Requests]

LEMMA Constants ==
  /\ Away \in Opened /\ Old \in Rows /\ NoRequest \in Rows /\ NoLead \in Leads
  /\ Away.pc = "idle" /\ NoLead.made = 0
BY DEF Away, Old, NoRequest, NoLead, Opened, Rows, Leads, Nobody, NoDate

(* Before any form is sent, nothing is held, made or delivered.            *)
THEOREM Initially == Init => IInv
<1> SUFFICES ASSUME Init PROVE IInv
  OBVIOUS
<1>1. TypeOK
  <2>1. request \in [Requests -> Rows]
    BY Constants DEF Init
  <2>2. click \in [Clicks -> Opened] /\ lead \in [Requests -> Leads]
    BY Constants DEF Init
  <2> QED
    BY <2>1, <2>2, IntakeAssumption DEF Init, TypeOK, Rows, Opened, Leads
<1>2. \A s \in Clicks : click[s].pc = "idle"
  BY Constants DEF Init
<1>3. \A r \in Requests : lead[r].made = 0
  BY Constants DEF Init
<1> QED
  BY <1>1, <1>2, <1>3 DEF IInv, OneLeadPerRequest, OpenIsOf, HeldIsPending, HeldOnce, Holds

(* A step that leaves the clicks and the leads alone keeps the invariant   *)
(* if it leaves the rows that are held as they were.                       *)
LEMMA RowsKeep ==
  ASSUME IInv, TypeOK', UNCHANGED <<click, lead>>,
         \A r \in Requests : Locked(r) \/ request[r].status = "verified"
                               => request'[r].status = request[r].status
  PROVE  IInv'
<1>1. OneLeadPerRequest'
  <2>1. \A r \in Requests : lead[r].made <= (IF request[r].status = "verified" THEN 1 ELSE 0)
    BY DEF IInv, OneLeadPerRequest
  <2>2. \A r \in Requests : lead[r].made \in Nat
    BY DEF IInv, TypeOK
  <2>3. \A r \in Requests : request[r].status = "verified" => request'[r].status = "verified"
    OBVIOUS
  <2> QED
    BY <2>1, <2>2, <2>3 DEF OneLeadPerRequest
<1>2. HeldIsPending'
  BY DEF IInv, HeldIsPending, OpenIsOf, Holds, Locked
<1> QED
  BY <1>1, <1>2 DEF IInv, OpenIsOf, HeldOnce, Holds

(* One that moves one click keeps it if the click ends, or holds its row   *)
(* rightly.                                                                *)
LEMMA ClickKeeps ==
  ASSUME IInv, TypeOK', UNCHANGED <<request, lead>>, NEW s \in Clicks,
         \A t \in Clicks \ {s} : click'[t] = click[t],
         click'[s].pc # "idle" => click'[s].of \in Requests,
         Holds(s)' => /\ request[click'[s].of].status = "pending"
                      /\ \A t \in Clicks \ {s} : Holds(t) => click[t].of # click'[s].of
  PROVE  IInv'
<1>1. HeldIsPending' /\ HeldOnce'
  BY DEF IInv, HeldIsPending, HeldOnce, Holds
<1> QED
  BY <1>1 DEF IInv, OneLeadPerRequest, OpenIsOf

(* Forms, clicks, the sweep, the flag and the worker keep the invariant.   *)
THEOREM Consecution == IInv /\ [Next]_vars => IInv'
<1> SUFFICES ASSUME IInv, [Next]_vars PROVE IInv'
  OBVIOUS
<1>i. TypeOK /\ OneLeadPerRequest /\ OpenIsOf /\ HeldIsPending /\ HeldOnce
  BY DEF IInv
<1>t. /\ now \in Nat /\ request \in [Requests -> Rows] /\ click \in [Clicks -> Opened]
      /\ lead \in [Requests -> Leads]
  BY <1>i, IntakeAssumption DEF TypeOK, Rows, Opened, Leads
<1>f. ASSUME NEW r \in Requests, NEW source \in {"quote", "capture", "enquiry"},
             NEW to \in SUBSET Listings, request[r] = NoRequest, Write(r, source, to),
             UNCHANGED <<now, world, click, lead, delivery, crashes>>
      PROVE  IInv'
  <2>1. request' \in [Requests -> Rows]
    BY <1>f, <1>t, IntakeAssumption DEF Write, Rows
  <2>2. TypeOK'
    BY <2>1, <1>f, <1>i DEF TypeOK, Rows, world, delivery
  <2>3. request[r].status = "absent" /\ \A q \in Requests \ {r} : request'[q] = request[q]
    BY <1>f, <1>t DEF NoRequest, Write
  <2>4. ~Locked(r)
    BY <2>3, <1>i DEF Locked, HeldIsPending, Holds
  <2> QED
    BY <2>2, <2>3, <2>4, <1>f, RowsKeep
<1>1. ASSUME NEW r \in Requests, SubmitQuote(r) PROVE IInv'
  <2>1. PICK to \in SUBSET Reachable : Write(r, "quote", to)
    BY <1>1 DEF SubmitQuote
  <2>2. to \in SUBSET Listings
    BY DEF Reachable
  <2> QED
    BY <1>1, <2>1, <2>2, <1>f DEF SubmitQuote
<1>2. ASSUME NEW r \in Requests, SubmitCapture(r) PROVE IInv'
  <2>1. {} \in SUBSET Listings
    OBVIOUS
  <2> QED
    BY <1>2, <2>1, <1>f DEF SubmitCapture
<1>3. ASSUME NEW r \in Requests, SubmitEnquiry(r) PROVE IInv'
  <2>1. PICK l \in Listings : Write(r, "enquiry", {l})
    BY <1>3 DEF SubmitEnquiry
  <2>2. {l} \in SUBSET Listings
    OBVIOUS
  <2> QED
    BY <1>3, <2>1, <2>2, <1>f DEF SubmitEnquiry
<1>4. ASSUME NEW r \in Requests, Fetch(r) \/ (\E l \in Listings : Mail(r, l)) \/ Acknowledge(r) \/ BlocklistChanges(r) PROVE IInv'
  <2>1. TypeOK'
    <3>1. CASE Fetch(r)
      <4>1. request[r].to \in SUBSET Listings
        BY <1>i DEF TypeOK
      <4>2. toMail' \in [Requests -> SUBSET Listings] /\ excused' \in [Requests -> SUBSET Listings]
        BY <3>1, <4>1, <1>i DEF Fetch, TypeOK
      <4>3. queued' \subseteq Requests /\ carrying' \subseteq queued'
        BY <3>1, <1>i DEF Fetch, TypeOK
      <4> QED
        BY <3>1, <4>2, <4>3, <1>i DEF Fetch, TypeOK, world
    <3>2. CASE Acknowledge(r)
      BY <3>2, <1>i DEF Acknowledge, TypeOK, world
    <3>4. ASSUME NEW l \in Listings, Mail(r, l) PROVE TypeOK'
      <4>1. toMail' \in [Requests -> SUBSET Listings] /\ mailed' \in [Requests -> SUBSET Listings]
        BY <3>4, <1>i DEF Mail, TypeOK
      <4> QED
        BY <3>4, <4>1, <1>i DEF Mail, TypeOK, world
    <3>3. CASE BlocklistChanges(r)
      BY <3>3, <1>i, IntakeAssumption DEF BlocklistChanges, TypeOK, delivery
    <3> QED
      BY <1>4, <3>1, <3>2, <3>3, <3>4
  <2>2. UNCHANGED <<request, click, lead>>
    BY <1>4 DEF Fetch, Mail, Acknowledge, BlocklistChanges, world, delivery
  <2> QED
    BY <2>1, <2>2, RowsKeep
<1>5. ASSUME NEW r \in Requests, Flag(r) PROVE IInv'
  <2>1. request' = [request EXCEPT ![r].spam = ~@]
    BY <1>5 DEF Flag
  <2>2. request' \in [Requests -> Rows] /\ \A q \in Requests : request'[q].status = request[q].status
    BY <2>1, <1>t DEF Rows
  <2>3. TypeOK'
    BY <2>2, <1>5, <1>i, IntakeAssumption DEF Flag, TypeOK, Rows, delivery
  <2> QED
    BY <2>2, <2>3, <1>5, RowsKeep DEF Flag
<1>6. ASSUME NEW l \in Listings, ListingChanges(l) \/ Unsubscribe(l) PROVE IInv'
  <2>1. TypeOK'
    BY <1>6, <1>i, IntakeAssumption DEF ListingChanges, Unsubscribe, TypeOK, delivery
  <2> QED
    BY <2>1, <1>6, RowsKeep DEF ListingChanges, Unsubscribe
<1>7. CASE AdvanceClock
  <2>1. TypeOK'
    BY <1>7, <1>i, IntakeAssumption DEF AdvanceClock, TypeOK, world, delivery
  <2> QED
    BY <2>1, <1>7, RowsKeep DEF AdvanceClock
<1>8. CASE Sweep
  <2>1. /\ \A r \in Requests : Due(r) => ~Locked(r)
        /\ request' = [r \in Requests |-> IF Due(r) THEN [request[r] EXCEPT !.status = "expired"] ELSE request[r]]
    BY <1>8 DEF Sweep
  <2>2. request' \in [Requests -> Rows]
    BY <2>1, <1>t DEF Rows
  <2>3. TypeOK'
    BY <2>2, <1>8, <1>i DEF Sweep, TypeOK, Rows, world, delivery
  <2>4. \A r \in Requests : Due(r) => request[r].status = "pending"
    BY DEF Due
  <2>5. \A r \in Requests : ~Due(r) => request'[r] = request[r]
    BY <2>1
  <2> QED
    BY <2>1, <2>3, <2>4, <2>5, <1>8, RowsKeep DEF Sweep
<1>9. ASSUME NEW s \in Clicks, NEW w \in Opened, click' = [click EXCEPT ![s] = w],
             w.pc # "idle" => w.of \in Requests, w.pc \notin {"door", "commit"},
             UNCHANGED <<now, request, world, lead, delivery>>, crashes' \in 0..MaxCrashes
      PROVE  IInv'
  <2>1. TypeOK'
    BY <1>9, <1>i, <1>t DEF TypeOK, Opened, world, delivery
  <2>2. click'[s] = w /\ \A t \in Clicks \ {s} : click'[t] = click[t]
    BY <1>9, <1>t
  <2> QED
    BY <2>1, <2>2, <1>9, ClickKeeps DEF Holds
<1>10. ASSUME NEW s \in Clicks, NEW r \in Requests, OpenLink(s, r) PROVE IInv'
  <2>1. PICK w : w = [Away EXCEPT !.pc = "read", !.of = r, !.lapsed = Lapsed(r)]
    OBVIOUS
  <2>2. w \in Opened /\ w.pc = "read" /\ w.of = r
    BY <2>1, Constants DEF Opened, Away, Lapsed
  <2>3. crashes \in 0..MaxCrashes
    BY <1>i DEF TypeOK
  <2> QED
    BY <1>9, <1>10, <2>1, <2>2, <2>3 DEF OpenLink
<1>11. ASSUME NEW s \in Clicks, AlreadyVerified(s) \/ Crash(s) PROVE IInv'
  <2>1. crashes' \in 0..MaxCrashes
    BY <1>11, <1>i, IntakeAssumption DEF AlreadyVerified, Crash, TypeOK
  <2> QED
    BY <1>9, <1>11, <2>1, Constants DEF AlreadyVerified, Crash
<1>12. ASSUME NEW s \in Clicks, ExpireAtClick(s) PROVE IInv'
  <2> DEFINE r == click[s].of
  <2>1. r \in Requests /\ ~Locked(r) /\ click[s].pc = "read"
    BY <1>12, <1>i DEF ExpireAtClick, OpenIsOf
  <2>2. /\ request' = IF request[r].status = "pending"
                      THEN [request EXCEPT ![r].status = "expired"] ELSE request
        /\ click' = [click EXCEPT ![s] = Away]
        /\ UNCHANGED <<now, world, lead, delivery, crashes>>
    BY <1>12 DEF ExpireAtClick
  <2>3. request' \in [Requests -> Rows]
    BY <2>1, <2>2, <1>t DEF Rows
  <2>4. click' \in [Clicks -> Opened]
    BY <2>2, <1>t, Constants
  <2>5. TypeOK'
    BY <2>2, <2>3, <2>4, <1>i DEF TypeOK, Rows, Opened, world, delivery
  <2>6. /\ \A q \in Requests \ {r} : request'[q] = request[q]
        /\ request[r].status # "pending" => request' = request
    BY <2>2, <1>t
  <2>7. click'[s].pc = "idle" /\ \A t \in Clicks \ {s} : click'[t] = click[t]
    BY <2>2, <1>t, Constants
  <2>8. \A t \in Clicks : Holds(t)' => Holds(t) /\ click'[t] = click[t] /\ click[t].of # r
    BY <2>1, <2>7 DEF Holds, Locked
  <2>9. HeldIsPending' /\ HeldOnce' /\ OpenIsOf'
    BY <2>6, <2>7, <2>8, <1>i DEF HeldIsPending, HeldOnce, OpenIsOf, Holds
  <2>10. OneLeadPerRequest'
    BY <2>2, <2>6, <1>i, <1>t DEF OneLeadPerRequest, Leads
  <2> QED
    BY <2>5, <2>9, <2>10 DEF IInv
<1>13. ASSUME NEW s \in Clicks, Verify(s) PROVE IInv'
  <2>1. /\ click[s].of \in Requests /\ ~Locked(click[s].of)
        /\ request[click[s].of].status = "pending"
    BY <1>13, <1>i DEF Verify, OpenIsOf
  <2>2. /\ click' = [click EXCEPT ![s].pc = "door"]
        /\ UNCHANGED <<now, request, world, lead, delivery, crashes>>
    BY <1>13 DEF Verify
  <2>3. click' \in [Clicks -> Opened]
    BY <2>2, <1>t DEF Opened
  <2>4. TypeOK'
    BY <2>2, <2>3, <1>i DEF TypeOK, Opened, world, delivery
  <2>5. click'[s].of = click[s].of /\ \A t \in Clicks \ {s} : click'[t] = click[t]
    BY <2>2, <1>t DEF Opened
  <2> QED
    BY <2>1, <2>2, <2>4, <2>5, ClickKeeps DEF Locked, Holds
<1>14. ASSUME NEW s \in Clicks, PassDoor(s) PROVE IInv'
  <2>1. /\ click[s].pc = "door" /\ click[s].of \in Requests
        /\ click' = [click EXCEPT ![s].pc = "commit", ![s].at = now,
              ![s].lead = DoorOpen(click[s].of) /\ lead[click[s].of].made = 0 /\ RulesAllow(click[s].of),
              ![s].beside = {click[t].of : t \in {u \in Clicks : click[u].pc = "commit"}}]
        /\ UNCHANGED <<now, request, world, lead, delivery, crashes>>
    BY <1>14, <1>i DEF PassDoor, OpenIsOf
  <2>2. PICK b : b = {click[t].of : t \in {u \in Clicks : click[u].pc = "commit"}}
    OBVIOUS
  <2>3. b \subseteq Requests
    BY <2>2, <1>i DEF OpenIsOf
  <2>4. PICK a \in BOOLEAN :
          click' = [click EXCEPT ![s].pc = "commit", ![s].at = now, ![s].lead = a, ![s].beside = b]
    <3>1. (DoorOpen(click[s].of) /\ lead[click[s].of].made = 0 /\ RulesAllow(click[s].of)) \in BOOLEAN
      OBVIOUS
    <3> QED
      BY <3>1, <2>1, <2>2
  <2>5. click' \in [Clicks -> Opened]
    <3>1. click[s] \in Opened /\ now \in Nat
      BY <1>t
    <3>2. [click[s] EXCEPT !.pc = "commit", !.at = now, !.lead = a, !.beside = b] \in Opened
      BY <2>3, <2>4, <3>1 DEF Opened
    <3>3. click' = [click EXCEPT ![s] = [click[s] EXCEPT !.pc = "commit", !.at = now, !.lead = a, !.beside = b]]
      BY <2>4, <1>t
    <3> QED
      BY <3>2, <3>3, <1>t
  <2>6. TypeOK'
    BY <2>1, <2>5, <1>i DEF TypeOK, Opened, world, delivery
  <2>7. click'[s].of = click[s].of /\ \A t \in Clicks \ {s} : click'[t] = click[t]
    BY <2>4, <1>t DEF Opened
  <2> QED
    BY <2>1, <2>6, <2>7, <1>i, ClickKeeps DEF HeldIsPending, HeldOnce, Holds
<1>15. ASSUME NEW s \in Clicks, Confirm(s) PROVE IInv'
  <2> DEFINE r == click[s].of
  <2>1. click[s].pc = "commit" /\ r \in Requests /\ request[r].status = "pending"
    BY <1>15, <1>i DEF Confirm, OpenIsOf, HeldIsPending, Holds
  <2>2. lead[r].made = 0
    BY <2>1, <1>i, <1>t DEF OneLeadPerRequest, Leads
  <2>3. /\ request' = [request EXCEPT ![r].status = "verified"]
        /\ click' = [click EXCEPT ![s] = Away]
        /\ lead' = IF click[s].lead
                   THEN [lead EXCEPT ![r] = [made |-> @.made + 1, at |-> click[s].at, beside |-> click[s].beside]]
                   ELSE lead
        /\ queued' = IF request[r].source = "quote" /\ request[r].to # {} THEN queued \cup {r} ELSE queued
        /\ UNCHANGED <<now, world, carrying, toMail, mailed, excused, crashes>>
    BY <1>15 DEF Confirm
  <2>4. request' \in [Requests -> Rows] /\ click' \in [Clicks -> Opened]
    BY <2>3, <1>t, Constants DEF Rows
  <2>5. lead' \in [Requests -> Leads]
    <3>1. click[s] \in Opened
      BY <1>t
    <3>2. [made |-> lead[r].made + 1, at |-> click[s].at, beside |-> click[s].beside] \in Leads
      BY <2>2, <3>1 DEF Leads, Opened
    <3> QED
      BY <3>2, <2>3, <1>t
  <2>6. TypeOK'
    BY <2>1, <2>3, <2>4, <2>5, <1>i DEF TypeOK, Rows, Opened, Leads, world
  <2>7. /\ request'[r].status = "verified" /\ \A q \in Requests \ {r} : request'[q] = request[q]
        /\ lead'[r].made <= 1 /\ \A q \in Requests \ {r} : lead'[q] = lead[q]
    BY <2>1, <2>2, <2>3, <1>t DEF Rows
  <2>8. click'[s].pc = "idle" /\ \A t \in Clicks \ {s} : click'[t] = click[t]
    BY <2>3, <1>t, Constants
  <2>9. \A t \in Clicks : Holds(t)' => Holds(t) /\ click'[t] = click[t] /\ click[t].of # r
    BY <2>1, <2>8, <1>i DEF Holds, HeldOnce
  <2>10. HeldIsPending' /\ HeldOnce' /\ OpenIsOf'
    BY <2>7, <2>8, <2>9, <1>i DEF HeldIsPending, HeldOnce, OpenIsOf, Holds
  <2>11. OneLeadPerRequest'
    BY <2>7, <1>i DEF OneLeadPerRequest
  <2> QED
    BY <2>6, <2>10, <2>11 DEF IInv
<1>16. CASE UNCHANGED vars
  <2>1. TypeOK'
    BY <1>16, <1>i DEF vars, world, delivery, TypeOK
  <2> QED
    BY <2>1, <1>16, RowsKeep DEF vars
<1> QED
  BY <1>1, <1>2, <1>3, <1>4, <1>5, <1>6, <1>7, <1>8, <1>10, <1>11, <1>12, <1>13, <1>14, <1>15, <1>16
     DEF Next, ClickStep

(* Who holds a request's row, and that it is pending, is always so.        *)
THEOREM Invariance == Spec => []IInv
  BY Initially, Consecution, PTL DEF Spec

(* The types.                                                              *)
THEOREM TypeCorrect == Spec => []TypeOK
<1>1. IInv => TypeOK
  BY DEF IInv
<1> QED
  BY <1>1, Invariance, PTL

(* However often a link is clicked, whatever the sweep, the flag and the   *)
(* crashes do, a request makes at most one lead, and only if confirmed.    *)
THEOREM OneLead == Spec => []OneLeadPerRequest
<1>1. IInv => OneLeadPerRequest
  BY DEF IInv
<1> QED
  BY <1>1, Invariance, PTL

-----------------------------------------------------------------------------
(* The exposure of the unlocked check.  Of two confirmations that are past *)
(* their check at once, the later one has the other beside it...           *)
Passed(s) == click[s].pc = "commit"

Aware ==
  \A s, t \in Clicks : Passed(s) /\ Passed(t) /\ s # t =>
    click[t].of \in click[s].beside \/ click[s].of \in click[t].beside

(* ...and one past its check that will make a lead is near no other lead   *)
(* of its person but those made beside it.                                 *)
Close(m, n) == m - n < Window /\ n - m < Window

Apart ==
  \A s \in Clicks : Passed(s) /\ click[s].lead =>
    \A q \in Resembles(click[s].of) \ {click[s].of} :
      lead[q].made > 0 /\ Close(click[s].at, lead[q].at) =>
        q \in click[s].beside \/ click[s].of \in lead[q].beside

DInv == DuplicatesOnlyTogether /\ Aware /\ Apart

(* A click that does not come to have passed its check disturbs nothing.   *)
LEMMA OthersKeep ==
  ASSUME DInv, UNCHANGED lead, NEW s \in Clicks, ~Passed(s)',
         \A t \in Clicks \ {s} : click'[t] = click[t]
  PROVE  DInv'
<1>1. \A t \in Clicks : Passed(t)' => Passed(t) /\ click'[t] = click[t]
  BY DEF Passed
<1>2. DuplicatesOnlyTogether'
  BY DEF DInv, DuplicatesOnlyTogether, Twins, Near
<1>3. Aware'
  BY <1>1 DEF DInv, Aware
<1>4. Apart'
  BY <1>1 DEF DInv, Apart, Close, Resembles
<1> QED
  BY <1>2, <1>3, <1>4 DEF DInv

LEMMA PassDoorApart ==
  ASSUME IInv, DInv, NEW s \in Clicks, PassDoor(s)
  PROVE  DInv'
<1>t. /\ click \in [Clicks -> Opened] /\ lead \in [Requests -> Leads] /\ now \in Nat
      /\ click[s].of \in Requests /\ click[s].pc = "door" /\ Window \in Nat
  BY IntakeAssumption DEF IInv, TypeOK, Opened, Leads, OpenIsOf, PassDoor
<1>1. PICK b : b = {click[t].of : t \in {u \in Clicks : click[u].pc = "commit"}}
  OBVIOUS
<1>2. /\ click'[s].of = click[s].of /\ click'[s].at = now /\ click'[s].beside = b
      /\ click'[s].lead => RulesAllow(click[s].of)
      /\ \A t \in Clicks \ {s} : click'[t] = click[t]
      /\ lead' = lead
  BY <1>1, <1>t DEF PassDoor, Opened
<1>3. DuplicatesOnlyTogether'
  BY <1>2 DEF DInv, DuplicatesOnlyTogether, Twins, Near
<1>4. Aware'
  <2>1. \A t \in Clicks \ {s} : Passed(t)' => click[t].of \in b
    BY <1>1, <1>2 DEF Passed
  <2> QED
    BY <2>1, <1>2 DEF DInv, Aware, Passed
<1>5. Apart'
  <2>1. ASSUME click'[s].lead, NEW q \in Resembles(click[s].of), lead[q].made > 0
        PROVE  ~Close(now, lead[q].at)
    <3>1. ~(lead[q].at > now - Window)
      BY <2>1, <1>2 DEF RulesAllow, Duplicate
    <3>2. lead[q].at \in Nat
      BY <1>t DEF Resembles, Leads
    <3> QED
      BY <3>1, <3>2, <1>t DEF Close
  <2>2. \A t \in Clicks \ {s} : Passed(t)' => Passed(t)
    BY <1>2 DEF Passed
  <2> QED
    BY <2>1, <2>2, <1>2 DEF DInv, Apart, Resembles, Close
<1> QED
  BY <1>3, <1>4, <1>5 DEF DInv

LEMMA ConfirmApart ==
  ASSUME IInv, DInv, NEW s \in Clicks, Confirm(s)
  PROVE  DInv'
<1>r. PICK r \in Requests : r = click[s].of
  BY DEF IInv, OpenIsOf, Confirm
<1>t. /\ click \in [Clicks -> Opened] /\ lead \in [Requests -> Leads]
      /\ r \in Requests /\ r = click[s].of /\ Passed(s)
  BY <1>r DEF IInv, TypeOK, Opened, Leads, Confirm, Passed
<1>1. /\ ~Passed(s)' /\ \A t \in Clicks \ {s} : click'[t] = click[t]
  BY <1>t, Constants DEF Confirm, Passed
<1>2. CASE ~click[s].lead
  BY <1>1, <1>2, OthersKeep DEF Confirm
<1>3. CASE click[s].lead
  <2>1. /\ lead'[r].at = click[s].at /\ lead'[r].beside = click[s].beside
        /\ \A q \in Requests \ {r} : lead'[q] = lead[q]
    BY <1>3, <1>t DEF Confirm
  <2>2. \A t \in Clicks : Passed(t)' => t # s /\ Passed(t) /\ click'[t] = click[t] /\ click[t].of \in Requests \ {r}
    BY <1>1, <1>t DEF Passed, IInv, HeldOnce, Holds, OpenIsOf
  <2>3. Aware'
    BY <2>2 DEF DInv, Aware
  <2>4. Apart'
    <3> SUFFICES ASSUME NEW t \in Clicks, Passed(t)', click'[t].lead,
                        NEW q \in Resembles(click'[t].of) \ {click'[t].of},
                        lead'[q].made > 0, Close(click'[t].at, lead'[q].at)
                 PROVE  q \in click'[t].beside \/ click'[t].of \in lead'[q].beside
      BY DEF Apart, Resembles, Close, Passed
    <3>1. CASE q = r
      BY <3>1, <2>1, <2>2, <1>t DEF DInv, Aware
    <3>2. CASE q # r
      BY <3>2, <2>1, <2>2 DEF DInv, Apart, Resembles
    <3> QED
      BY <3>1, <3>2
  <2>5. DuplicatesOnlyTogether'
    <3>1. ASSUME NEW q \in Requests \ {r}, <<r, q>> \in Alike, lead[q].made > 0,
                 Close(click[s].at, lead[q].at)
          PROVE  r \in lead'[q].beside \/ q \in lead'[r].beside
      BY <3>1, <1>3, <1>t, <2>1 DEF DInv, Apart, Resembles
    <3>2. \A p, q \in Requests : <<p, q>> \in Alike => <<q, p>> \in Alike
      BY IntakeAssumption
    <3>3. \A p, q \in Requests \ {r} : Twins(p, q)' => Twins(p, q)
      BY <2>1 DEF Twins, Near
    <3>4. ASSUME NEW q \in Requests \ {r}, Twins(r, q)' \/ Twins(q, r)'
          PROVE  r \in lead'[q].beside \/ q \in lead'[r].beside
      <4>1. lead'[q] = lead[q] /\ lead[q].made > 0
        BY <3>4, <2>1 DEF Twins
      <4>2. <<r, q>> \in Alike
        BY <3>4, <3>2, <1>t DEF Twins
      <4>3. Close(click[s].at, lead[q].at)
        BY <3>4, <4>1, <2>1 DEF Twins, Near, Close
      <4> QED
        BY <3>1, <4>1, <4>2, <4>3
    <3>5. \A q \in Requests : ~Twins(q, q)'
      BY DEF Twins
    <3>6. \A p, q \in Requests \ {r} : Twins(p, q)' => p \in lead'[q].beside \/ q \in lead'[p].beside
      BY <3>3, <2>1 DEF DInv, DuplicatesOnlyTogether
    <3> SUFFICES ASSUME NEW p \in Requests, NEW q \in Requests, Twins(p, q)'
                 PROVE  p \in lead'[q].beside \/ q \in lead'[p].beside
      BY DEF DuplicatesOnlyTogether, Twins, Near
    <3>7. CASE p = r /\ q # r
      BY <3>7, <3>4
    <3>8. CASE p # r /\ q = r
      BY <3>8, <3>4
    <3> QED
      BY <3>5, <3>6, <3>7, <3>8
  <2> QED
    BY <2>3, <2>4, <2>5 DEF DInv
<1> QED
  BY <1>2, <1>3

LEMMA Together == IInv /\ DInv /\ [Next]_vars => DInv'
<1> SUFFICES ASSUME IInv, DInv, [Next]_vars PROVE DInv'
  OBVIOUS
<1>t. click \in [Clicks -> Opened]
  BY DEF IInv, TypeOK, Opened
<1>u. ASSUME UNCHANGED <<click, lead>> PROVE DInv'
  BY <1>u DEF DInv, DuplicatesOnlyTogether, Twins, Near, Aware, Apart, Passed, Close, Resembles
<1>1. ASSUME NEW r \in Requests,
             \/ SubmitQuote(r) \/ SubmitCapture(r) \/ SubmitEnquiry(r)
             \/ Fetch(r) \/ (\E l \in Listings : Mail(r, l)) \/ Acknowledge(r) \/ Flag(r) \/ BlocklistChanges(r)
      PROVE  DInv'
  BY <1>1, <1>u DEF SubmitQuote, SubmitCapture, SubmitEnquiry, Fetch, Mail, Acknowledge, Flag, BlocklistChanges
<1>2. ASSUME (\E l \in Listings : ListingChanges(l) \/ Unsubscribe(l)) \/ Sweep \/ AdvanceClock \/ UNCHANGED vars PROVE DInv'
  BY <1>2, <1>u DEF ListingChanges, Unsubscribe, Sweep, AdvanceClock, vars
<1>3. ASSUME NEW s \in Clicks, NEW r \in Requests, OpenLink(s, r) PROVE DInv'
  <2>1. /\ click'[s].pc = "read" /\ \A t \in Clicks \ {s} : click'[t] = click[t]
        /\ UNCHANGED lead
    BY <1>3, <1>t DEF OpenLink, Away
  <2> QED
    BY <2>1, OthersKeep DEF Passed
<1>4. ASSUME NEW s \in Clicks, ExpireAtClick(s) \/ AlreadyVerified(s) \/ Crash(s) PROVE DInv'
  <2>1. /\ click'[s].pc = "idle" /\ \A t \in Clicks \ {s} : click'[t] = click[t]
        /\ UNCHANGED lead
    BY <1>4, <1>t, Constants DEF ExpireAtClick, AlreadyVerified, Crash
  <2> QED
    BY <2>1, OthersKeep DEF Passed
<1>5. ASSUME NEW s \in Clicks, Verify(s) PROVE DInv'
  <2>1. /\ click'[s].pc = "door" /\ \A t \in Clicks \ {s} : click'[t] = click[t]
        /\ UNCHANGED lead
    BY <1>5, <1>t DEF Verify, Opened
  <2> QED
    BY <2>1, OthersKeep DEF Passed
<1> QED
  BY <1>1, <1>2, <1>3, <1>4, <1>5, PassDoorApart, ConfirmApart DEF Next, ClickStep

(* Two leads of one person come only from confirmations open at once.      *)
THEOREM OnlyTogether == Spec => []DuplicatesOnlyTogether
<1>1. Init => DInv
  <2> SUFFICES ASSUME Init PROVE DInv
    OBVIOUS
  <2>1. (\A s \in Clicks : click[s].pc = "idle") /\ (\A r \in Requests : ~(lead[r].made > 0))
    BY Constants DEF Init
  <2> QED
    BY <2>1 DEF DInv, DuplicatesOnlyTogether, Twins, Aware, Apart, Passed
<1>2. DInv => DuplicatesOnlyTogether
  BY DEF DInv
<1> QED
  BY <1>1, <1>2, Together, Invariance, PTL DEF Spec

-----------------------------------------------------------------------------
(* The flag.  A confirmation that will make a lead found its request       *)
(* unflagged, and nobody flags it while it holds the row.                  *)
Unflagged == \A s \in Clicks : Passed(s) /\ click[s].lead => ~request[click[s].of].spam

(* A step keeps that if every click it leaves past its check was so before,*)
(* and it flags no row that is held.                                       *)
LEMMA FlagsKeep ==
  ASSUME IInv, Unflagged,
         \A t \in Clicks : Passed(t)' => Passed(t) /\ click'[t] = click[t],
         \A r \in Requests : Locked(r)' /\ Locked(r) => request'[r].spam = request[r].spam
  PROVE  Unflagged'
<1> SUFFICES ASSUME NEW t \in Clicks, Passed(t)', click'[t].lead PROVE ~request'[click'[t].of].spam
  BY DEF Unflagged, Passed
<1>1. Passed(t) /\ click'[t] = click[t] /\ click[t].of \in Requests
  BY DEF Passed, IInv, OpenIsOf
<1>2. Locked(click[t].of)
  BY <1>1 DEF Locked, Passed
<1>3. Locked(click[t].of)'
  BY <1>1 DEF Locked, Passed
<1>4. request'[click[t].of].spam = request[click[t].of].spam
  <2>1. PICK r \in Requests : r = click[t].of
    BY <1>1
  <2>2. Locked(r) /\ Locked(r)'
    BY <1>1, <2>1 DEF Locked, Passed
  <2> QED
    BY <2>1, <2>2
<1> QED
  BY <1>1, <1>4 DEF Unflagged

LEMMA UnflaggedKeeps == IInv /\ Unflagged /\ [Next]_vars => Unflagged'
<1> SUFFICES ASSUME IInv, Unflagged, [Next]_vars PROVE Unflagged'
  OBVIOUS
<1>t. click \in [Clicks -> Opened] /\ request \in [Requests -> Rows]
  BY DEF IInv, TypeOK, Opened, Rows
<1>h. \A r \in Requests : Locked(r) => request[r].status = "pending"
  BY DEF IInv, HeldIsPending, Holds, Locked
<1>f. ASSUME NEW r \in Requests, NEW source, NEW to, request[r] = NoRequest, Write(r, source, to), UNCHANGED click
      PROVE  Unflagged'
  <2>1. ~Locked(r)
    BY <1>f, <1>h DEF NoRequest
  <2>2. \A q \in Requests \ {r} : request'[q] = request[q]
    BY <1>f, <1>t DEF Write
  <2>3. \A t \in Clicks : Passed(t)' => Passed(t)
    BY <1>f DEF Passed
  <2> QED
    BY <1>f, <2>1, <2>2, <2>3, FlagsKeep
<1>u. ASSUME UNCHANGED click, \A r \in Requests : ~Locked(r) \/ request'[r].spam = request[r].spam
      PROVE  Unflagged'
  BY <1>u, FlagsKeep DEF Passed
<1>s. ASSUME NEW s \in Clicks, ~Passed(s)', \A t \in Clicks \ {s} : click'[t] = click[t],
             \A r \in Requests : request'[r].spam = request[r].spam
      PROVE  Unflagged'
  <2>1. \A t \in Clicks : Passed(t)' => Passed(t) /\ click'[t] = click[t]
    BY <1>s DEF Passed
  <2> QED
    BY <1>s, <2>1, FlagsKeep
<1>1. ASSUME NEW r \in Requests, SubmitQuote(r) \/ SubmitCapture(r) \/ SubmitEnquiry(r) PROVE Unflagged'
  BY <1>1, <1>f DEF SubmitQuote, SubmitCapture, SubmitEnquiry
<1>2. ASSUME NEW r \in Requests, Flag(r) PROVE Unflagged'
  <2>1. ~Locked(r) /\ \A q \in Requests \ {r} : request'[q] = request[q]
    BY <1>2, <1>t DEF Flag
  <2> QED
    BY <1>2, <2>1, <1>u DEF Flag
<1>3. ASSUME NEW r \in Requests, Fetch(r) \/ (\E l \in Listings : Mail(r, l)) \/ Acknowledge(r) \/ BlocklistChanges(r) PROVE Unflagged'
  BY <1>3, <1>u DEF Fetch, Mail, Acknowledge, BlocklistChanges
<1>4. ASSUME (\E l \in Listings : ListingChanges(l) \/ Unsubscribe(l)) \/ AdvanceClock \/ UNCHANGED vars PROVE Unflagged'
  BY <1>4, <1>u DEF ListingChanges, Unsubscribe, AdvanceClock, vars
<1>5. CASE Sweep
  <2>1. \A r \in Requests : request'[r].spam = request[r].spam
    BY <1>5, <1>t DEF Sweep, Rows
  <2> QED
    BY <1>5, <2>1, <1>u DEF Sweep
<1>6. ASSUME NEW s \in Clicks, NEW r \in Requests, OpenLink(s, r) PROVE Unflagged'
  <2>1. click'[s].pc = "read" /\ \A t \in Clicks \ {s} : click'[t] = click[t]
    BY <1>6, <1>t DEF OpenLink, Away
  <2> QED
    BY <2>1, <1>6, <1>s DEF OpenLink, Passed
<1>7. ASSUME NEW s \in Clicks, ExpireAtClick(s) \/ AlreadyVerified(s) \/ Crash(s) \/ Confirm(s) PROVE Unflagged'
  <2>1. click'[s].pc = "idle" /\ \A t \in Clicks \ {s} : click'[t] = click[t]
    BY <1>7, <1>t, Constants DEF ExpireAtClick, AlreadyVerified, Crash, Confirm
  <2>2. \A r \in Requests : request'[r].spam = request[r].spam
    BY <1>7, <1>t DEF ExpireAtClick, AlreadyVerified, Crash, Confirm, Rows
  <2> QED
    BY <2>1, <2>2, <1>s DEF Passed
<1>8. ASSUME NEW s \in Clicks, Verify(s) PROVE Unflagged'
  <2>1. click'[s].pc = "door" /\ \A t \in Clicks \ {s} : click'[t] = click[t]
    BY <1>8, <1>t DEF Verify, Opened
  <2> QED
    BY <2>1, <1>8, <1>s DEF Verify, Passed
<1>9. ASSUME NEW s \in Clicks, PassDoor(s) PROVE Unflagged'
  <2>1. /\ \A t \in Clicks \ {s} : click'[t] = click[t]
        /\ request' = request
        /\ click'[s].of = click[s].of
        /\ click'[s].lead => DoorOpen(click[s].of)
    BY <1>9, <1>t DEF PassDoor, Opened
  <2> QED
    BY <2>1 DEF Unflagged, Passed, DoorOpen
<1> QED
  BY <1>1, <1>2, <1>3, <1>4, <1>5, <1>6, <1>7, <1>8, <1>9 DEF Next, ClickStep

(* While a request is flagged it makes no lead, and no delivery of it      *)
(* begins, whatever a click or the worker had read before.                 *)
THEOREM FlaggedStays == Spec => FlaggedGoesNowhere
<1>1. Init => Unflagged
  <2> SUFFICES ASSUME Init PROVE Unflagged
    OBVIOUS
  <2> QED
    BY Constants DEF Init, Unflagged, Passed
<1>2. ASSUME IInv, Unflagged, [Next]_vars, NEW r \in Requests, request[r].spam, request'[r].spam
      PROVE  lead'[r] = lead[r] /\ (r \in carrying' => r \in carrying)
  <2>1. ASSUME NEW s \in Clicks, Confirm(s) PROVE lead'[r] = lead[r] /\ carrying' = carrying
    <3>1. click[s].of # r \/ ~click[s].lead
      BY <1>2, <2>1 DEF Confirm, Unflagged, Passed
    <3> QED
      BY <3>1, <2>1, <1>2 DEF Confirm, IInv, TypeOK
  <2>2. ASSUME NEW q \in Requests, Fetch(q) PROVE lead' = lead /\ (r \in carrying' => r \in carrying)
    <3>1. lead' = lead /\ request' = request
      BY <2>2 DEF Fetch
    <3>2. carrying' = carrying \/ (carrying' = carrying \cup {q} /\ ~request[q].spam)
      BY <2>2 DEF Fetch, Deliverable
    <3> QED
      BY <3>1, <3>2, <1>2
  <2>3. ASSUME NEW q \in Requests, \/ SubmitQuote(q) \/ SubmitCapture(q) \/ SubmitEnquiry(q)
                                   \/ (\E l \in Listings : Mail(q, l)) \/ Acknowledge(q) \/ Flag(q) \/ BlocklistChanges(q)
                                   \/ \E s \in Clicks : OpenLink(s, q)
        PROVE  lead' = lead /\ (r \in carrying' => r \in carrying)
    BY <2>3 DEF SubmitQuote, SubmitCapture, SubmitEnquiry, Mail, Acknowledge, Flag, BlocklistChanges, OpenLink, delivery
  <2>4. ASSUME NEW s \in Clicks, \/ ExpireAtClick(s) \/ Verify(s) \/ AlreadyVerified(s) \/ PassDoor(s) \/ Crash(s)
        PROVE  lead' = lead /\ carrying' = carrying
    BY <2>4 DEF ExpireAtClick, Verify, AlreadyVerified, PassDoor, Crash, delivery
  <2>5. ASSUME (\E l \in Listings : ListingChanges(l) \/ Unsubscribe(l)) \/ Sweep \/ AdvanceClock \/ UNCHANGED vars
        PROVE  lead' = lead /\ carrying' = carrying
    BY <2>5 DEF ListingChanges, Unsubscribe, Sweep, AdvanceClock, delivery, vars
  <2> QED
    BY <1>2, <2>1, <2>2, <2>3, <2>4, <2>5 DEF Next, ClickStep
<1>3. IInv /\ Unflagged /\ [Next]_vars =>
        [\A r \in Requests : request[r].spam /\ request'[r].spam =>
           /\ lead'[r] = lead[r]
           /\ r \in carrying' => r \in carrying]_vars
  BY <1>2
<1> QED
  BY <1>1, <1>3, UnflaggedKeeps, Invariance, PTL DEF Spec, FlaggedGoesNowhere
=============================================================================
