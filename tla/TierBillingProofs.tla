--------------------------- MODULE TierBillingProofs ---------------------------
(* Three of TierBilling's promises, for every number of checkouts, listings *)
(* and sessions: a coupon is counted exactly and within its limit, PayPal  *)
(* bills nobody this site has no row of, and no row is a period ahead of   *)
(* what has been paid for.                                                 *)
EXTENDS TierBilling, FiniteSetTheorems, TLAPS

Kept == [status : Statuses \cup {"absent"}, listing : Listings \cup {NoListing}, end : Nat, coupon : BOOLEAN]
Desks == [pc : {"out", "listed", "priced", "created"}, listing : Listings \cup {NoListing}, coupon : BOOLEAN]

(* The rows and the checkouts' transactions.  A row that is there has a    *)
(* status, and one that is not has nothing.                                *)
Shape ==
  /\ row \in [Subs -> Kept] /\ desk \in [Subs -> Desks]
  /\ redeemed \in Nat
  /\ \A s \in Subs :
       /\ row[s].status = "absent" => row[s] = NoRow
       /\ desk[s] # Away => row[s] = NoRow

(* A session is about a row that is there, and decides from one.           *)
Heard == [type : Types \cup {"none"}, sub : Subs \cup {NoSub}, next : Nat, live : BOOLEAN, born : Nat]
Open == [pc : {"idle", "asking", "decided"}, sub : Subs \cup {NoSub}, seen : Kept, event : Heard]

OfRows ==
  /\ session \in [Sessions -> Open]
  /\ \A k \in Sessions : session[k].pc # "idle" =>
       /\ session[k].sub \in Subs /\ Recorded(session[k].sub)
       /\ session[k].seen.status \in Statuses
       /\ session[k].pc = "decided" => session[k].event.type \in Types

Clock == now \in Nat /\ paidTo \in [Subs -> Nat] /\ wire \subseteq Events

(* PayPal's states with a link given out, and a row committed.             *)
Out == {"offered"} \cup Billed

Told == paypal \in [Subs -> {"none", "created", "lost"} \cup Out]

(* An approval link is given out, and a subscription billed, only when the *)
(* row is committed.                                                       *)
OfferedIsRecorded == Told /\ \A s \in Subs : paypal[s] \in Out <=> Recorded(s)

(* A period, an event and a session are of a subscription that is billed.  *)
Begun ==
  /\ \A s \in Subs : Recorded(s) /\ row[s].end # NoDate => paypal[s] \in Billed
  /\ \A e \in wire : paypal[e.sub] \in Billed
  /\ \A k \in Sessions : session[k].pc # "idle" => paypal[session[k].sub] \in Billed

(* PayPal gives out no link, and forgets no subscription it bills.         *)
Steady ==
  /\ Told'
  /\ \A s \in Subs : /\ paypal'[s] \in Out <=> paypal[s] \in Out
                     /\ paypal[s] \in Billed => paypal'[s] \in Billed

(* One checkout holds the coupon, and still finds it unexhausted.          *)
OneRedeems ==
  /\ \A s \in Subs : desk[s].coupon => redeemed < MaxRedemptions
  /\ \A s, o \in Subs : desk[s].coupon /\ desk[o].coupon => s = o

Used == {s \in Subs : row[s].coupon}

IInv == Clock /\ Shape /\ OfRows /\ OfferedIsRecorded /\ Begun /\ OneRedeems /\ CouponCounted

-----------------------------------------------------------------------------
LEMMA Nothing ==
  /\ NoRow \in Kept /\ Away \in Desks /\ ~NoRow.coupon /\ ~Away.coupon /\ NoRow.status = "absent"
  /\ Idle.pc = "idle" /\ Idle \in Open /\ NoEvent \in Heard /\ "absent" \notin Statuses /\ Events \subseteq Heard
<1>1. NoRow \in Kept /\ Away \in Desks /\ NoEvent \in Heard
  BY DEF NoRow, Away, Kept, Desks, NoDate, NoEvent, Heard
<1>2. Idle \in Open /\ Idle.pc = "idle"
  BY <1>1 DEF Idle, Open
<1> QED
  BY <1>1, <1>2 DEF NoRow, Away, Statuses, Live, Events, Heard

(* A coupon has a limit, and there are finitely many checkouts.            *)
LEMMA Cap == MaxRedemptions \in Nat /\ 0 <= MaxRedemptions /\ IsFiniteSet(Subs)
<1>1. MaxRedemptions \in Nat /\ IsFiniteSet(Subs)
  BY BillingAssumption
<1> QED
  BY <1>1

LEMMA Initially == Init => IInv
<1> SUFFICES ASSUME Init PROVE IInv
  OBVIOUS
<1>0. Clock
  BY DEF Init, Clock, NoDate
<1>1. Shape /\ OfRows /\ OneRedeems
  BY Nothing DEF Init, Shape, OfRows, OneRedeems
<1>2. OfferedIsRecorded /\ Begun
  <2>1. "none" \notin Out
    BY DEF Out, Billed, Ended
  <2>2. \A s \in Subs : ~Recorded(s)
    BY DEF Init, Recorded
  <2> QED
    BY <2>1, <2>2, Nothing DEF Init, OfferedIsRecorded, Told, Begun
<1>3. CouponCounted
  <2>1. {s \in Subs : row[s].coupon} = {}
    BY Nothing DEF Init
  <2> QED
    BY <2>1, FS_EmptySet, Cap DEF Init, CouponCounted
<1> QED
  BY <1>0, <1>1, <1>2, <1>3 DEF IInv

(* A step that leaves rows, checkouts and the count alone keeps what is    *)
(* said of them; PayPal may move a subscription whose row is there.        *)
LEMMA OutsideKeeps ==
  ASSUME IInv, UNCHANGED <<row, desk, redeemed>>, OfRows', Clock', Begun', Steady
  PROVE  IInv'
<1>1. Shape' /\ OneRedeems' /\ CouponCounted'
  BY DEF IInv, Shape, OneRedeems, CouponCounted
<1>2. OfferedIsRecorded'
  BY DEF IInv, OfferedIsRecorded, Recorded, Steady
<1> QED
  BY <1>1, <1>2 DEF IInv

(* A checkout's transaction goes on, or ends with nothing written.         *)
LEMMA DeskKeeps ==
  ASSUME IInv, UNCHANGED <<row, redeemed, session, now, paidTo, wire>>, NEW s \in Subs, row[s] = NoRow,
         desk' \in [Subs -> Desks], \A o \in Subs \ {s} : desk'[o] = desk[o],
         desk'[s].coupon => desk[s].coupon \/ (redeemed < MaxRedemptions /\ ~CouponHeld),
         Steady
  PROVE  IInv'
<1>1. Clock' /\ Shape' /\ OfRows' /\ CouponCounted'
  BY DEF IInv, Clock, Shape, OfRows, CouponCounted, Recorded
<1>2. OfferedIsRecorded' /\ Begun'
  <2>1. \A e \in wire : e.sub \in Subs
    BY DEF IInv, Clock, Events
  <2> QED
    BY <2>1 DEF IInv, OfferedIsRecorded, Recorded, Steady, Begun, OfRows
<1>3. OneRedeems'
  BY DEF IInv, OneRedeems, CouponHeld
<1> QED
  BY <1>1, <1>2, <1>3 DEF IInv

(* The commit: one more row, and one more redemption if it carries one.    *)
LEMMA CommitKeeps ==
  ASSUME IInv, NEW s \in Subs, CommitCheckout(s)
  PROVE  IInv'
<1>i. /\ row \in [Subs -> Kept] /\ desk \in [Subs -> Desks] /\ redeemed \in Nat /\ desk[s] # Away
      /\ row[s] = NoRow
  BY Nothing DEF IInv, Shape, CommitCheckout, Away
<1>1. PICK r : r = [status |-> "approval_pending", listing |-> desk[s].listing, end |-> NoDate,
                    coupon |-> desk[s].coupon]
  OBVIOUS
<1>2. r \in Kept /\ r.status = "approval_pending" /\ r.coupon = desk[s].coupon
  BY <1>1, <1>i DEF Kept, Desks, Statuses, NoDate
<1>3. /\ row' = [row EXCEPT ![s] = r] /\ desk' = [desk EXCEPT ![s] = Away]
      /\ redeemed' = (IF desk[s].coupon THEN redeemed + 1 ELSE redeemed)
      /\ paypal' = [paypal EXCEPT ![s] = "offered"] /\ session' = session
  BY <1>1 DEF CommitCheckout
<1>4. /\ row' \in [Subs -> Kept] /\ row'[s] = r /\ \A o \in Subs \ {s} : row'[o] = row[o]
      /\ desk' \in [Subs -> Desks] /\ desk'[s] = Away /\ \A o \in Subs \ {s} : desk'[o] = desk[o]
      /\ redeemed' \in Nat
      /\ r # NoRow
  BY <1>2, <1>3, <1>i, Nothing DEF Desks
<1>5. Shape' /\ Clock'
  BY <1>2, <1>4 DEF IInv, Shape, Clock, CommitCheckout
<1>6. OfRows'
  BY <1>3, <1>4 DEF IInv, OfRows, Recorded
<1>7. OfferedIsRecorded' /\ Begun'
  <2>1. Told' /\ paypal'[s] = "offered" /\ \A o \in Subs \ {s} : paypal'[o] = paypal[o]
    BY <1>3 DEF IInv, OfferedIsRecorded, Told, Out
  <2>2. "offered" \in Out /\ Billed \subseteq Out
    BY DEF Out
  <2>3. OfferedIsRecorded'
    BY <2>1, <2>2, <1>4 DEF IInv, OfferedIsRecorded, Recorded
  <2>4. paypal[s] \notin Billed
    BY <2>2, <1>i DEF IInv, OfferedIsRecorded, Recorded
  <2>5. \A e \in wire : e.sub \in Subs /\ e.sub # s
    BY <2>4 DEF IInv, Clock, Events, Begun
  <2>6. r.end = NoDate /\ wire' = wire
    BY <1>1 DEF CommitCheckout
  <2> QED
    BY <2>1, <2>3, <2>4, <2>5, <2>6, <1>3, <1>4 DEF IInv, Begun, OfRows, Recorded
<1>8. OneRedeems'
  BY <1>3, <1>4, <1>i, Nothing, BillingAssumption DEF IInv, OneRedeems
<1>9. CouponCounted'
  <2>1. redeemed = Cardinality(Used) /\ redeemed <= MaxRedemptions /\ IsFiniteSet(Used)
    BY BillingAssumption, FS_Subset DEF IInv, CouponCounted, Used
  <2>2. s \notin Used
    BY <1>i, Nothing DEF Used
  <2>3. CASE desk[s].coupon
    <3>1. Used' = Used \cup {s}
      BY <2>3, <1>2, <1>4 DEF Used
    <3>2. Cardinality(Used \cup {s}) = Cardinality(Used) + 1
      BY <2>1, <2>2, FS_AddElement
    <3>3. redeemed < MaxRedemptions /\ redeemed' = redeemed + 1
      BY <2>3, <1>3 DEF IInv, OneRedeems
    <3>4. redeemed' = Cardinality(Used') /\ redeemed' <= MaxRedemptions
      BY <2>1, <3>1, <3>2, <3>3, <1>i, BillingAssumption
    <3> QED
      BY <3>4 DEF CouponCounted, Used
  <2>4. CASE ~desk[s].coupon
    <3>1. Used' = Used
      BY <2>4, <2>2, <1>2, <1>4 DEF Used
    <3> QED
      BY <2>1, <2>4, <3>1, <1>3 DEF CouponCounted, Used
  <2> QED
    BY <2>3, <2>4
<1> QED
  BY <1>5, <1>6, <1>7, <1>8, <1>9 DEF IInv

(* Applying an event changes the status and the end of a row that is there.*)
LEMMA DecideGives ==
  ASSUME Clock, NEW e \in Heard, e.type \in Types, NEW seen \in Kept, seen.status \in Statuses
  PROVE  Decide(e, seen).status \in Statuses /\ Decide(e, seen).end \in Nat
<1>1. NextEnd(e, seen.end) \in Nat /\ SaleEnd(e, seen.end) \in Nat
  BY BillingAssumption DEF NextEnd, SaleEnd, Clock, Heard, Kept
<1>2. {"active", "cancelled", "suspended", "expired", "past_due"} \subseteq Statuses
  BY DEF Statuses, Live
<1>3. seen.end \in Nat /\ seen.status \in Statuses
  BY DEF Kept
<1>4. CASE e.type \in {"ACTIVATED", "UPDATED", "FAILED", "SALE"}
  BY <1>1, <1>2, <1>3, <1>4 DEF Decide, Effect
<1>5. CASE e.type \in {"CANCELLED", "SUSPENDED", "EXPIRED"}
  BY <1>2, <1>3, <1>5 DEF Decide, Effect
<1> QED
  BY <1>4, <1>5 DEF Types, Ended

LEMMA ApplyKeeps ==
  ASSUME IInv, NEW k \in Sessions, Apply(k)
  PROVE  IInv'
<1>1. PICK s \in Subs : s = session[k].sub /\ row[s] # NoRow
  BY DEF IInv, OfRows, Recorded, Apply
<1>2. PICK d : d = Decide(session[k].event, session[k].seen) /\ d.status \in Statuses /\ d.end \in Nat
  BY DecideGives DEF IInv, OfRows, Open, Apply
<1>3. /\ row' = [row EXCEPT ![s].status = d.status, ![s].end = d.end]
      /\ session' = [session EXCEPT ![k] = Idle]
      /\ UNCHANGED <<desk, redeemed, paypal, now, paidTo>> /\ wire' \subseteq wire
  BY <1>1, <1>2 DEF Apply, world, shop
<1>4. /\ row' \in [Subs -> Kept] /\ row'[s].status \in Statuses /\ row'[s].coupon = row[s].coupon
      /\ \A o \in Subs \ {s} : row'[o] = row[o]
  <2>1. PICK r : r = [row[s] EXCEPT !.status = d.status, !.end = d.end]
    OBVIOUS
  <2>2. row \in [Subs -> Kept] /\ row[s] \in Kept
    BY DEF IInv, Shape
  <2>3. r \in Kept /\ r.status = d.status /\ r.coupon = row[s].coupon
    BY <1>2, <2>1, <2>2 DEF Kept
  <2>4. row' = [row EXCEPT ![s] = r]
    BY <1>3, <2>1, <2>2
  <2> QED
    BY <1>2, <2>2, <2>3, <2>4
<1>5. Shape' /\ Clock'
  BY <1>1, <1>3, <1>4, Nothing DEF IInv, Shape, Clock
<1>6. \A o \in Subs : Recorded(o) => Recorded(o)'
  BY <1>4, Nothing DEF Recorded
<1>7. OfferedIsRecorded' /\ Begun'
  <2>1. \A o \in Subs : Recorded(o)' => Recorded(o)
    BY <1>1, <1>4 DEF Recorded
  <2>2. paypal[s] \in Billed
    BY <1>1 DEF IInv, Begun, Apply
  <2>3. \A j \in Sessions : session'[j].pc # "idle" => session'[j] = session[j]
    BY <1>3, Nothing DEF IInv, OfRows
  <2> QED
    BY <2>1, <2>2, <2>3, <1>3, <1>4, <1>6 DEF IInv, OfferedIsRecorded, Told, Begun, Recorded
<1>8. OfRows'
  <2>1. \A j \in Sessions : session'[j].pc # "idle" => session'[j] = session[j]
    BY <1>3, Nothing DEF IInv, OfRows
  <2>2. session' \in [Sessions -> Open]
    BY <1>3, Nothing DEF IInv, OfRows
  <2> QED
    BY <2>1, <2>2, <1>6 DEF IInv, OfRows, Recorded
<1>9. OneRedeems' /\ CouponCounted'
  <2>1. Used' = Used
    BY <1>4 DEF Used
  <2> QED
    BY <2>1, <1>3 DEF IInv, OneRedeems, CouponCounted, Used
<1> QED
  BY <1>5, <1>7, <1>8, <1>9 DEF IInv

(* What a session has in hand when it starts, and what it hears.           *)
LEMMA SessionKeeps ==
  ASSUME IInv, UNCHANGED <<world, row, shop, wire>>, NEW k \in Sessions, NEW w \in Open,
         session' = [session EXCEPT ![k] = w],
         w.pc # "idle" => /\ w.sub \in Subs /\ Recorded(w.sub) /\ w.seen.status \in Statuses
                          /\ paypal[w.sub] \in Billed
                          /\ w.pc = "decided" => w.event.type \in Types
  PROVE  IInv'
<1>1. OfRows'
  BY DEF IInv, OfRows, Recorded
<1>2. UNCHANGED <<now, paypal, paidTo, row, desk, redeemed, wire>>
  BY DEF world, shop
<1>3. Begun'
  BY <1>2 DEF IInv, Begun, OfRows, Recorded
<1>4. Steady /\ Clock'
  BY <1>2 DEF IInv, Steady, OfferedIsRecorded, Told, Clock
<1> QED
  BY <1>1, <1>2, <1>3, <1>4, OutsideKeeps

LEMMA EventIs ==
  ASSUME Clock, NEW t \in Types, NEW s \in Subs, NEW next \in Nat, NEW live \in BOOLEAN
  PROVE  Event(t, s, next, live) \in Events /\ Event(t, s, next, live).type = t
BY DEF Event, Events, Clock

LEMMA NamedIs ==
  ASSUME NEW t, NEW s, NEW date, NEW d \in Named(t, s, date)
  PROVE  d \in {date, NoDate}
BY DEF Named

(* What PayPal answers of a billed subscription is an event about it.      *)
LEMMA AnswerIs ==
  ASSUME NEW s \in Subs, paypal[s] \in Billed, NEW e \in Answers(s)
  PROVE  \E t \in Types \ {"SALE"}, next \in {paidTo[s], NoDate}, live \in BOOLEAN : e = Event(t, s, next, live)
<1>1. "ACTIVATED" \in Types \ {"SALE"}
  BY DEF Types
<1>2. CASE paypal[s] = "ACTIVE"
  <2>1. PICK d \in Named("ACTIVATED", s, paidTo[s]) : e = Event("ACTIVATED", s, d, TRUE)
    BY <1>2 DEF Answers
  <2>2. d \in {paidTo[s], NoDate}
    BY <2>1, NamedIs
  <2> QED
    BY <1>1, <2>1, <2>2
<1>3. CASE paypal[s] # "ACTIVE"
  <2>1. paypal[s] \in Types \ {"SALE"}
    BY <1>3 DEF Billed, Types, Ended
  <2> QED
    BY <1>3, <2>1 DEF Answers
<1> QED
  BY <1>2, <1>3

(* A billed subscription moves at PayPal, which announces it.              *)
LEMMA MoveKeeps ==
  ASSUME IInv, NEW s \in Subs, Told', paypal[s] \in Out, paypal'[s] \in Billed,
         \A o \in Subs \ {s} : paypal'[o] = paypal[o],
         paidTo' \in [Subs -> Nat], UNCHANGED <<now, row, desk, redeemed, session>>,
         wire' \subseteq wire \cup {e \in Events : e.sub = s}
  PROVE  IInv'
<1>1. Clock' /\ OfRows'
  BY DEF IInv, Clock, OfRows, Recorded
<1>2. Steady
  BY DEF Steady, Out
<1>3. Begun'
  <2>1. \A o \in Subs : paypal[o] \in Billed => paypal'[o] \in Billed
    BY <1>2 DEF Steady
  <2>2. \A e \in wire : e.sub \in Subs
    BY DEF IInv, Clock, Events
  <2> QED
    BY <2>1, <2>2 DEF IInv, Begun, OfRows, Recorded
<1> QED
  BY <1>1, <1>2, <1>3, OutsideKeeps

LEMMA PayPalKeeps ==
  ASSUME IInv, NEW s \in Subs,
         \/ BuyerApproves(s) \/ ChargeRenewal(s) \/ ChargeFails(s) \/ PayPalUpdates(s)
         \/ \E how \in Ended : PayPalEnds(s, how)
  PROVE  IInv'
<1>i. Clock /\ Told
  BY DEF IInv, OfferedIsRecorded
<1>1. UNCHANGED <<now, row, desk, redeemed, session>>
  BY DEF BuyerApproves, ChargeRenewal, ChargeFails, PayPalUpdates, PayPalEnds, world, shop
<1>2. /\ now + Interval \in Nat /\ paidTo \in [Subs -> Nat] /\ paidTo[s] \in Nat /\ NoDate \in Nat
      /\ paidTo[s] + Interval \in Nat
  BY <1>i, BillingAssumption DEF Clock, NoDate
<1>3. ASSUME NEW t \in Types, NEW live \in BOOLEAN, NEW next \in {now + Interval, paidTo[s], paidTo[s] + Interval, NoDate}
      PROVE  Event(t, s, next, live) \in {e \in Events : e.sub = s}
  BY <1>2, <1>3, <1>i, EventIs DEF Event
<1>4. {"ACTIVATED", "UPDATED", "FAILED", "SALE"} \cup Ended \subseteq Types
  BY DEF Types
<1>5. /\ "offered" \in Out /\ Billed \subseteq Out
      /\ "ACTIVE" \in Billed /\ "SUSPENDED" \in Billed /\ Ended \subseteq Billed
  BY DEF Out, Billed, Ended
<1>6. CASE BuyerApproves(s)
  <2>1. /\ paypal[s] = "offered" /\ paypal' = [paypal EXCEPT ![s] = "ACTIVE"]
        /\ paidTo' = [paidTo EXCEPT ![s] = now + Interval]
        /\ \E next, due \in {now + Interval, NoDate} :
             wire' \subseteq wire \cup {Event("ACTIVATED", s, next, TRUE), Event("SALE", s, due, TRUE)}
    <3>1. PICK next \in Named("ACTIVATED", s, now + Interval), due \in Named("SALE", s, now + Interval) :
            \E charged \in SUBSET {Event("SALE", s, due, TRUE)} :
              wire' = wire \cup ({Event("ACTIVATED", s, next, TRUE)} \cup charged)
      BY <1>6 DEF BuyerApproves, Sent
    <3>2. next \in {now + Interval, NoDate} /\ due \in {now + Interval, NoDate}
      BY <3>1, NamedIs
    <3>3. wire' \subseteq wire \cup {Event("ACTIVATED", s, next, TRUE), Event("SALE", s, due, TRUE)}
      BY <3>1
    <3> QED
      BY <1>6, <3>2, <3>3 DEF BuyerApproves
  <2>2. wire' \subseteq wire \cup {e \in Events : e.sub = s}
    <3>1. PICK next \in {now + Interval, NoDate}, due \in {now + Interval, NoDate} :
            wire' \subseteq wire \cup {Event("ACTIVATED", s, next, TRUE), Event("SALE", s, due, TRUE)}
      BY <2>1
    <3>2. /\ Event("ACTIVATED", s, next, TRUE) \in {e \in Events : e.sub = s}
          /\ Event("SALE", s, due, TRUE) \in {e \in Events : e.sub = s}
      BY <1>3, <1>4
    <3> QED
      BY <3>1, <3>2
  <2>3. /\ Told' /\ paypal'[s] \in Billed /\ \A o \in Subs \ {s} : paypal'[o] = paypal[o]
        /\ paidTo' \in [Subs -> Nat]
    BY <2>1, <1>2, <1>5, <1>i DEF Told
  <2> QED
    BY <2>1, <2>2, <2>3, <1>1, <1>5, MoveKeeps
<1>7. CASE ChargeRenewal(s) \/ ChargeFails(s) \/ PayPalUpdates(s)
  <2>1. /\ paypal[s] \in {"ACTIVE", "SUSPENDED"} /\ paypal' = paypal
        /\ paidTo' = paidTo \/ paidTo' = [paidTo EXCEPT ![s] = paidTo[s] + Interval]
        /\ \E t \in {"UPDATED", "FAILED", "SALE"}, live \in BOOLEAN,
             next \in {paidTo[s], paidTo[s] + Interval, NoDate} : wire' = wire \cup {Event(t, s, next, live)}
    <3>1. CASE ChargeRenewal(s)
      <4>1. PICK d \in Named("SALE", s, paidTo[s] + Interval) : wire' = wire \cup {Event("SALE", s, d, TRUE)}
        BY <3>1 DEF ChargeRenewal, Sent
      <4>2. d \in {paidTo[s] + Interval, NoDate}
        BY <4>1, NamedIs
      <4> QED
        BY <3>1, <4>1, <4>2 DEF ChargeRenewal
    <3>2. CASE ChargeFails(s)
      <4>1. PICK d \in Named("FAILED", s, paidTo[s]) : wire' = wire \cup {Event("FAILED", s, d, TRUE)}
        BY <3>2 DEF ChargeFails, Sent
      <4>2. d \in {paidTo[s], NoDate}
        BY <4>1, NamedIs
      <4> QED
        BY <3>2, <4>1, <4>2 DEF ChargeFails
    <3>3. CASE PayPalUpdates(s)
      <4>1. PICK d \in Named("UPDATED", s, paidTo[s]) : wire' = wire \cup {Event("UPDATED", s, d, paypal[s] = "ACTIVE")}
        BY <3>3 DEF PayPalUpdates, Sent
      <4>2. d \in {paidTo[s], NoDate} /\ (paypal[s] = "ACTIVE") \in BOOLEAN
        BY <4>1, NamedIs
      <4> QED
        BY <3>3, <4>1, <4>2 DEF PayPalUpdates, world
    <3> QED
      BY <1>7, <3>1, <3>2, <3>3
  <2>2. wire' \subseteq wire \cup {e \in Events : e.sub = s}
    BY <2>1, <1>3, <1>4
  <2>3. paidTo' \in [Subs -> Nat]
    BY <2>1, <1>2
  <2> QED
    BY <2>1, <2>2, <2>3, <1>1, <1>5, <1>i, MoveKeeps DEF Told
<1>8. CASE \E how \in Ended : PayPalEnds(s, how)
  <2>1. PICK how \in Ended : /\ paypal[s] \in {"ACTIVE", "SUSPENDED"}
                             /\ paypal' = [paypal EXCEPT ![s] = how] /\ paidTo' = paidTo
                             /\ wire' = wire \cup {Event(how, s, NoDate, FALSE)}
    BY <1>8 DEF PayPalEnds, Sent
  <2>2. wire' \subseteq wire \cup {e \in Events : e.sub = s}
    BY <2>1, <1>3, <1>4
  <2>3. Told' /\ paypal'[s] \in Billed /\ \A o \in Subs \ {s} : paypal'[o] = paypal[o]
    BY <2>1, <1>5, <1>i DEF Told
  <2> QED
    BY <2>1, <2>2, <2>3, <1>1, <1>2, <1>5, MoveKeeps
<1> QED
  BY <1>6, <1>7, <1>8

LEMMA CheckoutKeeps ==
  ASSUME IInv, NEW s \in Subs,
         \/ \E l \in Listings : OpenCheckout(s, l)
         \/ PayFullPrice(s) \/ RedeemCoupon(s) \/ CreateAtPayPal(s) \/ CheckoutFails(s)
  PROVE  IInv'
<1>i. desk \in [Subs -> Desks] /\ (desk[s] # Away => row[s] = NoRow)
  BY DEF IInv, Shape
<1>1. UNCHANGED <<now, paidTo, row, redeemed, wire, session>> /\ row[s] = NoRow
  BY <1>i DEF OpenCheckout, PayFullPrice, RedeemCoupon, CreateAtPayPal, CheckoutFails, world, Recorded, Away
<1>2. Steady
  <2>1. Told /\ paypal[s] \notin Out /\ Billed \subseteq Out /\ {"created", "lost"} \cap Out = {}
    BY <1>1 DEF IInv, OfferedIsRecorded, Recorded, Out, Billed, Ended
  <2>2. paypal' = paypal \/ \E x \in {"created", "lost"} : paypal' = [paypal EXCEPT ![s] = x]
    BY DEF OpenCheckout, PayFullPrice, RedeemCoupon, CreateAtPayPal, CheckoutFails, world
  <2> QED
    BY <2>1, <2>2 DEF Steady, Told
<1>3. CASE \E l \in Listings : OpenCheckout(s, l)
  <2>1. PICK l \in Listings : desk' = [desk EXCEPT ![s] = [pc |-> "listed", listing |-> l, coupon |-> FALSE]]
    BY <1>3 DEF OpenCheckout
  <2>2. PICK w : w = [pc |-> "listed", listing |-> l, coupon |-> FALSE]
    OBVIOUS
  <2>3. w \in Desks /\ ~w.coupon
    BY <2>2 DEF Desks
  <2>4. desk' \in [Subs -> Desks] /\ desk'[s] = w /\ \A o \in Subs \ {s} : desk'[o] = desk[o]
    BY <2>1, <2>2, <2>3, <1>i
  <2> QED
    BY <2>3, <2>4, <1>1, <1>2, DeskKeeps
<1>4. CASE PayFullPrice(s) \/ CreateAtPayPal(s)
  <2>1. PICK pc \in {"priced", "created"} : desk' = [desk EXCEPT ![s].pc = pc]
    BY <1>4 DEF PayFullPrice, CreateAtPayPal
  <2>2. desk' \in [Subs -> Desks] /\ desk'[s].coupon = desk[s].coupon /\ \A o \in Subs \ {s} : desk'[o] = desk[o]
    BY <2>1, <1>i DEF Desks
  <2> QED
    BY <2>2, <1>1, <1>2, DeskKeeps
<1>5. CASE RedeemCoupon(s)
  <2>1. /\ desk' = [desk EXCEPT ![s].pc = "priced", ![s].coupon = TRUE]
        /\ redeemed < MaxRedemptions /\ ~CouponHeld
    BY <1>5 DEF RedeemCoupon
  <2>2. desk' \in [Subs -> Desks] /\ \A o \in Subs \ {s} : desk'[o] = desk[o]
    BY <2>1, <1>i DEF Desks
  <2> QED
    BY <2>1, <2>2, <1>1, <1>2, DeskKeeps
<1>6. CASE CheckoutFails(s)
  <2>1. desk' \in [Subs -> Desks] /\ desk'[s] = Away /\ \A o \in Subs \ {s} : desk'[o] = desk[o]
    BY <1>6, <1>i, Nothing DEF CheckoutFails
  <2> QED
    BY <2>1, <1>1, <1>2, Nothing, DeskKeeps
<1> QED
  BY <1>3, <1>4, <1>5, <1>6

(* Checkouts, PayPal's moves, events and answers keep the invariant.       *)
THEOREM Consecution == IInv /\ [Next]_vars => IInv'
<1> SUFFICES ASSUME IInv, [Next]_vars PROVE IInv'
  OBVIOUS
<1>i. Clock /\ Shape /\ OfRows /\ OfferedIsRecorded /\ Begun
  BY DEF IInv
<1>1. ASSUME NEW k \in Sessions, NEW e \in wire, Deliver(k, e) PROVE IInv'
  <2>1. PICK w : w = [pc |-> "decided", sub |-> e.sub, seen |-> row[e.sub], event |-> e]
    OBVIOUS
  <2>2. e \in Events /\ e \in Heard /\ e.sub \in Subs /\ e.type \in Types
    BY <1>i, Nothing DEF Clock, Events
  <2>3. row[e.sub] \in Kept /\ row[e.sub].status \in Statuses
    BY <1>1, <2>2, <1>i DEF Deliver, Recorded, Shape, Kept
  <2>4. w \in Open /\ paypal[e.sub] \in Billed
    BY <2>1, <2>2, <2>3, <1>i DEF Open, Begun
  <2> QED
    BY <1>1, <2>1, <2>2, <2>3, <2>4, SessionKeeps DEF Deliver
<1>2. ASSUME NEW k \in Sessions, NEW s \in Subs, OpenReturnPage(k, s) \/ SyncAsks(k, s) PROVE IInv'
  <2>1. PICK w : w = [pc |-> "asking", sub |-> s, seen |-> row[s], event |-> NoEvent]
    OBVIOUS
  <2>2. Recorded(s) /\ session' = [session EXCEPT ![k] = w] /\ UNCHANGED <<world, row, shop, wire>>
    BY <1>2, <2>1 DEF OpenReturnPage, SyncAsks, Ask, shop
  <2>3. row[s] \in Kept /\ row[s].status \in Statuses
    BY <2>2, <1>i DEF Recorded, Shape, Kept
  <2>4. w \in Open
    BY <2>1, <2>3, Nothing DEF Open
  <2>5. paypal[s] \in Billed
    BY <1>2, <2>2, <1>i DEF OpenReturnPage, SyncAsks, Stale, OfferedIsRecorded, Begun, Out
  <2> QED
    BY <2>1, <2>2, <2>3, <2>4, <2>5, SessionKeeps
<1>3. ASSUME NEW k \in Sessions, PayPalAnswers(k) PROVE IInv'
  <2>1. PICK s \in Subs : s = session[k].sub /\ paypal[s] \in Billed
    BY <1>3, <1>i DEF PayPalAnswers, OfRows, Begun
  <2>2. PICK e \in Answers(s) : session' = [session EXCEPT ![k].pc = "decided", ![k].event = e]
    BY <1>3, <2>1 DEF PayPalAnswers
  <2>2a. e \in Heard /\ e.type \in Types
    <3>1. PICK t \in Types, next \in {paidTo[s], NoDate}, live \in BOOLEAN : e = Event(t, s, next, live)
      BY <2>1, AnswerIs
    <3>2. next \in Nat
      BY <1>i DEF Clock, NoDate
    <3> QED
      BY <3>1, <3>2, <1>i, EventIs, Nothing
  <2>3. PICK w : w = [session[k] EXCEPT !.pc = "decided", !.event = e]
    OBVIOUS
  <2>4. /\ w \in Open /\ w.sub = s /\ w.seen = session[k].seen /\ w.event.type \in Types
        /\ Recorded(s) /\ session[k].seen.status \in Statuses
    <3>1. session[k].pc = "asking" /\ session[k] \in Open
      BY <1>3, <1>i DEF OfRows, PayPalAnswers
    <3>2. w \in Open /\ w.sub = s /\ w.seen = session[k].seen /\ w.event = e
      BY <2>1, <2>2a, <2>3, <3>1 DEF Open
    <3>3. Recorded(s) /\ session[k].seen.status \in Statuses
      BY <2>1, <3>1, <1>i DEF OfRows
    <3> QED
      BY <2>2a, <3>2, <3>3
  <2>5. session' = [session EXCEPT ![k] = w] /\ UNCHANGED <<world, row, shop, wire>>
    BY <1>3, <2>2, <2>3, <1>i DEF PayPalAnswers, OfRows, shop
  <2> QED
    BY <2>1, <2>4, <2>5, SessionKeeps
<1>4. ASSUME NEW k \in Sessions, PayPalSilent(k) PROVE IInv'
  BY <1>4, Nothing, SessionKeeps DEF PayPalSilent, shop
<1>5. CASE AdvanceClock
  <2>1. UNCHANGED <<paypal, paidTo, row, desk, redeemed, session>> /\ now' = now + 1 /\ wire' \subseteq wire
    BY <1>5 DEF AdvanceClock, shop
  <2>2. OfRows' /\ Clock' /\ Begun' /\ Steady
    BY <2>1, <1>i DEF OfRows, Recorded, Clock, Begun, Steady, OfferedIsRecorded, Told
  <2> QED
    BY <2>1, <2>2, OutsideKeeps
<1>6. CASE UNCHANGED vars
  <2>1. OfRows' /\ Clock' /\ Begun' /\ Steady
    BY <1>6, <1>i DEF OfRows, Recorded, Clock, Begun, Steady, OfferedIsRecorded, Told, vars, world
  <2> QED
    BY <1>6, <2>1, OutsideKeeps DEF vars, world, shop
<1> QED
  BY <1>1, <1>2, <1>3, <1>4, <1>5, <1>6, ApplyKeeps, CommitKeeps, CheckoutKeeps, PayPalKeeps DEF Next

(* Every reachable state of billing satisfies the invariant.               *)
THEOREM Invariance == Spec => []IInv
  BY Initially, Consecution, PTL DEF Spec

(* A limited coupon is never used more often than agreed, and its count is *)
(* exactly the rows that carry it, however many checkouts want it at once. *)
THEOREM CouponsCount == Spec => []CouponCounted
<1>1. IInv => CouponCounted
  BY DEF IInv
<1> QED
  BY <1>1, Invariance, PTL

(* PayPal bills nobody this site has no row of, wherever a checkout fails. *)
THEOREM NobodyUnknownIsBilled == Spec => []BilledIsRecorded
<1>1. IInv => BilledIsRecorded
  BY DEF IInv, OfferedIsRecorded, BilledIsRecorded, Out
<1> QED
  BY <1>1, Invariance, PTL

-----------------------------------------------------------------------------
(* How far ahead a row's end may be.  A row's end, and what a session has  *)
(* read of it, is at the end of the period paid for at PayPal or of the    *)
(* one before, or late by no more than the lateness of a charge and of its *)
(* event, or older still: what lies between is never written.  That is why *)
(* a sale event, which adds an interval to an end that is near or past,    *)
(* cannot add one to a period that was not paid for.                       *)
Fit(end, p) ==
  \/ end = NoDate
  \/ p <= end /\ end <= p + 2 * Window
  \/ p - Interval <= end /\ end <= p - Interval + 2 * Window
  \/ end <= p - 2 * Interval + 2 * Window

(* An event under way is no older than PayPal redelivers it, names the end *)
(* of a period that was paid for, and a sale's was paid for when it came.  *)
NextFits(next, p) == next = NoDate \/ next = p \/ next = p - Interval \/ next <= p - 2 * Interval

Due(e, p, t) ==
  /\ NextFits(e.next, p)
  /\ t <= e.born + Window
  /\ e.type = "SALE" => e.born + Interval <= p + Window

(* A charge falls due on its day and is retried for Window.                *)
Charged ==
  \A s \in Subs : paypal[s] \in Billed =>
    paidTo[s] <= now + Interval /\ (paypal[s] = "ACTIVE" => now <= paidTo[s] + Window)

RowsFit == \A s \in Subs : Recorded(s) => Fit(row[s].end, paidTo[s])

WireDue == \A e \in wire : Due(e, paidTo[e.sub], now)

SessionsFit ==
  \A k \in Sessions : session[k].pc # "idle" =>
    /\ Fit(session[k].seen.end, paidTo[session[k].sub])
    /\ session[k].pc = "decided" =>
         session[k].event.sub = session[k].sub /\ Due(session[k].event, paidTo[session[k].sub], now)

Periods == Charged /\ RowsFit /\ WireDue /\ SessionsFit

LEMMA Lengths == Interval \in Nat /\ Window \in Nat /\ Interval > 3 * Window /\ NoDate = 0
BY BillingAssumption DEF NoDate

LEMMA Numbers ==
  ASSUME IInv
  PROVE  /\ now \in Nat /\ wire \subseteq Events
         /\ \A s \in Subs : paidTo[s] \in Nat /\ row[s].end \in Nat
         /\ \A k \in Sessions : /\ session[k] \in Open /\ session[k].seen.end \in Nat
                                /\ session[k].event \in Heard
                                /\ session[k].pc # "idle" => session[k].sub \in Subs
BY DEF IInv, Clock, Shape, OfRows, Kept, Open

(* What fits one period still fits when one more is paid for.              *)
LEMMA FitsLater ==
  ASSUME NEW p \in Nat, NEW q \in Nat, q = p \/ q = p + Interval
  PROVE  /\ \A end \in Nat : Fit(end, p) => Fit(end, q)
         /\ \A next \in Nat : NextFits(next, p) => NextFits(next, q)
BY Lengths DEF Fit, NextFits

LEMMA DueLater ==
  ASSUME NEW p \in Nat, NEW q \in Nat, q = p \/ q = p + Interval, NEW e \in Heard, NEW t \in Nat,
         Due(e, p, t)
  PROVE  Due(e, q, t)
<1>1. e.next \in Nat /\ e.born \in Nat
  BY DEF Heard
<1>2. NextFits(e.next, q)
  BY <1>1, FitsLater DEF Due
<1>3. e.type = "SALE" => e.born + Interval <= q + Window
  BY <1>1, Lengths DEF Due
<1> QED
  BY <1>2, <1>3 DEF Due

(* An event about the present: it names no date, or the period's end.      *)
LEMMA FreshIsDue ==
  ASSUME IInv, NEW t \in Types, NEW s \in Subs, NEW p \in Nat, NEW next \in {p, NoDate}, NEW live \in BOOLEAN,
         t = "SALE" => now + Interval <= p + Window
  PROVE  Due(Event(t, s, next, live), p, now)
<1>1. now \in Nat /\ now <= now + Window
  BY Numbers, Lengths
<1> QED
  BY <1>1 DEF Event, Due, NextFits

(* A step that is not a session's: rows keep their end or have none, and a *)
(* subscription that is billed is paid to where it was, or for one more.   *)
LEMMA PeriodsKeep ==
  ASSUME IInv, IInv', Periods, now' = now, Charged', UNCHANGED session,
         \A s \in Subs : paypal[s] \in Billed => paidTo'[s] = paidTo[s] \/ paidTo'[s] = paidTo[s] + Interval,
         \A s \in Subs : Recorded(s)' => row'[s].end = NoDate \/ (Recorded(s) /\ row'[s].end = row[s].end),
         \A e \in wire' : e \in wire \/ Due(e, paidTo'[e.sub], now)
  PROVE  Periods'
<1>1. /\ \A s \in Subs : paidTo[s] \in Nat /\ paidTo'[s] \in Nat /\ row[s].end \in Nat
      /\ now \in Nat
  BY Numbers DEF IInv, Clock
<1>2. RowsFit'
  <2> SUFFICES ASSUME NEW s \in Subs, Recorded(s)' PROVE Fit(row'[s].end, paidTo'[s])
    BY DEF RowsFit
  <2>1. CASE row'[s].end = NoDate
    BY <2>1 DEF Fit
  <2>2. CASE row'[s].end # NoDate
    <3>1. Recorded(s) /\ row'[s].end = row[s].end /\ paypal[s] \in Billed
      BY <2>2 DEF IInv, Begun
    <3> QED
      BY <1>1, <3>1, FitsLater DEF Periods, RowsFit
  <2> QED
    BY <2>1, <2>2
<1>3. WireDue'
  <2> SUFFICES ASSUME NEW e \in wire' PROVE Due(e, paidTo'[e.sub], now)
    BY DEF WireDue
  <2>1. CASE e \in wire
    <3>1. e \in Heard /\ e.sub \in Subs /\ paypal[e.sub] \in Billed
      BY <2>1, Nothing, Numbers DEF Events, IInv, Begun
    <3> QED
      BY <2>1, <3>1, <1>1, DueLater DEF Periods, WireDue
  <2> QED
    BY <2>1
<1>4. SessionsFit'
  <2> SUFFICES ASSUME NEW k \in Sessions, session[k].pc # "idle"
               PROVE  /\ Fit(session[k].seen.end, paidTo'[session[k].sub])
                      /\ session[k].pc = "decided" =>
                           /\ session[k].event.sub = session[k].sub
                           /\ Due(session[k].event, paidTo'[session[k].sub], now)
    BY DEF SessionsFit
  <2>1. PICK s \in Subs : s = session[k].sub /\ paypal[s] \in Billed
    BY Numbers DEF IInv, Begun
  <2>2. session[k].seen.end \in Nat /\ session[k].event \in Heard
    BY Numbers
  <2>3. Fit(session[k].seen.end, paidTo[s])
    BY <2>1 DEF Periods, SessionsFit
  <2>4. Fit(session[k].seen.end, paidTo'[s])
    BY <1>1, <2>1, <2>2, <2>3, FitsLater
  <2>5. session[k].pc = "decided" => session[k].event.sub = s /\ Due(session[k].event, paidTo[s], now)
    BY <2>1 DEF Periods, SessionsFit
  <2>6. session[k].pc = "decided" => Due(session[k].event, paidTo'[s], now)
    BY <1>1, <2>1, <2>2, <2>5, DueLater
  <2> QED
    BY <2>1, <2>4, <2>5, <2>6
<1> QED
  BY <1>2, <1>3, <1>4 DEF Periods

(* A checkout bills nobody, and its row has no end yet.                    *)
LEMMA CheckoutFits ==
  ASSUME IInv, IInv', Periods, NEW s \in Subs,
         \/ \E l \in Listings : OpenCheckout(s, l)
         \/ PayFullPrice(s) \/ RedeemCoupon(s) \/ CreateAtPayPal(s) \/ CommitCheckout(s) \/ CheckoutFails(s)
  PROVE  Periods'
<1>1. UNCHANGED <<now, paidTo, wire, session>>
  BY DEF OpenCheckout, PayFullPrice, RedeemCoupon, CreateAtPayPal, CommitCheckout, CheckoutFails, world
<1>2. \A o \in Subs : paypal'[o] = paypal[o] \/ paypal'[o] \in {"created", "lost", "offered"}
  <2>1. paypal \in [Subs -> {"none", "created", "lost"} \cup Out]
    BY DEF IInv, OfferedIsRecorded, Told
  <2>2. paypal' = paypal \/ \E x \in {"created", "lost", "offered"} : paypal' = [paypal EXCEPT ![s] = x]
    BY DEF OpenCheckout, PayFullPrice, RedeemCoupon, CreateAtPayPal, CommitCheckout, CheckoutFails, world
  <2> QED
    BY <2>1, <2>2
<1>3. Charged'
  <2>1. {"created", "lost", "offered"} \cap Billed = {} /\ "ACTIVE" \notin {"created", "lost", "offered"}
    BY DEF Billed, Ended
  <2> QED
    BY <2>1, <1>1, <1>2 DEF Periods, Charged
<1>4. \A o \in Subs : Recorded(o)' => row'[o].end = NoDate \/ (Recorded(o) /\ row'[o].end = row[o].end)
  <2>1. CASE row' = row
    BY <2>1 DEF Recorded
  <2>2. CASE CommitCheckout(s)
    <3>1. row \in [Subs -> Kept]
      BY DEF IInv, Shape
    <3>2. row'[s].end = NoDate /\ \A o \in Subs \ {s} : row'[o] = row[o]
      BY <2>2, <3>1 DEF CommitCheckout
    <3> QED
      BY <3>2 DEF Recorded
  <2> QED
    BY <2>1, <2>2 DEF OpenCheckout, PayFullPrice, RedeemCoupon, CreateAtPayPal, CheckoutFails
<1> QED
  BY <1>1, <1>3, <1>4, PeriodsKeep

(* PayPal announces a period that has begun, and one that it has charged.  *)
LEMMA PayPalFits ==
  ASSUME IInv, IInv', Periods, NEW s \in Subs,
         \/ BuyerApproves(s) \/ ChargeRenewal(s) \/ ChargeFails(s) \/ PayPalUpdates(s)
         \/ \E how \in Ended : PayPalEnds(s, how)
  PROVE  Periods'
<1>1. UNCHANGED <<now, row, session>> /\ now \in Nat /\ paidTo \in [Subs -> Nat] /\ paidTo[s] \in Nat
  BY DEF BuyerApproves, ChargeRenewal, ChargeFails, PayPalUpdates, PayPalEnds, world, shop, IInv, Clock
<1>2. \A o \in Subs : Recorded(o)' => row'[o].end = NoDate \/ (Recorded(o) /\ row'[o].end = row[o].end)
  BY <1>1 DEF Recorded
<1>3. paypal \in [Subs -> {"none", "created", "lost"} \cup Out] /\ "offered" \notin Billed /\ "ACTIVE" \in Billed
  BY DEF IInv, OfferedIsRecorded, Told, Billed, Ended
<1>4. {"ACTIVATED", "UPDATED", "FAILED", "SALE"} \cup Ended \subseteq Types /\ "SALE" \notin Ended
  BY DEF Types, Ended
<1>5. \A t \in Types, next \in Nat, live \in BOOLEAN : Event(t, s, next, live).sub = s
  BY DEF Event
<1>6. CASE BuyerApproves(s)
  <2>1. /\ paypal[s] = "offered" /\ paypal' = [paypal EXCEPT ![s] = "ACTIVE"]
        /\ paidTo' = [paidTo EXCEPT ![s] = now + Interval]
        /\ \E next, due \in {now + Interval, NoDate} :
             wire' \subseteq wire \cup {Event("ACTIVATED", s, next, TRUE), Event("SALE", s, due, TRUE)}
    <3>1. PICK next \in Named("ACTIVATED", s, now + Interval), due \in Named("SALE", s, now + Interval) :
            \E charged \in SUBSET {Event("SALE", s, due, TRUE)} :
              wire' = wire \cup ({Event("ACTIVATED", s, next, TRUE)} \cup charged)
      BY <1>6 DEF BuyerApproves, Sent
    <3>2. next \in {now + Interval, NoDate} /\ due \in {now + Interval, NoDate}
      BY <3>1, NamedIs
    <3>3. wire' \subseteq wire \cup {Event("ACTIVATED", s, next, TRUE), Event("SALE", s, due, TRUE)}
      BY <3>1
    <3> QED
      BY <1>6, <3>2, <3>3 DEF BuyerApproves
  <2>1a. PICK next \in {now + Interval, NoDate}, due \in {now + Interval, NoDate} :
           wire' \subseteq wire \cup {Event("ACTIVATED", s, next, TRUE), Event("SALE", s, due, TRUE)}
    BY <2>1
  <2>2. now + Interval \in Nat /\ paidTo'[s] = now + Interval /\ NoDate \in Nat
    BY <2>1, <1>1, Lengths
  <2>3. /\ Due(Event("ACTIVATED", s, next, TRUE), now + Interval, now)
        /\ Due(Event("SALE", s, due, TRUE), now + Interval, now)
    <3>1. "ACTIVATED" \in Types /\ "SALE" \in Types /\ "ACTIVATED" # "SALE"
      BY <1>4
    <3>2. now + Interval <= now + Interval + Window
      BY <1>1, Lengths
    <3>3. Due(Event("ACTIVATED", s, next, TRUE), now + Interval, now)
      BY <2>2, <3>1, FreshIsDue
    <3>4. Due(Event("SALE", s, due, TRUE), now + Interval, now)
      BY <2>2, <3>1, <3>2, FreshIsDue
    <3> QED
      BY <3>3, <3>4
  <2>3a. \A x \in Nat : Event("ACTIVATED", s, x, TRUE).sub = s /\ Event("SALE", s, x, TRUE).sub = s
    BY <1>4, <1>5
  <2>4. \A e \in wire' : e \in wire \/ Due(e, paidTo'[e.sub], now)
    BY <2>1a, <2>2, <2>3, <2>3a
  <2>5. \A o \in Subs : paypal[o] \in Billed => paidTo'[o] = paidTo[o]
    BY <2>1, <1>1, <1>3
  <2>6. Charged'
    <3> SUFFICES ASSUME NEW o \in Subs, paypal'[o] \in Billed
                 PROVE  paidTo'[o] <= now + Interval /\ (paypal'[o] = "ACTIVE" => now <= paidTo'[o] + Window)
      BY <1>1 DEF Charged
    <3>1. CASE o = s
      BY <3>1, <2>2, <1>1, Lengths
    <3>2. CASE o # s
      BY <3>2, <2>1, <1>1, <1>3 DEF Periods, Charged
    <3> QED
      BY <3>1, <3>2
  <2> QED
    BY <1>1, <1>2, <2>4, <2>5, <2>6, PeriodsKeep
<1>7. CASE ChargeRenewal(s)
  <2>1. /\ paypal[s] = "ACTIVE" /\ paidTo[s] <= now /\ paypal' = paypal
        /\ paidTo' = [paidTo EXCEPT ![s] = paidTo[s] + Interval]
        /\ \E due \in {paidTo[s] + Interval, NoDate} : wire' = wire \cup {Event("SALE", s, due, TRUE)}
    <3>1. PICK d \in Named("SALE", s, paidTo[s] + Interval) : wire' = wire \cup {Event("SALE", s, d, TRUE)}
      BY <1>7 DEF ChargeRenewal, Sent
    <3>2. d \in {paidTo[s] + Interval, NoDate}
      BY <3>1, NamedIs
    <3> QED
      BY <1>7, <3>1, <3>2 DEF ChargeRenewal
  <2>1a. PICK due \in {paidTo[s] + Interval, NoDate} : wire' = wire \cup {Event("SALE", s, due, TRUE)}
    BY <2>1
  <2>2. /\ paidTo[s] + Interval \in Nat /\ paidTo'[s] = paidTo[s] + Interval /\ NoDate \in Nat
        /\ now <= paidTo[s] + Window
    BY <2>1, <1>1, <1>3, Lengths DEF Periods, Charged
  <2>3. Due(Event("SALE", s, due, TRUE), paidTo'[s], now)
    <3>1. now + Interval <= paidTo[s] + Interval + Window
      BY <2>2, <1>1, Lengths
    <3> QED
      BY <3>1, <2>2, <1>4, FreshIsDue
  <2>4. \A e \in wire' : e \in wire \/ Due(e, paidTo'[e.sub], now)
    BY <2>1a, <2>2, <2>3, <1>4, <1>5
  <2>5. \A o \in Subs : paypal[o] \in Billed => paidTo'[o] = paidTo[o] \/ paidTo'[o] = paidTo[o] + Interval
    BY <2>1, <1>1
  <2>6. Charged'
    <3> SUFFICES ASSUME NEW o \in Subs, paypal'[o] \in Billed
                 PROVE  paidTo'[o] <= now + Interval /\ (paypal'[o] = "ACTIVE" => now <= paidTo'[o] + Window)
      BY <1>1 DEF Charged
    <3>1. CASE o = s
      BY <3>1, <2>1, <2>2, <1>1, Lengths
    <3>2. CASE o # s
      BY <3>2, <2>1, <1>1 DEF Periods, Charged
    <3> QED
      BY <3>1, <3>2
  <2> QED
    BY <1>1, <1>2, <2>4, <2>5, <2>6, PeriodsKeep
<1>8. CASE ChargeFails(s) \/ PayPalUpdates(s) \/ \E how \in Ended : PayPalEnds(s, how)
  <2>1. /\ paidTo' = paidTo
        /\ \E t \in {"UPDATED", "FAILED"} \cup Ended, live \in BOOLEAN, next \in {paidTo[s], NoDate} :
             wire' = wire \cup {Event(t, s, next, live)}
    <3>1. CASE ChargeFails(s)
      <4>1. PICK d \in Named("FAILED", s, paidTo[s]) : wire' = wire \cup {Event("FAILED", s, d, TRUE)}
        BY <3>1 DEF ChargeFails, Sent
      <4>2. d \in {paidTo[s], NoDate}
        BY <4>1, NamedIs
      <4> QED
        BY <3>1, <4>1, <4>2 DEF ChargeFails
    <3>2. CASE PayPalUpdates(s)
      <4>1. PICK d \in Named("UPDATED", s, paidTo[s]) : wire' = wire \cup {Event("UPDATED", s, d, paypal[s] = "ACTIVE")}
        BY <3>2 DEF PayPalUpdates, Sent
      <4>2. d \in {paidTo[s], NoDate} /\ (paypal[s] = "ACTIVE") \in BOOLEAN
        BY <4>1, NamedIs
      <4> QED
        BY <3>2, <4>1, <4>2 DEF PayPalUpdates, world
    <3>3. CASE \E how \in Ended : PayPalEnds(s, how)
      BY <3>3 DEF PayPalEnds, Sent
    <3> QED
      BY <1>8, <3>1, <3>2, <3>3
  <2>2. NoDate \in Nat
    BY Lengths
  <2>3. PICK t \in {"UPDATED", "FAILED"} \cup Ended, live \in BOOLEAN, next \in {paidTo[s], NoDate} :
             wire' = wire \cup {Event(t, s, next, live)}
    BY <2>1
  <2>4. t \in Types /\ t # "SALE" /\ next \in Nat
    BY <1>1, <1>4, <2>2
  <2>5. Due(Event(t, s, next, live), paidTo[s], now) /\ Event(t, s, next, live).sub = s
    BY <2>4, <1>1, <1>5, FreshIsDue
  <2>6. \A e \in wire' : e \in wire \/ Due(e, paidTo'[e.sub], now)
    BY <2>1, <2>3, <2>5
  <2>7. \A o \in Subs : /\ paypal'[o] \in Billed => paypal[o] \in Billed
                        /\ paypal'[o] = "ACTIVE" => paypal[o] = "ACTIVE"
    <3>1. paypal[s] \in Billed
      BY <1>8 DEF ChargeFails, PayPalUpdates, PayPalEnds, Billed, Ended
    <3>2. paypal' = paypal \/ \E how \in Ended : paypal' = [paypal EXCEPT ![s] = how]
      BY <1>8 DEF ChargeFails, PayPalUpdates, PayPalEnds, world
    <3>3. "ACTIVE" \notin Ended
      BY DEF Ended
    <3> QED
      BY <3>1, <3>2, <3>3, <1>3
  <2>8. Charged'
    BY <2>1, <2>7, <1>1 DEF Periods, Charged
  <2> QED
    BY <1>1, <1>2, <2>1, <2>6, <2>8, PeriodsKeep
<1> QED
  BY <1>6, <1>7, <1>8

(* A session reads the row as it is, and an event or an answer.            *)
LEMMA SessionFits ==
  ASSUME IInv, IInv', Periods, UNCHANGED <<world, row, shop, wire>>, NEW k \in Sessions, NEW w,
         session' = [session EXCEPT ![k] = w],
         w.pc # "idle" =>
           /\ Fit(w.seen.end, paidTo[w.sub])
           /\ w.pc = "decided" => w.event.sub = w.sub /\ Due(w.event, paidTo[w.sub], now)
  PROVE  Periods'
<1>1. UNCHANGED <<now, paypal, paidTo, row, wire>>
  BY DEF world
<1>2. session'[k] = w /\ \A j \in Sessions \ {k} : session'[j] = session[j]
  BY DEF IInv, OfRows
<1>3. SessionsFit'
  <2> SUFFICES ASSUME NEW j \in Sessions, session'[j].pc # "idle"
               PROVE  /\ Fit(session'[j].seen.end, paidTo[session'[j].sub])
                      /\ session'[j].pc = "decided" =>
                           /\ session'[j].event.sub = session'[j].sub
                           /\ Due(session'[j].event, paidTo[session'[j].sub], now)
    BY <1>1 DEF SessionsFit
  <2>1. CASE j = k
    BY <2>1, <1>2
  <2>2. CASE j # k
    BY <2>2, <1>2 DEF Periods, SessionsFit
  <2> QED
    BY <2>1, <2>2
<1>4. Charged' /\ RowsFit' /\ WireDue'
  BY <1>1 DEF Periods, Charged, RowsFit, WireDue, Recorded
<1> QED
  BY <1>3, <1>4 DEF Periods

(* The end that is written fits, from a row that did and an event that is  *)
(* due.  A sale's charge is recent, so the period paid for at PayPal ends  *)
(* about an interval from now: a row's end that is more than Window ahead  *)
(* is that end, and one that is nearer is of the period before.            *)
LEMMA DecideFits ==
  ASSUME NEW p \in Nat, NEW e \in Heard, e.type \in Types, NEW seen \in Kept, now \in Nat,
         Fit(seen.end, p), Due(e, p, now), p <= now + Interval
  PROVE  Fit(Decide(e, seen).end, p)
<1>1. seen.end \in Nat /\ e.next \in Nat /\ e.born \in Nat
  BY DEF Kept, Heard
<1>2. Fit(NextEnd(e, seen.end), p)
  BY <1>1, Lengths DEF NextEnd, Due, NextFits, Fit
<1>3. CASE e.type = "SALE" /\ e.next # NoDate
  BY <1>2, <1>3 DEF Decide, Effect, SaleEnd, NextEnd
<1>3a. CASE e.type = "SALE" /\ e.next = NoDate
  <2>1. now + Interval <= p + 2 * Window
    BY <1>3a, <1>1, Lengths DEF Due
  <2>2. CASE seen.end # NoDate /\ seen.end - now > Window
    BY <2>2, <1>3a DEF Decide, Effect, SaleEnd
  <2>3. CASE seen.end # NoDate /\ seen.end - now <= Window /\ seen.end + Interval > now
    <3>1. Decide(e, seen).end = seen.end + Interval
      BY <2>3, <1>1, <1>3a, Lengths DEF Decide, Effect, SaleEnd
    <3>2. Fit(seen.end + Interval, p)
      BY <2>1, <2>3, <1>1, Lengths DEF Fit
    <3> QED
      BY <3>1, <3>2
  <2>4. CASE seen.end = NoDate \/ (seen.end - now <= Window /\ seen.end + Interval <= now)
    <3>1. Decide(e, seen).end = now + Interval
      BY <2>4, <1>1, <1>3a, Lengths DEF Decide, Effect, SaleEnd
    <3>2. Fit(now + Interval, p)
      BY <2>1, Lengths DEF Fit
    <3> QED
      BY <3>1, <3>2
  <2> QED
    BY <2>2, <2>3, <2>4, <1>1, Lengths
<1>4. CASE e.type \in {"ACTIVATED", "UPDATED", "FAILED"}
  BY <1>2, <1>4 DEF Decide, Effect
<1>5. CASE e.type \in Ended
  BY <1>5 DEF Decide, Effect, Ended
<1> QED
  BY <1>3, <1>3a, <1>4, <1>5 DEF Types

LEMMA ApplyFits ==
  ASSUME IInv, IInv', Periods, NEW k \in Sessions, Apply(k)
  PROVE  Periods'
<1>1. PICK s \in Subs : s = session[k].sub /\ row[s] # NoRow /\ paypal[s] \in Billed
  BY DEF IInv, OfRows, Begun, Recorded, Apply
<1>2. PICK d : d = Decide(session[k].event, session[k].seen)
  OBVIOUS
<1>3. /\ row' = [row EXCEPT ![s].status = d.status, ![s].end = d.end]
      /\ session' = [session EXCEPT ![k] = Idle]
      /\ UNCHANGED <<desk, redeemed, paypal, now, paidTo>> /\ wire' \subseteq wire
  BY <1>1, <1>2 DEF Apply, world, shop
<1>4. Fit(d.end, paidTo[s])
  <2>1. /\ session[k].event \in Heard /\ session[k].event.type \in Types /\ session[k].seen \in Kept
        /\ session[k].pc = "decided"
    BY DEF IInv, OfRows, Open, Apply
  <2>2. now \in Nat /\ paidTo[s] \in Nat /\ paidTo[s] <= now + Interval
    BY <1>1, Numbers DEF Periods, Charged
  <2>3. Fit(session[k].seen.end, paidTo[s]) /\ Due(session[k].event, paidTo[s], now)
    BY <1>1, <2>1 DEF Periods, SessionsFit
  <2> QED
    BY <1>2, <2>1, <2>2, <2>3, DecideFits
<1>5. row'[s].end = d.end /\ \A o \in Subs \ {s} : row'[o] = row[o]
  BY <1>3 DEF IInv, Shape, Kept
<1>6. RowsFit'
  <2> SUFFICES ASSUME NEW o \in Subs, row'[o] # NoRow PROVE Fit(row'[o].end, paidTo[o])
    BY <1>3 DEF RowsFit, Recorded
  <2> QED
    BY <1>4, <1>5 DEF Periods, RowsFit, Recorded
<1>7. Charged' /\ WireDue'
  BY <1>3 DEF Periods, Charged, WireDue
<1>8. SessionsFit'
  <2>1. \A j \in Sessions : session'[j].pc # "idle" => session'[j] = session[j]
    BY <1>3, Nothing DEF IInv, OfRows
  <2> SUFFICES ASSUME NEW j \in Sessions, session'[j].pc # "idle"
               PROVE  /\ Fit(session'[j].seen.end, paidTo[session'[j].sub])
                      /\ session'[j].pc = "decided" =>
                           /\ session'[j].event.sub = session'[j].sub
                           /\ Due(session'[j].event, paidTo[session'[j].sub], now)
    BY <1>3 DEF SessionsFit
  <2> QED
    BY <2>1 DEF Periods, SessionsFit
<1> QED
  BY <1>6, <1>7, <1>8 DEF Periods

(* Time passes only while no session is open, and not past a charge that   *)
(* is due: what is still under way is no older than PayPal redelivers it.  *)
LEMMA ClockFits ==
  ASSUME IInv, IInv', Periods, AdvanceClock
  PROVE  Periods'
<1>1. /\ UNCHANGED <<paypal, paidTo, row, session>> /\ now' = now + 1
      /\ wire' = {e \in wire : e.born + Window > now}
      /\ \A k \in Sessions : session[k] = Idle
      /\ \A s \in Subs : paypal[s] = "ACTIVE" => paidTo[s] > now \/ paidTo[s] + Window > now
  BY DEF AdvanceClock
<1>2. now \in Nat /\ \A s \in Subs : paidTo[s] \in Nat
  BY Numbers
<1>3. Charged'
  <2> SUFFICES ASSUME NEW s \in Subs, paypal[s] \in Billed
               PROVE  paidTo[s] <= now + 1 + Interval /\ (paypal[s] = "ACTIVE" => now + 1 <= paidTo[s] + Window)
    BY <1>1 DEF Charged
  <2>1. paidTo[s] <= now + Interval
    BY DEF Periods, Charged
  <2> QED
    BY <2>1, <1>1, <1>2, Lengths
<1>4. WireDue'
  <2> SUFFICES ASSUME NEW e \in wire, e.born + Window > now PROVE Due(e, paidTo[e.sub], now + 1)
    BY <1>1 DEF WireDue
  <2>1. e.born \in Nat
    BY Numbers DEF Events
  <2>2. now + 1 <= e.born + Window
    BY <2>1, <1>2, Lengths
  <2> QED
    BY <2>2 DEF Periods, WireDue, Due
<1>5. RowsFit' /\ SessionsFit'
  BY <1>1, Nothing DEF Periods, RowsFit, SessionsFit, Recorded
<1> QED
  BY <1>3, <1>4, <1>5 DEF Periods

LEMMA PeriodsInitially == Init => Periods
<1> SUFFICES ASSUME Init PROVE Periods
  OBVIOUS
<1>1. "none" \notin Billed
  BY DEF Billed, Ended
<1> QED
  BY <1>1, Nothing DEF Init, Periods, Charged, RowsFit, WireDue, SessionsFit, Recorded

LEMMA PeriodsConsecution == IInv /\ IInv' /\ Periods /\ [Next]_vars => Periods'
<1> SUFFICES ASSUME IInv, IInv', Periods, [Next]_vars PROVE Periods'
  OBVIOUS
<1>1. ASSUME NEW k \in Sessions, NEW e \in wire, Deliver(k, e) PROVE Periods'
  <2>1. PICK w : w = [pc |-> "decided", sub |-> e.sub, seen |-> row[e.sub], event |-> e]
    OBVIOUS
  <2>2. e.sub \in Subs
    BY Numbers DEF Events
  <2>3. Fit(w.seen.end, paidTo[w.sub]) /\ w.event.sub = w.sub /\ Due(w.event, paidTo[w.sub], now)
    BY <1>1, <2>1, <2>2 DEF Deliver, Periods, RowsFit, WireDue
  <2> QED
    BY <1>1, <2>1, <2>3, SessionFits DEF Deliver
<1>2. ASSUME NEW k \in Sessions, NEW s \in Subs, OpenReturnPage(k, s) \/ SyncAsks(k, s) PROVE Periods'
  <2>1. PICK w : w = [pc |-> "asking", sub |-> s, seen |-> row[s], event |-> NoEvent]
    OBVIOUS
  <2>2. Recorded(s) /\ session' = [session EXCEPT ![k] = w] /\ UNCHANGED <<world, row, shop, wire>>
    BY <1>2, <2>1 DEF OpenReturnPage, SyncAsks, Ask, shop
  <2>3. Fit(w.seen.end, paidTo[w.sub]) /\ w.pc # "decided"
    BY <2>1, <2>2 DEF Periods, RowsFit
  <2> QED
    BY <2>2, <2>3, SessionFits
<1>3. ASSUME NEW k \in Sessions, PayPalAnswers(k) PROVE Periods'
  <2>1. PICK s \in Subs : s = session[k].sub /\ paypal[s] \in Billed
    BY <1>3 DEF PayPalAnswers, IInv, OfRows, Begun
  <2>1a. PICK e \in Answers(s) : session' = [session EXCEPT ![k].pc = "decided", ![k].event = e]
    BY <1>3, <2>1 DEF PayPalAnswers
  <2>2. PICK w : w = [session[k] EXCEPT !.pc = "decided", !.event = e]
    OBVIOUS
  <2>3. session' = [session EXCEPT ![k] = w] /\ UNCHANGED <<world, row, shop, wire>> /\ session[k].pc = "asking"
    BY <1>3, <2>1a, <2>2 DEF PayPalAnswers, IInv, OfRows, shop
  <2>4. w.pc = "decided" /\ w.sub = s /\ w.seen = session[k].seen /\ w.event = e
    BY <2>1, <2>2 DEF IInv, OfRows, Open
  <2>5. Due(e, paidTo[s], now) /\ e.sub = s
    <3>1. paidTo[s] \in Nat
      BY Numbers
    <3>2. PICK t \in Types \ {"SALE"}, next \in {paidTo[s], NoDate}, live \in BOOLEAN : e = Event(t, s, next, live)
      BY <2>1, AnswerIs
    <3>3. Due(Event(t, s, next, live), paidTo[s], now)
      BY <3>1, FreshIsDue
    <3> QED
      BY <3>2, <3>3 DEF Event
  <2>6. Fit(session[k].seen.end, paidTo[s])
    BY <2>1, <2>3 DEF Periods, SessionsFit
  <2> QED
    BY <2>3, <2>4, <2>5, <2>6, SessionFits
<1>4. ASSUME NEW k \in Sessions, PayPalSilent(k) PROVE Periods'
  BY <1>4, Nothing, SessionFits DEF PayPalSilent, shop
<1>5. CASE UNCHANGED vars
  BY <1>5 DEF vars, world, Periods, Charged, RowsFit, WireDue, SessionsFit, Recorded
<1> QED
  BY <1>1, <1>2, <1>3, <1>4, <1>5, CheckoutFits, PayPalFits, ApplyFits, ClockFits DEF Next

(* In whatever order events, redeliveries and answers come and are         *)
(* applied, a row is never an interval ahead of what PayPal has been paid  *)
(* for: decide's rule for a sale tells a period's own sale from a renewal's*)
(* for every interval longer than three times its window.                  *)
THEOREM NeverAhead == Spec => []NeverAPeriodAhead
<1>1. IInv /\ Periods => NeverAPeriodAhead
  <2> SUFFICES ASSUME IInv, Periods, NEW s \in Subs, Recorded(s)
               PROVE  row[s].end <= paidTo[s] + 2 * Window
    BY DEF NeverAPeriodAhead
  <2>1. Fit(row[s].end, paidTo[s]) /\ paidTo[s] \in Nat /\ row[s].end \in Nat
    BY Numbers DEF Periods, RowsFit
  <2> QED
    BY <2>1, Lengths DEF Fit
<1>2. Init => IInv /\ Periods
  BY Initially, PeriodsInitially
<1>3. IInv /\ Periods /\ [Next]_vars => (IInv /\ Periods)'
  BY Consecution, PeriodsConsecution
<1> QED
  BY <1>1, <1>2, <1>3, PTL DEF Spec
=============================================================================
