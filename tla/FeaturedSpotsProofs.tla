-------------------------- MODULE FeaturedSpotsProofs --------------------------
(* Safety of FeaturedSpots for any number of transactions at once: types,  *)
(* and that a bid is active exactly while it has a position.               *)
EXTENDS FeaturedSpots, FiniteSums

(* Some rows of a table: what a transaction has written.                   *)
Some(Keys, R) == UNION {[A -> R] : A \in SUBSET Keys}

BidRow == {r \in BidRows : r.status # "none" =>
                             r.listing \in Listings /\ r.spot \in Spots /\ r.amount # 0}
Written == {r \in BidRow : r.status # "none"}
PayRow == [status : {"none", "APPROVAL_PENDING", "ACTIVE", "SUSPENDED", "CANCELLED"},
           quantity : Nat, offer : Nat]
Told == {"ACTIVATED", "UPDATED", "SALE", "FAILED", "SUSPENDED", "CANCELLED"}
Letters == [sub : Subs, quantity : Nat, type : Told \cup {"none"}]
Words == [sub : Subs, quantity : Nat \cup {Unsaid}, type : Told \cup {"none"}]

(* An owner's transaction between its PayPal calls, and one that has read. *)
Asking == {"offered", "resumed", "revised"}
Reads == {"asked", "seen", "picked"}
Transaction ==
  [pc : {"idle", "rank", "write", "bill", "commit"} \cup Asking \cup Reads,
   lock : Listings \cup {NoListing}, bids : Some(Bids, Written), subs : Some(Subs, SubRows),
   todo : SUBSET Spots, touched : SUBSET Spots, also : SUBSET (Listings \cup {NoListing}),
   ranks : Some(Bids, 0..Positions), event : Words \cup {<<>>}, posted : SUBSET Letters,
   seen : SubRows, shut : SUBSET Spots]

(* Nothing written yet.                                                    *)
Blank(w) == w.bids = <<>> /\ w.subs = <<>> /\ w.ranks = <<>> /\ w.todo = {}
(* An owner's bid under way.                                               *)
Offering(w) ==
  w.ranks = <<>> /\ w.todo = {} /\ w.event \in Letters /\ w.lock \in Listings

Around ==
  /\ paypal \in [Subs -> PayRow]
  /\ mail \subseteq {e \in Letters : e.type \in Told}
  /\ edits \in 0..MaxEdits

Working ==
  /\ tx \in [Sessions -> Transaction]
  /\ \A s \in Sessions :
       /\ tx[s].todo \subseteq tx[s].touched
       /\ tx[s].pc \in {"idle"} \cup Reads => Blank(tx[s])
       /\ tx[s].pc \in Reads => tx[s].event \in Words
       /\ tx[s].pc \in Asking => Offering(tx[s])
       /\ \A b \in DOMAIN tx[s].ranks : b \in DOMAIN tx[s].bids \/ bid[b].status # "none"

Typed ==
  /\ bid \in [Bids -> BidRow]
  /\ sub \in [Subs -> SubRows]
  /\ closed \subseteq Spots
  /\ Around /\ Working

(* A row and its place: active exactly while it has a position, or else    *)
(* about to be given one, its spot being among those still to be ranked.   *)
Even(r) == r.status = "active" <=> r.position # 0
Owed(r, spots) == Even(r) \/ (r.status = "active" /\ r.spot \in spots)

-----------------------------------------------------------------------------
(* Rows laid over rows.                                                    *)
LEMMA SomeIs ==
  ASSUME NEW Keys, NEW R, NEW f
  PROVE  f \in Some(Keys, R) => DOMAIN f \subseteq Keys /\ f \in [DOMAIN f -> R]
BY DEF Some

LEMMA SomeHas ==
  ASSUME NEW Keys, NEW R, NEW A \in SUBSET Keys, NEW f \in [A -> R]
  PROVE  f \in Some(Keys, R)
BY DEF Some

LEMMA NoneIsSome ==
  ASSUME NEW Keys, NEW R
  PROVE  <<>> \in Some(Keys, R) /\ DOMAIN <<>> = {}
<1>1. <<>> \in [{} -> R] /\ DOMAIN <<>> = {}
  OBVIOUS
<1> QED
  BY <1>1, SomeHas

LEMMA OneIsSome ==
  ASSUME NEW Keys, NEW R, NEW x \in Keys, NEW r \in R
  PROVE  /\ (x :> r) \in Some(Keys, R) /\ DOMAIN (x :> r) = {x} /\ (x :> r)[x] = r
<1>1. (x :> r) \in [{x} -> R] /\ DOMAIN (x :> r) = {x} /\ (x :> r)[x] = r
  BY DEF :>
<1> QED
  BY <1>1, SomeHas

LEMMA OverIsSome ==
  ASSUME NEW Keys, NEW R, NEW f \in Some(Keys, R), NEW g \in Some(Keys, R)
  PROVE  f @@ g \in Some(Keys, R)
<1>1. DOMAIN f \subseteq Keys /\ f \in [DOMAIN f -> R] /\ DOMAIN g \subseteq Keys /\ g \in [DOMAIN g -> R]
  BY SomeIs
<1>2. f @@ g \in [DOMAIN f \cup DOMAIN g -> R]
  BY <1>1 DEF @@
<1> QED
  BY <1>1, <1>2, SomeHas

LEMMA OverAll ==
  ASSUME NEW Keys, NEW R, NEW f \in Some(Keys, R), NEW g \in [Keys -> R]
  PROVE  /\ f @@ g \in [Keys -> R]
         /\ \A x \in Keys : (f @@ g)[x] = IF x \in DOMAIN f THEN f[x] ELSE g[x]
<1>1. DOMAIN f \subseteq Keys /\ f \in [DOMAIN f -> R]
  BY SomeIs
<1> QED
  BY <1>1 DEF @@

-----------------------------------------------------------------------------
(* Amounts, dates and quantities.                                          *)
AmountOf(B) == [b \in Bids |-> B[b].amount]

LEMMA BidsFinite ==
  /\ IsFiniteSet(Bids) /\ \A A \in SUBSET Bids : IsFiniteSet(A) /\ Cardinality(A) \in Nat
<1>1. IsFiniteSet(Bids)
  BY FS_Interval, SpotsAssumption DEF Bids
<1> QED
  BY <1>1, FS_Subset, FS_CardinalityType

LEMMA RowIs ==
  ASSUME NEW r \in BidRow
  PROVE  /\ r \in BidRows /\ r.amount \in Nat /\ r.raise \in Nat /\ r.since \in Nat
         /\ r.status # "none" => r.listing \in Listings /\ r.spot \in Spots /\ r.amount # 0
<1>1. r \in BidRows
  BY DEF BidRow
<1>2. r.amount \in Amount /\ r.raise \in Amount /\ r.since \in Nat
  BY <1>1 DEF BidRows
<1>3. Amount \subseteq Nat
  BY SpotsAssumption DEF Amount
<1>4. r.status # "none" => r.listing \in Listings /\ r.spot \in Spots /\ r.amount # 0
  BY DEF BidRow
<1> QED
  BY <1>1, <1>2, <1>3, <1>4

(* The library's sum of amounts, as the sum of a function.                 *)
LEMMA SumOfAmounts ==
  ASSUME NEW B \in [Bids -> BidRow], NEW S \in SUBSET Bids
  PROVE  MapThenSumSet(LAMBDA b : B[b].amount, S) = SumFunctionOnSet(AmountOf(B), S)
<1> DEFINE Body(h) == h = [s \in SUBSET S |->
                  IF s = {} THEN 0 ELSE B[CHOOSE x \in s : TRUE].amount + h[s \ {CHOOSE x \in s : TRUE}]]
           g == CHOOSE h : Body(h)
<1>1. MapThenSumSet(LAMBDA b : B[b].amount, S) = g[S]
  BY DEF MapThenSumSet, MapThenFoldSet
<1>2. IsFiniteSet(S)
  BY BidsFinite
<1>3. \A s \in SUBSET S : s # {} => AmountOf(B)[Pick(s)] = B[CHOOSE x \in s : TRUE].amount
  BY PickIn DEF AmountOf, Pick
<1>4. \A h : Body(h) <=> Adds(AmountOf(B), h, S)
  BY <1>3 DEF Adds, Turn, Pick
<1>5. PICK h : Adds(AmountOf(B), h, S) /\ SumFunctionOnSet(AmountOf(B), S) = h[S]
  BY <1>2, SumIs
<1>6. Adds(AmountOf(B), g, S)
  <2>1. Body(h)
    BY <1>4, <1>5
  <2>2. Body(g)
    <3> HIDE DEF Body
    <3> QED BY <2>1
  <2> HIDE DEF Body, g
  <2> QED BY <2>2, <1>4
<1> HIDE DEF g
<1>7. g[S] = h[S]
  BY <1>2, <1>5, <1>6, AddsAgree
<1> QED
  BY <1>1, <1>5, <1>7

LEMMA QuantityIs ==
  ASSUME NEW B \in [Bids -> BidRow], NEW l
  PROVE  QuantityFor(B, l) \in Nat
<1> DEFINE H == {b \in Of(B, l) : Holds(B, b)}
<1>0. H \in SUBSET Bids
  BY DEF Of, LiveBids
<1>1. QuantityFor(B, l) = SumFunctionOnSet(AmountOf(B), H)
  <2> HIDE DEF H
  <2>1. MapThenSumSet(LAMBDA b : B[b].amount, H) = SumFunctionOnSet(AmountOf(B), H)
    BY <1>0, SumOfAmounts
  <2> QED
    BY <2>1 DEF QuantityFor, H
<1>2. IsFiniteSet(H) /\ \A b \in H : AmountOf(B)[b] \in Nat
  <2>1. \A b \in Bids : B[b].amount \in Nat
    BY RowIs
  <2> QED
    BY <1>0, <2>1, BidsFinite DEF AmountOf
<1>3. SumFunctionOnSet(AmountOf(B), H) \in Nat
  BY <1>2, SumNat
<1> QED
  BY <1>1, <1>3

LEMMA ProjectedIs ==
  ASSUME NEW B \in [Bids -> BidRow], NEW l, NEW p, NEW a \in Nat
  PROVE  Projected(B, l, p, a) \in Nat
<1> DEFINE there == {b \in Of(B, l) : B[b].spot # p /\ Holds(B, b)}
<1>0. there \in SUBSET Bids
  BY DEF Of, LiveBids
<1>1. MapThenSumSet(LAMBDA b : B[b].amount, there) = SumFunctionOnSet(AmountOf(B), there)
  <2> HIDE DEF there
  <2> QED BY <1>0, SumOfAmounts
<1>2. IsFiniteSet(there) /\ \A b \in there : AmountOf(B)[b] \in Nat
  <2>1. \A b \in Bids : B[b].amount \in Nat
    BY RowIs
  <2> QED
    BY <1>0, <2>1, BidsFinite DEF AmountOf
<1>3. SumFunctionOnSet(AmountOf(B), there) \in Nat
  BY <1>2, SumNat
<1> QED
  BY <1>1, <1>3 DEF Projected

LEMMA DatedIs ==
  ASSUME NEW B \in [Bids -> BidRow], NEW p
  PROVE  Dated(B, p) \in Nat
<1> DEFINE D == {B[b].since : b \in On(B, p)}
<1>1. On(B, p) \subseteq Bids /\ IsFiniteSet(On(B, p))
  BY BidsFinite DEF On, LiveBids
<1>2. IsFiniteSet(D)
  <2>1. [b \in On(B, p) |-> B[b].since] \in Surjection(On(B, p), D)
    BY DEF Surjection
  <2> QED
    BY <1>1, <2>1, FS_Surjection
<1>3. IsFiniteSet({0} \cup D)
  BY <1>2, FS_Singleton, FS_Union
<1>4. {0} \cup D \subseteq Nat
  BY <1>1 DEF BidRow, BidRows
<1>5. Max({0} \cup D) \in {0} \cup D
  <2> HIDE DEF D
  <2> QED BY <1>3, <1>4, MaxIs
<1>6. Max({0} \cup D) \in Nat
  BY <1>4, <1>5
<1> QED
  BY <1>6 DEF Dated

LEMMA RankingIs ==
  ASSUME NEW B, NEW p
  PROVE  Ranking(B, p) \in Some(Bids, 0..Positions) /\ DOMAIN Ranking(B, p) = Confirmed(B, p)
<1>1. Confirmed(B, p) \in SUBSET Bids
  BY DEF Confirmed, On, LiveBids
<1>2. \A b \in Confirmed(B, p) :
        Cardinality({a \in Confirmed(B, p) : Before(B, a, b)}) \in Nat
  BY <1>1, BidsFinite
<1>3. Ranking(B, p) \in [Confirmed(B, p) -> 0..Positions] /\ DOMAIN Ranking(B, p) = Confirmed(B, p)
  BY <1>2, SpotsAssumption DEF Ranking
<1> QED
  BY <1>1, <1>3, SomeHas
-----------------------------------------------------------------------------
(* The rows that handlers write.                                           *)
LEMMA NamesOf ==
  /\ DOMAIN NoticeOf = {"ACTIVE", "SUSPENDED", "CANCELLED"} /\ DOMAIN Lapses = {"SUSPENDED", "CANCELLED"}
  /\ \A x \in DOMAIN NoticeOf : NoticeOf[x] \in {"ACTIVATED", "SUSPENDED", "CANCELLED"}
  /\ \A x \in DOMAIN Lapses : Lapses[x] \in ClosedStatus
BY DEF NoticeOf, Lapses, ClosedStatus

LEMMA Nothing ==
  /\ NoBid \in BidRow /\ NoSub \in SubRows /\ NoPay \in PayRow /\ Idle \in Transaction
  /\ NoBid.status = "none" /\ NoSub.status = "none" /\ NoPay.status = "none"
  /\ Idle.pc = "idle" /\ Idle.bids = <<>> /\ Idle.subs = <<>> /\ Idle.ranks = <<>> /\ Idle.todo = {}
<1>1. NoBid \in BidRow /\ NoSub \in SubRows /\ NoPay \in PayRow
  BY SpotsAssumption DEF NoBid, BidRow, BidRows, Amount, NoSub, SubRows, NoPay, PayRow
<1> QED
  BY <1>1, NoneIsSome DEF Idle, Transaction, NoBid, NoSub, NoPay

LEMMA CancelledIs ==
  ASSUME NEW r \in BidRow
  PROVE  /\ CancelledBid(r).status = "cancelled"
         /\ CancelledBid(r).spot = r.spot /\ CancelledBid(r).listing = r.listing
         /\ Even(CancelledBid(r))
         /\ r.status # "none" => CancelledBid(r) \in Written
<1>1. r \in BidRows /\ (r.status # "none" => r.listing \in Listings /\ r.spot \in Spots /\ r.amount # 0)
  BY DEF BidRow
<1>2. 0 \in Amount /\ 0 \in 0..Positions
  BY SpotsAssumption DEF Amount
<1>3. CancelledBid(r) \in BidRows
  BY <1>1, <1>2 DEF CancelledBid, BidRows
<1>4. /\ CancelledBid(r).status = "cancelled" /\ CancelledBid(r).spot = r.spot
      /\ CancelledBid(r).listing = r.listing /\ CancelledBid(r).amount = r.amount
      /\ CancelledBid(r).position = 0
      /\ r.status # "none" => CancelledBid(r) \in BidRow
  BY <1>1, <1>3 DEF CancelledBid, BidRow, BidRows
<1> QED
  BY <1>4 DEF Written, Even

LEMMA LiveIs ==
  ASSUME NEW B \in [Bids -> BidRow], NEW b \in LiveBids(B)
  PROVE  /\ b \in Bids /\ B[b] \in Written /\ B[b].spot \in Spots /\ B[b].listing \in Listings
         /\ B[b].amount \in Amounts
BY RowIs DEF LiveBids, Written, BidRows, Amount

LEMMA AllCancelledIs ==
  ASSUME NEW B \in [Bids -> BidRow], NEW bs \in SUBSET LiveBids(B)
  PROVE  /\ AllCancelled(B, bs) \in Some(Bids, Written) /\ DOMAIN AllCancelled(B, bs) = bs
         /\ \A b \in bs : AllCancelled(B, bs)[b] = CancelledBid(B[b])
<1>1. bs \in SUBSET Bids /\ \A b \in bs : CancelledBid(B[b]) \in Written
  BY LiveIs, CancelledIs DEF Written
<1>2. AllCancelled(B, bs) \in [bs -> Written]
  BY <1>1 DEF AllCancelled
<1> QED
  BY <1>1, <1>2, SomeHas DEF AllCancelled

(* What becomes of a bid when it is confirmed, or not in time.             *)
ConfirmedRow(B, b) ==
  [B[b] EXCEPT !.status = IF @ = "pending" THEN "active" ELSE @,
               !.amount = IF B[b].raise = 0 THEN @ ELSE B[b].raise,
               !.since  = IF B[b].raise = 0 THEN @ ELSE Dated(B, B[b].spot),
               !.raise  = 0]
ExpiredRow(B, b) ==
  IF B[b].status = "pending" THEN CancelledBid(B[b]) ELSE [B[b] EXCEPT !.raise = 0]

LEMMA ConfirmIs ==
  ASSUME NEW B \in [Bids -> BidRow], NEW l
  PROVE  LET C == ConfirmListingBids(B, l)
         IN  /\ C \in Some(Bids, Written) /\ DOMAIN C = Unconfirmed(B, l)
             /\ \A b \in Unconfirmed(B, l) : C[b].spot = B[b].spot /\ (C[b].status = "active" \/ (Even(B[b]) => Even(C[b])))
<1>1. ASSUME NEW b \in Unconfirmed(B, l)
      PROVE  /\ ConfirmedRow(B, b) \in Written /\ ConfirmedRow(B, b).spot = B[b].spot
             /\ ConfirmedRow(B, b).status = "active" \/ (Even(B[b]) => Even(ConfirmedRow(B, b)))
  <2>1. /\ b \in LiveBids(B) /\ B[b].listing = l
    BY DEF Unconfirmed, Of
  <2>2. /\ B[b] \in BidRows /\ B[b].status # "none" /\ B[b].spot \in Spots /\ l \in Listings
        /\ B[b].amount \in Amounts
    BY <2>1, LiveIs DEF Written, BidRow
  <2>3. PICK d \in Nat : d = Dated(B, B[b].spot)
    BY DatedIs
  <2>4. PICK a \in Amounts : a = IF B[b].raise = 0 THEN B[b].amount ELSE B[b].raise
    BY <2>2 DEF BidRows, Amount
  <2>5. PICK st \in {"active", "outbid", "cancelled"} : st = IF B[b].status = "pending" THEN "active" ELSE B[b].status
    BY <2>2 DEF BidRows
  <2>6. ConfirmedRow(B, b) = [B[b] EXCEPT !.status = st, !.amount = a,
                                          !.since = IF B[b].raise = 0 THEN @ ELSE d, !.raise = 0]
    BY <2>2, <2>3, <2>4, <2>5 DEF ConfirmedRow, BidRows
  <2>7. a \in Amount /\ a # 0 /\ 0 \in Amount
    BY SpotsAssumption DEF Amount
  <2> QED
    BY <2>1, <2>2, <2>5, <2>6, <2>7 DEF Written, BidRow, BidRows, Even
<1>2. Unconfirmed(B, l) \in SUBSET Bids
  BY DEF Unconfirmed, Of, LiveBids
<1>3. ConfirmListingBids(B, l) = [b \in Unconfirmed(B, l) |-> ConfirmedRow(B, b)]
  BY DEF ConfirmListingBids, ConfirmedRow
<1>4. ConfirmListingBids(B, l) \in [Unconfirmed(B, l) -> Written]
  BY <1>1, <1>3
<1> QED
  BY <1>1, <1>2, <1>3, <1>4, SomeHas

LEMMA ExpireIs ==
  ASSUME NEW B \in [Bids -> BidRow], NEW l
  PROVE  LET E == ExpirePendingBids(B, l)
         IN  /\ E \in Some(Bids, Written) /\ DOMAIN E = Unconfirmed(B, l)
             /\ \A b \in Unconfirmed(B, l) : E[b].spot = B[b].spot /\ (Even(B[b]) => Even(E[b]))
<1>1. ASSUME NEW b \in Unconfirmed(B, l)
      PROVE  /\ ExpiredRow(B, b) \in Written /\ ExpiredRow(B, b).spot = B[b].spot
             /\ Even(B[b]) => Even(ExpiredRow(B, b))
  <2>1. b \in LiveBids(B) /\ B[b].listing = l
    BY DEF Unconfirmed, Of
  <2>2. /\ B[b] \in BidRow /\ B[b] \in BidRows /\ B[b].status # "none" /\ B[b].spot \in Spots /\ l \in Listings
        /\ B[b].amount # 0
    BY <2>1, LiveIs, SpotsAssumption DEF Written, BidRow
  <2>3. CASE B[b].status = "pending"
    BY <2>1, <2>2, <2>3, CancelledIs DEF ExpiredRow
  <2>4. CASE B[b].status # "pending"
    <3>1. 0 \in Amount
      BY DEF Amount
    <3> QED
      BY <2>1, <2>2, <2>4, <3>1 DEF ExpiredRow, Written, BidRow, BidRows, Even
  <2> QED
    BY <2>3, <2>4
<1>2. Unconfirmed(B, l) \in SUBSET Bids
  BY DEF Unconfirmed, Of, LiveBids
<1>3. ExpirePendingBids(B, l) = [b \in Unconfirmed(B, l) |-> ExpiredRow(B, b)]
  BY DEF ExpirePendingBids, ExpiredRow
<1>4. ExpirePendingBids(B, l) \in [Unconfirmed(B, l) -> Written]
  BY <1>1, <1>3
<1> QED
  BY <1>1, <1>2, <1>3, <1>4, SomeHas

LEMMA RankedIs ==
  ASSUME NEW B \in [Bids -> BidRow], NEW r \in Some(Bids, 0..Positions),
         \A b \in DOMAIN r : B[b].status # "none"
  PROVE  /\ Ranked(B, r) \in Some(Bids, Written) /\ DOMAIN Ranked(B, r) = DOMAIN r
         /\ \A b \in DOMAIN r : Ranked(B, r)[b] = [B[b] EXCEPT !.position = r[b],
                                                   !.status = IF r[b] = 0 THEN "outbid" ELSE "active"]
<1>1. DOMAIN r \in SUBSET Bids /\ r \in [DOMAIN r -> 0..Positions]
  BY SomeIs
<1>2. ASSUME NEW b \in DOMAIN r
      PROVE  [B[b] EXCEPT !.position = r[b], !.status = IF r[b] = 0 THEN "outbid" ELSE "active"] \in Written
  <2>1. B[b] \in BidRows /\ B[b].listing \in Listings /\ B[b].spot \in Spots /\ B[b].amount # 0
    BY <1>1 DEF BidRow
  <2> QED
    BY <1>1, <2>1 DEF Written, BidRow, BidRows
<1>3. Ranked(B, r) \in [DOMAIN r -> Written]
  BY <1>2 DEF Ranked
<1> QED
  BY <1>1, <1>3, SomeHas DEF Ranked
-----------------------------------------------------------------------------
(* What a handler writes: the rows bs and ss, with spots to rank after it. *)
Wrote(s, bs, ss, spots) ==
  \E w \in Transaction :
    /\ tx' = [tx EXCEPT ![s] = w]
    /\ w.bids = bs /\ w.subs = ss /\ w.ranks = <<>> /\ w.todo = spots /\ spots \subseteq w.touched
    /\ w.pc \in {"rank", "bill", "commit"} /\ (w.pc = "rank" <=> spots # {})

(* The rows it has read or written so far are as they should be.           *)
AllEven(s) ==
  /\ \A b \in Bids : Even(bid[b])
  /\ \A b \in DOMAIN tx[s].bids : Even(tx[s].bids[b])

(* The step of a handler, all in all.                                      *)
Handles(s) ==
  /\ UNCHANGED <<bid, sub, closed>> /\ Around' /\ tx[s].pc \in {"idle"} \cup Asking \cup Reads
  /\ \E bs \in Some(Bids, Written), ss \in Some(Subs, SubRows), spots \in SUBSET Spots :
       Wrote(s, bs, ss, spots) /\ (AllEven(s) => \A b \in DOMAIN bs : Owed(bs[b], spots))

LEMMA SettleWrites ==
  ASSUME NEW s \in Sessions, NEW base \in Transaction, base.ranks = <<>>,
         NEW bs \in Some(Bids, Written), NEW ss \in Some(Subs, SubRows), NEW spots \in SUBSET Spots,
         NEW also \in SUBSET (Listings \cup {NoListing}), Settle(s, base, bs, ss, spots, also)
  PROVE  Wrote(s, bs, ss, spots)
<1>1. PICK w : w = [base EXCEPT !.pc = IF spots = {} THEN "bill" ELSE "rank", !.bids = bs, !.subs = ss,
                                !.todo = spots, !.touched = spots, !.also = also]
  OBVIOUS
<1>2. /\ w \in Transaction /\ w.bids = bs /\ w.subs = ss /\ w.ranks = base.ranks /\ w.todo = spots
      /\ w.touched = spots /\ w.pc = IF spots = {} THEN "bill" ELSE "rank"
  BY <1>1 DEF Transaction
<1>3. tx' = [tx EXCEPT ![s] = w]
  BY <1>1 DEF Settle
<1> QED
  BY <1>2, <1>3 DEF Wrote

LEMMA FinishWrites ==
  ASSUME NEW s \in Sessions, NEW base \in Transaction, base.ranks = <<>>, base.todo = {},
         NEW bs \in Some(Bids, Written), NEW ss \in Some(Subs, SubRows), Finish(s, base, bs, ss)
  PROVE  Wrote(s, bs, ss, {})
<1>1. PICK w : w = [base EXCEPT !.pc = "commit", !.bids = bs, !.subs = ss]
  OBVIOUS
<1>2. /\ w \in Transaction /\ w.bids = bs /\ w.subs = ss /\ w.ranks = base.ranks /\ w.todo = base.todo
      /\ w.pc = "commit"
  BY <1>1 DEF Transaction
<1>3. tx' = [tx EXCEPT ![s] = w]
  BY <1>1 DEF Finish
<1> QED
  BY <1>2, <1>3 DEF Wrote

LEMMA WroteTyped ==
  ASSUME Typed, NEW s \in Sessions, Handles(s)
  PROVE  Typed'
<1>1. PICK w \in Transaction : /\ tx' = [tx EXCEPT ![s] = w] /\ w.ranks = <<>> /\ w.todo \subseteq w.touched
                               /\ w.pc \in {"rank", "bill", "commit"}
  BY DEF Handles, Wrote
<1>2. Working'
  BY <1>1, NoneIsSome DEF Handles, Typed, Working, Asking, Reads
<1> QED
  BY <1>2 DEF Handles, Typed

LEMMA MovesTyped ==
  ASSUME Typed, NEW P \in [Subs -> PayRow], PayPalMoves(P), edits' \in 0..MaxEdits
  PROVE  Around'
<1>1. ASSUME NEW i \in Subs, P[i].status \in DOMAIN NoticeOf
      PROVE  Notice(i, NoticeOf[P[i].status], P[i].quantity) \in {e \in Letters : e.type \in Told}
  BY <1>1, NamesOf DEF Notice, Letters, Told, PayRow
<1>2. mail' \subseteq {e \in Letters : e.type \in Told} /\ paypal' = P
  BY <1>1 DEF PayPalMoves, Typed, Around
<1> QED
  BY <1>2 DEF Around

LEMMA PayTyped ==
  ASSUME NEW r \in PayRow, NEW q \in Nat
  PROVE  /\ Suspended(r) \in PayRow /\ Activated(r) \in PayRow /\ Stopped(r) \in PayRow
         /\ [r EXCEPT !.offer = q] \in PayRow /\ [r EXCEPT !.quantity = q, !.offer = 0] \in PayRow
BY DEF Suspended, Activated, Stopped, PayRow

LEMMA LockedIs ==
  ASSUME NEW l \in Listings
  PROVE  /\ Locked(l) \in Transaction /\ Blank(Locked(l)) /\ Blank(Idle)
         /\ Locked(l).lock = l
BY Nothing DEF Locked, Transaction, Blank, Idle
-----------------------------------------------------------------------------
(* Owners.                                                                 *)
LEMMA SpendIs ==
  ASSUME Typed, Spend
  PROVE  edits' \in 0..MaxEdits
BY SpotsAssumption DEF Typed, Around, Spend

LEMMA StillAround ==
  ASSUME Typed, UNCHANGED <<paypal, mail>>, edits' \in 0..MaxEdits
  PROVE  Around'
BY DEF Typed, Around

LEMMA OwnIs ==
  ASSUME NEW B \in [Bids -> BidRow], NEW l, NEW p, NEW b \in Own(B, l, p)
  PROVE  /\ b \in LiveBids(B) /\ b \in Bids /\ B[b] \in Written /\ B[b].spot = p /\ B[b].listing = l
         /\ p \in Spots /\ l \in Listings
BY LiveIs DEF Own, On, Of

(* One bid of l is written again, and its spot is ranked.                  *)
LEMMA OneBidHandled ==
  ASSUME Typed, NEW s \in Sessions, NEW l \in Listings, NEW p \in Spots, NEW b \in Own(bid, l, p),
         NEW r \in Written, Even(bid[b]) => Even(r),
         NEW also \in SUBSET {l}, Settle(s, Locked(l), b :> r, <<>>, {p}, also), tx[s].pc = "idle",
         UNCHANGED <<bid, sub, closed>>, Around'
  PROVE  Handles(s)
<1>1. b \in Bids
  BY OwnIs DEF Typed
<1>2. (b :> r) \in Some(Bids, Written) /\ DOMAIN (b :> r) = {b}
  BY <1>1, OneIsSome
<1>3. (b :> r)[b] = r
  BY DEF :>
<1>4. <<>> \in Some(Subs, SubRows)
  BY NoneIsSome
<1>5. Wrote(s, b :> r, <<>>, {p})
  BY <1>2, <1>4, LockedIs, SettleWrites DEF Blank
<1>6. AllEven(s) => \A c \in DOMAIN (b :> r) : Owed((b :> r)[c], {p})
  BY <1>1, <1>2, <1>3 DEF AllEven, Owed
<1> QED
  BY <1>2, <1>4, <1>5, <1>6 DEF Handles

LEMMA EditHandled ==
  ASSUME Typed, NEW s \in Sessions, NEW l \in Listings, NEW p \in Spots,
         WithdrawRaise(s, l, p) \/ CancelOwnBid(s, l, p) \/ \E a \in Amounts : LowerBid(s, l, p, a)
  PROVE  Handles(s)
<1>1. bid \in [Bids -> BidRow]
  BY DEF Typed
<1>2. UNCHANGED <<bid, sub, closed>> /\ Around' /\ tx[s].pc = "idle"
  <2>1. Spend /\ UNCHANGED <<bid, sub, paypal, mail, closed>> /\ tx[s].pc = "idle"
    BY DEF WithdrawRaise, CancelOwnBid, LowerBid, LockListing
  <2> QED
    BY <2>1, SpendIs, StillAround
<1>3. CASE WithdrawRaise(s, l, p)
  <2>1. PICK b \in Own(bid, l, p) : Settle(s, Locked(l), b :> [bid[b] EXCEPT !.raise = 0], <<>>, {p}, {l})
    BY <1>3 DEF WithdrawRaise
  <2>2. bid[b] \in Written /\ bid[b].spot = p /\ bid[b].listing = l /\ 0 \in Amount
    BY <1>1, OwnIs DEF Amount
  <2>3. PICK r : r = [bid[b] EXCEPT !.raise = 0]
    OBVIOUS
  <2>4. r \in Written /\ (Even(bid[b]) => Even(r))
    BY <2>2, <2>3 DEF Written, BidRow, BidRows, Even
  <2> QED
    BY <1>2, <2>1, <2>3, <2>4, OneBidHandled
<1>4. CASE CancelOwnBid(s, l, p)
  <2>1. PICK b \in Own(bid, l, p) : Settle(s, Locked(l), AllCancelled(bid, {b}), <<>>, {p}, {l})
    BY <1>4 DEF CancelOwnBid
  <2>2. bid[b] \in BidRow /\ bid[b].status # "none" /\ bid[b].spot = p /\ bid[b].listing = l
    BY <1>1, OwnIs DEF Written
  <2>3. AllCancelled(bid, {b}) = b :> CancelledBid(bid[b])
    BY DEF AllCancelled, :>
  <2>4. CancelledBid(bid[b]) \in Written /\ Even(CancelledBid(bid[b]))
    BY <2>2, CancelledIs
  <2> QED
    BY <1>2, <2>1, <2>3, <2>4, OneBidHandled
<1>5. ASSUME NEW a \in Amounts, LowerBid(s, l, p, a) PROVE Handles(s)
  <2>1. PICK b \in Own(bid, l, p) :
          Settle(s, Locked(l), b :> [bid[b] EXCEPT !.amount = a, !.raise = 0, !.since = Dated(bid, p)], <<>>, {p}, {})
    BY <1>5 DEF LowerBid
  <2>2. bid[b] \in Written /\ bid[b].spot = p /\ bid[b].listing = l /\ 0 \in Amount
    BY <1>1, OwnIs DEF Amount
  <2>3. a \in Amount /\ a # 0 /\ Dated(bid, p) \in Nat
    BY <1>1, DatedIs, SpotsAssumption DEF Amount
  <2>4. PICK r : r = [bid[b] EXCEPT !.amount = a, !.raise = 0, !.since = Dated(bid, p)]
    OBVIOUS
  <2>5. r \in Written /\ (Even(bid[b]) => Even(r))
    BY <2>2, <2>3, <2>4 DEF Written, BidRow, BidRows, Even
  <2>6. Settle(s, Locked(l), b :> r, <<>>, {p}, {}) /\ {} \in SUBSET {l}
    BY <2>1, <2>4
  <2> QED
    BY <1>2, <2>5, <2>6, OneBidHandled
<1> QED
  BY <1>3, <1>4, <1>5

(* An amount that waits for the buyer counts nowhere yet.                  *)
LEMMA OfferedIs ==
  ASSUME Typed, NEW l \in Listings, NEW p \in Spots, NEW a \in Amounts, NEW bs \in Offered(l, p, a)
  PROVE  /\ bs \in Some(Bids, Written)
         /\ \A b \in DOMAIN bs : Even(bid[b]) => Even(bs[b])
<1>0. bid \in [Bids -> BidRow] /\ a \in Amount /\ a # 0 /\ 0 \in Amount
  BY SpotsAssumption DEF Typed, Amount
<1>1. CASE Own(bid, l, p) # {}
  <2>1. PICK b \in Own(bid, l, p) : bs = b :> [bid[b] EXCEPT !.raise = a]
    BY <1>1 DEF Offered
  <2>2. b \in Bids /\ bid[b] \in Written /\ bid[b].spot = p
    BY <1>0, OwnIs
  <2>3. PICK r : r = [bid[b] EXCEPT !.raise = a]
    OBVIOUS
  <2>4. r \in Written /\ (Even(bid[b]) => Even(r))
    BY <1>0, <2>2, <2>3 DEF Written, BidRow, BidRows, Even
  <2>5. bs = b :> r
    BY <2>1, <2>3
  <2>6. bs \in Some(Bids, Written) /\ DOMAIN bs = {b}
    BY <2>2, <2>4, <2>5, OneIsSome
  <2>7. bs[b] = r
    BY <2>5 DEF :>
  <2> QED
    BY <2>2, <2>4, <2>6, <2>7
<1>2. CASE Own(bid, l, p) = {}
  <2>1. PICK b \in FreshBid : bs = b :> [NoBid EXCEPT !.listing = l, !.spot = p, !.status = "pending",
                                                     !.amount = a, !.since = Dated(bid, p)]
    BY <1>2 DEF Offered
  <2>2. b \in Bids /\ bid[b].status = "none" /\ Dated(bid, p) \in Nat
    BY <1>0, DatedIs DEF FreshBid
  <2>3. PICK r : r = [NoBid EXCEPT !.listing = l, !.spot = p, !.status = "pending",
                                   !.amount = a, !.since = Dated(bid, p)]
    OBVIOUS
  <2>4. NoBid \in BidRow /\ NoBid.position = 0
    BY Nothing DEF NoBid
  <2>41. r \in Written /\ Even(r)
    BY <1>0, <2>2, <2>3, <2>4 DEF Written, BidRow, BidRows, Even
  <2>5. bs = b :> r
    BY <2>1, <2>3
  <2>6. bs \in Some(Bids, Written) /\ DOMAIN bs = {b}
    BY <2>2, <2>41, <2>5, OneIsSome
  <2>7. bs[b] = r
    BY <2>5 DEF :>
  <2> QED
    BY <2>2, <2>41, <2>6, <2>7
<1> QED
  BY <1>1, <1>2

LEMMA StartHandled ==
  ASSUME Typed, NEW s \in Sessions, NEW l \in Listings, NEW p \in Spots, NEW a \in Amounts,
         StartSubscription(s, l, p, a)
  PROVE  Handles(s)
<1>1. PICK q : q = Projected(bid, l, p, a)
  OBVIOUS
<1>2. PICK bs \in Offered(l, p, a), i \in FreshSub :
        /\ Finish(s, Locked(l), bs, i :> [NoSub EXCEPT !.listing = l, !.status = "approval_pending", !.requested = q])
        /\ paypal' = [paypal EXCEPT ![i] = [NoPay EXCEPT !.status = "APPROVAL_PENDING", !.offer = q]]
  BY <1>1 DEF StartSubscription
<1>3. q \in Nat /\ i \in Subs /\ sub[i].status = "none"
  BY <1>1, ProjectedIs, SpotsAssumption DEF Typed, FreshSub
<1>4. PICK row : row = [NoSub EXCEPT !.listing = l, !.status = "approval_pending", !.requested = q]
  OBVIOUS
<1>5. row \in SubRows
  BY <1>3, <1>4, Nothing DEF SubRows, LiveStatus
<1>6. (i :> row) \in Some(Subs, SubRows) /\ DOMAIN (i :> row) = {i}
  BY <1>3, <1>5, OneIsSome
<1>7. Wrote(s, bs, i :> row, {})
  BY <1>2, <1>4, <1>6, OfferedIs, LockedIs, FinishWrites DEF Blank
<1>8. AllEven(s) => \A b \in DOMAIN bs : Owed(bs[b], {})
  <2>1. DOMAIN bs \subseteq Bids
    BY OfferedIs, SomeIs
  <2> QED
    BY <2>1, OfferedIs DEF AllEven, Owed
<1>9. UNCHANGED <<bid, sub, closed>> /\ Around' /\ tx[s].pc = "idle"
  <2>1. Spend /\ UNCHANGED <<bid, sub, mail, closed>> /\ tx[s].pc = "idle"
    BY DEF StartSubscription, LockListing
  <2>2. [NoPay EXCEPT !.status = "APPROVAL_PENDING", !.offer = q] \in PayRow
    BY <1>3, Nothing DEF PayRow
  <2>3. paypal' \in [Subs -> PayRow]
    BY <1>2, <2>2 DEF Typed, Around
  <2> QED
    BY <2>1, <2>3, SpendIs DEF Typed, Around
<1> QED
  BY <1>6, <1>7, <1>8, <1>9, OfferedIs DEF Handles

LEMMA ViewIs ==
  ASSUME NEW f \in Some(Bids, Written), NEW B \in [Bids -> BidRow]
  PROVE  /\ f @@ B \in [Bids -> BidRow] /\ DOMAIN f \subseteq Bids
         /\ \A b \in Bids : (f @@ B)[b] = IF b \in DOMAIN f THEN f[b] ELSE B[b]
         /\ \A b \in DOMAIN f : f[b] \in Written
<1>1. Written \subseteq BidRow
  BY DEF Written
<1>2. DOMAIN f \subseteq Bids /\ f \in [DOMAIN f -> Written]
  BY SomeIs
<1>3. f \in [DOMAIN f -> BidRow]
  BY <1>1, <1>2
<1>4. f \in Some(Bids, BidRow)
  BY <1>2, <1>3, SomeHas
<1>5. /\ f @@ B \in [Bids -> BidRow]
      /\ \A b \in Bids : (f @@ B)[b] = IF b \in DOMAIN f THEN f[b] ELSE B[b]
  BY <1>4, OverAll
<1> QED
  BY <1>2, <1>5

LEMMA RowsIs ==
  ASSUME NEW f \in Some(Subs, SubRows), NEW S \in [Subs -> SubRows]
  PROVE  /\ f @@ S \in [Subs -> SubRows] /\ DOMAIN f \subseteq Subs
         /\ \A i \in Subs : (f @@ S)[i] = IF i \in DOMAIN f THEN f[i] ELSE S[i]
<1>1. DOMAIN f \subseteq Subs
  BY SomeIs
<1> QED
  BY <1>1, OverAll

LEMMA ViewsIs ==
  ASSUME Typed, NEW s \in Sessions
  PROVE  /\ tx[s] \in Transaction /\ tx[s].bids \in Some(Bids, Written) /\ tx[s].subs \in Some(Subs, SubRows)
         /\ ViewBids(s) \in [Bids -> BidRow] /\ ViewSubs(s) \in [Subs -> SubRows]
         /\ \A b \in Bids : ViewBids(s)[b] = IF b \in DOMAIN tx[s].bids THEN tx[s].bids[b] ELSE bid[b]
         /\ \A b \in DOMAIN tx[s].bids : b \in Bids /\ tx[s].bids[b] \in Written
         /\ \A i \in Subs : ViewSubs(s)[i] = IF i \in DOMAIN tx[s].subs THEN tx[s].subs[i] ELSE sub[i]
<1>1. /\ tx[s] \in Transaction /\ tx[s].bids \in Some(Bids, Written) /\ tx[s].subs \in Some(Subs, SubRows)
      /\ bid \in [Bids -> BidRow] /\ sub \in [Subs -> SubRows]
  BY DEF Typed, Working, Transaction
<1>2. /\ ViewBids(s) \in [Bids -> BidRow]
      /\ \A b \in Bids : ViewBids(s)[b] = IF b \in DOMAIN tx[s].bids THEN tx[s].bids[b] ELSE bid[b]
      /\ \A b \in DOMAIN tx[s].bids : b \in Bids /\ tx[s].bids[b] \in Written
  BY <1>1, ViewIs DEF ViewBids
<1>3. /\ ViewSubs(s) \in [Subs -> SubRows]
      /\ \A i \in Subs : ViewSubs(s)[i] = IF i \in DOMAIN tx[s].subs THEN tx[s].subs[i] ELSE sub[i]
  BY <1>1, RowsIs DEF ViewSubs
<1> QED
  BY <1>1, <1>2, <1>3

(* The steps of an owner's bid between its calls of PayPal.                *)
Offers(s) ==
  /\ UNCHANGED <<bid, sub, closed>> /\ Around' /\ tx[s].pc \in {"idle"} \cup Asking
  /\ \E w \in Transaction :
       /\ tx' = [tx EXCEPT ![s] = w] /\ w.pc \in Asking /\ Offering(w)
       /\ AllEven(s) => \A b \in DOMAIN w.bids : Even(w.bids[b])

LEMMA OfferOffers ==
  ASSUME Typed, NEW s \in Sessions, NEW l \in Listings, NEW p \in Spots, NEW a \in Amounts,
         OfferBid(s, l, p, a)
  PROVE  Offers(s)
<1>1. PICK q : q = Projected(bid, l, p, a)
  OBVIOUS
<1>2. PICK bs \in Offered(l, p, a), i \in Approved(sub, l) :
        tx' = [tx EXCEPT ![s] = [Locked(l) EXCEPT !.pc = "offered", !.bids = bs, !.touched = {p},
                                                  !.seen = sub[i], !.event = Notice(i, "none", q)]]
  BY <1>1 DEF OfferBid
<1>3. q \in Nat /\ i \in Subs /\ sub[i] \in SubRows
  BY <1>1, ProjectedIs, SpotsAssumption DEF Typed, Approved, LiveSubs
<1>4. PICK e : e = Notice(i, "none", q) /\ e \in Letters /\ e \in Words
  <2>1. Notice(i, "none", q) \in Letters /\ Notice(i, "none", q) \in Words
    BY <1>3 DEF Notice, Letters, Words
  <2> QED
    BY <2>1
<1>5. /\ bs \in Some(Bids, Written) /\ DOMAIN bs \subseteq Bids
      /\ \A b \in DOMAIN bs : Even(bid[b]) => Even(bs[b])
  BY OfferedIs, SomeIs
<1>6. PICK base, w : /\ base = Locked(l)
                     /\ w = [base EXCEPT !.pc = "offered", !.bids = bs, !.touched = {p},
                                         !.seen = sub[i], !.event = e]
  OBVIOUS
<1>7. /\ w \in Transaction /\ w.pc = "offered" /\ w.bids = bs /\ w.ranks = <<>> /\ w.todo = {}
      /\ w.event = e /\ w.lock = l
  <2>1. base \in Transaction /\ base.ranks = <<>> /\ base.todo = {} /\ base.lock = l
    BY <1>6, LockedIs DEF Blank
  <2> QED
    BY <1>3, <1>4, <1>5, <1>6, <2>1 DEF Transaction, Asking
<1>8. UNCHANGED <<bid, sub, closed>> /\ Around' /\ tx[s].pc = "idle"
  <2>1. Spend /\ UNCHANGED <<bid, sub, paypal, mail, closed>> /\ tx[s].pc = "idle"
    BY DEF OfferBid, LockListing
  <2> QED
    BY <2>1, SpendIs, StillAround
<1>9. AllEven(s) => \A b \in DOMAIN w.bids : Even(w.bids[b])
  BY <1>5, <1>7 DEF AllEven
<1>10. Offering(w) /\ w.pc \in Asking
  BY <1>4, <1>7 DEF Offering, Asking
<1> QED
  BY <1>2, <1>4, <1>6, <1>7, <1>8, <1>9, <1>10 DEF Offers

LEMMA AskingIs ==
  ASSUME Typed, NEW s \in Sessions, tx[s].pc \in Asking
  PROVE  /\ tx[s] \in Transaction /\ Offering(tx[s])
         /\ tx[s].event.sub \in Subs /\ tx[s].event.quantity \in Nat /\ tx[s].event \in Letters
         /\ tx[s].lock \in Listings
         /\ sub[tx[s].event.sub] \in SubRows /\ paypal[tx[s].event.sub] \in PayRow
         /\ edits \in 0..MaxEdits
BY DEF Typed, Working, Around, Offering, Letters

(* A step of such a bid that leaves its rows, and the tables, alone.       *)
LEMMA AskingOffers ==
  ASSUME Typed, NEW s \in Sessions, tx[s].pc \in Asking, NEW w \in Transaction,
         tx' = [tx EXCEPT ![s] = w], w.pc \in Asking, w.bids = tx[s].bids, w.ranks = tx[s].ranks,
         w.todo = tx[s].todo, w.event = tx[s].event, w.lock = tx[s].lock,
         UNCHANGED <<bid, sub, closed>>, Around'
  PROVE  Offers(s)
<1>1. Offering(w)
  BY AskingIs DEF Offering
<1> QED
  BY <1>1 DEF Offers, AllEven

LEMMA ResumeOffers ==
  ASSUME Typed, NEW s \in Sessions, Resume(s)
  PROVE  Offers(s)
<1>1. tx[s].pc \in Asking /\ UNCHANGED <<bid, sub, closed, edits>>
  BY DEF Resume, Asking
<1>2. PICK i : i = tx[s].event.sub
  OBVIOUS
<1>3. i \in Subs /\ tx[s] \in Transaction /\ Activated(paypal[i]) \in PayRow /\ edits' \in 0..MaxEdits
  BY <1>1, <1>2, AskingIs, PayTyped
<1>4. PICK w : w = [tx[s] EXCEPT !.pc = "resumed"]
  OBVIOUS
<1>5. /\ w \in Transaction /\ w.pc = "resumed" /\ w.bids = tx[s].bids /\ w.ranks = tx[s].ranks
      /\ w.todo = tx[s].todo /\ w.event = tx[s].event /\ w.lock = tx[s].lock
  BY <1>3, <1>4 DEF Transaction, Asking
<1>6. tx' = [tx EXCEPT ![s] = w]
  BY <1>4 DEF Resume, Typed, Working
<1>7. Around'
  <2>1. [paypal EXCEPT ![i] = Activated(@)] \in [Subs -> PayRow]
    BY <1>3 DEF Typed, Around
  <2>2. PayPalMoves([paypal EXCEPT ![i] = Activated(@)])
    BY <1>2 DEF Resume
  <2> QED
    BY <1>3, <2>1, <2>2, MovesTyped
<1>8. w.pc \in Asking
  BY <1>5 DEF Asking
<1> QED
  BY <1>1, <1>5, <1>6, <1>7, <1>8, AskingOffers

LEMMA ReviseOffers ==
  ASSUME Typed, NEW s \in Sessions, ReviseBid(s)
  PROVE  Offers(s)
<1>1. tx[s].pc \in Asking /\ UNCHANGED <<bid, sub, mail, closed, edits>>
  BY DEF ReviseBid, Revising, Asking
<1>2. PICK i, q : i = tx[s].event.sub /\ q = tx[s].event.quantity
  OBVIOUS
<1>3. i \in Subs /\ tx[s] \in Transaction /\ [paypal[i] EXCEPT !.offer = q] \in PayRow /\ edits \in 0..MaxEdits
  BY <1>1, <1>2, AskingIs, PayTyped
<1>4. PICK w : w = [tx[s] EXCEPT !.pc = "revised"]
  OBVIOUS
<1>5. /\ w \in Transaction /\ w.pc = "revised" /\ w.bids = tx[s].bids /\ w.ranks = tx[s].ranks
      /\ w.todo = tx[s].todo /\ w.event = tx[s].event /\ w.lock = tx[s].lock
  BY <1>3, <1>4 DEF Transaction, Asking
<1>6. tx' = [tx EXCEPT ![s] = w]
  BY <1>4 DEF ReviseBid, Typed, Working
<1>7. Around'
  <2>1. paypal' = [paypal EXCEPT ![i] = [paypal[i] EXCEPT !.offer = q]]
    BY <1>2 DEF ReviseBid
  <2>2. paypal' \in [Subs -> PayRow]
    BY <1>3, <2>1 DEF Typed, Around
  <2> QED
    BY <1>1, <1>3, <2>2 DEF Typed, Around
<1>8. w.pc \in Asking
  BY <1>5 DEF Asking
<1> QED
  BY <1>1, <1>5, <1>6, <1>7, <1>8, AskingOffers

LEMMA ResumedOffers ==
  ASSUME Typed, NEW s \in Sessions, RecordResume(s)
  PROVE  Offers(s)
<1>1. /\ tx[s].pc \in Asking /\ UNCHANGED <<bid, sub, paypal, mail, closed, edits>>
  BY DEF RecordResume, Asking
<1>2. PICK i : i = tx[s].event.sub
  OBVIOUS
<1>3. i \in Subs /\ tx[s] \in Transaction /\ sub[i] \in SubRows /\ tx[s].seen \in SubRows /\ edits \in 0..MaxEdits
  BY <1>1, <1>2, AskingIs DEF Transaction
<1>4. PICK row, seen : row = [sub[i] EXCEPT !.status = "active"] /\ seen = [tx[s].seen EXCEPT !.status = "active"]
  OBVIOUS
<1>5. row \in SubRows /\ seen \in SubRows
  BY <1>3, <1>4 DEF SubRows, LiveStatus
<1>6. (i :> row) \in Some(Subs, SubRows)
  BY <1>3, <1>5, OneIsSome
<1>7. PICK w : w = [tx[s] EXCEPT !.pc = "offered", !.seen = seen, !.subs = i :> row]
  OBVIOUS
<1>8. /\ w \in Transaction /\ w.pc = "offered" /\ w.bids = tx[s].bids /\ w.ranks = tx[s].ranks
      /\ w.todo = tx[s].todo /\ w.event = tx[s].event /\ w.lock = tx[s].lock
  BY <1>3, <1>5, <1>6, <1>7 DEF Transaction, Asking
<1>9. tx' = [tx EXCEPT ![s] = w]
  <2>1. tx' = [tx EXCEPT ![s].pc = "offered", ![s].seen.status = "active", ![s].subs = i :> row]
    BY <1>2, <1>4 DEF RecordResume
  <2>2. tx \in [Sessions -> Transaction]
    BY DEF Typed, Working
  <2> QED
    BY <1>4, <1>7, <2>1, <2>2 DEF Transaction
<1>10. Around'
  BY <1>1, <1>3, StillAround
<1>11. w.pc \in Asking
  BY <1>8 DEF Asking
<1> QED
  BY <1>1, <1>8, <1>9, <1>10, <1>11, AskingOffers

LEMMA RevisedHandled ==
  ASSUME Typed, NEW s \in Sessions, RecordRevise(s)
  PROVE  Handles(s)
<1>1. tx[s].pc \in Asking /\ UNCHANGED <<bid, sub, paypal, mail, closed, edits>>
  BY DEF RecordRevise, Asking
<1>2. PICK i, q : i = tx[s].event.sub /\ q = tx[s].event.quantity
  OBVIOUS
<1>3. /\ i \in Subs /\ q \in Nat /\ tx[s] \in Transaction /\ edits \in 0..MaxEdits
      /\ tx[s].ranks = <<>> /\ tx[s].todo = {} /\ tx[s].bids \in Some(Bids, Written)
  BY <1>1, <1>2, AskingIs DEF Offering, Transaction
<1>4. ViewSubs(s)[i] \in SubRows
  BY <1>3, ViewsIs
<1>5. PICK row : row = [ViewSubs(s)[i] EXCEPT !.requested = q, !.asked = TRUE, !.aged = FALSE]
  OBVIOUS
<1>6. row \in SubRows
  BY <1>3, <1>4, <1>5 DEF SubRows
<1>7. (i :> row) \in Some(Subs, SubRows)
  BY <1>3, <1>6, OneIsSome
<1>8. Finish(s, tx[s], tx[s].bids, i :> row)
  BY <1>2, <1>5 DEF RecordRevise
<1>9. Wrote(s, tx[s].bids, i :> row, {})
  BY <1>3, <1>7, <1>8, FinishWrites
<1>10. Around'
  BY <1>1, <1>3, StillAround
<1>11. AllEven(s) => \A b \in DOMAIN tx[s].bids : Owed(tx[s].bids[b], {})
  BY DEF AllEven, Owed
<1>12. {} \in SUBSET Spots
  OBVIOUS
<1> QED
  BY <1>1, <1>3, <1>7, <1>9, <1>10, <1>11, <1>12 DEF Handles

LEMMA AtOnceHandled ==
  ASSUME Typed, NEW s \in Sessions, BidAtOnce(s)
  PROVE  Handles(s)
<1>1. tx[s].pc \in Asking /\ UNCHANGED <<bid, sub, paypal, mail, closed, edits>>
  BY DEF BidAtOnce, AtOnce, Asking
<1>2. PICK i, q : i = tx[s].event.sub /\ q = tx[s].event.quantity
  OBVIOUS
<1>3. /\ i \in Subs /\ q \in Nat /\ tx[s] \in Transaction /\ edits \in 0..MaxEdits
      /\ tx[s].ranks = <<>> /\ tx[s].touched \in SUBSET Spots
  BY <1>1, <1>2, AskingIs DEF Offering, Transaction
<1>4. PICK row : row = [ViewSubs(s)[i] EXCEPT !.requested = q, !.asked = FALSE]
  OBVIOUS
<1>5. row \in SubRows
  <2>1. ViewSubs(s)[i] \in SubRows
    BY <1>3, ViewsIs
  <2> QED
    BY <1>3, <1>4, <2>1 DEF SubRows
<1>6. (i :> row) \in Some(Subs, SubRows)
  BY <1>3, <1>5, OneIsSome
<1>7. PICK C : C = ConfirmListingBids(ViewBids(s), tx[s].lock)
  OBVIOUS
<1>8. /\ ViewBids(s) \in [Bids -> BidRow] /\ tx[s].bids \in Some(Bids, Written)
      /\ \A b \in Bids : ViewBids(s)[b] = IF b \in DOMAIN tx[s].bids THEN tx[s].bids[b] ELSE bid[b]
  BY ViewsIs
<1>9. /\ C \in Some(Bids, Written) /\ DOMAIN C \subseteq Bids
      /\ \A b \in DOMAIN C : C[b].status = "active" \/ (Even(ViewBids(s)[b]) => Even(C[b]))
  <2>1. /\ C \in Some(Bids, Written) /\ DOMAIN C = Unconfirmed(ViewBids(s), tx[s].lock)
        /\ \A b \in Unconfirmed(ViewBids(s), tx[s].lock) :
             C[b].status = "active" \/ (Even(ViewBids(s)[b]) => Even(C[b]))
    BY <1>7, <1>8, ConfirmIs
  <2>2. DOMAIN C \subseteq Bids
    BY <2>1, SomeIs
  <2> QED
    BY <2>1, <2>2
<1>10. PICK bs : bs = MadeReal(s)
  OBVIOUS
<1>11. bs = C @@ tx[s].bids /\ bs \in Some(Bids, Written)
  BY <1>7, <1>8, <1>9, <1>10, OverIsSome DEF MadeReal
<1>12. PICK spots : spots = tx[s].touched \cup SpotsOf(bs, DOMAIN bs)
  OBVIOUS
<1>13. spots \in SUBSET Spots /\ \A b \in DOMAIN bs : bs[b].spot \in spots
  <2>1. bs \in [DOMAIN bs -> Written]
    BY <1>11, SomeIs
  <2>2. \A b \in DOMAIN bs : bs[b].spot \in Spots
    BY <2>1 DEF Written, BidRow
  <2> QED
    BY <1>3, <1>12, <2>2 DEF SpotsOf
<1>14. Settle(s, tx[s], bs, i :> row, spots, {})
  BY <1>2, <1>4, <1>10, <1>12 DEF BidAtOnce
<1>15. Wrote(s, bs, i :> row, spots)
  <2>1. {} \in SUBSET (Listings \cup {NoListing})
    OBVIOUS
  <2> QED
    BY <1>3, <1>6, <1>11, <1>13, <1>14, <2>1, SettleWrites
<1>16. ASSUME AllEven(s), NEW b \in DOMAIN bs PROVE Owed(bs[b], spots)
  <2>1. b \in DOMAIN C \/ b \in DOMAIN tx[s].bids
    BY <1>11 DEF @@
  <2>2. CASE b \in DOMAIN C
    <3>1. bs[b] = C[b] /\ b \in Bids
      BY <1>9, <1>11, <2>2 DEF @@
    <3>2. Even(ViewBids(s)[b])
      BY <1>8, <1>16, <3>1 DEF AllEven
    <3> QED
      BY <1>9, <1>13, <2>2, <3>1, <3>2 DEF Owed
  <2>3. CASE b \notin DOMAIN C
    <3>1. bs[b] = tx[s].bids[b] /\ b \in DOMAIN tx[s].bids
      BY <1>11, <2>1, <2>3 DEF @@
    <3> QED
      BY <1>16, <3>1 DEF AllEven, Owed
  <2> QED
    BY <2>2, <2>3
<1>17. Around'
  BY <1>1, <1>3, StillAround
<1> QED
  BY <1>1, <1>6, <1>11, <1>13, <1>15, <1>16, <1>17 DEF Handles

LEMMA OwnersIs ==
  ASSUME Typed, NEW s \in Sessions, Owners(s)
  PROVE  Handles(s) \/ Offers(s)
BY EditHandled, StartHandled, OfferOffers DEF Owners

LEMMA BiddingIs ==
  ASSUME Typed, NEW s \in Sessions, Bidding(s), ~RefuseBid(s)
  PROVE  Handles(s) \/ Offers(s)
BY ResumeOffers, ResumedOffers, ReviseOffers, RevisedHandled, AtOnceHandled DEF Bidding
-----------------------------------------------------------------------------
(* All the live bids of a listing, or of a spot, are cancelled.            *)
LEMMA GoneIs ==
  ASSUME Typed, NEW gone \in SUBSET LiveBids(bid)
  PROVE  LET bs == AllCancelled(bid, gone)
         IN  /\ bs \in Some(Bids, Written) /\ DOMAIN bs = gone
             /\ \A b \in gone : Even(bs[b]) /\ bid[b].listing \in Listings
<1>1. bid \in [Bids -> BidRow]
  BY DEF Typed
<1>2. PICK bs : bs = AllCancelled(bid, gone)
  OBVIOUS
<1>3. bs \in Some(Bids, Written) /\ DOMAIN bs = gone /\ \A b \in gone : bs[b] = CancelledBid(bid[b])
  BY <1>1, <1>2, AllCancelledIs
<1>4. \A b \in gone : bid[b] \in BidRow /\ bid[b].listing \in Listings
  BY <1>1, LiveIs DEF Written
<1>5. \A b \in gone : Even(bs[b])
  BY <1>3, <1>4, CancelledIs
<1> QED
  BY <1>2, <1>3, <1>4, <1>5

LEMMA CloseHandled ==
  ASSUME Typed, NEW s \in Sessions, NEW p \in Spots, CloseSpot(s, p)
  PROVE  Handles(s)
<1>1. PICK gone : gone = On(bid, p)
  OBVIOUS
<1>2. gone \in SUBSET LiveBids(bid)
  BY <1>1 DEF On
<1>3. PICK bs : bs = AllCancelled(bid, gone)
  OBVIOUS
<1>4. /\ bs \in Some(Bids, Written) /\ DOMAIN bs = gone
      /\ \A b \in gone : Even(bs[b]) /\ bid[b].listing \in Listings
  BY <1>2, <1>3, GoneIs
<1>5. <<>> \in Some(Subs, SubRows) /\ DOMAIN <<>> = {}
  BY NoneIsSome
<1>6. [Idle EXCEPT !.shut = {p}] \in Transaction /\ Blank([Idle EXCEPT !.shut = {p}])
  BY Nothing DEF Transaction, Idle, Blank
<1>7. PICK also \in SUBSET (Listings \cup {NoListing}) :
        Settle(s, [Idle EXCEPT !.shut = {p}], bs, <<>>, {p}, also)
  <2>1. {bid[b].listing : b \in gone} \in SUBSET (Listings \cup {NoListing})
    BY <1>4
  <2> QED
    BY <1>1, <1>3, <2>1 DEF CloseSpot
<1>8. Wrote(s, bs, <<>>, {p})
  BY <1>4, <1>5, <1>6, <1>7, SettleWrites DEF Blank
<1>9. \A b \in DOMAIN bs : Owed(bs[b], {p})
  BY <1>4 DEF Owed
<1>10. UNCHANGED <<bid, sub, closed>> /\ Around' /\ tx[s].pc = "idle"
  <2>1. Spend /\ UNCHANGED <<bid, sub, paypal, mail, closed>> /\ tx[s].pc = "idle"
    BY DEF CloseSpot
  <2> QED
    BY <2>1, SpendIs, StillAround
<1> QED
  BY <1>4, <1>5, <1>8, <1>9, <1>10 DEF Handles
-----------------------------------------------------------------------------
(* Notifications and the sync.                                             *)
LEMMA SeenIs ==
  ASSUME Typed, NEW s \in Sessions, tx[s].pc \in {"seen", "picked"}
  PROVE  /\ tx[s] \in Transaction /\ Blank(tx[s]) /\ tx[s].event \in Words
         /\ tx[s].event.sub \in Subs /\ sub[tx[s].event.sub] \in SubRows
         /\ sub[tx[s].event.sub].listing \in Listings \cup {NoListing}
BY DEF Typed, Working, Reads, Words, SubRows

(* A handler writes the row of subscription i with the bids bs.            *)
LEMMA RowHandled ==
  ASSUME Typed, NEW s \in Sessions, NEW i \in Subs, NEW row \in SubRows,
         NEW bs \in Some(Bids, Written), NEW spots \in SUBSET Spots, Wrote(s, bs, i :> row, spots),
         UNCHANGED <<bid, sub, closed>>, Around', tx[s].pc \in Reads,
         (\A b \in Bids : Even(bid[b])) => \A b \in DOMAIN bs : Owed(bs[b], spots)
  PROVE  Handles(s)
<1>1. (i :> row) \in Some(Subs, SubRows)
  BY OneIsSome
<1> QED
  BY <1>1 DEF Handles, AllEven

LEMMA SpotsOfIs ==
  ASSUME Typed, NEW bs \in SUBSET LiveBids(bid)
  PROVE  SpotsOf(bid, bs) \in SUBSET Spots /\ \A b \in bs : bid[b].spot \in SpotsOf(bid, bs)
BY LiveIs DEF SpotsOf, Typed

LEMMA ConfirmHandled ==
  ASSUME Typed, NEW s \in Sessions, Confirm(s)
  PROVE  Handles(s)
<1>1. PICK i, l, e : i = tx[s].event.sub /\ l = sub[i].listing /\ e = tx[s].event
  OBVIOUS
<1> DEFINE covers == Covers(e, tx[s].seen)
<1>2. PICK bs : bs = IF covers THEN ConfirmListingBids(bid, l) ELSE <<>>
  OBVIOUS
<1>3. PICK row : row = [sub[i] EXCEPT !.status = "active",
                                      !.quantity = IF e.quantity = Unsaid THEN @ ELSE e.quantity,
                                      !.asked = IF covers THEN FALSE ELSE @]
  OBVIOUS
<1>4. PICK spots : spots = SpotsOf(bid, Of(bid, l))
  OBVIOUS
<1>5. /\ tx[s].pc = "seen" /\ Settle(s, tx[s], bs, i :> row, spots, {})
      /\ UNCHANGED <<bid, sub, paypal, mail, closed, edits>>
  BY <1>1, <1>2, <1>3, <1>4 DEF Confirm
<1>6. /\ tx[s] \in Transaction /\ tx[s].ranks = <<>> /\ i \in Subs /\ sub[i] \in SubRows /\ e \in Words
  BY <1>1, <1>5, SeenIs DEF Blank
<1>7. row \in SubRows
  <2>1. e.quantity \in Nat \cup {Unsaid}
    BY <1>6 DEF Words
  <2>2. PICK q \in Nat : q = IF e.quantity = Unsaid THEN sub[i].quantity ELSE e.quantity
    BY <1>6, <2>1 DEF SubRows
  <2>3. row = [sub[i] EXCEPT !.status = "active", !.quantity = q, !.asked = IF covers THEN FALSE ELSE @]
    BY <1>3, <1>6, <2>2 DEF SubRows
  <2> HIDE DEF covers
  <2> QED
    BY <1>6, <2>2, <2>3 DEF SubRows, LiveStatus
<1>8. /\ bs \in Some(Bids, Written)
      /\ \A b \in DOMAIN bs : /\ b \in Of(bid, l) /\ bs[b].spot = bid[b].spot
                              /\ bs[b].status = "active" \/ (Even(bid[b]) => Even(bs[b]))
  <2>1. CASE covers
    <3>1. bs = ConfirmListingBids(bid, l)
      BY <1>2, <2>1
    <3>2. bid \in [Bids -> BidRow]
      BY DEF Typed
    <3>3. /\ bs \in Some(Bids, Written) /\ DOMAIN bs = Unconfirmed(bid, l)
          /\ \A b \in Unconfirmed(bid, l) :
               bs[b].spot = bid[b].spot /\ (bs[b].status = "active" \/ (Even(bid[b]) => Even(bs[b])))
      BY <3>1, <3>2, ConfirmIs
    <3>4. Unconfirmed(bid, l) \subseteq Of(bid, l)
      BY DEF Unconfirmed
    <3> QED
      BY <3>3, <3>4
  <2>2. CASE ~covers
    <3>1. bs = <<>>
      BY <1>2, <2>2
    <3> QED
      BY <3>1, NoneIsSome
  <2> QED
    BY <2>1, <2>2
<1>9. spots \in SUBSET Spots /\ \A b \in Of(bid, l) : b \in Bids /\ bid[b].spot \in spots
  <2>1. Of(bid, l) \in SUBSET LiveBids(bid) /\ LiveBids(bid) \subseteq Bids
    BY DEF Of, LiveBids
  <2> QED
    BY <1>4, <2>1, SpotsOfIs
<1>10. Wrote(s, bs, i :> row, spots)
  <2>1. (i :> row) \in Some(Subs, SubRows) /\ {} \in SUBSET (Listings \cup {NoListing})
    BY <1>6, <1>7, OneIsSome
  <2> QED
    BY <1>5, <1>6, <1>8, <1>9, <2>1, SettleWrites
<1>11. (\A b \in Bids : Even(bid[b])) => \A b \in DOMAIN bs : Owed(bs[b], spots)
  BY <1>8, <1>9 DEF Owed
<1>12. Around' /\ tx[s].pc \in Reads
  BY <1>5, StillAround DEF Typed, Around, Reads
<1> QED
  BY <1>5, <1>6, <1>7, <1>8, <1>9, <1>10, <1>11, <1>12, RowHandled

LEMMA ChargedHandled ==
  ASSUME Typed, NEW s \in Sessions, Charged(s)
  PROVE  Handles(s)
<1>1. PICK i, e : i = tx[s].event.sub /\ e = tx[s].event
  OBVIOUS
<1>2. PICK row : row = [sub[i] EXCEPT !.status = IF e.type = "SALE" THEN "active" ELSE "past_due"]
  OBVIOUS
<1>3. /\ tx[s].pc = "seen" /\ Finish(s, tx[s], <<>>, i :> row)
      /\ UNCHANGED <<bid, sub, paypal, mail, closed, edits>>
  BY <1>1, <1>2 DEF Charged
<1>4. /\ tx[s] \in Transaction /\ Blank(tx[s]) /\ i \in Subs /\ sub[i] \in SubRows
  BY <1>1, <1>3, SeenIs
<1>5. row \in SubRows
  BY <1>2, <1>4 DEF SubRows, LiveStatus
<1>6. <<>> \in Some(Bids, Written) /\ DOMAIN <<>> = {}
  BY NoneIsSome
<1>7. Wrote(s, <<>>, i :> row, {})
  <2>1. (i :> row) \in Some(Subs, SubRows)
    BY <1>4, <1>5, OneIsSome
  <2> QED
    BY <1>3, <1>4, <1>6, <2>1, FinishWrites DEF Blank
<1>8. Around' /\ tx[s].pc \in Reads
  BY <1>3, StillAround DEF Typed, Around, Reads
<1>9. {} \in SUBSET Spots /\ \A b \in DOMAIN <<>> : Owed(<<>>[b], {})
  BY <1>6
<1> QED
  BY <1>3, <1>4, <1>5, <1>6, <1>7, <1>8, <1>9, RowHandled

(* All the bids of a subscription's listing go with it.                    *)
LEMMA GoneHandled ==
  ASSUME Typed, NEW s \in Sessions, NEW i \in Subs, NEW row \in SubRows,
         NEW gone \in SUBSET LiveBids(bid), NEW spots \in SUBSET Spots,
         Wrote(s, AllCancelled(bid, gone), i :> row, spots), UNCHANGED <<bid, sub, closed>>, Around',
         tx[s].pc \in Reads
  PROVE  Handles(s)
<1>1. PICK bs : bs = AllCancelled(bid, gone)
  OBVIOUS
<1>2. bs \in Some(Bids, Written) /\ \A b \in DOMAIN bs : Even(bs[b])
  BY <1>1, GoneIs
<1> QED
  BY <1>1, <1>2, RowHandled DEF Owed

LEMMA LapseHandled ==
  ASSUME Typed, NEW s \in Sessions, Lapse(s)
  PROVE  Handles(s)
<1>1. PICK i, e : i = tx[s].event.sub /\ e = tx[s].event
  OBVIOUS
<1>2. PICK gone, row : /\ gone = Of(bid, sub[i].listing)
                       /\ row = [sub[i] EXCEPT !.status = Lapses[e.type], !.asked = FALSE]
  OBVIOUS
<1>3. /\ tx[s].pc = "seen" /\ e.type \in DOMAIN Lapses
      /\ Settle(s, tx[s], AllCancelled(bid, gone), i :> row, SpotsOf(bid, gone), {})
      /\ UNCHANGED <<bid, sub, paypal, mail, closed, edits>>
  BY <1>1, <1>2 DEF Lapse
<1>4. /\ tx[s] \in Transaction /\ Blank(tx[s]) /\ i \in Subs /\ sub[i] \in SubRows
  BY <1>1, <1>3, SeenIs
<1>5. row \in SubRows
  BY <1>2, <1>3, <1>4, NamesOf DEF SubRows
<1>6. gone \in SUBSET LiveBids(bid)
  BY <1>2 DEF Of
<1>7. PICK spots \in SUBSET Spots : spots = SpotsOf(bid, gone)
  BY <1>6, SpotsOfIs
<1>8. Wrote(s, AllCancelled(bid, gone), i :> row, spots)
  <2>1. (i :> row) \in Some(Subs, SubRows)
    BY <1>4, <1>5, OneIsSome
  <2> QED
    BY <1>3, <1>4, <1>6, <1>7, <2>1, GoneIs, SettleWrites DEF Blank
<1>9. Around' /\ tx[s].pc \in Reads
  BY <1>3, StillAround DEF Typed, Around, Reads
<1> QED
  BY <1>3, <1>4, <1>5, <1>6, <1>7, <1>8, <1>9, GoneHandled

LEMMA UnapprovedHandled ==
  ASSUME Typed, NEW s \in Sessions, ExpireUnapproved(s)
  PROVE  Handles(s)
<1>1. PICK i : i = tx[s].event.sub
  OBVIOUS
<1>2. PICK gone, row : gone = Of(bid, sub[i].listing) /\ row = [sub[i] EXCEPT !.status = "expired"]
  OBVIOUS
<1>3. /\ tx[s].pc = "picked" /\ tx[s].seen.status = "approval_pending"
      /\ Finish(s, tx[s], AllCancelled(bid, gone), i :> row)
      /\ UNCHANGED <<bid, sub, paypal, mail, closed, edits>>
  BY <1>1, <1>2 DEF ExpireUnapproved
<1>4. /\ tx[s] \in Transaction /\ Blank(tx[s]) /\ i \in Subs /\ sub[i] \in SubRows
  BY <1>1, <1>3, SeenIs
<1>5. row \in SubRows
  BY <1>2, <1>4 DEF SubRows, ClosedStatus
<1>6. gone \in SUBSET LiveBids(bid)
  BY <1>2 DEF Of
<1>7. Wrote(s, AllCancelled(bid, gone), i :> row, {})
  <2>1. (i :> row) \in Some(Subs, SubRows)
    BY <1>4, <1>5, OneIsSome
  <2> QED
    BY <1>3, <1>4, <1>6, <2>1, GoneIs, FinishWrites DEF Blank
<1>8. Around' /\ tx[s].pc \in Reads
  BY <1>3, StillAround DEF Typed, Around, Reads
<1>9. {} \in SUBSET Spots
  OBVIOUS
<1> QED
  BY <1>3, <1>4, <1>5, <1>6, <1>7, <1>8, <1>9, GoneHandled

LEMMA CancelPausedHandled ==
  ASSUME Typed, NEW s \in Sessions, CancelPaused(s)
  PROVE  Handles(s)
<1>1. PICK i : i = tx[s].event.sub
  OBVIOUS
<1>2. PICK gone, row : /\ gone = Of(bid, sub[i].listing)
                       /\ row = [sub[i] EXCEPT !.status = "cancelled", !.asked = FALSE]
  OBVIOUS
<1>3. /\ tx[s].pc = "picked"
      /\ PayPalMoves([paypal EXCEPT ![i] = Stopped(@)])
      /\ Settle(s, tx[s], AllCancelled(bid, gone), i :> row, SpotsOf(bid, gone), {})
      /\ UNCHANGED <<bid, sub, closed, edits>>
  BY <1>1, <1>2 DEF CancelPaused
<1>4. /\ tx[s] \in Transaction /\ Blank(tx[s]) /\ i \in Subs /\ sub[i] \in SubRows
  BY <1>1, <1>3, SeenIs
<1>5. row \in SubRows
  BY <1>2, <1>4 DEF SubRows, ClosedStatus
<1>6. gone \in SUBSET LiveBids(bid)
  BY <1>2 DEF Of
<1>7. PICK spots \in SUBSET Spots : spots = SpotsOf(bid, gone)
  BY <1>6, SpotsOfIs
<1>8. Wrote(s, AllCancelled(bid, gone), i :> row, spots)
  <2>1. (i :> row) \in Some(Subs, SubRows)
    BY <1>4, <1>5, OneIsSome
  <2> QED
    BY <1>3, <1>4, <1>6, <1>7, <2>1, GoneIs, SettleWrites DEF Blank
<1>9. Around'
  <2>1. Stopped(paypal[i]) \in PayRow /\ edits' \in 0..MaxEdits
    BY <1>3, <1>4, PayTyped DEF Typed, Around
  <2>2. [paypal EXCEPT ![i] = Stopped(@)] \in [Subs -> PayRow]
    BY <2>1 DEF Typed, Around
  <2> QED
    BY <1>3, <2>1, <2>2, MovesTyped
<1>10. tx[s].pc \in Reads
  BY <1>3 DEF Reads
<1> QED
  BY <1>3, <1>4, <1>5, <1>6, <1>7, <1>8, <1>9, <1>10, GoneHandled

LEMMA ExpireReviseHandled ==
  ASSUME Typed, NEW s \in Sessions, ExpireRevise(s)
  PROVE  Handles(s)
<1>1. PICK i, l : i = tx[s].event.sub /\ l = sub[i].listing
  OBVIOUS
<1>2. PICK bs, row : bs = ExpirePendingBids(bid, l) /\ row = [sub[i] EXCEPT !.asked = FALSE]
  OBVIOUS
<1>3. PICK spots : spots = SpotsOf(bid, DOMAIN bs)
  OBVIOUS
<1>4. /\ tx[s].pc = "picked" /\ Settle(s, tx[s], bs, i :> row, spots, {l})
      /\ UNCHANGED <<bid, sub, paypal, mail, closed, edits>>
  BY <1>1, <1>2, <1>3 DEF ExpireRevise
<1>5. /\ tx[s] \in Transaction /\ Blank(tx[s]) /\ i \in Subs /\ sub[i] \in SubRows
      /\ l \in Listings \cup {NoListing}
  BY <1>1, <1>4, SeenIs
<1>6. row \in SubRows
  BY <1>2, <1>5 DEF SubRows
<1>7. /\ bs \in Some(Bids, Written) /\ DOMAIN bs \in SUBSET LiveBids(bid)
      /\ \A b \in DOMAIN bs : b \in Bids /\ (Even(bid[b]) => Even(bs[b]))
  <2>1. bid \in [Bids -> BidRow]
    BY DEF Typed
  <2>2. /\ bs \in Some(Bids, Written) /\ DOMAIN bs = Unconfirmed(bid, l)
        /\ \A b \in Unconfirmed(bid, l) : Even(bid[b]) => Even(bs[b])
    BY <1>2, <2>1, ExpireIs
  <2>3. Unconfirmed(bid, l) \subseteq LiveBids(bid) /\ LiveBids(bid) \subseteq Bids
    BY DEF Unconfirmed, Of, LiveBids
  <2> QED
    BY <2>2, <2>3
<1>8. spots \in SUBSET Spots
  BY <1>3, <1>7, SpotsOfIs
<1>9. Wrote(s, bs, i :> row, spots)
  <2>1. (i :> row) \in Some(Subs, SubRows) /\ {l} \in SUBSET (Listings \cup {NoListing})
    BY <1>5, <1>6, OneIsSome
  <2> QED
    BY <1>4, <1>5, <1>7, <1>8, <2>1, SettleWrites DEF Blank
<1>10. Around' /\ tx[s].pc \in Reads
  BY <1>4, StillAround DEF Typed, Around, Reads
<1>11. (\A b \in Bids : Even(bid[b])) => \A b \in DOMAIN bs : Owed(bs[b], spots)
  BY <1>7 DEF Owed
<1> QED
  BY <1>4, <1>5, <1>6, <1>7, <1>8, <1>9, <1>10, <1>11, RowHandled

LEMMA NotifiedHandled ==
  ASSUME Typed, NEW s \in Sessions, Notified(s), ~Answered(s), ~Ignore(s)
  PROVE  Handles(s)
BY ConfirmHandled, ChargedHandled, LapseHandled DEF Notified

LEMMA SweptHandled ==
  ASSUME Typed, NEW s \in Sessions, Swept(s)
  PROVE  Handles(s)
BY UnapprovedHandled, CancelPausedHandled, ExpireReviseHandled DEF Swept
-----------------------------------------------------------------------------
(* The steps of a transaction that change no row of the tables.            *)
Looks(s) ==
  /\ UNCHANGED <<bid, sub, closed>> /\ Around'
  /\ \E w \in Transaction :
       tx' = [tx EXCEPT ![s] = w] /\ Blank(w) /\ w.pc \in Reads /\ w.event \in Words
GivesUp(s) == tx' = [tx EXCEPT ![s] = Idle] /\ UNCHANGED <<bid, sub, closed>> /\ Around'

(* Around the transactions: PayPal, the clock and a spot opened again.     *)
Aside ==
  /\ UNCHANGED <<bid, tx>> /\ closed' \subseteq closed /\ Around'
  /\ sub' \in [Subs -> SubRows]

(* What is heard of a notification, with its quantity or without.          *)
LEMMA HeardIs ==
  ASSUME Typed, NEW e \in Letters, NEW h \in Heard(e),
         (IF h = e THEN UNCHANGED edits ELSE Spend), UNCHANGED <<paypal, mail>>
  PROVE  h \in Words /\ h.sub = e.sub /\ Around'
<1>1. h = e \/ h = [e EXCEPT !.quantity = Unsaid]
  BY DEF Heard
<1>2. edits' \in 0..MaxEdits
  BY SpendIs DEF Typed, Around
<1> QED
  BY <1>1, <1>2, StillAround DEF Letters, Words

LEMMA ReceiveLooks ==
  ASSUME Typed, NEW s \in Sessions, Delivered(s)
  PROVE  Looks(s)
<1>1. PICK e \in mail : Receive(s, e)
  BY DEF Delivered
<1>2. e \in Letters /\ e.sub \in Subs /\ sub[e.sub] \in SubRows
  BY DEF Typed, Around, Letters
<1>3. PICK h \in Heard(e) :
        /\ IF h = e THEN UNCHANGED edits ELSE Spend
        /\ tx' = [tx EXCEPT ![s] = [Idle EXCEPT !.pc = "seen", !.event = h, !.posted = {e}, !.seen = sub[e.sub]]]
  BY <1>1 DEF Receive
<1>4. UNCHANGED <<bid, sub, paypal, mail, closed>>
  BY <1>1 DEF Receive
<1>5. h \in Words /\ Around'
  BY <1>2, <1>3, <1>4, HeardIs
<1>6. PICK w : w = [Idle EXCEPT !.pc = "seen", !.event = h, !.posted = {e}, !.seen = sub[e.sub]]
  OBVIOUS
<1>7. w \in Transaction /\ Blank(w) /\ w.pc = "seen" /\ w.event = h
  BY <1>2, <1>5, <1>6, Nothing DEF Transaction, Blank, Idle, Reads
<1>8. w.pc \in Reads
  BY <1>7 DEF Reads
<1> QED
  BY <1>3, <1>4, <1>5, <1>6, <1>7, <1>8 DEF Looks

LEMMA AskLooks ==
  ASSUME Typed, NEW s \in Sessions, NEW i \in Subs, Ask(s, i)
  PROVE  Looks(s)
<1>1. PICK e : e = Answer(i)
  OBVIOUS
<1>2. e \in Letters
  BY <1>1, NamesOf DEF Ask, Answer, Notice, Letters, Told, Typed, Around, PayRow
<1>3. PICK h \in Heard(e) :
        /\ IF h = e THEN UNCHANGED edits ELSE Spend
        /\ tx' = [tx EXCEPT ![s] = [Idle EXCEPT !.pc = "asked", !.event = h]]
  BY <1>1 DEF Ask
<1>4. UNCHANGED <<bid, sub, paypal, mail, closed>>
  BY DEF Ask
<1>5. h \in Words /\ Around'
  BY <1>2, <1>3, <1>4, HeardIs
<1>6. PICK w : w = [Idle EXCEPT !.pc = "asked", !.event = h]
  OBVIOUS
<1>7. w \in Transaction /\ Blank(w) /\ w.pc = "asked" /\ w.event = h
  BY <1>5, <1>6, Nothing DEF Transaction, Blank, Idle, Reads
<1>8. w.pc \in Reads
  BY <1>7 DEF Reads
<1> QED
  BY <1>3, <1>4, <1>5, <1>6, <1>7, <1>8 DEF Looks

LEMMA AnsweredLooks ==
  ASSUME Typed, NEW s \in Sessions, Answered(s)
  PROVE  Looks(s)
<1>1. /\ tx[s] \in Transaction /\ Blank(tx[s]) /\ tx[s].event \in Words
  BY DEF Answered, Typed, Working, Reads
<1>2. sub[tx[s].event.sub] \in SubRows
  BY <1>1 DEF Words, Typed
<1>3. PICK w : w = [tx[s] EXCEPT !.pc = "seen", !.seen = sub[tx[s].event.sub]]
  OBVIOUS
<1>4. w \in Transaction /\ Blank(w) /\ w.pc = "seen" /\ w.event = tx[s].event
  BY <1>1, <1>2, <1>3 DEF Transaction, Blank, Reads
<1>5. tx' = [tx EXCEPT ![s] = w] /\ UNCHANGED <<bid, sub, paypal, mail, closed, edits>>
  BY <1>3 DEF Answered, Typed, Working
<1>6. Around' /\ w.pc \in Reads
  BY <1>4, <1>5, StillAround DEF Typed, Around, Reads
<1> QED
  BY <1>1, <1>4, <1>5, <1>6 DEF Looks

LEMMA PickLooks ==
  ASSUME Typed, NEW s \in Sessions, NEW i \in Subs, PickRow(s, i)
  PROVE  Looks(s)
<1>1. PICK e : e = Notice(i, "none", 0)
  OBVIOUS
<1>2. e \in Words /\ sub[i] \in SubRows
  BY <1>1 DEF Notice, Words, Typed
<1>3. PICK w : w = [Idle EXCEPT !.pc = "picked", !.seen = sub[i], !.event = e]
  OBVIOUS
<1>4. w \in Transaction /\ Blank(w) /\ w.pc = "picked" /\ w.event = e
  BY <1>2, <1>3, Nothing DEF Transaction, Blank, Idle, Reads
<1>5. tx' = [tx EXCEPT ![s] = w] /\ UNCHANGED <<bid, sub, paypal, mail, closed, edits>>
  BY <1>1, <1>3 DEF PickRow
<1>6. Around' /\ w.pc \in Reads
  BY <1>4, <1>5, StillAround DEF Typed, Around, Reads
<1> QED
  BY <1>2, <1>4, <1>5, <1>6 DEF Looks

LEMMA OutsideAside ==
  ASSUME Typed, Outside
  PROVE  Aside
<1>0. /\ paypal \in [Subs -> PayRow] /\ mail \subseteq {e \in Letters : e.type \in Told}
      /\ edits \in 0..MaxEdits /\ sub \in [Subs -> SubRows]
  BY DEF Typed, Around
<1>1. ASSUME NEW i \in Subs, Approve(i) PROVE Aside
  <2>1. [status |-> "ACTIVE", quantity |-> paypal[i].offer, offer |-> 0] \in PayRow
    BY <1>0 DEF PayRow
  <2>2. [paypal EXCEPT ![i] = [status |-> "ACTIVE", quantity |-> paypal[i].offer, offer |-> 0]] \in [Subs -> PayRow]
    BY <1>0, <2>1
  <2>3. Around'
    BY <1>0, <1>1, <2>2, MovesTyped DEF Approve
  <2> QED
    BY <1>0, <1>1, <2>3 DEF Approve, Aside
<1>2. ASSUME NEW i \in Subs, Consent(i) PROVE Aside
  <2>1. paypal[i] \in PayRow /\ paypal[i].offer \in Nat
    BY <1>0 DEF PayRow
  <2>2. PICK r : r = [paypal[i] EXCEPT !.quantity = paypal[i].offer, !.offer = 0]
    OBVIOUS
  <2>3. r \in PayRow /\ paypal' = [paypal EXCEPT ![i] = r]
    BY <1>0, <1>2, <2>1, <2>2, PayTyped DEF Consent
  <2>4. Notice(i, "UPDATED", paypal[i].offer) \in {e \in Letters : e.type \in Told}
    BY <2>1 DEF Notice, Letters, Told
  <2>5. Around'
    BY <1>0, <1>2, <2>3, <2>4 DEF Consent, Around
  <2> QED
    BY <1>0, <1>2, <2>5 DEF Consent, Aside
<1>3. ASSUME NEW i \in Subs, PayPalEnds(i) PROVE Aside
  <2>1. Suspended(paypal[i]) \in PayRow /\ Stopped(paypal[i]) \in PayRow
    BY <1>0, PayTyped
  <2>2. /\ [paypal EXCEPT ![i] = Stopped(@)] \in [Subs -> PayRow]
        /\ [paypal EXCEPT ![i] = Suspended(@)] \in [Subs -> PayRow]
    BY <1>0, <2>1
  <2>3. edits' \in 0..MaxEdits
    BY <1>3, SpendIs DEF PayPalEnds
  <2>4. Around'
    BY <1>3, <2>2, <2>3, MovesTyped DEF PayPalEnds
  <2> QED
    BY <1>0, <1>3, <2>4 DEF PayPalEnds, Aside
<1>4. ASSUME NEW i \in Subs, Charge(i) PROVE Aside
  <2>1. \A type \in {"SALE", "FAILED"} : Notice(i, type, 0) \in {e \in Letters : e.type \in Told}
    BY DEF Notice, Letters, Told
  <2>2. edits' \in 0..MaxEdits
    BY <1>4, SpendIs DEF Charge
  <2>3. Around'
    BY <1>0, <1>4, <2>1, <2>2 DEF Charge, Around
  <2> QED
    BY <1>0, <1>4, <2>3 DEF Charge, Aside
<1>5. ASSUME NEW i \in Subs, Age(i) PROVE Aside
  <2>1. [sub[i] EXCEPT !.aged = TRUE] \in SubRows
    BY <1>0 DEF SubRows
  <2>2. sub' = [sub EXCEPT ![i].aged = TRUE]
    BY <1>5 DEF Age
  <2>3. sub' \in [Subs -> SubRows]
    BY <1>0, <2>1, <2>2 DEF SubRows
  <2>4. Around'
    BY <1>0, <1>5 DEF Age, Around
  <2> QED
    BY <1>5, <2>3, <2>4 DEF Age, Aside
<1>6. ASSUME NEW p \in Spots, OpenSpot(p) PROVE Aside
  <2>1. Around'
    BY <1>6, SpendIs, StillAround DEF OpenSpot
  <2> QED
    BY <1>0, <1>6, <2>1 DEF OpenSpot, Aside
<1> QED
  BY <1>1, <1>2, <1>3, <1>4, <1>5, <1>6 DEF Outside
-----------------------------------------------------------------------------
(* Ranking, billing and the commit.                                        *)
(* What the billing makes of a row, and of PayPal's record.                *)
LEMMA NewRowIs ==
  ASSUME NEW B \in [Bids -> BidRow], NEW r \in SubRows
  PROVE  NewRow(B, r) \in SubRows
<1>1. PICK q \in Nat : q = QuantityFor(B, r.listing)
  BY QuantityIs
<1>2. PICK st \in LiveStatus \cup ClosedStatus \cup {"none"} : st = IF Wakes(B, r) THEN "active" ELSE r.status
  BY DEF SubRows, LiveStatus
<1>3. /\ [r EXCEPT !.status = "cancelled", !.asked = FALSE] \in SubRows
      /\ [r EXCEPT !.status = "paused", !.asked = FALSE, !.aged = FALSE] \in SubRows
      /\ [r EXCEPT !.requested = q, !.asked = FALSE] \in SubRows
      /\ [r EXCEPT !.status = st, !.requested = q, !.asked = TRUE, !.aged = FALSE] \in SubRows
      /\ [r EXCEPT !.status = st] \in SubRows
  BY DEF SubRows, LiveStatus, ClosedStatus
<1>4. \/ NewRow(B, r) = [r EXCEPT !.status = "cancelled", !.asked = FALSE]
      \/ NewRow(B, r) = [r EXCEPT !.status = "paused", !.asked = FALSE, !.aged = FALSE]
      \/ NewRow(B, r) = [r EXCEPT !.requested = q, !.asked = FALSE]
      \/ NewRow(B, r) = [r EXCEPT !.status = st, !.requested = q, !.asked = TRUE, !.aged = FALSE]
      \/ NewRow(B, r) = [r EXCEPT !.status = st]
  <2> USE DEF SubRows
  <2> QED BY <1>1, <1>2 DEF NewRow
<1> QED
  BY <1>3, <1>4

LEMMA NewPayIs ==
  ASSUME NEW B \in [Bids -> BidRow], NEW r, NEW pay \in PayRow
  PROVE  NewPay(B, r, pay) \in PayRow
<1>1. PICK woken \in PayRow : woken = IF Wakes(B, r) THEN Activated(pay) ELSE pay
  BY PayTyped
<1>2. PICK q \in Nat : q = QuantityFor(B, r.listing)
  BY QuantityIs
<1>3. Stopped(pay) \in PayRow /\ Suspended(pay) \in PayRow /\ [woken EXCEPT !.offer = q] \in PayRow
  BY PayTyped
<1> QED
  BY <1>1, <1>2, <1>3 DEF NewPay

LEMMA RebilledIs ==
  ASSUME NEW s
  PROVE  Rebilled(s) \subseteq Subs
BY DEF Rebilled, Approved, LiveSubs

LEMMA GivesUpIs ==
  ASSUME Typed, NEW s \in Sessions, RefusedByPayPal(s) \/ Rollback(s) \/ DeadlockVictim(s) \/ Ignore(s) \/ RefuseBid(s)
  PROVE  GivesUp(s)
<1>0. /\ paypal \in [Subs -> PayRow] /\ edits \in 0..MaxEdits /\ MaxEdits \in Nat
      /\ \A i \in Subs : paypal[i] \in PayRow /\ [paypal[i] EXCEPT !.offer = 0] \in PayRow
  <2>1. paypal \in [Subs -> PayRow] /\ edits \in 0..MaxEdits
    BY DEF Typed, Around
  <2>2. \A i \in Subs : paypal[i] \in PayRow /\ [paypal[i] EXCEPT !.offer = 0] \in PayRow
    BY <2>1, PayTyped
  <2> QED
    BY <2>1, <2>2, SpotsAssumption
<1>1. CASE RefusedByPayPal(s)
  <2> DEFINE B == ViewBids(s)
             S == ViewSubs(s)
             Made(i) == IF Revises(B, S[i]) THEN [NewPay(B, S[i], paypal[i]) EXCEPT !.offer = 0]
                                            ELSE NewPay(B, S[i], paypal[i])
             P(done) == [i \in Subs |-> IF i \in done THEN Made(i) ELSE paypal[i]]
  <2>1. PICK done : PayPalMoves(P(done))
    BY <1>1 DEF RefusedByPayPal
  <2>2. B \in [Bids -> BidRow]
    BY ViewsIs
  <2>3. \A i \in Subs : Made(i) \in PayRow
    <3> HIDE DEF B, S
    <3>1. \A i \in Subs : NewPay(B, S[i], paypal[i]) \in PayRow
      BY <1>0, <2>2, NewPayIs
    <3>2. \A i \in Subs : [NewPay(B, S[i], paypal[i]) EXCEPT !.offer = 0] \in PayRow
      BY <3>1, PayTyped
    <3> QED
      BY <3>1, <3>2
  <2>4. P(done) \in [Subs -> PayRow]
    <3> HIDE DEF Made
    <3> QED BY <1>0, <2>3
  <2>5. UNCHANGED <<bid, sub, closed, edits>> /\ tx' = [tx EXCEPT ![s] = Idle]
    BY <1>1 DEF RefusedByPayPal
  <2>6. Around'
    <3> HIDE DEF P
    <3> QED BY <1>0, <2>1, <2>4, <2>5, MovesTyped
  <2> QED
    BY <2>5, <2>6 DEF GivesUp
<1>2. CASE Rollback(s)
  <2>1. paypal' \in [Subs -> PayRow]
    BY <1>0, <1>2 DEF Rollback
  <2>2. edits' \in 0..MaxEdits
    BY <1>0, <1>2, SpendIs DEF Rollback
  <2>3. Around'
    BY <1>2, <2>1, <2>2 DEF Rollback, Typed, Around
  <2> QED
    BY <1>2, <2>3 DEF Rollback, GivesUp
<1>3. CASE DeadlockVictim(s)
  <2>1. paypal' \in [Subs -> PayRow] /\ UNCHANGED <<mail, edits>>
    BY <1>0, <1>3 DEF DeadlockVictim
  <2>2. Around'
    BY <2>1 DEF Typed, Around
  <2> QED
    BY <1>3, <2>2 DEF DeadlockVictim, GivesUp
<1>4. CASE Ignore(s)
  <2>1. Around'
    BY <1>4 DEF Ignore, Typed, Around
  <2> QED
    BY <1>4, <2>1 DEF Ignore, GivesUp
<1>5. CASE RefuseBid(s)
  <2>1. Around'
    BY <1>5 DEF RefuseBid, Typed, Around
  <2> QED
    BY <1>5, <2>1 DEF RefuseBid, GivesUp
<1> QED
  BY <1>1, <1>2, <1>3, <1>4, <1>5

LEMMA NextIs ==
  ASSUME Typed, Next
  PROVE  \/ \E s \in Sessions : \/ Handles(s) \/ Offers(s) \/ Looks(s) \/ GivesUp(s)
                                \/ \E p \in Spots : ReadRanking(s, p)
                                \/ ApplyRanking(s) \/ SyncQuantities(s) \/ Commit(s)
         \/ Aside
<1>1. ASSUME NEW s \in Sessions, Owners(s) \/ Swept(s) \/ (\E p \in Spots : CloseSpot(s, p))
      PROVE  Handles(s) \/ Offers(s)
  BY <1>1, OwnersIs, SweptHandled, CloseHandled
<1>2. ASSUME NEW s \in Sessions, Notified(s) PROVE Handles(s) \/ Looks(s) \/ GivesUp(s)
  BY <1>2, NotifiedHandled, AnsweredLooks, GivesUpIs
<1>3. ASSUME NEW s \in Sessions, Delivered(s) \/ (\E i \in Subs : Ask(s, i) \/ PickRow(s, i)) PROVE Looks(s)
  BY <1>3, ReceiveLooks, AskLooks, PickLooks
<1>4. ASSUME NEW s \in Sessions, RefusedByPayPal(s) \/ Rollback(s) \/ DeadlockVictim(s) PROVE GivesUp(s)
  BY <1>4, GivesUpIs
<1>5. CASE Outside
  BY <1>5, OutsideAside
<1>6. ASSUME NEW s \in Sessions, Settling(s)
      PROVE  \/ \E p \in Spots : ReadRanking(s, p)
             \/ ApplyRanking(s) \/ SyncQuantities(s) \/ RefusedByPayPal(s) \/ Commit(s)
  BY <1>6 DEF Settling
<1>7. ASSUME NEW s \in Sessions, Bidding(s) PROVE Handles(s) \/ Offers(s) \/ GivesUp(s)
  BY <1>7, BiddingIs, GivesUpIs
<1> QED
  <2>1. CASE ~Outside
    <3>1. PICK s \in Sessions :
            \/ Owners(s) \/ Swept(s) \/ (\E p \in Spots : CloseSpot(s, p))
            \/ Bidding(s) \/ Notified(s)
            \/ Delivered(s) \/ (\E i \in Subs : Ask(s, i) \/ PickRow(s, i))
            \/ Settling(s) \/ Rollback(s) \/ DeadlockVictim(s)
      BY <2>1 DEF Next
    <3> QED
      BY <1>1, <1>2, <1>3, <1>4, <1>6, <1>7, <3>1
  <2> QED
    BY <1>5, <2>1

(* A session's record changes, and nothing that is shared.                 *)
LEMMA TypedStep ==
  ASSUME Typed, NEW s \in Sessions, NEW w \in Transaction, tx' = [tx EXCEPT ![s] = w],
         UNCHANGED <<bid, sub, closed>>, Around', w.todo \subseteq w.touched,
         w.pc \in {"idle"} \cup Reads => Blank(w),
         w.pc \in Reads => w.event \in Words,
         w.pc \in Asking => Offering(w),
         \A b \in DOMAIN w.ranks : b \in DOMAIN w.bids \/ bid[b].status # "none"
  PROVE  Typed'
<1>1. Working'
  BY DEF Typed, Working
<1> QED
  BY <1>1 DEF Typed

LEMMA LooksTyped ==
  ASSUME Typed, NEW s \in Sessions, Looks(s)
  PROVE  Typed'
<1>1. PICK w \in Transaction : tx' = [tx EXCEPT ![s] = w] /\ Blank(w) /\ w.pc \in Reads /\ w.event \in Words
  BY DEF Looks
<1>2. w.pc \notin Asking
  BY <1>1 DEF Reads, Asking
<1> QED
  BY <1>1, <1>2, NoneIsSome, TypedStep DEF Looks, Blank

LEMMA OffersTyped ==
  ASSUME Typed, NEW s \in Sessions, Offers(s)
  PROVE  Typed'
<1>1. PICK w \in Transaction : tx' = [tx EXCEPT ![s] = w] /\ w.pc \in Asking /\ Offering(w)
  BY DEF Offers
<1>2. w.pc \notin {"idle"} \cup Reads /\ DOMAIN w.ranks = {} /\ w.todo = {}
  BY <1>1, NoneIsSome DEF Reads, Asking, Offering
<1> QED
  BY <1>1, <1>2, TypedStep DEF Offers

LEMMA GivesUpTyped ==
  ASSUME Typed, NEW s \in Sessions, GivesUp(s)
  PROVE  Typed'
<1>1. Idle \in Transaction /\ Idle.pc = "idle" /\ Blank(Idle) /\ Idle.pc \notin Reads \cup Asking
  BY Nothing, LockedIs DEF Idle, Blank, Reads, Asking
<1> QED
  BY <1>1, NoneIsSome, TypedStep DEF GivesUp, Blank

LEMMA AsideTyped ==
  ASSUME Typed, Aside
  PROVE  Typed'
<1>1. Working'
  BY DEF Typed, Working, Aside
<1> QED
  BY <1>1 DEF Typed, Aside

LEMMA ReadIs ==
  ASSUME Typed, NEW s \in Sessions, NEW p \in Spots, ReadRanking(s, p)
  PROVE  /\ Typed'
         /\ \E w \in Transaction :
              /\ tx' = [tx EXCEPT ![s] = w] /\ tx[s].pc = "rank" /\ w.pc = "write" /\ p \in tx[s].todo
              /\ w.todo = tx[s].todo \ {p} /\ w.bids = tx[s].bids
              /\ w.ranks = Ranking(ViewBids(s), p)
<1>1. PICK w : w = [tx[s] EXCEPT !.pc = "write", !.todo = @ \ {p}, !.ranks = Ranking(ViewBids(s), p)]
  OBVIOUS
<1>2. /\ tx[s] \in Transaction /\ ViewBids(s) \in [Bids -> BidRow]
      /\ \A b \in Bids : ViewBids(s)[b] = IF b \in DOMAIN tx[s].bids THEN tx[s].bids[b] ELSE bid[b]
  BY ViewsIs
<1>3. /\ w \in Transaction /\ w.pc = "write" /\ w.todo = tx[s].todo \ {p} /\ w.touched = tx[s].touched
      /\ w.ranks = Ranking(ViewBids(s), p) /\ w.bids = tx[s].bids /\ w.subs = tx[s].subs
  BY <1>1, <1>2, RankingIs DEF Transaction
<1>4. tx' = [tx EXCEPT ![s] = w]
  BY <1>1 DEF ReadRanking, Typed, Working
<1>5. \A b \in DOMAIN w.ranks : b \in DOMAIN w.bids \/ bid[b].status # "none"
  <2>1. DOMAIN w.ranks = Confirmed(ViewBids(s), p)
    BY <1>3, RankingIs
  <2>2. \A b \in Confirmed(ViewBids(s), p) : b \in Bids /\ ViewBids(s)[b].status # "none"
    BY DEF Confirmed, On, LiveBids
  <2> QED
    BY <1>2, <1>3, <2>1, <2>2
<1>6. Around' /\ UNCHANGED <<bid, sub, closed>>
  BY StillAround DEF ReadRanking, Typed, Around
<1>7. tx[s].todo \subseteq tx[s].touched
  BY DEF Typed, Working
<1>8. w.todo \subseteq w.touched
  BY <1>3, <1>7
<1>9. Typed'
  BY <1>3, <1>4, <1>5, <1>6, <1>8, TypedStep DEF Reads, Asking
<1> QED
  BY <1>3, <1>4, <1>9 DEF ReadRanking

LEMMA ApplyIs ==
  ASSUME Typed, NEW s \in Sessions, ApplyRanking(s)
  PROVE  /\ Typed'
         /\ \E w \in Transaction :
              /\ tx' = [tx EXCEPT ![s] = w] /\ tx[s].pc = "write"
              /\ w.pc = IF tx[s].todo = {} THEN "bill" ELSE "rank"
              /\ w.todo = tx[s].todo /\ w.ranks = <<>>
              /\ w.bids = Ranked(ViewBids(s), tx[s].ranks) @@ tx[s].bids
<1>1. PICK w : w = [tx[s] EXCEPT !.pc = IF tx[s].todo = {} THEN "bill" ELSE "rank", !.ranks = <<>>,
                                 !.bids = Ranked(ViewBids(s), tx[s].ranks) @@ @]
  OBVIOUS
<1>2. /\ tx[s] \in Transaction /\ ViewBids(s) \in [Bids -> BidRow] /\ tx[s].bids \in Some(Bids, Written)
      /\ \A b \in Bids : ViewBids(s)[b] = IF b \in DOMAIN tx[s].bids THEN tx[s].bids[b] ELSE bid[b]
      /\ \A b \in DOMAIN tx[s].bids : tx[s].bids[b] \in Written
  BY ViewsIs
<1>3. tx[s].ranks \in Some(Bids, 0..Positions) /\ DOMAIN tx[s].ranks \subseteq Bids
  BY <1>2, SomeIs DEF Transaction
<1>4. \A b \in DOMAIN tx[s].ranks : ViewBids(s)[b].status # "none"
  BY <1>2, <1>3 DEF Typed, Working, Written
<1>5. Ranked(ViewBids(s), tx[s].ranks) \in Some(Bids, Written)
  BY <1>2, <1>3, <1>4, RankedIs
<1>6. Ranked(ViewBids(s), tx[s].ranks) @@ tx[s].bids \in Some(Bids, Written)
  BY <1>2, <1>5, OverIsSome
<1>7. /\ w \in Transaction /\ w.pc = (IF tx[s].todo = {} THEN "bill" ELSE "rank")
      /\ w.todo = tx[s].todo /\ w.touched = tx[s].touched /\ w.subs = tx[s].subs /\ w.ranks = <<>>
      /\ w.bids = Ranked(ViewBids(s), tx[s].ranks) @@ tx[s].bids
  BY <1>1, <1>2, <1>6, NoneIsSome DEF Transaction
<1>8. tx' = [tx EXCEPT ![s] = w]
  BY <1>1 DEF ApplyRanking, Typed, Working
<1>9. Around' /\ UNCHANGED <<bid, sub, closed>>
  BY StillAround DEF ApplyRanking, Typed, Around
<1>10. tx[s].todo \subseteq tx[s].touched
  BY DEF Typed, Working
<1>11. w.todo \subseteq w.touched
  BY <1>7, <1>10
<1>12. Typed'
  BY <1>7, <1>8, <1>9, <1>11, NoneIsSome, TypedStep DEF Reads, Asking
<1> QED
  BY <1>7, <1>8, <1>12 DEF ApplyRanking

LEMMA SyncIs ==
  ASSUME Typed, NEW s \in Sessions, SyncQuantities(s)
  PROVE  /\ Typed'
         /\ \E w \in Transaction :
              /\ tx' = [tx EXCEPT ![s] = w] /\ tx[s].pc = "bill" /\ w.pc = "commit"
              /\ w.bids = tx[s].bids /\ w.todo = tx[s].todo /\ w.ranks = tx[s].ranks
<1> DEFINE rows == [i \in Rewritten(s) |-> NewRow(ViewBids(s), ViewSubs(s)[i])]
<1>1. PICK w : w = [tx[s] EXCEPT !.pc = "commit", !.bids = tx[s].bids, !.subs = rows @@ tx[s].subs]
  OBVIOUS
<1>2. /\ tx[s] \in Transaction /\ ViewBids(s) \in [Bids -> BidRow] /\ tx[s].subs \in Some(Subs, SubRows)
      /\ ViewSubs(s) \in [Subs -> SubRows]
  BY ViewsIs
<1>3. Rewritten(s) \subseteq Subs
  BY RebilledIs DEF Rewritten
<1>4. \A i \in Rewritten(s) : NewRow(ViewBids(s), ViewSubs(s)[i]) \in SubRows
  BY <1>2, <1>3, NewRowIs
<1>5. rows \in [Rewritten(s) -> SubRows]
  BY <1>4
<1>6. rows \in Some(Subs, SubRows)
  <2> HIDE DEF rows
  <2> QED BY <1>3, <1>5, SomeHas
<1>7. rows @@ tx[s].subs \in Some(Subs, SubRows)
  <2> HIDE DEF rows
  <2> QED BY <1>2, <1>6, OverIsSome
<1>8. /\ w \in Transaction /\ w.pc = "commit" /\ w.bids = tx[s].bids /\ w.subs = rows @@ tx[s].subs
      /\ w.todo = tx[s].todo /\ w.touched = tx[s].touched /\ w.ranks = tx[s].ranks
  <2> HIDE DEF rows
  <2> QED BY <1>1, <1>2, <1>7 DEF Transaction
<1>9. tx' = [tx EXCEPT ![s] = w]
  BY <1>1 DEF SyncQuantities, Finish
<1>10. Around' /\ UNCHANGED <<bid, sub, closed>>
  <2> DEFINE P == [i \in Subs |-> IF i \in Rebilled(s) THEN NewPay(ViewBids(s), ViewSubs(s)[i], paypal[i])
                                                       ELSE paypal[i]]
  <2>1. \A i \in Subs : paypal[i] \in PayRow
    BY DEF Typed, Around
  <2>2. \A i \in Subs : NewPay(ViewBids(s), ViewSubs(s)[i], paypal[i]) \in PayRow
    BY <1>2, <2>1, NewPayIs
  <2>3. P \in [Subs -> PayRow]
    BY <2>1, <2>2
  <2>4. PayPalMoves(P) /\ UNCHANGED <<bid, sub, closed, edits>>
    BY DEF SyncQuantities
  <2>5. edits' \in 0..MaxEdits
    BY <2>4 DEF Typed, Around
  <2> HIDE DEF P
  <2> QED
    BY <2>3, <2>4, <2>5, MovesTyped
<1>11. tx[s].todo \subseteq tx[s].touched /\ \A b \in DOMAIN tx[s].ranks : b \in DOMAIN tx[s].bids \/ bid[b].status # "none"
  BY DEF Typed, Working
<1>12. Typed'
  <2> HIDE DEF rows
  <2> QED BY <1>8, <1>9, <1>10, <1>11, TypedStep DEF Reads, Asking
<1> QED
  BY <1>8, <1>9, <1>12 DEF SyncQuantities

LEMMA CommitIs ==
  ASSUME Typed, NEW s \in Sessions, Commit(s)
  PROVE  /\ Typed' /\ tx[s].pc = "commit" /\ tx' = [tx EXCEPT ![s] = Idle]
         /\ bid' = ViewBids(s)
<1>1. /\ tx[s].pc = "commit" /\ tx' = [tx EXCEPT ![s] = Idle]
      /\ bid' = ViewBids(s) /\ sub' = ViewSubs(s) /\ closed' = closed \cup tx[s].shut
      /\ mail' \subseteq mail /\ UNCHANGED <<paypal, edits>>
  BY DEF Commit
<1>2. /\ tx[s] \in Transaction /\ ViewBids(s) \in [Bids -> BidRow] /\ ViewSubs(s) \in [Subs -> SubRows]
      /\ \A b \in Bids : ViewBids(s)[b] = IF b \in DOMAIN tx[s].bids THEN tx[s].bids[b] ELSE bid[b]
      /\ \A b \in DOMAIN tx[s].bids : tx[s].bids[b] \in Written
  BY ViewsIs
<1>3. closed' \subseteq Spots
  BY <1>1, <1>2 DEF Transaction, Typed
<1>4. Around'
  BY <1>1 DEF Typed, Around
<1>5. \A b \in Bids : bid[b].status # "none" => bid'[b].status # "none"
  BY <1>1, <1>2 DEF Written
<1>6. Idle \in Transaction /\ Blank(Idle) /\ Idle.pc = "idle" /\ DOMAIN Idle.ranks = {} /\ Idle.todo \subseteq Idle.touched
  <2>1. Idle \in Transaction /\ Idle.pc = "idle" /\ Idle.ranks = <<>> /\ Idle.todo = {}
    BY Nothing
  <2>2. DOMAIN <<>> = {}
    OBVIOUS
  <2> QED
    BY <2>1, <2>2, Nothing DEF Blank, Idle
<1>7. \A r \in Sessions : DOMAIN tx[r].ranks \subseteq Bids
  BY SomeIs DEF Typed, Working, Transaction
<1>8. Working'
  <2>1. tx' \in [Sessions -> Transaction]
    BY <1>1, <1>6 DEF Typed, Working
  <2>2. \A r \in Sessions : tx'[r] = IF r = s THEN Idle ELSE tx[r]
    BY <1>1 DEF Typed, Working
  <2>3. \A r \in Sessions : \A b \in DOMAIN tx'[r].ranks : b \in DOMAIN tx'[r].bids \/ bid'[b].status # "none"
    BY <1>5, <1>6, <1>7, <2>2 DEF Typed, Working
  <2>4. \A r \in Sessions :
          /\ tx'[r].todo \subseteq tx'[r].touched
          /\ tx'[r].pc \in {"idle"} \cup Reads => Blank(tx'[r])
          /\ tx'[r].pc \in Reads => tx'[r].event \in Words
          /\ tx'[r].pc \in Asking => Offering(tx'[r])
    <3>1. Idle.pc \notin Reads \cup Asking
      BY <1>6 DEF Reads, Asking
    <3> QED
      BY <1>6, <2>2, <3>1 DEF Typed, Working
  <2> QED
    BY <2>1, <2>3, <2>4 DEF Working, Blank, Offering
<1> QED
  BY <1>1, <1>2, <1>3, <1>4, <1>8 DEF Typed
-----------------------------------------------------------------------------
(* Types.                                                                  *)
LEMMA TypedInit ==
  ASSUME Init
  PROVE  Typed
<1>1. NoBid \in BidRow /\ NoSub \in SubRows /\ NoPay \in PayRow /\ Idle \in Transaction
  BY Nothing
<1>2. Idle.pc = "idle" /\ Blank(Idle) /\ Idle.ranks = <<>> /\ Idle.todo = {}
  BY Nothing DEF Blank, Idle
<1>3. DOMAIN <<>> = {}
  OBVIOUS
<1>4. 0 \in 0..MaxEdits
  BY SpotsAssumption
<1>5. Around
  BY <1>1, <1>4 DEF Init, Around
<1>6. tx = [s \in Sessions |-> Idle] /\ tx \in [Sessions -> Transaction]
  BY <1>1 DEF Init
<1>7. Working
  BY <1>2, <1>3, <1>6 DEF Working, Reads, Asking
<1> QED
  BY <1>1, <1>5, <1>7 DEF Init, Typed

LEMMA TypedNext ==
  ASSUME Typed, [Next]_vars
  PROVE  Typed'
<1>1. CASE Next
  BY <1>1, NextIs, WroteTyped, OffersTyped, LooksTyped, GivesUpTyped, ReadIs, ApplyIs, SyncIs, CommitIs, AsideTyped
<1>2. CASE UNCHANGED vars
  BY <1>2 DEF vars, Typed, Around, Working
<1> QED
  BY <1>1, <1>2

THEOREM TypedAlways == Spec => []Typed
<1>1. Init => Typed
  BY TypedInit
<1>2. Typed /\ [Next]_vars => Typed'
  BY TypedNext
<1> QED
  BY <1>1, <1>2, PTL DEF Spec

LEMMA TypedOK ==
  ASSUME Typed
  PROVE  TypeOK
<1>1. bid \in [Bids -> BidRows]
  BY DEF Typed, BidRow
<1>2. paypal \in [Subs -> [status : {"none", "APPROVAL_PENDING"} \cup DOMAIN NoticeOf,
                           quantity : Nat, offer : Nat]]
  BY NamesOf DEF Typed, Around, PayRow
<1>3. mail \subseteq [sub : Subs, quantity : Nat,
                      type : {"ACTIVATED", "UPDATED", "SALE", "FAILED"} \cup DOMAIN Lapses]
  BY NamesOf DEF Typed, Around, Letters, Told
<1>4. ASSUME NEW s \in Sessions
      PROVE  /\ tx[s].pc \in {"idle", "offered", "resumed", "revised", "asked", "seen", "picked",
                            "rank", "write", "bill", "commit"}
             /\ DOMAIN tx[s].bids \subseteq Bids /\ DOMAIN tx[s].subs \subseteq Subs
             /\ tx[s].todo \subseteq tx[s].touched /\ tx[s].touched \subseteq Spots
  <2>1. tx[s] \in Transaction /\ tx[s].todo \subseteq tx[s].touched
    BY DEF Typed, Working
  <2>2. DOMAIN tx[s].bids \subseteq Bids /\ DOMAIN tx[s].subs \subseteq Subs
    BY <2>1, SomeIs DEF Transaction
  <2> QED
    BY <2>1, <2>2 DEF Transaction, Asking, Reads
<1> QED
  BY <1>1, <1>2, <1>3, <1>4 DEF TypeOK, Typed, Around

(* The rows, PayPal's records and the transactions keep the shape that the *)
(* schema gives them, however many transactions run and whatever PayPal    *)
(* does (lib/spots, worker/jobs/spots-sync.ts).                            *)
THEOREM TypeCorrect == Spec => []TypeOK
<1>1. Typed => TypeOK
  BY TypedOK
<1> QED
  BY <1>1, TypedAlways, PTL
-----------------------------------------------------------------------------
-----------------------------------------------------------------------------
(* A bid is active exactly while it has a position.                        *)
Placing(w) ==
  \A b \in DOMAIN w.bids : \/ Even(w.bids[b])
                           \/ /\ w.bids[b].status = "active"
                              /\ w.bids[b].spot \in w.todo \/ b \in DOMAIN w.ranks

(* So do the committed rows; a transaction may hold bids just confirmed,   *)
(* until it has ranked their spots.                                        *)
Placed ==
  /\ \A b \in Bids : Even(bid[b])
  /\ \A s \in Sessions :
       /\ tx[s].pc \notin {"rank", "write"} => tx[s].todo = {}
       /\ tx[s].pc # "write" => tx[s].ranks = <<>>
       /\ Placing(tx[s])

LEMMA PlacedEven ==
  ASSUME Typed, Placed, NEW s \in Sessions, tx[s].pc \notin {"rank", "write"}
  PROVE  AllEven(s) /\ tx[s].todo = {} /\ tx[s].ranks = <<>>
<1>1. tx[s].todo = {} /\ tx[s].ranks = <<>> /\ Placing(tx[s]) /\ DOMAIN <<>> = {}
  BY DEF Placed
<1> QED
  BY <1>1 DEF Placed, Placing, AllEven

LEMMA PlacedStep ==
  ASSUME Typed, Placed, NEW s \in Sessions, NEW w \in Transaction, tx' = [tx EXCEPT ![s] = w],
         UNCHANGED bid, w.pc \notin {"rank", "write"} => w.todo = {}, w.pc # "write" => w.ranks = <<>>,
         Placing(w)
  PROVE  Placed'
<1>1. \A r \in Sessions : tx'[r] = IF r = s THEN w ELSE tx[r]
  BY DEF Typed, Working
<1> QED
  BY <1>1 DEF Placed, Placing

LEMMA HandlesPlaced ==
  ASSUME Typed, Placed, NEW s \in Sessions, Handles(s)
  PROVE  Placed'
<1>1. AllEven(s)
  BY PlacedEven DEF Handles, Asking, Reads
<1>2. PICK bs \in Some(Bids, Written), ss \in Some(Subs, SubRows), spots \in SUBSET Spots :
        Wrote(s, bs, ss, spots) /\ \A b \in DOMAIN bs : Owed(bs[b], spots)
  BY <1>1 DEF Handles
<1>3. PICK w \in Transaction :
        /\ tx' = [tx EXCEPT ![s] = w] /\ w.bids = bs /\ w.ranks = <<>> /\ w.todo = spots
        /\ w.pc \in {"rank", "bill", "commit"} /\ (w.pc = "rank" <=> spots # {})
  BY <1>2 DEF Wrote
<1>4. Placing(w)
  BY <1>2, <1>3 DEF Placing, Owed
<1> QED
  BY <1>3, <1>4, PlacedStep DEF Handles

LEMMA OffersPlaced ==
  ASSUME Typed, Placed, NEW s \in Sessions, Offers(s)
  PROVE  Placed'
<1>1. AllEven(s)
  BY PlacedEven DEF Offers, Asking
<1>2. PICK w \in Transaction : /\ tx' = [tx EXCEPT ![s] = w] /\ w.pc \in Asking /\ Offering(w)
                               /\ \A b \in DOMAIN w.bids : Even(w.bids[b])
  BY <1>1 DEF Offers
<1> QED
  BY <1>2, PlacedStep DEF Offers, Offering, Placing

LEMMA BlankPlaced ==
  ASSUME Typed, Placed, NEW s \in Sessions, NEW w \in Transaction, tx' = [tx EXCEPT ![s] = w],
         UNCHANGED bid, Blank(w)
  PROVE  Placed'
<1>1. DOMAIN w.bids = {} /\ w.ranks = <<>> /\ w.todo = {}
  BY NoneIsSome DEF Blank
<1> QED
  BY <1>1, PlacedStep DEF Placing

LEMMA ReadPlaced ==
  ASSUME Typed, Placed, NEW s \in Sessions, NEW p \in Spots, ReadRanking(s, p)
  PROVE  Placed'
<1>1. PICK w \in Transaction :
        /\ tx' = [tx EXCEPT ![s] = w] /\ tx[s].pc = "rank" /\ w.pc = "write"
        /\ w.todo = tx[s].todo \ {p} /\ w.bids = tx[s].bids /\ w.ranks = Ranking(ViewBids(s), p)
  BY ReadIs
<1>2. ViewBids(s) \in [Bids -> BidRow] /\ DOMAIN w.ranks = Confirmed(ViewBids(s), p)
  BY <1>1, ViewsIs, RankingIs
<1>3. ASSUME NEW b \in DOMAIN w.bids, ~Even(w.bids[b])
      PROVE  w.bids[b].status = "active" /\ (w.bids[b].spot \in w.todo \/ b \in DOMAIN w.ranks)
  <2>1. w.bids[b].status = "active" /\ w.bids[b].spot \in tx[s].todo
    <3>1. tx[s].ranks = <<>> /\ Placing(tx[s]) /\ DOMAIN <<>> = {}
      BY <1>1 DEF Placed
    <3> QED
      BY <1>1, <1>3, <3>1 DEF Placing
  <2>2. CASE w.bids[b].spot = p
    <3>1. b \in Bids /\ ViewBids(s)[b] = w.bids[b]
      BY <1>1, ViewsIs
    <3>2. b \in Confirmed(ViewBids(s), p)
      BY <2>1, <2>2, <3>1 DEF Confirmed, On, LiveBids
    <3> QED
      BY <1>2, <2>1, <3>2
  <2>3. CASE w.bids[b].spot # p
    BY <1>1, <2>1, <2>3
  <2> QED
    BY <2>2, <2>3
<1>4. Placing(w) /\ UNCHANGED bid
  BY <1>3 DEF Placing, ReadRanking
<1> QED
  BY <1>1, <1>4, PlacedStep

LEMMA ApplyPlaced ==
  ASSUME Typed, Placed, NEW s \in Sessions, ApplyRanking(s)
  PROVE  Placed'
<1>1. PICK w \in Transaction :
        /\ tx' = [tx EXCEPT ![s] = w] /\ w.pc = (IF tx[s].todo = {} THEN "bill" ELSE "rank")
        /\ w.todo = tx[s].todo /\ w.ranks = <<>>
        /\ w.bids = Ranked(ViewBids(s), tx[s].ranks) @@ tx[s].bids
  BY ApplyIs
<1>2. PICK new, r : r = tx[s].ranks /\ new = Ranked(ViewBids(s), r)
  OBVIOUS
<1>3. /\ ViewBids(s) \in [Bids -> BidRow] /\ tx[s] \in Transaction
      /\ \A b \in Bids : ViewBids(s)[b] = IF b \in DOMAIN tx[s].bids THEN tx[s].bids[b] ELSE bid[b]
      /\ \A b \in DOMAIN tx[s].bids : tx[s].bids[b] \in Written
  BY ViewsIs
<1>4. r \in Some(Bids, 0..Positions) /\ DOMAIN r \subseteq Bids /\ r \in [DOMAIN r -> 0..Positions]
  BY <1>2, <1>3, SomeIs DEF Transaction
<1>5. \A b \in DOMAIN r : ViewBids(s)[b].status # "none"
  BY <1>2, <1>3, <1>4 DEF Typed, Working, Written
<1>6. /\ DOMAIN new = DOMAIN r
      /\ \A b \in DOMAIN r : new[b] = [ViewBids(s)[b] EXCEPT !.position = r[b],
                                         !.status = IF r[b] = 0 THEN "outbid" ELSE "active"]
  <2>1. PICK B \in [Bids -> BidRow] : B = ViewBids(s)
    BY <1>3
  <2>2. \A b \in DOMAIN r : B[b].status # "none"
    BY <1>5, <2>1
  <2>3. /\ DOMAIN Ranked(B, r) = DOMAIN r
        /\ \A b \in DOMAIN r : Ranked(B, r)[b] = [B[b] EXCEPT !.position = r[b],
                                                   !.status = IF r[b] = 0 THEN "outbid" ELSE "active"]
    BY <1>4, <2>2, RankedIs
  <2> QED
    BY <1>2, <2>1, <2>3
<1>7. ASSUME NEW b \in DOMAIN r PROVE Even(new[b])
  <2>1. ViewBids(s)[b] \in BidRows
    BY <1>3, <1>4 DEF BidRow
  <2> QED
    BY <1>6, <2>1 DEF Even, BidRows
<1>8. ASSUME NEW b \in DOMAIN w.bids, ~Even(w.bids[b])
      PROVE  w.bids[b].status = "active" /\ w.bids[b].spot \in w.todo
  <2>1. w.bids = new @@ tx[s].bids
    BY <1>1, <1>2
  <2>2. b \notin DOMAIN new /\ b \in DOMAIN tx[s].bids /\ w.bids[b] = tx[s].bids[b]
    BY <1>6, <1>7, <1>8, <2>1 DEF @@
  <2>3. b \notin DOMAIN tx[s].ranks
    BY <1>2, <1>6, <2>2
  <2> QED
    BY <1>1, <1>8, <2>2, <2>3 DEF Placed, Placing
<1>9. Placing(w) /\ UNCHANGED bid
  BY <1>8 DEF Placing, ApplyRanking
<1> QED
  BY <1>1, <1>9, PlacedStep

LEMMA SyncPlaced ==
  ASSUME Typed, Placed, NEW s \in Sessions, SyncQuantities(s)
  PROVE  Placed'
<1>1. PICK w \in Transaction :
        /\ tx' = [tx EXCEPT ![s] = w] /\ tx[s].pc = "bill" /\ w.pc = "commit"
        /\ w.bids = tx[s].bids /\ w.todo = tx[s].todo /\ w.ranks = tx[s].ranks
  BY SyncIs
<1>2. w.todo = {} /\ w.ranks = <<>> /\ Placing(tx[s])
  BY <1>1 DEF Placed
<1>3. Placing(w) /\ UNCHANGED bid
  BY <1>1, <1>2 DEF Placing, SyncQuantities
<1> QED
  BY <1>1, <1>2, <1>3, PlacedStep

LEMMA CommitPlaced ==
  ASSUME Typed, Placed, NEW s \in Sessions, Commit(s)
  PROVE  Placed'
<1>1. tx[s].pc = "commit" /\ tx' = [tx EXCEPT ![s] = Idle] /\ bid' = ViewBids(s)
  BY CommitIs
<1>2. AllEven(s)
  BY <1>1, PlacedEven
<1>3. \A b \in Bids : Even(bid'[b])
  BY <1>1, <1>2, ViewsIs DEF AllEven
<1>4. \A r \in Sessions : tx'[r] = IF r = s THEN Idle ELSE tx[r]
  BY <1>1 DEF Typed, Working
<1>5. Idle.todo = {} /\ Idle.ranks = <<>> /\ Placing(Idle)
  BY Nothing, NoneIsSome DEF Placing
<1> QED
  BY <1>3, <1>4, <1>5 DEF Placed, Placing

(* Positions and statuses agree (lib/spots rank.ts, engine.ts rerankSpots):*)
(* whatever transactions run at once, however their ranks overlap and      *)
(* whatever PayPal does, a bid is active in the tables exactly while it    *)
(* has a position. A bid just confirmed has none, so its transaction ranks *)
(* its spot before it commits.                                             *)
ActivePlaced == \A b \in Bids : bid[b].status = "active" <=> bid[b].position # 0

THEOREM ActiveIffPlaced == Spec => []ActivePlaced
<1>1. Init => Placed
  <2> SUFFICES ASSUME Init PROVE Placed
    OBVIOUS
  <2>1. Even(NoBid)
    BY Nothing DEF Even, NoBid
  <2>2. Idle.todo = {} /\ Idle.ranks = <<>> /\ Placing(Idle)
    BY Nothing, NoneIsSome DEF Placing
  <2> QED
    BY <2>1, <2>2 DEF Init, Placed
<1>2. ASSUME Typed, Placed, [Next]_vars PROVE Placed'
  <2>1. CASE UNCHANGED vars
    BY <1>2, <2>1 DEF vars, Placed, Placing
  <2>2. CASE Aside
    BY <1>2, <2>2 DEF Aside, Placed, Placing
  <2>3. ASSUME NEW s \in Sessions, Looks(s) \/ GivesUp(s) PROVE Placed'
    BY <1>2, <2>3, BlankPlaced, Nothing, LockedIs DEF Looks, GivesUp, Blank
  <2> QED
    BY <1>2, <2>1, <2>2, <2>3, NextIs, HandlesPlaced, OffersPlaced, ReadPlaced, ApplyPlaced, SyncPlaced,
       CommitPlaced
<1>3. Placed => ActivePlaced
  BY DEF Placed, ActivePlaced, Even
<1> QED
  BY <1>1, <1>2, <1>3, TypedAlways, PTL DEF Spec
=============================================================================
