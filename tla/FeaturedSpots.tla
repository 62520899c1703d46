---------------------------- MODULE FeaturedSpots ----------------------------
(***************************************************************************)
(* Featured spots: listings bid for positions in a spot, the highest bids  *)
(* are shown, and one PayPal subscription per listing is billed the sum of *)
(* the positions it holds (lib/spots, worker/jobs/spots-sync.ts).          *)
(*                                                                         *)
(* A session runs one transaction at a time: an owner's bid, a PayPal      *)
(* notification or a reconcile, one row of the hourly sync, an admin's     *)
(* closing of a spot. Its steps are the places where it stops: each PayPal *)
(* call of a bid made under a live subscription and of a reconcile, the    *)
(* read of a row and the write that uses it, the read of a spot's ranking  *)
(* and the write of it, the billing, the commit. Two kinds of PayPal call  *)
(* are made in the step of the rows they go with: a first bid's, whose     *)
(* rows nobody else can see yet, and those of the billing and of a paused  *)
(* row's end. What a session wrote is its own until the commit, which also *)
(* frees the rows; PayPal's calls take effect at once and survive a        *)
(* rollback.                                                               *)
(***************************************************************************)
EXTENDS Integers, FiniteSets, FiniteSetsExt

CONSTANTS
    Sessions, Spots, Listings,
    Positions,    \* featured positions of a spot
    Floor,        \* the least bid a spot takes, in whole units
    Amounts,      \* the bids owners think of
    MaxBids,      \* bids ever placed
    MaxSubs,      \* subscriptions ever started
    MaxEdits,     \* bound on what owners, the admin and PayPal do unasked
    Silent,       \* the notifications PayPal may leave the quantity out of
    Lag,          \* notifications that may be under way when something else happens
    Ages,         \* the waits that may last beyond their limit
    Closable,     \* the spots the admin may close
    NoListing

Bids == 1..MaxBids
Subs == 1..MaxSubs

Confirms == {"ACTIVATED", "UPDATED"}

ASSUME SpotsAssumption ==
    /\ MaxBids \in Nat /\ MaxSubs \in Nat /\ MaxEdits \in Nat
    /\ Positions \in Nat \ {0} /\ Floor \in Nat \ {0} /\ Lag \in Nat
    /\ Amounts \subseteq Nat \ {0}
    /\ Closable \subseteq Spots /\ Silent \subseteq Confirms
    /\ Ages \subseteq {"approval_pending", "active", "past_due", "paused"}
    /\ NoListing \notin Listings

VARIABLES
    bid,      \* featured_bids; raise is pending_amount_cents, position 0 is null
    sub,      \* featured_subscriptions; asked: a revise waits for the buyer
    paypal,   \* PayPal's own view of each subscription
    mail,     \* PayPal notifications not yet processed
    closed,   \* spots closed to bidding
    tx,       \* the transaction of each session
    edits

vars == <<bid, sub, paypal, mail, closed, tx, edits>>

-----------------------------------------------------------------------------
(* One row, and rows laid over others.                                     *)

x :> row == [y \in {x} |-> row]
new @@ old == [y \in DOMAIN new \cup DOMAIN old |-> IF y \in DOMAIN new THEN new[y] ELSE old[y]]

(* Rows. Operators take the rows they read, committed or a session's own.  *)

LiveBids(B) == {b \in Bids : B[b].status \in {"pending", "active", "outbid"}}
On(B, p) == {b \in LiveBids(B) : B[b].spot = p}
Of(B, l) == {b \in LiveBids(B) : B[b].listing = l}
Own(B, l, p) == On(B, p) \cap Of(B, l)
Confirmed(B, p) == {b \in On(B, p) : B[b].status # "pending"}

LiveStatus == {"approval_pending", "active", "past_due", "paused"}
ClosedStatus == {"cancelled", "suspended", "expired"}
LiveSubs(S, l) == {i \in Subs : S[i].listing = l /\ S[i].status \in LiveStatus}
Approved(S, l) == {i \in LiveSubs(S, l) : S[i].status # "approval_pending"}

Before(B, a, b) ==
    \/ B[a].amount > B[b].amount
    \/ B[a].amount = B[b].amount /\ B[a].since < B[b].since
    \/ B[a].amount = B[b].amount /\ B[a].since = B[b].since /\ a < b

Ranking(B, p) ==
    [b \in Confirmed(B, p) |->
        LET place == 1 + Cardinality({a \in Confirmed(B, p) : Before(B, a, b)})
        IN  IF place <= Positions THEN place ELSE 0]

Ranked(B, r) ==
    [b \in DOMAIN r |-> [B[b] EXCEPT !.position = r[b],
                                     !.status = IF r[b] = 0 THEN "outbid" ELSE "active"]]

Holds(B, b) == B[b].status = "active" /\ B[b].position # 0
QuantityFor(B, l) ==
    MapThenSumSet(LAMBDA b : B[b].amount, {b \in Of(B, l) : Holds(B, b)})
HasPending(B, l) == \E b \in Of(B, l) : B[b].status = "pending" \/ B[b].raise # 0

(* The next date of a spot: every amount is set later than the ones there. *)
Dated(B, p) == 1 + Max({0} \cup {B[b].since : b \in On(B, p)})

Rivals(B, l, p) == {b \in On(B, p) \ Of(B, l) : Holds(B, b)}
AmountsOf(B, bs) == {B[b].amount : b \in bs}
FirstStep(t) == Max({(t + 9) \div 10, 5})
Minimum(B, l, p, a) ==
    LET rivals == Rivals(B, l, p)
        amounts == AmountsOf(B, rivals)
    IN  IF rivals = {} THEN Floor
        ELSE IF a > Max(amounts) THEN Max({Floor, Max(amounts) + FirstStep(Max(amounts))})
        ELSE IF Cardinality(rivals) < Positions THEN Floor
        ELSE Max({Floor, Min(amounts) + 1})
Accepted(B, l, p, a) == a >= Floor /\ a >= Minimum(B, l, p, a)

(* What the listing would hold once amount a is confirmed on p.            *)
Projected(B, l, p, a) ==
    LET others == {b \in Confirmed(B, p) : B[b].listing # l}
        ahead  == {b \in others : B[b].amount >= a}
        there  == {b \in Of(B, l) : B[b].spot # p /\ Holds(B, b)}
    IN  MapThenSumSet(LAMBDA b : B[b].amount, there)
            + (IF Cardinality(ahead) < Positions THEN a ELSE 0)

NoBid == [listing |-> NoListing, spot |-> NoListing, status |-> "none",
          amount |-> 0, raise |-> 0, since |-> 0, position |-> 0]
NoSub == [listing |-> NoListing, status |-> "none", quantity |-> 0,
          requested |-> 0, asked |-> FALSE, aged |-> FALSE]
NoPay == [status |-> "none", quantity |-> 0, offer |-> 0]

CancelledBid(r) == [r EXCEPT !.status = "cancelled", !.position = 0, !.raise = 0]
AllCancelled(B, bs) == [b \in bs |-> CancelledBid(B[b])]

Unconfirmed(B, l) == {b \in Of(B, l) : B[b].status = "pending" \/ B[b].raise # 0}
ConfirmListingBids(B, l) ==
    [b \in Unconfirmed(B, l) |->
        [B[b] EXCEPT !.status = IF @ = "pending" THEN "active" ELSE @,
                     !.amount = IF B[b].raise = 0 THEN @ ELSE B[b].raise,
                     !.since  = IF B[b].raise = 0 THEN @ ELSE Dated(B, B[b].spot),
                     !.raise  = 0]]
ExpirePendingBids(B, l) ==
    [b \in Unconfirmed(B, l) |->
        IF B[b].status = "pending" THEN CancelledBid(B[b]) ELSE [B[b] EXCEPT !.raise = 0]]

SpotsOf(B, bs) == {B[b].spot : b \in bs}

-----------------------------------------------------------------------------
(* PayPal: a call that finds the subscription already so is a success.     *)

Suspended(r) == IF r.status = "ACTIVE" THEN [r EXCEPT !.status = "SUSPENDED"] ELSE r
Activated(r) == IF r.status = "SUSPENDED" THEN [r EXCEPT !.status = "ACTIVE"] ELSE r
Stopped(r) ==
    IF r.status \in {"ACTIVE", "SUSPENDED"} THEN [r EXCEPT !.status = "CANCELLED"] ELSE r

NoticeOf == [ACTIVE |-> "ACTIVATED", SUSPENDED |-> "SUSPENDED", CANCELLED |-> "CANCELLED"]
Unsaid == -1
Notice(i, type, q) == [sub |-> i, type |-> type, quantity |-> q]

(* PayPal moves to P and tells of every subscription whose status changed. *)
PayPalMoves(P) ==
    /\ paypal' = P
    /\ mail' = mail \cup {Notice(i, NoticeOf[P[i].status], P[i].quantity) :
                            i \in {j \in Subs : /\ P[j].status # paypal[j].status
                                                /\ P[j].status \in DOMAIN NoticeOf}}

-----------------------------------------------------------------------------
(* Transactions.                                                           *)

Idle == [pc |-> "idle", lock |-> NoListing, bids |-> <<>>, subs |-> <<>>,
         todo |-> {}, touched |-> {}, also |-> {}, ranks |-> <<>>,
         event |-> <<>>, posted |-> {}, seen |-> NoSub, shut |-> {}]

ViewBids(s) == tx[s].bids @@ bid
ViewSubs(s) == tx[s].subs @@ sub

(* No other transaction has written these rows.                            *)
Free(s, bs, ss) ==
    \A r \in Sessions \ {s} : /\ DOMAIN tx[r].bids \cap bs = {}
                              /\ DOMAIN tx[r].subs \cap ss = {}

(* Session s writes rows and goes on to rank the spots and bill, or commit. *)
Settle(s, base, bs, ss, spots, also) ==
    tx' = [tx EXCEPT ![s] = [base EXCEPT !.pc = IF spots = {} THEN "bill" ELSE "rank",
                                         !.bids = bs, !.subs = ss, !.todo = spots,
                                         !.touched = spots, !.also = also]]
Finish(s, base, bs, ss) ==
    tx' = [tx EXCEPT ![s] = [base EXCEPT !.pc = "commit", !.bids = bs, !.subs = ss]]

FreshBid == {b \in Bids : /\ bid[b].status = "none"
                          /\ \A r \in Sessions : b \notin DOMAIN tx[r].bids
                          /\ \A a \in 1..(b - 1) : bid[a].status # "none"
                                \/ \E r \in Sessions : a \in DOMAIN tx[r].bids}
FreshSub == {i \in Subs : /\ sub[i].status = "none"
                          /\ \A r \in Sessions : i \notin DOMAIN tx[r].subs
                          /\ \A j \in 1..(i - 1) : sub[j].status # "none"
                                \/ \E r \in Sessions : j \in DOMAIN tx[r].subs}

(* No more than Lag notifications are late. *)
Prompt == Cardinality(mail) <= Lag
Spend == edits < MaxEdits /\ edits' = edits + 1

-----------------------------------------------------------------------------
(* Owners: each transaction starts by locking the listing.                 *)

LockListing(s, l) ==
    /\ tx[s].pc = "idle"
    /\ \A r \in Sessions : tx[r].lock # l
    /\ Prompt
    /\ Spend
Locked(l) == [Idle EXCEPT !.lock = l]
MayEdit(l) == LiveSubs(sub, l) = Approved(sub, l)

WithdrawRaise(s, l, p) ==
    /\ LockListing(s, l) /\ MayEdit(l) /\ p \notin closed
    /\ \E b \in Own(bid, l, p) :
        /\ bid[b].raise # 0
        /\ Free(s, {b}, {})
        /\ Settle(s, Locked(l), b :> [bid[b] EXCEPT !.raise = 0], <<>>, {p}, {l})
    /\ UNCHANGED <<bid, sub, paypal, mail, closed>>

LowerBid(s, l, p, a) ==
    /\ LockListing(s, l) /\ MayEdit(l) /\ p \notin closed
    /\ \E b \in Own(bid, l, p) :
        /\ Floor <= a /\ a < bid[b].amount
        /\ Free(s, {b}, {})
        /\ Settle(s, Locked(l),
                  b :> [bid[b] EXCEPT !.amount = a, !.raise = 0, !.since = Dated(bid, p)],
                  <<>>, {p}, {})
    /\ UNCHANGED <<bid, sub, paypal, mail, closed>>

(* The row an unconfirmed amount is put in: a raise of the own bid, or a   *)
(* new bid that waits.                                                     *)
Offered(l, p, a) ==
    IF Own(bid, l, p) # {}
    THEN {b :> [bid[b] EXCEPT !.raise = a] : b \in {o \in Own(bid, l, p) : bid[o].amount < a}}
    ELSE {b :> [NoBid EXCEPT !.listing = l, !.spot = p, !.status = "pending",
                             !.amount = a, !.since = Dated(bid, p)] : b \in FreshBid}

StartSubscription(s, l, p, a) ==
    /\ LockListing(s, l) /\ LiveSubs(sub, l) = {} /\ p \notin closed
    /\ Accepted(bid, l, p, a)
    /\ LET q == Projected(bid, l, p, a) IN
        \E bs \in Offered(l, p, a), i \in FreshSub :
            /\ Free(s, DOMAIN bs, {})
            /\ Finish(s, Locked(l), bs,
                      i :> [NoSub EXCEPT !.listing = l, !.status = "approval_pending",
                                         !.requested = q])
            /\ paypal' = [paypal EXCEPT ![i] = [NoPay EXCEPT !.status = "APPROVAL_PENDING",
                                                             !.offer = q]]
    /\ UNCHANGED <<bid, sub, mail, closed>>

(* With a subscription the owner's transaction stops at every PayPal call: *)
(* it has put the amount in its row, and goes on by what it read of the    *)
(* subscription then (seen) and the quantity it worked out (event).        *)
OfferBid(s, l, p, a) ==
    /\ LockListing(s, l) /\ p \notin closed /\ Accepted(bid, l, p, a)
    /\ \E bs \in Offered(l, p, a), i \in Approved(sub, l) :
        /\ Free(s, DOMAIN bs, {})
        /\ tx' = [tx EXCEPT ![s] = [Locked(l) EXCEPT
                    !.pc = "offered", !.bids = bs, !.touched = {p}, !.seen = sub[i],
                    !.event = Notice(i, "none", Projected(bid, l, p, a))]]
    /\ UNCHANGED <<bid, sub, paypal, mail, closed>>

(* A paused subscription is resumed first, at PayPal and then in its row.  *)
Resume(s) ==
    /\ tx[s].pc = "offered" /\ tx[s].seen.status = "paused"
    /\ PayPalMoves([paypal EXCEPT ![tx[s].event.sub] = Activated(@)])
    /\ tx' = [tx EXCEPT ![s].pc = "resumed"]
    /\ UNCHANGED <<bid, sub, closed, edits>>

RecordResume(s) ==
    LET i == tx[s].event.sub
    IN  /\ tx[s].pc = "resumed" /\ Free(s, {}, {i})
        /\ tx' = [tx EXCEPT ![s].pc = "offered", ![s].seen.status = "active",
                            ![s].subs = i :> [sub[i] EXCEPT !.status = "active"]]
        /\ UNCHANGED <<bid, sub, paypal, mail, closed, edits>>

(* PayPal is asked for the new quantity, and the row notes it; or PayPal   *)
(* refuses and everything is rolled back.                                  *)
Revising(s) ==
    /\ tx[s].pc = "offered" /\ tx[s].seen.status # "paused"
    /\ tx[s].event.quantity # tx[s].seen.quantity

ReviseBid(s) ==
    /\ Revising(s) /\ paypal[tx[s].event.sub].status = "ACTIVE"
    /\ paypal' = [paypal EXCEPT ![tx[s].event.sub].offer = tx[s].event.quantity]
    /\ tx' = [tx EXCEPT ![s].pc = "revised"]
    /\ UNCHANGED <<bid, sub, mail, closed, edits>>

RefuseBid(s) ==
    /\ Revising(s) /\ paypal[tx[s].event.sub].status # "ACTIVE"
    /\ tx' = [tx EXCEPT ![s] = Idle]
    /\ UNCHANGED <<bid, sub, paypal, mail, closed, edits>>

RecordRevise(s) ==
    LET i == tx[s].event.sub
    IN  /\ tx[s].pc = "revised" /\ Free(s, {}, {i})
        /\ Finish(s, tx[s], tx[s].bids,
                  i :> [ViewSubs(s)[i] EXCEPT !.requested = tx[s].event.quantity,
                                              !.asked = TRUE, !.aged = FALSE])
        /\ UNCHANGED <<bid, sub, paypal, mail, closed, edits>>

(* The quantity is what PayPal bills already: the bid counts at once.      *)
AtOnce(s) ==
    /\ tx[s].pc = "offered" /\ tx[s].seen.status # "paused"
    /\ tx[s].event.quantity = tx[s].seen.quantity
MadeReal(s) == ConfirmListingBids(ViewBids(s), tx[s].lock) @@ tx[s].bids

BidAtOnce(s) ==
    LET i == tx[s].event.sub
    IN  /\ AtOnce(s) /\ Free(s, DOMAIN MadeReal(s), {i})
        /\ Settle(s, tx[s], MadeReal(s),
                  i :> [ViewSubs(s)[i] EXCEPT !.requested = tx[s].event.quantity,
                                              !.asked = FALSE],
                  tx[s].touched \cup SpotsOf(MadeReal(s), DOMAIN MadeReal(s)), {})
        /\ UNCHANGED <<bid, sub, paypal, mail, closed, edits>>

CancelOwnBid(s, l, p) ==
    /\ LockListing(s, l) /\ MayEdit(l)
    /\ \E b \in Own(bid, l, p) :
        /\ Free(s, {b}, {})
        /\ Settle(s, Locked(l), AllCancelled(bid, {b}), <<>>, {p}, {l})
    /\ UNCHANGED <<bid, sub, paypal, mail, closed>>

-----------------------------------------------------------------------------
(* The admin.                                                              *)

CloseSpot(s, p) ==
    /\ tx[s].pc = "idle" /\ p \in Closable \ closed /\ Prompt /\ Spend
    /\ Free(s, On(bid, p), {})
    /\ Settle(s, [Idle EXCEPT !.shut = {p}], AllCancelled(bid, On(bid, p)), <<>>, {p},
              {bid[b].listing : b \in On(bid, p)})
    /\ UNCHANGED <<bid, sub, paypal, mail, closed>>

OpenSpot(p) ==
    /\ p \in closed /\ Spend
    /\ closed' = closed \ {p}
    /\ UNCHANGED <<bid, sub, paypal, mail, tx>>

-----------------------------------------------------------------------------
(* Notifications and reconciles.                                           *)

(* What the site hears of a notification or an answer: PayPal may leave    *)
(* the quantity out.                                                       *)
Heard(e) ==
    {e} \cup (IF e.type \in Silent THEN {[e EXCEPT !.quantity = Unsaid]} ELSE {})

Receive(s, e) ==
    /\ tx[s].pc = "idle"
    /\ \A r \in Sessions : e \notin tx[r].posted
    /\ \E h \in Heard(e) :
        /\ IF h = e THEN UNCHANGED edits ELSE Spend
        /\ tx' = [tx EXCEPT ![s] = [Idle EXCEPT !.pc = "seen", !.event = h, !.posted = {e},
                                                !.seen = sub[e.sub]]]
    /\ UNCHANGED <<bid, sub, paypal, mail, closed>>

(* The sync and the page PayPal returns to ask PayPal and treat the answer *)
(* as its notification; a page about a closed row is a late notification.  *)
Answer(i) == Notice(i, NoticeOf[paypal[i].status], paypal[i].quantity)
Ask(s, i) ==
    /\ tx[s].pc = "idle" /\ sub[i].status \in LiveStatus
    /\ paypal[i].status \in DOMAIN NoticeOf
    /\ \E h \in Heard(Answer(i)) :
        /\ IF h = Answer(i) THEN UNCHANGED edits ELSE Spend
        /\ tx' = [tx EXCEPT ![s] = [Idle EXCEPT !.pc = "asked", !.event = h]]
    /\ UNCHANGED <<bid, sub, paypal, mail, closed>>

(* The sync comes to a row that differs from what was asked, and is told   *)
(* the quantity.                                                           *)
Reconcile(s, i) ==
    /\ sub[i].status \in {"active", "past_due"} /\ sub[i].quantity # sub[i].requested
    /\ Ask(s, i)
    /\ tx'[s].event.quantity # Unsaid

Answered(s) ==
    /\ tx[s].pc = "asked"
    /\ tx' = [tx EXCEPT ![s].pc = "seen", ![s].seen = sub[tx[s].event.sub]]
    /\ UNCHANGED <<bid, sub, paypal, mail, closed, edits>>

Lapses == [SUSPENDED |-> "suspended", CANCELLED |-> "cancelled"]
Ignored(e, row) ==
    \/ e.type \in Confirms \cup {"FAILED"} /\ row.status \in ClosedStatus
    \/ e.type = "SUSPENDED" /\ row.status = "paused"
    \/ e.type = "SALE" /\ row.status \notin {"active", "past_due"}

(* Nothing is written but that the notification has been processed.        *)
Ignore(s) ==
    /\ tx[s].pc = "seen" /\ Ignored(tx[s].event, tx[s].seen)
    /\ mail' = mail \ tx[s].posted
    /\ tx' = [tx EXCEPT ![s] = Idle]
    /\ UNCHANGED <<bid, sub, paypal, closed, edits>>

(* Variant: any quantity PayPal confirms is taken to cover the bids.       *)
CoversAny(e, row) == TRUE

(* An answer without a quantity covers nothing, and leaves the row's own.  *)
Covers(e, row) == e.quantity # Unsaid /\ e.quantity >= row.requested

Confirm(s) ==
    LET e == tx[s].event
        l == sub[e.sub].listing
        covers == Covers(e, tx[s].seen)
        bs == IF covers THEN ConfirmListingBids(bid, l) ELSE <<>>
        row == [sub[e.sub] EXCEPT !.status = "active",
                                  !.quantity = IF e.quantity = Unsaid THEN @ ELSE e.quantity,
                                  !.asked = IF covers THEN FALSE ELSE @]
    IN  /\ tx[s].pc = "seen" /\ e.type \in Confirms /\ ~Ignored(e, tx[s].seen)
        /\ Free(s, DOMAIN bs, {e.sub})
        /\ Settle(s, tx[s], bs, e.sub :> row, SpotsOf(bid, Of(bid, l)), {})
        /\ UNCHANGED <<bid, sub, paypal, mail, closed, edits>>

(* A payment keeps the row active; a failed one makes it past due.         *)
Charged(s) ==
    LET e == tx[s].event
    IN  /\ tx[s].pc = "seen" /\ e.type \in {"SALE", "FAILED"} /\ ~Ignored(e, tx[s].seen)
        /\ Free(s, {}, {e.sub})
        /\ Finish(s, tx[s], <<>>,
                  e.sub :> [sub[e.sub] EXCEPT
                              !.status = IF e.type = "SALE" THEN "active" ELSE "past_due"])
        /\ UNCHANGED <<bid, sub, paypal, mail, closed, edits>>

(* Variant: a lapse cancels the bids and ranks nothing.                    *)
LapseUnranked(s) ==
    LET e == tx[s].event
        gone == Of(bid, sub[e.sub].listing)
    IN  /\ tx[s].pc = "seen" /\ e.type \in DOMAIN Lapses /\ ~Ignored(e, tx[s].seen)
        /\ Free(s, gone, {e.sub})
        /\ Finish(s, tx[s], AllCancelled(bid, gone),
                  e.sub :> [sub[e.sub] EXCEPT !.status = Lapses[e.type], !.asked = FALSE])
        /\ UNCHANGED <<bid, sub, paypal, mail, closed, edits>>

Lapse(s) ==
    LET e == tx[s].event
        gone == Of(bid, sub[e.sub].listing)
    IN  /\ tx[s].pc = "seen" /\ e.type \in DOMAIN Lapses /\ ~Ignored(e, tx[s].seen)
        /\ Free(s, gone, {e.sub})
        /\ Settle(s, tx[s], AllCancelled(bid, gone),
                  e.sub :> [sub[e.sub] EXCEPT !.status = Lapses[e.type], !.asked = FALSE],
                  SpotsOf(bid, gone), {})
        /\ UNCHANGED <<bid, sub, paypal, mail, closed, edits>>

-----------------------------------------------------------------------------
(* The hourly sync: one row that has waited beyond its limit.              *)

(* Variant: a revise nobody answers is waited for.                         *)
OverdueRow(row) == row.aged /\ row.status \in {"approval_pending", "paused"}

Overdue(row) ==
    /\ row.aged
    /\ \/ row.status \in {"approval_pending", "paused"}
       \/ row.status \in {"active", "past_due"} /\ row.asked

PickRow(s, i) ==
    /\ tx[s].pc = "idle" /\ Prompt
    /\ Overdue(sub[i])
    /\ sub[i].status = "approval_pending" => paypal[i].status = "APPROVAL_PENDING"
    /\ tx' = [tx EXCEPT ![s] = [Idle EXCEPT !.pc = "picked", !.seen = sub[i],
                                            !.event = Notice(i, "none", 0)]]
    /\ UNCHANGED <<bid, sub, paypal, mail, closed, edits>>

(* Never approved: the bids go, nothing is ranked and PayPal is not told.  *)
ExpireUnapproved(s) ==
    LET i == tx[s].event.sub
        gone == Of(bid, sub[i].listing)
    IN  /\ tx[s].pc = "picked" /\ tx[s].seen.status = "approval_pending"
        /\ Free(s, gone, {i})
        /\ Finish(s, tx[s], AllCancelled(bid, gone), i :> [sub[i] EXCEPT !.status = "expired"])
        /\ UNCHANGED <<bid, sub, paypal, mail, closed, edits>>

CancelPaused(s) ==
    LET i == tx[s].event.sub
        gone == Of(bid, sub[i].listing)
    IN  /\ tx[s].pc = "picked" /\ tx[s].seen.status = "paused"
        /\ Free(s, gone, {i})
        /\ PayPalMoves([paypal EXCEPT ![i] = Stopped(@)])
        /\ Settle(s, tx[s], AllCancelled(bid, gone),
                  i :> [sub[i] EXCEPT !.status = "cancelled", !.asked = FALSE],
                  SpotsOf(bid, gone), {})
        /\ UNCHANGED <<bid, sub, closed, edits>>

ExpireRevise(s) ==
    LET i == tx[s].event.sub
        l == sub[i].listing
        bs == ExpirePendingBids(bid, l)
    IN  /\ tx[s].pc = "picked" /\ tx[s].seen.status \in {"active", "past_due"}
        /\ Free(s, DOMAIN bs, {i})
        /\ Settle(s, tx[s], bs, i :> [sub[i] EXCEPT !.asked = FALSE],
                  SpotsOf(bid, DOMAIN bs), {l})
        /\ UNCHANGED <<bid, sub, paypal, mail, closed, edits>>

-----------------------------------------------------------------------------
(* Every mutation ends with a re-rank of its spots and a re-billing.       *)

(* Variant: a ranked spot stays on the list of spots to rank.              *)
ReadRankingAgain(s, p) ==
    /\ tx[s].pc = "rank" /\ p \in tx[s].todo
    /\ tx' = [tx EXCEPT ![s].pc = "write", ![s].ranks = Ranking(ViewBids(s), p)]
    /\ UNCHANGED <<bid, sub, paypal, mail, closed, edits>>

ReadRanking(s, p) ==
    /\ tx[s].pc = "rank" /\ p \in tx[s].todo
    /\ tx' = [tx EXCEPT ![s].pc = "write", ![s].todo = @ \ {p},
                        ![s].ranks = Ranking(ViewBids(s), p)]
    /\ UNCHANGED <<bid, sub, paypal, mail, closed, edits>>

(* The rows are found by id, whatever became of them since.                *)
ApplyRanking(s) ==
    /\ tx[s].pc = "write"
    /\ Free(s, DOMAIN tx[s].ranks, {})
    /\ tx' = [tx EXCEPT ![s].pc = IF tx[s].todo = {} THEN "bill" ELSE "rank",
                        ![s].ranks = <<>>,
                        ![s].bids = Ranked(ViewBids(s), tx[s].ranks) @@ @]
    /\ UNCHANGED <<bid, sub, paypal, mail, closed, edits>>

(* Variant: only the listings whose bids are in the spots are billed.      *)
RebilledThere(s) ==
    LET B == ViewBids(s)
    IN  UNION {Approved(ViewSubs(s), B[b].listing) : b \in UNION {On(B, p) : p \in tx[s].touched}}

Rebilled(s) ==
    LET B == ViewBids(s)
        listings == {B[b].listing : b \in UNION {On(B, p) : p \in tx[s].touched}} \cup tx[s].also
    IN  UNION {Approved(ViewSubs(s), l) : l \in listings}

(* What a subscription's row says (r), against what its listing holds (B). *)
Stops(B, r) == QuantityFor(B, r.listing) = 0 /\ ~HasPending(B, r.listing)
Cancels(B, r) == Stops(B, r) /\ Of(B, r.listing) = {}
Pauses(B, r) == Stops(B, r) /\ Of(B, r.listing) # {} /\ r.status # "paused"
(* Variant: a listing shown again is not resumed.                          *)
WakesNever(B, r) == FALSE
Wakes(B, r) == r.status = "paused" /\ QuantityFor(B, r.listing) > 0
Agrees(B, r) ==
    /\ ~Stops(B, r) /\ ~HasPending(B, r.listing) /\ r.status # "paused"
    /\ QuantityFor(B, r.listing) = r.quantity
Revises(B, r) ==
    /\ ~Stops(B, r)
    /\ QuantityFor(B, r.listing) \notin {0, r.quantity}
    /\ ~(r.asked /\ (HasPending(B, r.listing) \/ r.requested = QuantityFor(B, r.listing)))

NewRow(B, r) ==
    LET q == QuantityFor(B, r.listing)
    IN  CASE Cancels(B, r) -> [r EXCEPT !.status = "cancelled", !.asked = FALSE]
          [] Pauses(B, r)  -> [r EXCEPT !.status = "paused", !.asked = FALSE, !.aged = FALSE]
          [] Agrees(B, r)  -> [r EXCEPT !.requested = q, !.asked = FALSE]
          [] Revises(B, r) -> [r EXCEPT !.status = IF Wakes(B, r) THEN "active" ELSE @,
                                        !.requested = q, !.asked = TRUE, !.aged = FALSE]
          [] OTHER         -> [r EXCEPT !.status = IF Wakes(B, r) THEN "active" ELSE @]
NewPay(B, r, pay) ==
    LET woken == IF Wakes(B, r) THEN Activated(pay) ELSE pay
    IN  CASE Cancels(B, r) -> Stopped(pay)
          [] Pauses(B, r)  -> Suspended(pay)
          [] Revises(B, r) -> [woken EXCEPT !.offer = QuantityFor(B, r.listing)]
          [] OTHER         -> woken
Refused(B, r, pay) ==
    Revises(B, r) /\ (IF Wakes(B, r) THEN Activated(pay) ELSE pay).status # "ACTIVE"

Rewritten(s) == {i \in Rebilled(s) : NewRow(ViewBids(s), ViewSubs(s)[i]) # ViewSubs(s)[i]}

SyncQuantities(s) ==
    LET B == ViewBids(s)
        S == ViewSubs(s)
        rows == Rewritten(s)
    IN  /\ tx[s].pc = "bill"
        /\ \A i \in Rebilled(s) : ~Refused(B, S[i], paypal[i])
        /\ Free(s, {}, rows)
        /\ PayPalMoves([i \in Subs |-> IF i \in Rebilled(s) THEN NewPay(B, S[i], paypal[i])
                                                            ELSE paypal[i]])
        /\ Finish(s, tx[s], tx[s].bids, [i \in rows |-> NewRow(B, S[i])] @@ tx[s].subs)
        /\ UNCHANGED <<bid, sub, closed, edits>>

(* PayPal refuses a revise and the transaction is rolled back; the calls   *)
(* for the listings before it stand, but for revises, which nobody is shown.*)
RefusedByPayPal(s) ==
    LET B == ViewBids(s)
        S == ViewSubs(s)
        refused == {i \in Rebilled(s) : Refused(B, S[i], paypal[i])}
        Made(i) == IF Revises(B, S[i]) THEN [NewPay(B, S[i], paypal[i]) EXCEPT !.offer = 0]
                                       ELSE NewPay(B, S[i], paypal[i])
    IN  /\ tx[s].pc = "bill" /\ refused # {}
        /\ \E done \in SUBSET (Rebilled(s) \ refused) :
                PayPalMoves([i \in Subs |-> IF i \in done THEN Made(i) ELSE paypal[i]])
        /\ tx' = [tx EXCEPT ![s] = Idle]
        /\ UNCHANGED <<bid, sub, closed, edits>>

(* The two partial unique indexes: one live bid per listing and spot, one  *)
(* live subscription per listing.                                          *)
Unique(B, S) ==
    /\ \A l \in Listings, p \in Spots : Cardinality(Own(B, l, p)) <= 1
    /\ \A l \in Listings : Cardinality(LiveSubs(S, l)) <= 1

Commit(s) ==
    /\ tx[s].pc = "commit" /\ Unique(ViewBids(s), ViewSubs(s))
    /\ bid' = ViewBids(s)
    /\ sub' = ViewSubs(s)
    /\ closed' = closed \cup tx[s].shut
    /\ mail' = mail \ tx[s].posted
    /\ tx' = [tx EXCEPT ![s] = Idle]
    /\ UNCHANGED <<paypal, edits>>

(* A commit that an index or a crash prevents. PayPal was called already,  *)
(* but nobody is shown the link of a revise no row records.                *)
Unshown(s, i) ==
    /\ i \in DOMAIN tx[s].subs /\ tx[s].subs[i].asked
    /\ tx[s].subs[i].requested # sub[i].requested
Rollback(s) ==
    /\ tx[s].pc = "commit"
    /\ IF Unique(ViewBids(s), ViewSubs(s)) THEN Spend ELSE UNCHANGED edits
    /\ tx' = [tx EXCEPT ![s] = Idle]
    /\ paypal' = [i \in Subs |-> IF Unshown(s, i) THEN [paypal[i] EXCEPT !.offer = 0]
                                                  ELSE paypal[i]]
    /\ UNCHANGED <<bid, sub, mail, closed>>

(* Transactions waiting for each other: the database ends one of them.     *)
Blocked(s) ==
    \/ tx[s].pc \in {"resumed", "revised"} /\ ~Free(s, {}, {tx[s].event.sub})
    \/ AtOnce(s) /\ ~Free(s, DOMAIN MadeReal(s), {tx[s].event.sub})
    \/ tx[s].pc = "write" /\ ~Free(s, DOMAIN tx[s].ranks, {})
    \/ tx[s].pc = "bill" /\ ~Free(s, {}, Rewritten(s))
DeadlockVictim(s) ==
    /\ Blocked(s) /\ \E r \in Sessions \ {s} : Blocked(r)
    /\ tx' = [tx EXCEPT ![s] = Idle]
    /\ paypal' = [i \in Subs |-> IF tx[s].pc = "revised" /\ i = tx[s].event.sub
                                  THEN [paypal[i] EXCEPT !.offer = 0] ELSE paypal[i]]
    /\ UNCHANGED <<bid, sub, mail, closed, edits>>

-----------------------------------------------------------------------------
(* PayPal, its buyers and the clock.                                       *)

(* The buyer has the link once its transaction has committed, and may use  *)
(* it after the site has thought better of it.                             *)
Shown(i) ==
    /\ sub[i].status # "none"
    /\ \A s \in Sessions : /\ i \notin DOMAIN tx[s].subs
                           /\ tx[s].pc = "revised" => tx[s].event.sub # i

Approve(i) ==
    /\ paypal[i].status = "APPROVAL_PENDING" /\ Shown(i) /\ Prompt
    /\ PayPalMoves([paypal EXCEPT ![i] = [status |-> "ACTIVE", quantity |-> paypal[i].offer,
                                          offer |-> 0]])
    /\ UNCHANGED <<bid, sub, closed, tx, edits>>

Consent(i) ==
    /\ paypal[i].status = "ACTIVE" /\ paypal[i].offer # 0 /\ Shown(i) /\ Prompt
    /\ paypal' = [paypal EXCEPT ![i].quantity = paypal[i].offer, ![i].offer = 0]
    /\ mail' = mail \cup {Notice(i, "UPDATED", paypal[i].offer)}
    /\ UNCHANGED <<bid, sub, closed, tx, edits>>

(* PayPal gives up after failed payments; the buyer cancels at PayPal.     *)
PayPalEnds(i) ==
    /\ Spend /\ Prompt
    /\ \/ PayPalMoves([paypal EXCEPT ![i] = Stopped(@)])
       \/ PayPalMoves([paypal EXCEPT ![i] = Suspended(@)])
    /\ paypal' # paypal
    /\ UNCHANGED <<bid, sub, closed, tx>>

Charge(i) ==
    /\ paypal[i].status = "ACTIVE" /\ Spend /\ Prompt
    /\ \E type \in {"SALE", "FAILED"} : mail' = mail \cup {Notice(i, type, 0)}
    /\ UNCHANGED <<bid, sub, paypal, closed, tx>>

Age(i) ==
    /\ ~sub[i].aged /\ sub[i].status \in Ages
    /\ sub[i].status \in {"approval_pending", "paused"} \/ sub[i].asked
    /\ \A s \in Sessions : i \notin DOMAIN tx[s].subs
    /\ sub' = [sub EXCEPT ![i].aged = TRUE]
    /\ UNCHANGED <<bid, paypal, mail, closed, tx, edits>>

-----------------------------------------------------------------------------
Init ==
    /\ bid = [b \in Bids |-> NoBid]
    /\ sub = [i \in Subs |-> NoSub]
    /\ paypal = [i \in Subs |-> NoPay]
    /\ mail = {}
    /\ closed = {}
    /\ tx = [s \in Sessions |-> Idle]
    /\ edits = 0

Owners(s) ==
    \E l \in Listings, p \in Spots :
        \/ WithdrawRaise(s, l, p) \/ CancelOwnBid(s, l, p)
        \/ \E a \in Amounts : \/ LowerBid(s, l, p, a) \/ StartSubscription(s, l, p, a)
                              \/ OfferBid(s, l, p, a)
Bidding(s) ==
    \/ Resume(s) \/ RecordResume(s) \/ ReviseBid(s) \/ RefuseBid(s) \/ RecordRevise(s)
    \/ BidAtOnce(s)
Delivered(s) == \E e \in mail : Receive(s, e)
Notified(s) ==
    \/ Answered(s) \/ Ignore(s) \/ Confirm(s) \/ Charged(s) \/ Lapse(s)
Swept(s) == ExpireUnapproved(s) \/ CancelPaused(s) \/ ExpireRevise(s)
Settling(s) ==
    \/ \E p \in Spots : ReadRanking(s, p)
    \/ ApplyRanking(s) \/ SyncQuantities(s) \/ RefusedByPayPal(s) \/ Commit(s)
Outside ==
    \/ \E i \in Subs : Approve(i) \/ Consent(i) \/ PayPalEnds(i) \/ Charge(i) \/ Age(i)
    \/ \E p \in Spots : OpenSpot(p)

Next ==
    \/ \E s \in Sessions :
        \/ Owners(s) \/ Bidding(s) \/ Delivered(s) \/ Notified(s) \/ Swept(s) \/ Settling(s)
        \/ Rollback(s) \/ DeadlockVictim(s)
        \/ \E i \in Subs : Ask(s, i) \/ PickRow(s, i)
        \/ \E p \in Spots : CloseSpot(s, p)
    \/ Outside

Spec == Init /\ [][Next]_vars
(* Fairness: the database queues for a row whoever wants it and ends a     *)
(* deadlock, so a transaction goes on; notifications are delivered, the    *)
(* hourly sync comes by and time passes. What owners, buyers and the admin *)
(* may do carries none.                                                    *)
GoesOn(s) ==
    \/ Bidding(s) \/ Notified(s) \/ Swept(s) \/ Settling(s)
    \/ Rollback(s) /\ ~Unique(ViewBids(s), ViewSubs(s))
Fairness ==
    /\ \A s \in Sessions : SF_vars(GoesOn(s))
    /\ SF_vars(\E s \in Sessions : Delivered(s))
    /\ WF_vars(\E s \in Sessions : DeadlockVictim(s))
    /\ \A i \in Subs : /\ SF_vars(Age(i))
                       /\ SF_vars(\E s \in Sessions : PickRow(s, i))
                       /\ SF_vars(\E s \in Sessions : Reconcile(s, i))

FairSpec == Spec /\ Fairness

-----------------------------------------------------------------------------
(* Properties.                                                             *)

Amount == Amounts \cup {0}
BidRows == [listing : Listings \cup {NoListing}, spot : Spots \cup {NoListing},
            status : {"none", "pending", "active", "outbid", "cancelled"},
            amount : Amount, raise : Amount, since : Nat, position : 0..Positions]
SubRows == [listing : Listings \cup {NoListing},
            status : LiveStatus \cup ClosedStatus \cup {"none"},
            quantity : Nat, requested : Nat, asked : BOOLEAN, aged : BOOLEAN]

(* The rows, PayPal's records and the transactions have the shape the      *)
(* schema gives them.                                                      *)
TypeOK ==
    /\ bid \in [Bids -> BidRows]
    /\ sub \in [Subs -> SubRows]
    /\ paypal \in [Subs -> [status : {"none", "APPROVAL_PENDING"} \cup DOMAIN NoticeOf,
                            quantity : Nat, offer : Nat]]
    /\ mail \subseteq [sub : Subs, quantity : Nat,
                       type : {"ACTIVATED", "UPDATED", "SALE", "FAILED"} \cup DOMAIN Lapses]
    /\ closed \subseteq Spots
    /\ edits \in 0..MaxEdits
    /\ \A s \in Sessions :
        /\ tx[s].pc \in {"idle", "offered", "resumed", "revised", "asked", "seen", "picked",
                      "rank", "write", "bill", "commit"}
        /\ DOMAIN tx[s].bids \subseteq Bids /\ DOMAIN tx[s].subs \subseteq Subs
        /\ tx[s].todo \subseteq tx[s].touched /\ tx[s].touched \subseteq Spots

AtRest == \A s \in Sessions : tx[s].pc = "idle"

(* Between transactions the confirmed bids of every spot stand where the   *)
(* amounts and their dates put them: the top Positions are shown, the rest *)
(* are outbid (rank.ts rankBids, engine.ts rerankSpots), whatever raised,  *)
(* lowered, cancelled, confirmed or expired a bid.                         *)
RankedAsBid ==
    AtRest => \A p \in Spots : \A b \in Confirmed(bid, p) :
                /\ bid[b].position = Ranking(bid, p)[b]
                /\ bid[b].status = "active" <=> bid[b].position # 0

(* Nobody is shown without a subscription that is being billed: a lapsed,  *)
(* paused, expired or unapproved one leaves no bid in a position           *)
(* (webhook.ts lapse, engine.ts syncQuantities, spots-sync.ts).            *)
FeaturedOnlyWhilePaid ==
    AtRest => \A b \in LiveBids(bid) :
        Holds(bid, b) =>
            \E i \in LiveSubs(sub, bid[b].listing) : sub[i].status \in {"active", "past_due"}

(* "A listing pays for the positions it holds" (rank.ts quantityFor): once *)
(* every notification is processed, PayPal bills a listing that is shown   *)
(* for what it holds, unless a bid, or a revise for just that, waits for   *)
(* the buyer.                                                              *)
PaysForWhatItHolds ==
    (AtRest /\ mail = {}) =>
        \A i \in Subs :
            LET l == sub[i].listing
                q == QuantityFor(bid, l)
            IN  q # 0 /\ sub[i].status \in {"active", "past_due"} =>
                    \/ HasPending(bid, l)
                    \/ sub[i].asked /\ sub[i].requested = q
                    \/ paypal[i].quantity = q

(* When a bid or a raise becomes real, and PayPal bills at least its       *)
(* amount.                                                                 *)
BecomesReal(b) ==
    /\ bid'[b].status \in {"active", "outbid"}
    /\ bid[b].status \in {"none", "pending"} \/ bid'[b].amount > bid[b].amount
Consented(b) ==
    \E i \in LiveSubs(sub', bid'[b].listing) : paypal[i].quantity >= bid'[b].amount

(* A listing that has only ever bid for one spot.                          *)
Narrow(B, l) ==
    \A b, c \in Bids : B[b].listing = l /\ B[c].listing = l => B[b].spot = B[c].spot

(* PayPal's word that it bills this listing otherwise is on its way.       *)
Corrected(l) == \E i \in LiveSubs(sub', l) : \E e \in mail : e.sub = i

(* A bid or a raise of such a listing becomes real only when the buyer has *)
(* agreed to pay for it (bidding.ts projectedQuantity covers it, webhook.ts*)
(* confirm waits for that quantity), whatever was asked of PayPal before,  *)
(* refused, withdrawn, expired or outbid; unless the buyer takes back, just*)
(* then, what the owner's page has read as agreed.                         *)
OneSpotIsConsented ==
    [][\A b \in Bids : BecomesReal(b) /\ Narrow(bid', bid'[b].listing) =>
            Consented(b) \/ Corrected(bid'[b].listing)]_vars

(* A bid or raise that waits for the buyer is confirmed, withdrawn or      *)
(* expired in the end, by the notification or by the sync: also one whose  *)
(* notification left the quantity out (webhook.ts confirm), and one whose  *)
(* subscription another transaction ends or resumes meanwhile; unless that *)
(* leaves the listing without any, and its owner must bid anew.            *)
Waits(b) == bid[b].status = "pending" \/ bid[b].raise # 0
PendingSettles ==
    \A b \in Bids : Waits(b) ~> (Waits(b) => LiveSubs(sub, bid[b].listing) = {})

(* Every transaction ends, whatever rows the others hold and whatever      *)
(* PayPal answers: a deadlock of two re-ranks costs one of them, and no    *)
(* listing stays locked behind it.                                         *)
TransactionsEnd == \A s \in Sessions : tx[s].pc # "idle" ~> tx[s].pc = "idle"

-----------------------------------------------------------------------------
(* What is not so.  Statements the source makes, or seems to rely on, that *)
(* some interleaving breaks; README.md, Disagreements, tells each one's    *)
(* story, and nothing relies on them.                                      *)

(* A bid or a raise becomes real only on evidence that the buyer agreed to *)
(* pay for it (webhook.ts confirm): PayPal bills at least its amount.      *)
ConfirmedIsConsented == [][\A b \in Bids : BecomesReal(b) => Consented(b)]_vars

(* "... and nothing else" (rank.ts quantityFor): what PayPal bills is for  *)
(* a listing that holds something, or waits for the buyer.                 *)
PaysForNothingElse ==
    (AtRest /\ mail = {}) =>
        \A i \in Subs : paypal[i].status = "ACTIVE" =>
            /\ sub[i].status \in {"active", "past_due"}
            /\ HasPending(bid, sub[i].listing) \/ QuantityFor(bid, sub[i].listing) # 0

(* No more bids are shown in a spot than it has positions (rank.ts).       *)
FeaturedFit ==
    AtRest => \A p \in Spots : Cardinality({b \in On(bid, p) : Holds(bid, b)}) <= Positions
=============================================================================
