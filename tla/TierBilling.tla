----------------------------- MODULE TierBilling -----------------------------
(***************************************************************************)
(* The paid tiers: a checkout takes a coupon and a PayPal subscription,    *)
(* PayPal's events and the answers to this site's questions move the       *)
(* subscription row and the tier of its listing.                           *)
(*                                                                         *)
(*   src/lib/billing/subscriptions.ts  startCheckout, reconcileSubscription *)
(*   src/lib/billing/webhooks.ts        decide                             *)
(*   src/lib/billing/process.ts         processPayPalWebhook               *)
(*   src/lib/db/queries/billing.ts      the rows and their locks           *)
(*   src/lib/db/queries/coupons.ts      redeemCoupon                       *)
(*   src/worker/jobs/subscription-sync.ts, src/app/checkout/return/page.tsx *)
(*                                                                         *)
(* A checkout is a transaction that holds its listing, and then its coupon,*)
(* while PayPal answers.  A webhook and a reconcile read the subscription  *)
(* row without a lock and write it later, from what they read: two steps   *)
(* for a webhook, three for a reconcile, whose PayPal call is in between.  *)
(* There is one coupon and one paid tier.  Time is counted in units of the *)
(* three days PayPal retries for.                                          *)
(***************************************************************************)
EXTENDS Integers, FiniteSets

CONSTANTS
  Subs,            \* checkout attempts, each with the subscription row it would write
  Listings,
  Sessions,        \* webhook deliveries, return pages and sync ticks under way
  Interval,        \* one billing interval
  Window,          \* RENEWAL_WINDOW_MS; also how long PayPal redelivers an event
  Grace,           \* GRACE_DAYS of the sync job
  Dated, Bare,     \* the kinds of events that may name, or leave out, the next billing time
  MaxRedemptions,  \* coupons.max_redemptions
  MaxBilled,       \* bound on the subscriptions buyers approve
  MaxWire,         \* bound on the events under way when PayPal sends an UPDATED
  MaxTime          \* bound on the clock

ASSUME BillingAssumption ==
  /\ IsFiniteSet(Subs)
  /\ Dated \cup Bare \subseteq Subs \X {"ACTIVATED", "UPDATED", "FAILED", "SALE"}
  /\ MaxBilled \in Nat /\ MaxWire \in Nat /\ Window \in Nat /\ Grace \in Nat /\ MaxTime \in Nat /\ MaxRedemptions \in Nat
  /\ Interval \in Nat /\ Interval > 3 * Window

NoDate == 0     \* a null current_period_end: every real one is at least Interval
NoListing == "no listing"
NoSub == "no subscription"

Live == {"active", "past_due"}                         \* LIVE_SUBSCRIPTION_STATUSES
Statuses == Live \cup {"approval_pending", "cancelled", "suspended", "expired"}
Ended == {"SUSPENDED", "CANCELLED", "EXPIRED"}         \* at PayPal
Billed == {"ACTIVE"} \cup Ended
Types == Ended \cup {"ACTIVATED", "UPDATED", "FAILED", "SALE"}
Tiers == {"free", "paid"}

VARIABLES
  now,
  row,       \* the subscriptions row of each checkout
  tier,      \* listings.tier
  desk,      \* the open transaction of each checkout
  redeemed,  \* coupons.redemption_count
  paypal,    \* each subscription's state at PayPal
  paidTo,    \* its next_billing_time there
  declined,  \* subscriptions whose last charge failed
  wire,      \* events PayPal still redelivers and processed_events does not hold
  session    \* what each session has read, heard and is about to write

world == <<now, paypal, paidTo, declined>>
shop == <<desk, redeemed>>
vars == <<world, row, tier, shop, wire, session>>

NoRow == [status |-> "absent", listing |-> NoListing, end |-> NoDate, coupon |-> FALSE]
Away == [pc |-> "out", listing |-> NoListing, coupon |-> FALSE]
NoEvent == [type |-> "none", sub |-> NoSub, next |-> NoDate, live |-> FALSE, born |-> 0]
Idle == [pc |-> "idle", sub |-> NoSub, seen |-> NoRow, event |-> NoEvent]

Rows == [status : Statuses, listing : Listings, end : Nat, coupon : BOOLEAN]
Events == [type : Types, sub : Subs, next : Nat, live : BOOLEAN, born : Nat]

TypeOK ==
  /\ now \in 0..MaxTime
  /\ row \in [Subs -> Rows \cup {NoRow}]
  /\ tier \in [Listings -> Tiers]
  /\ desk \in [Subs -> [pc : {"listed", "priced", "created"}, listing : Listings, coupon : BOOLEAN]
                        \cup {Away}]
  /\ redeemed \in Nat
  /\ paypal \in [Subs -> {"none", "created", "lost", "offered"} \cup Billed]
  /\ paidTo \in [Subs -> Nat]
  /\ declined \in SUBSET Subs
  /\ wire \in SUBSET Events
  /\ session \in [Sessions -> [pc : {"asking", "decided"}, sub : Subs, seen : Rows,
                               event : Events \cup {NoEvent}] \cup {Idle}]

Init ==
  /\ now = 0
  /\ row = [s \in Subs |-> NoRow]
  /\ tier = [l \in Listings |-> "free"]
  /\ desk = [s \in Subs |-> Away]
  /\ redeemed = 0
  /\ paypal = [s \in Subs |-> "none"]
  /\ paidTo = [s \in Subs |-> NoDate]
  /\ declined = {}
  /\ wire = {}
  /\ session = [k \in Sessions |-> Idle]

Held(l) == \E s \in Subs : desk[s].listing = l       \* listings row, FOR UPDATE
CouponHeld == \E s \in Subs : desk[s].coupon         \* coupons row, FOR UPDATE
Recorded(s) == row[s] # NoRow

-----------------------------------------------------------------------------
(* The checkout.  listingForCheckout takes the listing's lock, and a       *)
(* listing with a live subscription is turned away under it.               *)
OpenCheckout(s, l) ==
  /\ ~Recorded(s) /\ desk[s] = Away /\ paypal[s] = "none"
  /\ ~Held(l)
  /\ ~\E o \in Subs : row[o].listing = l /\ row[o].status \in Live
  /\ desk' = [desk EXCEPT ![s] = [pc |-> "listed", listing |-> l, coupon |-> FALSE]]
  /\ UNCHANGED <<world, row, tier, redeemed, wire, session>>

PayFullPrice(s) ==
  /\ desk[s].pc = "listed"
  /\ desk' = [desk EXCEPT ![s].pc = "priced"]
  /\ UNCHANGED <<world, row, tier, redeemed, wire, session>>

(* Mutation: the coupon is read as the preview reads it, without its lock. *)
RedeemUnlocked(s) ==
  /\ desk[s].pc = "listed"
  /\ redeemed < MaxRedemptions
  /\ desk' = [desk EXCEPT ![s].pc = "priced", ![s].coupon = TRUE]
  /\ UNCHANGED <<world, row, tier, redeemed, wire, session>>

(* redeemCoupon: what has been redeemed is read under the coupon's lock,   *)
(* held until the checkout ends; with an exhausted code it fails.          *)
RedeemCoupon(s) ==
  /\ desk[s].pc = "listed"
  /\ ~CouponHeld
  /\ redeemed < MaxRedemptions
  /\ desk' = [desk EXCEPT ![s].pc = "priced", ![s].coupon = TRUE]
  /\ UNCHANGED <<world, row, tier, redeemed, wire, session>>

(* Mutation: the buyer is sent to PayPal before the row is committed.      *)
CreateAndOffer(s) ==
  /\ desk[s].pc = "priced"
  /\ desk' = [desk EXCEPT ![s].pc = "created"]
  /\ paypal' = [paypal EXCEPT ![s] = "offered"]
  /\ UNCHANGED <<now, paidTo, declined, row, tier, redeemed, wire, session>>

(* createSubscription, inside the transaction.                             *)
CreateAtPayPal(s) ==
  /\ desk[s].pc = "priced"
  /\ desk' = [desk EXCEPT ![s].pc = "created"]
  /\ paypal' = [paypal EXCEPT ![s] = "created"]
  /\ UNCHANGED <<now, paidTo, declined, row, tier, redeemed, wire, session>>

(* The pending row, the redemption and the lock's end commit together, and *)
(* only then is the buyer given the approval link.                         *)
CommitCheckout(s) ==
  /\ desk[s].pc = "created"
  /\ row' = [row EXCEPT ![s] = [status |-> "approval_pending", listing |-> desk[s].listing,
                                end |-> NoDate, coupon |-> desk[s].coupon]]
  /\ redeemed' = IF desk[s].coupon THEN redeemed + 1 ELSE redeemed
  /\ desk' = [desk EXCEPT ![s] = Away]
  /\ paypal' = [paypal EXCEPT ![s] = "offered"]
  /\ UNCHANGED <<now, paidTo, declined, tier, wire, session>>

(* The coupon is rejected, PayPal refuses or cannot be reached, or the     *)
(* process stops: all rolled back here, though PayPal may be left holding  *)
(* a subscription nobody has a link to.                                    *)
CheckoutFails(s) ==
  /\ desk[s] # Away
  /\ desk' = [desk EXCEPT ![s] = Away]
  /\ paypal' = [paypal EXCEPT ![s] = "lost"]
  /\ UNCHANGED <<now, paidTo, declined, row, tier, redeemed, wire, session>>

-----------------------------------------------------------------------------
(* PayPal and the buyer there, as far as the events and answers show them. *)
Event(t, s, next, live) == [type |-> t, sub |-> s, next |-> next, live |-> live, born |-> now]
Sent(es) == wire' = wire \cup es

(* What an event of kind t may say of the next billing time, if anything.  *)
Named(t, s, date) == {d \in {date, NoDate} : <<s, t>> \in IF d = NoDate THEN Bare ELSE Dated}

(* The first period begins; a plan without a trial is charged at once.     *)
BuyerApproves(s) ==
  /\ paypal[s] = "offered"
  /\ Cardinality({o \in Subs : paypal[o] \in Billed}) < MaxBilled
  /\ paypal' = [paypal EXCEPT ![s] = "ACTIVE"]
  /\ paidTo' = [paidTo EXCEPT ![s] = now + Interval]
  /\ \E next \in Named("ACTIVATED", s, now + Interval), due \in Named("SALE", s, now + Interval) :
       \E charged \in SUBSET {Event("SALE", s, due, TRUE)} :
         Sent({Event("ACTIVATED", s, next, TRUE)} \cup charged)
  /\ UNCHANGED <<now, declined, row, tier, shop, session>>

ChargeRenewal(s) ==
  /\ paypal[s] = "ACTIVE" /\ paidTo[s] <= now
  /\ paidTo' = [paidTo EXCEPT ![s] = @ + Interval]
  /\ declined' = declined \ {s}
  /\ \E due \in Named("SALE", s, paidTo[s] + Interval) : Sent({Event("SALE", s, due, TRUE)})
  /\ UNCHANGED <<now, paypal, row, tier, shop, session>>

ChargeFails(s) ==
  /\ paypal[s] = "ACTIVE" /\ paidTo[s] <= now /\ s \notin declined
  /\ declined' = declined \cup {s}
  /\ \E next \in Named("FAILED", s, paidTo[s]) : Sent({Event("FAILED", s, next, TRUE)})
  /\ UNCHANGED <<now, paypal, paidTo, row, tier, shop, session>>

(* The buyer changes something there, a card or an address.                *)
PayPalUpdates(s) ==
  /\ paypal[s] \in {"ACTIVE", "SUSPENDED"}
  /\ Cardinality(wire) < MaxWire
  /\ \E next \in Named("UPDATED", s, paidTo[s]) : Sent({Event("UPDATED", s, next, paypal[s] = "ACTIVE")})
  /\ UNCHANGED <<world, row, tier, shop, session>>

PayPalEnds(s, how) ==
  /\ \/ how = "SUSPENDED" /\ paypal[s] = "ACTIVE" /\ s \in declined
     \/ how = "CANCELLED" /\ paypal[s] \in {"ACTIVE", "SUSPENDED"}
     \/ how = "EXPIRED" /\ paypal[s] = "ACTIVE" /\ paidTo[s] <= now
  /\ paypal' = [paypal EXCEPT ![s] = how]
  /\ Sent({Event(how, s, NoDate, FALSE)})
  /\ UNCHANGED <<now, paidTo, declined, row, tier, shop, session>>

(* A charge falls due on its day, and is retried for Window.  An event     *)
(* that could not be delivered for as long is given up.  No request lasts  *)
(* for days: the clock stands still while one is open.                     *)
AdvanceClock ==
  /\ now < MaxTime
  /\ \A s \in Subs : desk[s] = Away
  /\ \A k \in Sessions : session[k] = Idle
  /\ \A s \in Subs : paypal[s] = "ACTIVE" =>
       paidTo[s] > now \/ (s \in declined /\ paidTo[s] + Window > now)
  /\ now' = now + 1
  /\ wire' = {e \in wire : e.born + Window > now}
  /\ UNCHANGED <<paypal, paidTo, declined, row, tier, shop, session>>

-----------------------------------------------------------------------------
(* decide: the row's next status and period end, and the listing's tier.   *)
Effect(status, end, t) == [status |-> status, end |-> end, tier |-> t]
NextEnd(e, end) == IF e.next # NoDate THEN e.next ELSE end

(* Mutation: a sale that names no date extends the period it finds.        *)
EverySaleExtends(e, end) ==
  IF e.next # NoDate THEN e.next ELSE IF end = NoDate THEN now + Interval ELSE end + Interval

(* A sale that names the next billing time wins.  Else, one while more     *)
(* than Window is left to run paid for that period; one nearer to its end, *)
(* or past it, renews it; a stale row starts afresh.                       *)
SaleEnd(e, end) ==
  IF e.next # NoDate THEN e.next
  ELSE IF end # NoDate /\ end - now > Window THEN end
  ELSE IF end # NoDate /\ end + Interval > now THEN end + Interval
  ELSE now + Interval

Decide(e, seen) ==
  CASE e.type = "ACTIVATED" -> Effect("active", NextEnd(e, seen.end), "paid")
    [] e.type = "UPDATED"   -> Effect(IF e.live THEN "active" ELSE seen.status,
                                      NextEnd(e, seen.end), "paid")
    [] e.type = "CANCELLED" -> Effect("cancelled", seen.end, IF seen.end > now THEN "paid" ELSE "free")
    [] e.type = "SUSPENDED" -> Effect("suspended", seen.end, "free")
    [] e.type = "EXPIRED"   -> Effect("expired", seen.end, "free")
    [] e.type = "FAILED"    -> Effect("past_due", NextEnd(e, seen.end), "paid")
    [] e.type = "SALE"      -> Effect("active", SaleEnd(e, seen.end), "paid")

(* A webhook.  An event that is in processed_events is answered and not    *)
(* applied: wire holds the others.  A second delivery of one that is under *)
(* way waits for it.  The row is read, unlocked, before the decision.      *)
Deliver(k, e) ==
  /\ session[k] = Idle
  /\ \A o \in Sessions : session[o].event # e
  /\ Recorded(e.sub)
  /\ session' = [session EXCEPT ![k] = [pc |-> "decided", sub |-> e.sub, seen |-> row[e.sub],
                                        event |-> e]]
  /\ UNCHANGED <<world, row, tier, shop, wire>>

(* reconcileSubscription, for the buyer who comes back from PayPal (and    *)
(* who may reload that page) ...                                           *)
Ask(k, s) ==
  /\ session[k] = Idle
  /\ session' = [session EXCEPT ![k] = [pc |-> "asking", sub |-> s, seen |-> row[s],
                                        event |-> NoEvent]]
  /\ UNCHANGED <<world, row, tier, shop, wire>>

OpenReturnPage(k, s) == Recorded(s) /\ paypal[s] # "offered" /\ Ask(k, s)

(* Mutation: only rows that say they are paid are looked at.               *)
StaleLive(s) ==
  /\ row[s].status \in Live
  /\ row[s].end # NoDate /\ row[s].end + Grace <= now

(* staleSubscriptionsForSync: paid rows past their end, and ended ones     *)
(* whose listing still carries a tier.                                     *)
Stale(s) ==
  /\ \/ row[s].status \in Live
     \/ row[s].status \in {"cancelled", "suspended"} /\ tier[row[s].listing] # "free"
  /\ row[s].end # NoDate /\ row[s].end + Grace <= now

(* ... and for the hourly sync.                                            *)
SyncAsks(k, s) == Recorded(s) /\ Stale(s) /\ Ask(k, s)

(* STATUS_EVENTS: the answer as the webhook this site would have received. *)
Answers(s) ==
  IF paypal[s] = "ACTIVE" THEN {Event("ACTIVATED", s, next, TRUE) : next \in Named("ACTIVATED", s, paidTo[s])}
  ELSE {Event(paypal[s], s, NoDate, FALSE)}

PayPalAnswers(k) ==
  /\ session[k].pc = "asking"
  /\ \E e \in Answers(session[k].sub) :
       session' = [session EXCEPT ![k].pc = "decided", ![k].event = e]
  /\ UNCHANGED <<world, row, tier, shop, wire>>

(* PayPal cannot be reached: nothing is changed.                           *)
PayPalSilent(k) ==
  /\ session[k].pc = "asking"
  /\ session' = [session EXCEPT ![k] = Idle]
  /\ UNCHANGED <<world, row, tier, shop, wire>>

(* applyEffect: the subscription row from what was read, and the tier of   *)
(* its listing, whose row must not be held by a checkout.  An event is in  *)
(* processed_events from then on.  A transaction that is lost before has   *)
(* written nothing: it is as if it had not begun.                          *)
Apply(k) ==
  LET s == session[k].sub
      e == session[k].event
      effect == Decide(e, session[k].seen)
  IN  /\ session[k].pc = "decided"
      /\ ~Held(row[s].listing)
      /\ row' = [row EXCEPT ![s].status = effect.status, ![s].end = effect.end]
      /\ tier' = [tier EXCEPT ![row[s].listing] = effect.tier]
      /\ wire' = wire \ {e}
      /\ session' = [session EXCEPT ![k] = Idle]
      /\ UNCHANGED <<world, shop>>

-----------------------------------------------------------------------------
Next ==
  \/ \E s \in Subs :
       \/ \E l \in Listings : OpenCheckout(s, l)
       \/ PayFullPrice(s) \/ RedeemCoupon(s) \/ CreateAtPayPal(s)
       \/ CommitCheckout(s) \/ CheckoutFails(s)
       \/ BuyerApproves(s) \/ ChargeRenewal(s) \/ ChargeFails(s) \/ PayPalUpdates(s)
       \/ \E how \in Ended : PayPalEnds(s, how)
  \/ \E k \in Sessions :
       \/ \E e \in wire : Deliver(k, e)
       \/ \E s \in Subs : OpenReturnPage(k, s) \/ SyncAsks(k, s)
       \/ PayPalAnswers(k) \/ PayPalSilent(k) \/ Apply(k)
  \/ AdvanceClock

(* A checkout goes on until it commits or fails, and a session ends; PayPal *)
(* can be reached now and then; the hourly job gets to ask about a stale    *)
(* row.                                                                    *)
CheckoutStep(s) ==
  PayFullPrice(s) \/ RedeemCoupon(s) \/ CreateAtPayPal(s) \/ CommitCheckout(s) \/ CheckoutFails(s)

Fairness ==
  /\ WF_vars(\E s \in Subs : CheckoutStep(s))
  /\ SF_vars(\E k \in Sessions, s \in Subs : SyncAsks(k, s))
  /\ \A k \in Sessions : SF_vars(PayPalAnswers(k)) /\ WF_vars(Apply(k))

Spec == Init /\ [][Next]_vars /\ Fairness

-----------------------------------------------------------------------------
(* A limited code is never used more often than agreed, and its count is   *)
(* the rows that carry it: a checkout that fails burns nothing.            *)
CouponCounted ==
  /\ redeemed <= MaxRedemptions
  /\ redeemed = Cardinality({s \in Subs : row[s].coupon})

(* PayPal bills nobody for a subscription this site has no row of,         *)
(* whatever fails between creating it there and committing it here.        *)
BilledIsRecorded ==
  \A s \in Subs : paypal[s] \in Billed => Recorded(s)

(* In whatever order events, redeliveries and answers are applied, a row   *)
(* is never an interval ahead of what PayPal has been paid for: at most by *)
(* the lateness of the charge and of its event.                            *)
NeverAPeriodAhead ==
  \A s \in Subs : Recorded(s) => row[s].end <= paidTo[s] + 2 * Window

(* No listing keeps a paid tier for ever once every subscription of it has *)
(* ended at PayPal and run out here: the sync job comes to it even when a  *)
(* late event has made the row active again.                               *)
RunOut(l) ==
  \A s \in Subs : row[s].listing = l =>
    /\ paypal[s] \in Ended
    /\ row[s].status # "approval_pending" /\ row[s].end # NoDate /\ row[s].end + Grace <= now

LapseReachesListing == \A l \in Listings : []<>(RunOut(l) => tier[l] = "free")

-----------------------------------------------------------------------------
(* What is not so.  Statements the source makes, or seems to rely on, that *)
(* some interleaving breaks; README.md, Disagreements, tells each one's    *)
(* story, and nothing relies on them.                                      *)

(* What startCheckout and the sync job say of a listing that is paid for:  *)
(* while a subscription is active at PayPal, in its row, and within its    *)
(* period, its listing is not free.                                        *)
PaidListingKeepsTier ==
  \A s \in Subs : /\ paypal[s] = "ACTIVE" /\ row[s].status = "active" /\ row[s].end > now
                  => tier[row[s].listing] = "paid"
=============================================================================
