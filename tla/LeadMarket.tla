------------------------------ MODULE LeadMarket ------------------------------
(***************************************************************************)
(* The lead market: a lead is sold at most once, off the board or to a     *)
(* standing order, from prepaid credit; a bad one is refunded to credit.   *)
(*                                                                         *)
(*   src/lib/db/queries/lead-market.ts   sale, board, orders, refunds      *)
(*   src/lib/leads/allocate.ts           allocation to standing orders     *)
(*   src/lib/db/queries/credits.ts       balance, debit, refund, adjust    *)
(*                                                                         *)
(* The database is PostgreSQL at READ COMMITTED.  A transaction that waits *)
(* for more than one lock is a session with a program counter: it takes    *)
(* each lock in a step of its own, reads committed rows when it has it,    *)
(* keeps what it has decided to write in its own record, and writes it in  *)
(* its commit.  A handler that needs a single lock is one action, enabled  *)
(* while nobody else holds that lock.                                      *)
(***************************************************************************)
EXTENDS Integers, FiniteSets, Functions

CONSTANTS
  Leads,        \* leads.id
  Users,        \* profiles.id of the buyers, each with one listing
  Orders,       \* lead_standing_orders, numbered in order of created_at
  OwnerOf,      \* the account of each standing order
  Coverages,    \* the sets of leads an order's places and categories may cover
  Prices,       \* what a standing order may bid
  LeadPrice,    \* leads.price_cents: the floor
  Packs,        \* credit_orders.pack_cents
  Corrections,  \* the amounts an admin adjusts a balance by
  Sessions,     \* connections that run transactions
  NoSession,
  Reporters,    \* bound: the accounts that ever report a bad lead
  MaxAge,       \* bound: how far a lead ages
  MaxFunded,    \* bound: credit an account is ever given
  MaxTouches    \* bound: edits of orders once made, and of listings

ASSUME MarketAssumption ==
  /\ Orders \subseteq Nat \ {0}
  /\ OwnerOf \in [Orders -> Users]
  /\ Coverages \subseteq SUBSET Leads
  /\ Prices \subseteq Nat \ {0}
  /\ LeadPrice \in Nat \ {0}
  /\ Packs \subseteq Nat \ {0}
  /\ Corrections \subseteq Int \ {0}
  /\ NoSession \notin Sessions
  /\ Reporters \subseteq Users
  /\ "none" \notin Leads \cup Users

VARIABLES
  lead,        \* leads: status, age in steps of its dates, contact_purged_at
  purchase,    \* lead_purchases, unique per lead
  refund,      \* lead_refunds.status, unique per purchase
  refundRows,  \* leads with a refund entry in credit_ledger
  balance,     \* the sum of an account's committed credit_ledger rows
  order,       \* lead_standing_orders
  published,   \* users whose listing is published and still theirs
  mails,       \* notifyLeadTopup jobs queued for each order
  tx,          \* the open transaction of each session
  leadLock, orderLock, accountLock, refundLock,  \* who holds each lock
  funded,      \* history: credit given by top-ups and adjustments
  activations, \* history: times an order was created or resumed
  touches      \* bound on edits

locks == <<leadLock, orderLock, accountLock, refundLock>>
market == <<lead, purchase, refund, refundRows, balance, order, published, mails>>
history == <<funded, activations, touches>>
vars == <<market, tx, locks, history>>

-----------------------------------------------------------------------------
(* Rows and transactions. *)

Board == 0    \* the "order" of a purchase off the board
NoPurchase == [buyer |-> "none", order |-> Board, price |-> 0]

LeadStatus == {"absent", "open", "sold", "expired", "deleted", "removed"}
OrderStatus == {"absent", "active", "user", "no_credit", "deleted"}
RefundStatus == {"none", "pending", "approved", "rejected"}

(* An unsold lead ages from new (0) past half_price_at (1), expires_at (2) *)
(* and a further seven days (3), as the shipped configuration orders them; *)
(* a sold one from the sale (0) past the refund window (1) and             *)
(* retainSoldDays (2), an order config/validate.ts insists on.             *)
Ages == 0..3
HalfPriceAge == 1
ExpiryAge == 2
RemovalAge == 3
WindowClosedAge == 1
RetainedAge == 2

Idle ==
  [op |-> "none", pc |-> "idle", lead |-> "none", user |-> "none", price |-> 0, order |-> Board,
   scan |-> {}, cand |-> {}, snap |-> [o \in Orders |-> 0], sold |-> FALSE, pause |-> {},
   creates |-> FALSE]

Transactions ==
  [op : {"none", "buy", "allocate", "refund"},
   pc : {"idle", "lead", "scan", "account", "balance", "commit"},
   lead : Leads \cup {"none"}, user : Users \cup {"none"}, price : Nat, order : Orders \cup {Board},
   scan : SUBSET Orders, cand : SUBSET Orders, snap : [Orders -> Nat],
   sold : BOOLEAN, pause : SUBSET Orders, creates : BOOLEAN]

TypeOK ==
  /\ lead \in [Leads -> [status : LeadStatus, age : Ages, purged : BOOLEAN]]
  /\ purchase \in [Leads -> [buyer : Users \cup {"none"}, order : Orders \cup {Board}, price : Nat]]
  /\ refund \in [Leads -> RefundStatus]
  /\ refundRows \in SUBSET Leads
  /\ balance \in [Users -> Int]
  /\ order \in [Orders -> [status : OrderStatus, price : Nat, covers : SUBSET Leads, won : Nat]]
  /\ published \in SUBSET Users
  /\ mails \in [Orders -> Nat]
  /\ tx \in [Sessions -> Transactions]
  /\ leadLock \in [Leads -> Sessions \cup {NoSession}]
  /\ orderLock \in [Orders -> Sessions \cup {NoSession}]
  /\ accountLock \in [Users -> Sessions \cup {NoSession}]
  /\ refundLock \in [Leads -> Sessions \cup {NoSession}]
  /\ funded \in [Users -> Int]
  /\ activations \in [Orders -> Nat]
  /\ touches \in Nat

Init ==
  /\ lead = [l \in Leads |-> [status |-> "absent", age |-> 0, purged |-> FALSE]]
  /\ purchase = [l \in Leads |-> NoPurchase]
  /\ refund = [l \in Leads |-> "none"]
  /\ refundRows = {}
  /\ balance = [u \in Users |-> 0]
  /\ order = [o \in Orders |-> [status |-> "absent", price |-> 0, covers |-> {}, won |-> 0]]
  /\ published = Users
  /\ mails = [o \in Orders |-> 0]
  /\ tx = [s \in Sessions |-> Idle]
  /\ leadLock = [l \in Leads |-> NoSession]
  /\ orderLock = [o \in Orders |-> NoSession]
  /\ accountLock = [u \in Users |-> NoSession]
  /\ refundLock = [l \in Leads |-> NoSession]
  /\ funded = [u \in Users |-> 0]
  /\ activations = [o \in Orders |-> 0]
  /\ touches = 0

-----------------------------------------------------------------------------
(* Transactions: starting one, ending one, what it holds. *)

Begin(s, t) == tx[s].pc = "idle" /\ tx' = [tx EXCEPT ![s] = t]

Freed(lock, s) == [x \in DOMAIN lock |-> IF lock[x] = s THEN NoSession ELSE lock[x]]

(* Mutation: a session-level advisory lock, which COMMIT does not release. *)
EndKeepsAccount(s) ==
  /\ tx' = [tx EXCEPT ![s] = Idle]
  /\ leadLock' = Freed(leadLock, s)
  /\ orderLock' = Freed(orderLock, s)
  /\ refundLock' = Freed(refundLock, s)
  /\ UNCHANGED accountLock

(* COMMIT and ROLLBACK both end here: every row and advisory lock goes. *)
End(s) ==
  /\ tx' = [tx EXCEPT ![s] = Idle]
  /\ leadLock' = Freed(leadLock, s)
  /\ orderLock' = Freed(orderLock, s)
  /\ accountLock' = Freed(accountLock, s)
  /\ refundLock' = Freed(refundLock, s)

(* Mutation: expiry is tested, the status is not. *)
OpenLeadByDate(l) == lead[l].age < ExpiryAge
OpenLead(l) == lead[l].status = "open" /\ lead[l].age < ExpiryAge

CurrentPrice(l) ==
  IF lead[l].age >= HalfPriceAge THEN (LeadPrice + 1) \div 2 ELSE LeadPrice

Covers(o, l) == order[o].status = "active" /\ l \in order[o].covers

Candidates(l) == {o \in Orders : Covers(o, l) /\ OwnerOf[o] \in published}

(* Mutation: ORDER BY price_cents ASC. *)
OutranksCheapest(snap, o, p) == snap[o] < snap[p] \/ (snap[o] = snap[p] /\ o <= p)

(* ORDER BY price_cents DESC, created_at: decided on the rows as selected. *)
Outranks(snap, o, p) == snap[o] > snap[p] \/ (snap[o] = snap[p] /\ o <= p)
First(snap, S, o) == o \in S /\ \A p \in S : Outranks(snap, o, p)

-----------------------------------------------------------------------------
(* Sale: off the board, or by allocation. *)

(* A request for a lead that is not open ends at once, so none is begun.   *)
BuyLead(s, u, l) ==
  /\ u \in published
  /\ lead[l].status = "open"
  /\ Begin(s, [Idle EXCEPT !.op = "buy", !.pc = "lead", !.lead = l, !.user = u])
  /\ UNCHANGED <<market, locks, history>>

(* leads.retry_allocate: one lead, in a transaction of its own. *)
RetryLead(s, l) ==
  /\ lead[l].status = "open"
  /\ Begin(s, [Idle EXCEPT !.op = "allocate", !.pc = "lead", !.lead = l])
  /\ UNCHANGED <<market, locks, history>>

(* The candidates as selected, before their rows are locked. *)
Selecting(t) ==
  LET found == Candidates(t.lead)
  IN [t EXCEPT !.pc = "scan", !.scan = found,
               !.snap = [o \in Orders |-> IF o \in found THEN order[o].price ELSE 0]]

(* The confirm route: the lead's row and its allocation in one transaction. *)
CreateLead(s, l) ==
  /\ lead[l].status = "absent"
  /\ leadLock[l] = NoSession
  /\ leadLock' = [leadLock EXCEPT ![l] = s]
  /\ Begin(s, Selecting([Idle EXCEPT !.op = "allocate", !.lead = l, !.creates = TRUE]))
  /\ UNCHANGED <<market, orderLock, accountLock, refundLock, history>>

(* lockOpenLead: the row lock, and the lead as it is once the lock is had. *)
LockOpenLead(s) ==
  LET t == tx[s]
  IN /\ t.pc = "lead"
     /\ leadLock[t.lead] = NoSession
     /\ OpenLead(t.lead)
     /\ leadLock' = [leadLock EXCEPT ![t.lead] = s]
     /\ tx' = [tx EXCEPT ![s] = IF t.op = "buy"
                                THEN [t EXCEPT !.pc = "account", !.price = CurrentPrice(t.lead)]
                                ELSE Selecting(t)]
     /\ UNCHANGED <<market, orderLock, accountLock, refundLock, history>>

LeadGone(s) ==
  /\ tx[s].pc = "lead"
  /\ leadLock[tx[s].lead] = NoSession
  /\ ~OpenLead(tx[s].lead)
  /\ End(s)
  /\ UNCHANGED <<market, history>>

(* Mutation: a row that has changed is not tested again. *)
LockCandidateAsSelected(s, o) ==
  /\ tx[s].pc = "scan"
  /\ First(tx[s].snap, tx[s].scan, o)
  /\ orderLock[o] = NoSession
  /\ orderLock' = [orderLock EXCEPT ![o] = s]
  /\ tx' = [tx EXCEPT ![s].scan = @ \ {o}, ![s].cand = @ \cup {o}]
  /\ UNCHANGED <<market, leadLock, accountLock, refundLock, history>>

(* FOR UPDATE OF the orders: locks are taken row by row in the selected    *)
(* order; a row changed since is tested again as it is now, at its new     *)
(* price, but keeps its place.                                             *)
LockCandidate(s, o) ==
  /\ tx[s].pc = "scan"
  /\ First(tx[s].snap, tx[s].scan, o)
  /\ orderLock[o] = NoSession
  /\ orderLock' = [orderLock EXCEPT ![o] = s]
  /\ tx' = [tx EXCEPT ![s].scan = @ \ {o},
                      ![s].cand = IF Covers(o, tx[s].lead) THEN @ \cup {o} ELSE @]
  /\ UNCHANGED <<market, leadLock, accountLock, refundLock, history>>

(* The loop over the candidates, in that order. *)
Looping(s) == tx[s].pc = "scan" /\ tx[s].scan = {}

(* Until one has won, each candidate in turn is asked to pay. *)
TryCandidate(s, o) ==
  /\ Looping(s)
  /\ First(tx[s].snap, tx[s].cand, o)
  /\ ~tx[s].sold
  /\ tx' = [tx EXCEPT ![s].pc = "account", ![s].cand = @ \ {o}, ![s].order = o,
                      ![s].user = OwnerOf[o], ![s].price = order[o].price]
  /\ UNCHANGED <<market, locks, history>>

(* creditBalance inside the transaction: committed rows and its own debit. *)
SeenBalance(s, u) ==
  balance[u] - (IF tx[s].sold /\ tx[s].user = u THEN tx[s].price ELSE 0)

(* After the win, a candidate that could not pay its own price is paused. *)
PassOver(s, o) ==
  /\ Looping(s)
  /\ First(tx[s].snap, tx[s].cand, o)
  /\ tx[s].sold
  /\ tx' = [tx EXCEPT ![s].cand = @ \ {o},
                      ![s].pause = IF SeenBalance(s, OwnerOf[o]) >= order[o].price
                                   THEN @ ELSE @ \cup {o}]
  /\ UNCHANGED <<market, locks, history>>

(* Mutation: the balance is read without the advisory lock. *)
SkipAccountLock(s) ==
  /\ tx[s].pc = "account"
  /\ tx' = [tx EXCEPT ![s].pc = IF tx[s].op = "refund" THEN "commit" ELSE "balance"]
  /\ UNCHANGED <<market, locks, history>>

(* Mutation: a lock the transaction has already is waited for too.         *)
LockAccountOnce(s) ==
  LET t == tx[s]
  IN /\ t.pc = "account"
     /\ accountLock[t.user] = NoSession
     /\ accountLock' = [accountLock EXCEPT ![t.user] = s]
     /\ tx' = [tx EXCEPT ![s].pc = IF t.op = "refund" THEN "commit" ELSE "balance"]
     /\ UNCHANGED <<market, leadLock, orderLock, refundLock, history>>

(* lockBalance: the account's advisory lock, kept to the end. *)
LockAccount(s) ==
  LET t == tx[s]
  IN /\ t.pc = "account"
     /\ accountLock[t.user] \in {NoSession, s}
     /\ accountLock' = [accountLock EXCEPT ![t.user] = s]
     /\ tx' = [tx EXCEPT ![s].pc = IF t.op = "refund" THEN "commit" ELSE "balance"]
     /\ UNCHANGED <<market, leadLock, orderLock, refundLock, history>>

CanPay(s) == balance[tx[s].user] >= tx[s].price

(* debitForPurchase and recordSale, not yet committed. *)
Debit(s) ==
  /\ tx[s].pc = "balance"
  /\ CanPay(s)
  /\ tx' = [tx EXCEPT ![s].sold = TRUE,
                      ![s].pc = IF tx[s].op = "buy" THEN "commit" ELSE "scan"]
  /\ UNCHANGED <<market, locks, history>>

BuyInsufficient(s) ==
  /\ tx[s].pc = "balance"
  /\ tx[s].op = "buy"
  /\ ~CanPay(s)
  /\ End(s)
  /\ UNCHANGED <<market, history>>

PauseForCredit(s) ==
  /\ tx[s].pc = "balance"
  /\ tx[s].op = "allocate"
  /\ ~CanPay(s)
  /\ tx' = [tx EXCEPT ![s].pc = "scan", ![s].pause = @ \cup {tx[s].order}]
  /\ UNCHANGED <<market, locks, history>>

(* What a sale writes; the purchase's unique index refuses a second one. *)
RecordSale(s) ==
  LET t == tx[s]
  IN /\ purchase[t.lead] = NoPurchase
     /\ purchase' = [purchase EXCEPT ![t.lead] = [buyer |-> t.user, order |-> t.order, price |-> t.price]]
     /\ lead' = [lead EXCEPT ![t.lead] = [status |-> "sold", age |-> 0, purged |-> FALSE]]
     /\ balance' = [balance EXCEPT ![t.user] = @ - t.price]

CommitBuy(s) ==
  /\ tx[s].pc = "commit"
  /\ tx[s].op = "buy"
  /\ RecordSale(s)
  /\ End(s)
  /\ UNCHANGED <<refund, refundRows, order, published, mails, history>>

(* won_count, and each order paused for credit with its top-up email. *)
SettleOrders(s) ==
  LET t == tx[s]
  IN /\ order' = [o \in Orders |->
                    IF o \in t.pause THEN [order[o] EXCEPT !.status = "no_credit"]
                    ELSE IF t.sold /\ o = t.order THEN [order[o] EXCEPT !.won = @ + 1]
                    ELSE order[o]]
     /\ mails' = [o \in Orders |-> IF o \in t.pause THEN mails[o] + 1 ELSE mails[o]]

CommitAllocated(s) ==
  /\ Looping(s)
  /\ tx[s].cand = {}
  /\ tx[s].sold
  /\ RecordSale(s)
  /\ SettleOrders(s)
  /\ End(s)
  /\ UNCHANGED <<refund, refundRows, published, history>>

OpenRow == [status |-> "open", age |-> 0, purged |-> FALSE]

CommitUnsold(s) ==
  /\ Looping(s)
  /\ tx[s].cand = {}
  /\ ~tx[s].sold
  /\ lead' = IF tx[s].creates THEN [lead EXCEPT ![tx[s].lead] = OpenRow] ELSE lead
  /\ SettleOrders(s)
  /\ End(s)
  /\ UNCHANGED <<purchase, refund, refundRows, balance, published, history>>

(* runAfterLeadCreated: whatever allocation throws rolls its savepoint back *)
(* and is logged; the lead is committed open.                              *)
HookFails(s) ==
  /\ tx[s].creates
  /\ lead' = [lead EXCEPT ![tx[s].lead] = OpenRow]
  /\ End(s)
  /\ UNCHANGED <<purchase, refund, refundRows, balance, order, published, mails, history>>

(* The process or the connection dies, or any statement fails. *)
Crash(s) ==
  /\ tx[s].pc # "idle"
  /\ End(s)
  /\ UNCHANGED <<market, history>>

-----------------------------------------------------------------------------
(* Deadlock: PostgreSQL rolls back one transaction of a cycle of waits. *)

Waits(s, t) ==
  \/ tx[s].pc = "lead" /\ leadLock[tx[s].lead] = t
  \/ tx[s].pc = "account" /\ accountLock[tx[s].user] = t
  \/ /\ tx[s].pc = "scan"
     /\ \E o \in Orders : First(tx[s].snap, tx[s].scan, o) /\ orderLock[o] = t

InCycle(s) ==
  \E C \in SUBSET Sessions :
    /\ s \in C
    /\ \A a \in C : (\E b \in C \ {a} : Waits(a, b)) /\ (\E b \in C \ {a} : Waits(b, a))

DeadlockVictim(s) == InCycle(s) /\ (IF tx[s].creates THEN HookFails(s) ELSE Crash(s))

-----------------------------------------------------------------------------
(* Bad-lead reports. *)

RequestRefund(u, l) ==
  /\ u \in Reporters
  /\ purchase[l].buyer = u
  /\ lead[l].status = "sold"
  /\ refund[l] = "none"
  /\ lead[l].age < WindowClosedAge
  /\ refund' = [refund EXCEPT ![l] = "pending"]
  /\ UNCHANGED <<lead, purchase, refundRows, balance, order, published, mails, tx, locks, history>>

(* decideRefund: the report's row is locked, then the buyer's account. *)
ApproveRefund(s, l) ==
  /\ refundLock[l] = NoSession
  /\ refund[l] = "pending"
  /\ refundLock' = [refundLock EXCEPT ![l] = s]
  /\ Begin(s, [Idle EXCEPT !.op = "refund", !.pc = "account", !.lead = l,
                           !.user = purchase[l].buyer, !.price = purchase[l].price])
  /\ UNCHANGED <<market, leadLock, orderLock, accountLock, history>>

(* Mutation: the credit is the lead's list price, not what was paid. *)
CommitRefundAtFloor(s) ==
  LET t == tx[s]
  IN /\ t.pc = "commit"
     /\ t.op = "refund"
     /\ refund' = [refund EXCEPT ![t.lead] = "approved"]
     /\ refundRows' = refundRows \cup {t.lead}
     /\ balance' = [balance EXCEPT ![t.user] = @ + LeadPrice]
     /\ End(s)
     /\ UNCHANGED <<lead, purchase, order, published, mails, history>>

(* refundToCredit pays a report once, whatever decided it. *)
CommitRefund(s) ==
  LET t == tx[s]
  IN /\ t.pc = "commit"
     /\ t.op = "refund"
     /\ refund' = [refund EXCEPT ![t.lead] = "approved"]
     /\ refundRows' = refundRows \cup {t.lead}
     /\ balance' = IF t.lead \in refundRows THEN balance
                   ELSE [balance EXCEPT ![t.user] = @ + t.price]
     /\ End(s)
     /\ UNCHANGED <<lead, purchase, order, published, mails, history>>

RejectRefund(l) ==
  /\ refundLock[l] = NoSession
  /\ refund[l] = "pending"
  /\ refund' = [refund EXCEPT ![l] = "rejected"]
  /\ UNCHANGED <<lead, purchase, refundRows, balance, order, published, mails, tx, locks, history>>

-----------------------------------------------------------------------------
(* Time, the sweep and the admin. *)

Grow(l) ==
  /\ lead[l].age < MaxAge
  /\ \/ lead[l].status \in {"open", "expired", "deleted"} /\ lead[l].age < RemovalAge
     \/ lead[l].status = "sold" /\ lead[l].age < RetainedAge
  /\ lead' = [lead EXCEPT ![l].age = @ + 1]
  /\ UNCHANGED <<purchase, refund, refundRows, balance, order, published, mails, tx, locks, history>>

Expiring(l) == lead[l].status = "open" /\ lead[l].age >= ExpiryAge

Removable(l) ==
  /\ lead[l].status \in {"expired", "deleted"} \/ Expiring(l)
  /\ lead[l].age >= RemovalAge
  /\ purchase[l] = NoPurchase

(* Mutation: the purge does not look at reports. *)
PurgeableRegardless(l) ==
  /\ lead[l].status = "sold"
  /\ ~lead[l].purged
  /\ lead[l].age >= RetainedAge

(* A report still waiting for a decision keeps the details it is about. *)
Purgeable(l) ==
  /\ lead[l].status = "sold"
  /\ ~lead[l].purged
  /\ lead[l].age >= RetainedAge
  /\ refund[l] # "pending"

(* sweepLeads: expire, remove and purge, in one transaction that waits for *)
(* every row it writes.                                                    *)
SweepLeads ==
  LET swept == {l \in Leads : Expiring(l) \/ Removable(l) \/ Purgeable(l)}
  IN /\ swept # {}
     /\ \A l \in swept : leadLock[l] = NoSession
     /\ lead' = [l \in Leads |->
                   IF Removable(l) THEN [lead[l] EXCEPT !.status = "removed"]
                   ELSE IF Expiring(l) THEN [lead[l] EXCEPT !.status = "expired"]
                   ELSE IF Purgeable(l) THEN [lead[l] EXCEPT !.purged = TRUE]
                   ELSE lead[l]]
     /\ UNCHANGED <<purchase, refund, refundRows, balance, order, published, mails, tx, locks, history>>

(* Mutation: a sold lead is deleted too. *)
AdminDeleteAnyLead(l) ==
  /\ leadLock[l] = NoSession
  /\ lead[l].status \notin {"absent", "deleted", "removed"}
  /\ lead' = [lead EXCEPT ![l].status = "deleted"]
  /\ UNCHANGED <<purchase, refund, refundRows, balance, order, published, mails, tx, locks, history>>

AdminDeleteLead(l) ==
  /\ leadLock[l] = NoSession
  /\ lead[l].status \in {"open", "expired"}
  /\ lead' = [lead EXCEPT ![l].status = "deleted"]
  /\ UNCHANGED <<purchase, refund, refundRows, balance, order, published, mails, tx, locks, history>>

-----------------------------------------------------------------------------
(* Standing orders: each handler locks its one row, FOR UPDATE. *)

Touch == touches < MaxTouches /\ touches' = touches + 1

Exists(o) == order[o].status \notin {"absent", "deleted"}

WriteOrder(o, row) ==
  /\ orderLock[o] = NoSession
  /\ order' = [order EXCEPT ![o] = row]
  /\ UNCHANGED <<lead, purchase, refund, refundRows, balance, published, mails, tx, locks, funded>>

CreateStandingOrder(o, p, C) ==
  /\ order[o].status = "absent"
  /\ \A q \in Orders : q < o => order[q].status # "absent"
  /\ OwnerOf[o] \in published
  /\ WriteOrder(o, [status |-> "active", price |-> p, covers |-> C, won |-> 0])
  /\ activations' = [activations EXCEPT ![o] = @ + 1]
  /\ UNCHANGED touches

(* An edit that changes nothing is left out: it would only be a touch.     *)
UpdateStandingOrder(o, p, C) ==
  /\ Exists(o)
  /\ <<p, C>> # <<order[o].price, order[o].covers>>
  /\ WriteOrder(o, [order[o] EXCEPT !.price = p, !.covers = C])
  /\ Touch
  /\ UNCHANGED activations

(* Resuming clears a no-credit pause too. *)
ResumeStandingOrder(o) ==
  /\ order[o].status \in {"user", "no_credit"}
  /\ WriteOrder(o, [order[o] EXCEPT !.status = "active"])
  /\ Touch
  /\ activations' = [activations EXCEPT ![o] = @ + 1]

PauseStandingOrder(o) ==
  /\ order[o].status \in {"active", "no_credit"}
  /\ WriteOrder(o, [order[o] EXCEPT !.status = "user"])
  /\ Touch
  /\ UNCHANGED activations

DeleteStandingOrder(o) ==
  /\ Exists(o)
  /\ WriteOrder(o, [order[o] EXCEPT !.status = "deleted"])
  /\ Touch
  /\ UNCHANGED activations

(* A listing is unpublished, published again, or changes hands. *)
Moderate(u) ==
  /\ published' = IF u \in published THEN published \ {u} ELSE published \cup {u}
  /\ Touch
  /\ UNCHANGED <<lead, purchase, refund, refundRows, balance, order, mails, tx, locks, funded, activations>>

-----------------------------------------------------------------------------
(* Credit from outside the market. *)

Fund(u, c) ==
  /\ funded[u] + c <= MaxFunded
  /\ balance' = [balance EXCEPT ![u] = @ + c]
  /\ funded' = [funded EXCEPT ![u] = @ + c]
  /\ UNCHANGED <<lead, purchase, refund, refundRows, order, published, mails, tx, locks, activations, touches>>

(* postLedger for a settled top-up (CreditTopup): it takes no balance lock. *)
TopUp(u, c) == Fund(u, c)

AdminAdjust(u, c) ==
  /\ accountLock[u] = NoSession
  /\ balance[u] + c >= 0
  /\ Fund(u, c)

-----------------------------------------------------------------------------
SessionStep(s) ==
  \/ LockOpenLead(s) \/ LeadGone(s)
  \/ \E o \in Orders : LockCandidate(s, o) \/ TryCandidate(s, o) \/ PassOver(s, o)
  \/ LockAccount(s) \/ Debit(s) \/ BuyInsufficient(s) \/ PauseForCredit(s)
  \/ CommitBuy(s) \/ CommitAllocated(s) \/ CommitUnsold(s) \/ CommitRefund(s)

Request(s) ==
  \E l \in Leads :
    \/ CreateLead(s, l) \/ RetryLead(s, l) \/ ApproveRefund(s, l)
    \/ \E u \in Users : BuyLead(s, u, l)

Failure(s) == HookFails(s) \/ Crash(s) \/ DeadlockVictim(s)

OwnerStep ==
  \E o \in Orders :
    \/ \E p \in Prices, C \in Coverages : CreateStandingOrder(o, p, C) \/ UpdateStandingOrder(o, p, C)
    \/ ResumeStandingOrder(o) \/ PauseStandingOrder(o) \/ DeleteStandingOrder(o)

LeadStep ==
  \/ SweepLeads
  \/ \E l \in Leads :
       \/ Grow(l) \/ AdminDeleteLead(l) \/ RejectRefund(l)
       \/ \E u \in Users : RequestRefund(u, l)

AccountStep ==
  \E u \in Users :
    \/ Moderate(u)
    \/ \E c \in Packs : TopUp(u, c)
    \/ \E c \in Corrections : AdminAdjust(u, c)

Next ==
  \/ \E s \in Sessions : SessionStep(s) \/ Request(s) \/ Failure(s)
  \/ OwnerStep \/ LeadStep \/ AccountStep

Spec == Init /\ [][Next]_vars

(* A transaction runs on; PostgreSQL queues waiters, so a lock that keeps  *)
(* being freed is granted in the end; it breaks every deadlock.            *)
Fairness ==
  /\ \A s \in Sessions : SF_vars(SessionStep(s))
  /\ WF_vars(\E s \in Sessions : DeadlockVictim(s))

FairSpec == Spec /\ Fairness

-----------------------------------------------------------------------------
(* Properties. *)

(* No account is ever overdrawn, whichever purchases, allocations, refunds *)
(* and corrections race on it (debitForPurchase, adminAdjust).             *)
BalanceNeverNegative == \A u \in Users : balance[u] >= 0

(* An account's balance is what it was given, less every lead it holds at  *)
(* the price on the purchase, plus every report approved: each purchase is *)
(* debited once and each approved report credited once.                    *)
PricesPaid(S) == SumFunctionOnSet([l \in Leads |-> purchase[l].price], S)

BooksBalance ==
  \A u \in Users :
    LET bought == {l \in Leads : purchase[l].buyer = u}
    IN balance[u] = funded[u] - PricesPaid(bought)
                    + PricesPaid({l \in bought : refund[l] = "approved"})

(* While a transaction holds an uncommitted sale of a lead, the lead is    *)
(* unsold and no other transaction has debited anyone for it: the purchase *)
(* row's unique index is never what stops a second sale (lockOpenLead).    *)
SaleUncontested ==
  \A s \in Sessions : tx[s].sold =>
    /\ purchase[tx[s].lead] = NoPurchase
    /\ lead[tx[s].lead].status = IF tx[s].creates THEN "absent" ELSE "open"
    /\ \A t \in Sessions \ {s} : tx[t].sold => tx[t].lead # tx[s].lead

(* A lead is sold exactly when a purchase row names its buyer: no status   *)
(* change (expiry, admin delete, sweep) leaves a paid-for lead unsold.     *)
SoldIffPurchased ==
  \A l \in Leads : (lead[l].status = "sold") <=> (purchase[l] # NoPurchase)

(* Once sold, a lead stays its buyer's at the price paid, through reports, *)
(* refunds and sweeps: a refund re-opens nothing.                          *)
SaleIsFinal ==
  [][\A l \in Leads : purchase[l] # NoPurchase =>
       purchase'[l] = purchase[l] /\ lead'[l].status = "sold"]_vars

(* The order that wins is debited its price as it stands, still active and *)
(* covering the lead, however its owner edits it meanwhile.                *)
WinnerIsCurrent ==
  \A s \in Sessions : tx[s].sold /\ tx[s].op = "allocate" =>
    LET o == tx[s].order
    IN tx[s].price = order[o].price /\ Covers(o, tx[s].lead)

(* Allocation about to debit a candidate (its account is locked and can    *)
(* pay) while it holds another that bids more and can pay too.             *)
Underbids(s, o) ==
  /\ tx[s].op = "allocate" /\ tx[s].pc = "balance" /\ CanPay(s)
  /\ o \in tx[s].cand
  /\ order[o].price > tx[s].price
  /\ balance[OwnerOf[o]] >= order[o].price

(* As selected, candidates are served best first: the winner is outbid by  *)
(* one that can pay only if an owner changed a price in between.           *)
BestPayingUnlessEdited ==
  \A s \in Sessions, o \in Orders : Underbids(s, o) =>
    order[o].price # tx[s].snap[o] \/ tx[s].price # tx[s].snap[tx[s].order]

(* An order is mailed for a shortfall at most once each time it is made    *)
(* active: paused, it is not a candidate again.                            *)
MailedOncePerShortfall == \A o \in Orders : mails[o] <= activations[o]

(* Contact details are never purged from under an undecided report.        *)
ContactsKeptForDecision ==
  \A l \in Leads : refund[l] = "pending" => ~lead[l].purged

(* Every cycle of waits is between allocations: a purchase off the board   *)
(* or a refund decision is never part of a deadlock.                       *)
OnlyAllocationsDeadlock ==
  \A s \in Sessions : InCycle(s) => tx[s].op = "allocate"

(* Every transaction ends, whatever it waits for.                          *)
EveryTransactionEnds ==
  \A s \in Sessions : tx[s].pc # "idle" ~> tx[s].pc = "idle"

(* What a lead may be sold at. *)
SalePrices == Prices \cup {LeadPrice, (LeadPrice + 1) \div 2}

(* The inductive invariant: the facts each lock protects, for each open    *)
(* transaction, and the rows that only change together.                    *)
Shape(s) ==
  LET t == tx[s]
  IN /\ t.pc = "idle" => t.op = "none"
     /\ t.pc # "idle" => t.lead \in Leads /\ t.op # "none"
     /\ t.op = "buy" => t.user \in Users
     /\ t.pc \in {"account", "balance", "commit"} \/ t.sold => t.user \in Users /\ t.price \in SalePrices
     /\ t.pc \in {"scan", "balance", "lead"} => t.op # "refund"
     /\ t.pc = "scan" => t.op = "allocate"
     /\ t.pc = "commit" /\ t.op = "buy" => t.sold
     /\ t.pc = "commit" => t.op # "allocate"
     /\ t.op = "allocate" /\ (t.pc \in {"account", "balance"} \/ t.sold) => t.order \in Orders
     /\ t.sold => t.pc \in {"scan", "commit"} /\ t.op \in {"buy", "allocate"}
     /\ t.creates => t.op = "allocate" /\ t.pc # "lead"
     /\ \A o \in t.scan : order[o].status # "absent"

LeadHeld(s) ==
  LET t == tx[s]
  IN t.op \in {"buy", "allocate"} /\ t.pc # "lead" =>
       /\ leadLock[t.lead] = s
       /\ lead[t.lead].status = IF t.creates THEN "absent" ELSE "open"

FundsHeld(s) ==
  LET t == tx[s]
  IN /\ t.pc = "balance" \/ t.sold => accountLock[t.user] = s
     /\ t.sold => balance[t.user] >= t.price

RefundHeld(s) ==
  LET t == tx[s]
  IN t.op = "refund" =>
       /\ refundLock[t.lead] = s
       /\ refund[t.lead] = "pending"
       /\ purchase[t.lead].buyer = t.user
       /\ purchase[t.lead].price = t.price

OrdersHeld(s) ==
  LET t == tx[s]
  IN /\ \A o \in t.cand : orderLock[o] = s /\ Covers(o, t.lead)
     /\ \A o \in t.pause : orderLock[o] = s /\ order[o].status # "absent"
     /\ t.op = "allocate" /\ (t.pc \in {"account", "balance"} \/ t.sold) =>
          /\ orderLock[t.order] = s
          /\ Covers(t.order, t.lead)
          /\ order[t.order].price = t.price

OrdersPriced == \A o \in Orders : order[o].status # "absent" => order[o].price \in Prices

SalesRecorded ==
  \A l \in Leads :
    /\ purchase[l] # NoPurchase => purchase[l].buyer \in Users /\ purchase[l].price \in SalePrices
    /\ refund[l] # "none" => purchase[l] # NoPurchase
    /\ l \in refundRows <=> refund[l] = "approved"

IInv ==
  /\ TypeOK
  /\ OrdersPriced
  /\ SalesRecorded
  /\ SoldIffPurchased
  /\ BalanceNeverNegative
  /\ \A s \in Sessions : Shape(s) /\ LeadHeld(s) /\ FundsHeld(s) /\ RefundHeld(s) /\ OrdersHeld(s)

(* The market as its users see it: a sale once, to an account that could   *)
(* pay, given back at most once (IdealMarket).                             *)
Stage(l) ==
  CASE lead[l].status = "absent" -> "absent"
    [] lead[l].status = "open" -> "listed"
    [] lead[l].status = "sold" -> "sold"
    [] OTHER -> "withdrawn"

Ideal == INSTANCE IdealMarket WITH
  Amounts <- SalePrices \cup Packs \cup Corrections,
  stage <- [l \in Leads |-> Stage(l)],
  sale <- [l \in Leads |-> [buyer |-> purchase[l].buyer, price |-> purchase[l].price]],
  settled <- refundRows

ImplementsIdealMarket == Ideal!Spec
=============================================================================
