--------------------------- MODULE LeadMarketProofs ---------------------------
(* Safety of LeadMarket, for every set of leads, accounts, orders and      *)
(* sessions, by the inductive invariant IInv.                              *)
EXTENDS LeadMarket, FiniteSums

USE DEF Board, LeadStatus, OrderStatus, RefundStatus, Ages, HalfPriceAge, ExpiryAge, RemovalAge,
        WindowClosedAge, RetainedAge

LEMMA HalfPriceIsNat == ASSUME NEW l PROVE CurrentPrice(l) \in Nat
<1>1. (LeadPrice + 1) \div 2 \in Nat
  BY MarketAssumption
<1> QED
  BY <1>1, MarketAssumption DEF CurrentPrice

LEMMA IdleIsTransaction == Idle \in Transactions
  BY DEF Idle, Transactions

(* Ending a transaction leaves its record and every lock well typed. *)
LEMMA EndType ==
  ASSUME TypeOK, NEW s \in Sessions, End(s)
  PROVE  /\ tx' \in [Sessions -> Transactions]
         /\ leadLock' \in [Leads -> Sessions \cup {NoSession}]
         /\ orderLock' \in [Orders -> Sessions \cup {NoSession}]
         /\ accountLock' \in [Users -> Sessions \cup {NoSession}]
         /\ refundLock' \in [Leads -> Sessions \cup {NoSession}]
<1>1. tx' \in [Sessions -> Transactions]
  BY IdleIsTransaction DEF TypeOK, End
<1> QED
  BY <1>1 DEF TypeOK, End, Freed

LEMMA SelectingType ==
  ASSUME TypeOK, NEW t \in Transactions
  PROVE  Selecting(t) \in Transactions
  BY DEF Selecting, Candidates, Transactions, TypeOK

LEMMA RecordSaleType ==
  ASSUME TypeOK, NEW s \in Sessions, RecordSale(s)
  PROVE  /\ purchase' \in [Leads -> [buyer : Users \cup {"none"}, order : Orders \cup {Board}, price : Nat]]
         /\ lead' \in [Leads -> [status : LeadStatus, age : Ages, purged : BOOLEAN]]
         /\ balance' \in [Users -> Int]
<1>1. tx[s] \in Transactions
  BY DEF TypeOK
<1>2. /\ tx[s].user \in Users \cup {"none"}
      /\ tx[s].order \in Orders \cup {Board}
      /\ tx[s].price \in Nat
  BY <1>1 DEF Transactions
<1>3. purchase' \in [Leads -> [buyer : Users \cup {"none"}, order : Orders \cup {Board}, price : Nat]]
  BY <1>2 DEF RecordSale, TypeOK
<1>4. lead' \in [Leads -> [status : LeadStatus, age : Ages, purged : BOOLEAN]]
  <2>1. [status |-> "sold", age |-> 0, purged |-> FALSE]
          \in [status : LeadStatus, age : Ages, purged : BOOLEAN]
    OBVIOUS
  <2> QED
    BY <2>1 DEF RecordSale, TypeOK
<1>5. balance' \in [Users -> Int]
  <2>1. CASE tx[s].user \in Users
    BY <1>2, <2>1 DEF RecordSale, TypeOK
  <2>2. CASE tx[s].user \notin Users
    BY <1>2, <2>2 DEF RecordSale, TypeOK
  <2> QED
    BY <2>1, <2>2
<1> QED
  BY <1>3, <1>4, <1>5

LEMMA SettleOrdersType ==
  ASSUME TypeOK, NEW s \in Sessions, SettleOrders(s)
  PROVE  /\ order' \in [Orders -> [status : OrderStatus, price : Nat, covers : SUBSET Leads, won : Nat]]
         /\ mails' \in [Orders -> Nat]
<1> DEFINE Row == [status : OrderStatus, price : Nat, covers : SUBSET Leads, won : Nat]
<1>1. ASSUME NEW o \in Orders PROVE order'[o] \in Row
  <2>1. order[o] \in Row
    BY DEF TypeOK
  <2>2. order'[o] \in {order[o], [order[o] EXCEPT !.status = "no_credit"], [order[o] EXCEPT !.won = @ + 1]}
    BY DEF SettleOrders
  <2> QED
    BY <2>1, <2>2
<1>2. order' \in [Orders -> Row]
  BY <1>1 DEF SettleOrders
<1>3. mails' \in [Orders -> Nat]
  BY DEF SettleOrders, TypeOK
<1> QED
  BY <1>2, <1>3

-----------------------------------------------------------------------------
(* Type correctness. *)

LEMMA SessionStepType ==
  ASSUME TypeOK, NEW s \in Sessions, Shape(s), SessionStep(s)
  PROVE  TypeOK'
<1> DEFINE t == tx[s]
<1>t. t \in Transactions
  BY DEF TypeOK
<1>1. CASE LockOpenLead(s)
  <2>1. tx' \in [Sessions -> Transactions]
    <3>1. Selecting(t) \in Transactions
      BY <1>t, SelectingType
    <3>2. [t EXCEPT !.pc = "account", !.price = CurrentPrice(t.lead)] \in Transactions
      BY <1>t, HalfPriceIsNat DEF Transactions
    <3> QED
      BY <1>1, <3>1, <3>2 DEF LockOpenLead, TypeOK
  <2> QED
    BY <1>1, <2>1 DEF LockOpenLead, TypeOK, market, history
<1>2. CASE LeadGone(s)
  BY <1>2, EndType DEF LeadGone, TypeOK, market, history
<1>3. ASSUME NEW o \in Orders, LockCandidate(s, o) PROVE TypeOK'
  <2>1. ASSUME NEW C \in SUBSET Orders
        PROVE  [t EXCEPT !.scan = @ \ {o}, !.cand = C] \in Transactions
    BY <1>t DEF Transactions
  <2>2. t.cand \in SUBSET Orders /\ t.cand \cup {o} \in SUBSET Orders
    BY <1>t DEF Transactions
  <2>3. PICK C \in SUBSET Orders : tx' = [tx EXCEPT ![s] = [t EXCEPT !.scan = @ \ {o}, !.cand = C]]
    BY <1>3, <2>2 DEF LockCandidate
  <2>4. tx' \in [Sessions -> Transactions]
    <3>1. [t EXCEPT !.scan = @ \ {o}, !.cand = C] \in Transactions
      BY <2>1
    <3> QED
      BY <2>3, <3>1 DEF TypeOK
  <2> QED
    BY <1>3, <2>4 DEF LockCandidate, TypeOK, market, history
<1>4. ASSUME NEW o \in Orders, TryCandidate(s, o) PROVE TypeOK'
  <2>1. OwnerOf[o] \in Users /\ order[o].price \in Nat
    BY MarketAssumption DEF TypeOK
  <2>3. [t EXCEPT !.pc = "account", !.cand = @ \ {o}, !.order = o, !.user = OwnerOf[o], !.price = order[o].price]
          \in Transactions
    BY <1>t, <2>1 DEF Transactions
  <2>2. tx' \in [Sessions -> Transactions]
    BY <1>4, <2>3 DEF TryCandidate, TypeOK
  <2> QED
    BY <1>4, <2>2 DEF TryCandidate, TypeOK, market, locks, history
<1>5. ASSUME NEW o \in Orders, PassOver(s, o) PROVE TypeOK'
  <2>1. ASSUME NEW P \in SUBSET Orders
        PROVE  [t EXCEPT !.cand = @ \ {o}, !.pause = P] \in Transactions
    BY <1>t DEF Transactions
  <2>2. t.pause \in SUBSET Orders /\ t.pause \cup {o} \in SUBSET Orders
    BY <1>t DEF Transactions
  <2>3. tx' = [tx EXCEPT ![s] = [t EXCEPT !.cand = @ \ {o}, !.pause = t.pause]]
        \/ tx' = [tx EXCEPT ![s] = [t EXCEPT !.cand = @ \ {o}, !.pause = t.pause \cup {o}]]
    BY <1>5 DEF PassOver
  <2>4. tx' \in [Sessions -> Transactions]
    <3>1. CASE tx' = [tx EXCEPT ![s] = [t EXCEPT !.cand = @ \ {o}, !.pause = t.pause]]
      <4>1. [t EXCEPT !.cand = @ \ {o}, !.pause = t.pause] \in Transactions
        BY <2>1, <2>2
      <4> QED
        BY <3>1, <4>1 DEF TypeOK
    <3>2. CASE tx' = [tx EXCEPT ![s] = [t EXCEPT !.cand = @ \ {o}, !.pause = t.pause \cup {o}]]
      <4>1. [t EXCEPT !.cand = @ \ {o}, !.pause = t.pause \cup {o}] \in Transactions
        BY <2>1, <2>2
      <4> QED
        BY <3>2, <4>1 DEF TypeOK
    <3> QED
      BY <2>3, <3>1, <3>2
  <2> QED
    BY <1>5, <2>4 DEF PassOver, TypeOK, market, locks, history
<1>6. CASE LockAccount(s)
  <2>1. tx' \in [Sessions -> Transactions]
    BY <1>6, <1>t DEF LockAccount, TypeOK, Transactions
  <2> QED
    BY <1>6, <2>1 DEF LockAccount, TypeOK, market, history
<1>7. CASE Debit(s)
  <2>1. tx' \in [Sessions -> Transactions]
    BY <1>7, <1>t DEF Debit, TypeOK, Transactions
  <2> QED
    BY <1>7, <2>1 DEF Debit, TypeOK, market, locks, history
<1>8. CASE BuyInsufficient(s)
  BY <1>8, EndType DEF BuyInsufficient, TypeOK, market, history
<1>9. CASE PauseForCredit(s)
  <2>1. tx' \in [Sessions -> Transactions]
    <3>1. t.order \in Orders
      BY <1>9 DEF PauseForCredit, Shape
    <3> QED
      BY <1>9, <1>t, <3>1 DEF PauseForCredit, TypeOK, Transactions
  <2> QED
    BY <1>9, <2>1 DEF PauseForCredit, TypeOK, market, locks, history
<1>10. CASE CommitBuy(s)
  BY <1>10, EndType, RecordSaleType DEF CommitBuy, TypeOK, history
<1>11. CASE CommitAllocated(s)
  BY <1>11, EndType, RecordSaleType, SettleOrdersType DEF CommitAllocated, TypeOK, history
<1>12. CASE CommitUnsold(s)
  <2>1. OpenRow \in [status : LeadStatus, age : Ages, purged : BOOLEAN]
    BY DEF OpenRow
  <2> QED
    BY <1>12, <2>1, EndType, SettleOrdersType DEF CommitUnsold, TypeOK, history
<1>13. CASE CommitRefund(s)
  <2>1. balance' \in [Users -> Int]
    <3>1. CASE t.user \in Users
      BY <1>13, <1>t, <3>1 DEF CommitRefund, TypeOK, Transactions
    <3>2. CASE t.user \notin Users
      BY <1>13, <1>t, <3>2 DEF CommitRefund, TypeOK, Transactions
    <3> QED
      BY <3>1, <3>2
  <2>2. refundRows' \in SUBSET Leads
    BY <1>13 DEF CommitRefund, TypeOK, Shape
  <2> QED
    BY <1>13, <2>1, <2>2, EndType DEF CommitRefund, TypeOK, history
<1> QED
  BY <1>1, <1>2, <1>3, <1>4, <1>5, <1>6, <1>7, <1>8, <1>9, <1>10, <1>11, <1>12, <1>13 DEF SessionStep

LEMMA RequestType ==
  ASSUME TypeOK, NEW s \in Sessions, Request(s)
  PROVE  TypeOK'
<1>1. PICK l \in Leads : \/ CreateLead(s, l) \/ RetryLead(s, l) \/ ApproveRefund(s, l)
                         \/ \E u \in Users : BuyLead(s, u, l)
  BY DEF Request
<1>2. CASE CreateLead(s, l)
  <2>1. [Idle EXCEPT !.op = "allocate", !.lead = l, !.creates = TRUE] \in Transactions
    BY DEF Idle, Transactions
  <2>2. Selecting([Idle EXCEPT !.op = "allocate", !.lead = l, !.creates = TRUE]) \in Transactions
    BY <2>1, SelectingType
  <2>3. tx' \in [Sessions -> Transactions]
    BY <1>2, <2>2 DEF CreateLead, Begin, TypeOK
  <2> QED
    BY <1>2, <2>3 DEF CreateLead, TypeOK, market, history
<1>3. CASE RetryLead(s, l)
  <2>1. [Idle EXCEPT !.op = "allocate", !.pc = "lead", !.lead = l] \in Transactions
    BY DEF Idle, Transactions
  <2>2. tx' \in [Sessions -> Transactions]
    BY <1>3, <2>1 DEF RetryLead, Begin, TypeOK
  <2> QED
    BY <1>3, <2>2 DEF RetryLead, TypeOK, market, locks, history
<1>4. CASE ApproveRefund(s, l)
  <2>1. purchase[l].buyer \in Users \cup {"none"} /\ purchase[l].price \in Nat
    BY DEF TypeOK
  <2>2. [Idle EXCEPT !.op = "refund", !.pc = "account", !.lead = l,
                     !.user = purchase[l].buyer, !.price = purchase[l].price] \in Transactions
    BY <2>1 DEF Idle, Transactions
  <2>3. tx' \in [Sessions -> Transactions]
    BY <1>4, <2>2 DEF ApproveRefund, Begin, TypeOK
  <2> QED
    BY <1>4, <2>3 DEF ApproveRefund, TypeOK, market, history
<1>5. ASSUME NEW u \in Users, BuyLead(s, u, l) PROVE TypeOK'
  <2>1. [Idle EXCEPT !.op = "buy", !.pc = "lead", !.lead = l, !.user = u] \in Transactions
    BY DEF Idle, Transactions
  <2>2. tx' \in [Sessions -> Transactions]
    BY <1>5, <2>1 DEF BuyLead, Begin, TypeOK
  <2> QED
    BY <1>5, <2>2 DEF BuyLead, TypeOK, market, locks, history
<1> QED
  BY <1>1, <1>2, <1>3, <1>4, <1>5

(* HookFails and Crash, alone or breaking a deadlock. *)
LEMMA FailureIs ==
  ASSUME NEW s, Failure(s)
  PROVE  HookFails(s) \/ Crash(s)
  BY DEF Failure, DeadlockVictim

LEMMA FailureType ==
  ASSUME TypeOK, NEW s \in Sessions, Failure(s)
  PROVE  TypeOK'
<1>1. CASE HookFails(s)
  <2>1. OpenRow \in [status : LeadStatus, age : Ages, purged : BOOLEAN]
    BY DEF OpenRow
  <2> QED
    BY <1>1, <2>1, EndType DEF HookFails, TypeOK, history
<1>2. CASE Crash(s)
  BY <1>2, EndType DEF Crash, TypeOK, market, history
<1> QED
  BY <1>1, <1>2, FailureIs

LEMMA WriteOrderType ==
  ASSUME TypeOK, NEW o \in Orders,
         NEW row \in [status : OrderStatus, price : Nat, covers : SUBSET Leads, won : Nat],
         WriteOrder(o, row), activations' \in [Orders -> Nat], touches' \in Nat
  PROVE  TypeOK'
<1> DEFINE Row == [status : OrderStatus, price : Nat, covers : SUBSET Leads, won : Nat]
<1>1. order' \in [Orders -> Row]
  BY DEF WriteOrder, TypeOK
<1> QED
  BY <1>1 DEF WriteOrder, TypeOK, locks

LEMMA OwnerStepType ==
  ASSUME TypeOK, OwnerStep
  PROVE  TypeOK'
<1> DEFINE Row == [status : OrderStatus, price : Nat, covers : SUBSET Leads, won : Nat]
<1>1. PICK o \in Orders :
        \/ \E p \in Prices, C \in Coverages : CreateStandingOrder(o, p, C) \/ UpdateStandingOrder(o, p, C)
        \/ ResumeStandingOrder(o) \/ PauseStandingOrder(o) \/ DeleteStandingOrder(o)
  BY DEF OwnerStep
<1>2. order[o] \in Row
  BY DEF TypeOK
<1>4. ASSUME NEW p \in Prices, NEW C \in Coverages, CreateStandingOrder(o, p, C) PROVE TypeOK'
  <2>1. [status |-> "active", price |-> p, covers |-> C, won |-> 0] \in Row
    BY MarketAssumption
  <2>2. activations' \in [Orders -> Nat]
    BY <1>4 DEF CreateStandingOrder, TypeOK
  <2> QED
    BY <1>4, <2>1, <2>2, WriteOrderType DEF CreateStandingOrder, TypeOK
<1>5. ASSUME NEW p \in Prices, NEW C \in Coverages, UpdateStandingOrder(o, p, C) PROVE TypeOK'
  <2>1. [order[o] EXCEPT !.price = p, !.covers = C] \in Row
    BY <1>2, MarketAssumption
  <2>3. activations' \in [Orders -> Nat] /\ touches' \in Nat
    BY <1>5 DEF UpdateStandingOrder, Touch, TypeOK
  <2> QED
    BY <1>5, <2>1, <2>3, WriteOrderType DEF UpdateStandingOrder
<1>6. ASSUME NEW st \in {"active", "user", "deleted"}, WriteOrder(o, [order[o] EXCEPT !.status = st]),
             activations' \in [Orders -> Nat], touches' \in Nat
      PROVE  TypeOK'
  <2>1. [order[o] EXCEPT !.status = st] \in Row
    BY <1>2
  <2> QED
    BY <1>6, <2>1, WriteOrderType
<1>7. CASE ResumeStandingOrder(o)
  BY <1>6, <1>7 DEF ResumeStandingOrder, Touch, TypeOK
<1>8. CASE PauseStandingOrder(o)
  BY <1>6, <1>8 DEF PauseStandingOrder, Touch, TypeOK
<1>9. CASE DeleteStandingOrder(o)
  BY <1>6, <1>9 DEF DeleteStandingOrder, Touch, TypeOK
<1> QED
  BY <1>1, <1>4, <1>5, <1>7, <1>8, <1>9

LEMMA LeadStepType ==
  ASSUME TypeOK, LeadStep
  PROVE  TypeOK'
<1> DEFINE Row == [status : LeadStatus, age : Ages, purged : BOOLEAN]
<1>r. ASSUME NEW l \in Leads PROVE lead[l] \in Row
  BY DEF TypeOK
<1>1. CASE SweepLeads
  <2>1. ASSUME NEW l \in Leads PROVE lead'[l] \in Row
    <3>1. lead'[l] \in {lead[l], [lead[l] EXCEPT !.status = "removed"],
                        [lead[l] EXCEPT !.status = "expired"], [lead[l] EXCEPT !.purged = TRUE]}
      BY <1>1 DEF SweepLeads
    <3> QED
      BY <3>1, <1>r
  <2>2. lead' \in [Leads -> Row]
    BY <1>1, <2>1 DEF SweepLeads
  <2> QED
    BY <1>1, <2>2 DEF SweepLeads, TypeOK, locks, history
<1>2. ASSUME NEW l \in Leads, Grow(l) PROVE TypeOK'
  <2>1. [lead[l] EXCEPT !.age = @ + 1] \in Row
    BY <1>2, <1>r DEF Grow
  <2>2. lead' \in [Leads -> Row]
    BY <1>2, <2>1 DEF Grow, TypeOK
  <2> QED
    BY <1>2, <2>2 DEF Grow, TypeOK, locks, history
<1>3. ASSUME NEW l \in Leads, AdminDeleteLead(l) PROVE TypeOK'
  <2>1. [lead[l] EXCEPT !.status = "deleted"] \in Row
    BY <1>r
  <2>2. lead' \in [Leads -> Row]
    BY <1>3, <2>1 DEF AdminDeleteLead, TypeOK
  <2> QED
    BY <1>3, <2>2 DEF AdminDeleteLead, TypeOK, locks, history
<1>4. ASSUME NEW l \in Leads, RejectRefund(l) PROVE TypeOK'
  BY <1>4 DEF RejectRefund, TypeOK, locks, history
<1>5. ASSUME NEW l \in Leads, NEW u \in Users, RequestRefund(u, l) PROVE TypeOK'
  BY <1>5 DEF RequestRefund, TypeOK, locks, history
<1> QED
  BY <1>1, <1>2, <1>3, <1>4, <1>5 DEF LeadStep

LEMMA AccountStepType ==
  ASSUME TypeOK, AccountStep
  PROVE  TypeOK'
<1>1. ASSUME NEW u \in Users, Moderate(u) PROVE TypeOK'
  BY <1>1 DEF Moderate, Touch, TypeOK, locks
<1>2. ASSUME NEW u \in Users, NEW c \in Int, Fund(u, c) PROVE TypeOK'
  BY <1>2 DEF Fund, TypeOK, locks
<1> QED
  BY <1>1, <1>2, MarketAssumption DEF AccountStep, TopUp, AdminAdjust

-----------------------------------------------------------------------------
(* The inductive invariant. *)
Held(s) == Shape(s) /\ LeadHeld(s) /\ FundsHeld(s) /\ RefundHeld(s) /\ OrdersHeld(s)

Books == OrdersPriced /\ SalesRecorded /\ SoldIffPurchased /\ BalanceNeverNegative

(* A step that is not r's leaves r its record and its locks...             *)
Keeps(r) ==
  /\ tx'[r] = tx[r]
  /\ \A l \in Leads : leadLock[l] = r => leadLock'[l] = r
  /\ \A o \in Orders : orderLock[o] = r => orderLock'[o] = r
  /\ \A u \in Users : accountLock[u] = r => accountLock'[u] = r
  /\ \A l \in Leads : refundLock[l] = r => refundLock'[l] = r

(* ...the rows r has locked as they are, and what is in its accounts.      *)
Respects(r) ==
  /\ Keeps(r)
  /\ \A l \in Leads : leadLock[l] = r => lead'[l].status = lead[l].status
  /\ \A u \in Users : accountLock[u] = r => balance'[u] >= balance[u]
  /\ \A o \in Orders : orderLock[o] = r => order'[o] = order[o]
  /\ \A l \in Leads : refundLock[l] = r /\ refund[l] = "pending" => refund'[l] = "pending"
  /\ \A l \in Leads : purchase[l] # NoPurchase => purchase'[l] = purchase[l]
  /\ \A o \in Orders : order[o].status # "absent" => order'[o].status # "absent"

LEMMA SalePricesPositive ==
  ASSUME NEW p \in SalePrices
  PROVE  p \in Nat /\ p > 0
<1>1. (LeadPrice + 1) \div 2 \in Nat /\ (LeadPrice + 1) \div 2 > 0 /\ LeadPrice \in Nat \ {0}
  BY MarketAssumption
<1>2. \A q \in Prices : q \in Nat \ {0}
  BY MarketAssumption
<1> QED
  BY <1>1, <1>2 DEF SalePrices

LEMMA Frame ==
  ASSUME TypeOK, TypeOK', NEW r \in Sessions, Held(r), Respects(r)
  PROVE  Held(r)'
<1> DEFINE t == tx[r]
<1>t. t \in Transactions /\ tx'[r] = t
  BY DEF TypeOK, Respects, Keeps
<1>0. /\ t.op # "none" => t.lead \in Leads
      /\ t.op = "allocate" /\ (t.pc \in {"account", "balance"} \/ t.sold) => t.order \in Orders
      /\ t.pc \in {"account", "balance", "commit"} \/ t.sold => t.user \in Users
      /\ t.scan \subseteq Orders /\ t.cand \subseteq Orders /\ t.pause \subseteq Orders
  BY <1>t DEF Held, Shape, Transactions
<1>1. Shape(r)'
  BY <1>t, <1>0 DEF Held, Shape, Respects, Keeps
<1>2. LeadHeld(r)'
  BY <1>t, <1>0 DEF Held, LeadHeld, Respects, Keeps
<1>3. FundsHeld(r)'
  <2>1. t.sold => balance[t.user] \in Int /\ balance'[t.user] \in Int /\ t.price \in Nat
    BY <1>t, <1>0 DEF TypeOK, Transactions
  <2> QED
    BY <1>t, <1>0, <2>1 DEF Held, FundsHeld, Respects, Keeps, Shape
<1>4. RefundHeld(r)'
  <2> SUFFICES ASSUME t.op = "refund" PROVE RefundHeld(r)'
    BY <1>t DEF RefundHeld
  <2>1. t.pc \in {"account", "commit"}
    BY <1>t DEF Held, Shape, Transactions
  <2>2. t.user \in Users /\ t.user # "none"
    BY <1>0, <2>1, MarketAssumption
  <2>3. purchase[t.lead] # NoPurchase
    BY <2>2 DEF Held, RefundHeld, NoPurchase
  <2> QED
    BY <1>t, <1>0, <2>3 DEF Held, RefundHeld, Respects, Keeps
<1>5. OrdersHeld(r)'
  BY <1>t, <1>0 DEF Held, OrdersHeld, Respects, Keeps, Covers
<1> QED
  BY <1>1, <1>2, <1>3, <1>4, <1>5 DEF Held

(* A session that ends holds nothing and owes nothing. *)
LEMMA EndHeld ==
  ASSUME TypeOK, NEW s \in Sessions, End(s)
  PROVE  Held(s)' /\ \A r \in Sessions \ {s} : Keeps(r)
<1>1. tx'[s] = Idle
  BY DEF End, TypeOK
<1>2. Held(s)'
  BY <1>1 DEF Held, Shape, LeadHeld, FundsHeld, RefundHeld, OrdersHeld, Idle
<1>3. ASSUME NEW r \in Sessions \ {s} PROVE Keeps(r)
  BY DEF End, TypeOK, Freed, Keeps
<1> QED
  BY <1>2, <1>3

(* A step of s that writes no row keeps the invariant if s's own part of   *)
(* it holds after the step and the others keep their locks.                *)
LEMMA QuietStep ==
  ASSUME IInv, TypeOK', NEW s \in Sessions, UNCHANGED market,
         Held(s)', \A r \in Sessions \ {s} : Keeps(r)
  PROVE  IInv'
<1>1. Books'
  BY DEF IInv, Books, market, OrdersPriced, SalesRecorded, SoldIffPurchased, BalanceNeverNegative
<1>2. ASSUME NEW r \in Sessions \ {s} PROVE Held(r)'
  <2>1. \A u \in Users : balance[u] \in Int /\ balance'[u] = balance[u]
    BY DEF IInv, TypeOK, market
  <2>2. Respects(r)
    BY <2>1 DEF Respects, market
  <2> QED
    BY <2>2, Frame DEF IInv, Held
<1> QED
  BY <1>1, <1>2 DEF IInv, Books, Held

-----------------------------------------------------------------------------
(* Steps that write no row. *)

LEMMA LockOpenLeadStep ==
  ASSUME IInv, TypeOK', NEW s \in Sessions, LockOpenLead(s)
  PROVE  IInv'
<1> DEFINE t == tx[s]
<1>1. TypeOK /\ Held(s) /\ t \in Transactions /\ t.pc = "lead" /\ t.lead \in Leads
  BY DEF IInv, Held, TypeOK, LockOpenLead, Shape
<1>2. t.op \in {"buy", "allocate"} /\ ~t.sold /\ ~t.creates /\ t.cand \subseteq Orders /\ t.pause \subseteq Orders
  BY <1>1 DEF Held, Shape, Transactions
<1>3. leadLock'[t.lead] = s /\ lead[t.lead].status = "open" /\ UNCHANGED market /\ UNCHANGED orderLock
  BY <1>1 DEF LockOpenLead, OpenLead, TypeOK
<1>4. Held(s)'
  <2>1. CASE t.op = "buy"
    <3>1. tx'[s] = [t EXCEPT !.pc = "account", !.price = CurrentPrice(t.lead)]
      BY <2>1, <1>1 DEF LockOpenLead, TypeOK
    <3>2. CurrentPrice(t.lead) \in SalePrices
      BY DEF CurrentPrice, SalePrices
    <3>3. Shape(s)'
      BY <1>1, <1>2, <2>1, <3>1, <3>2 DEF Held, Shape, Transactions, LockOpenLead, market
    <3>4. LeadHeld(s)' /\ FundsHeld(s)' /\ RefundHeld(s)'
      BY <1>1, <1>2, <1>3, <2>1, <3>1 DEF LeadHeld, FundsHeld, RefundHeld, Transactions, market
    <3>5. OrdersHeld(s)'
      BY <1>1, <1>2, <1>3, <2>1, <3>1 DEF Held, OrdersHeld, Transactions, market, Covers
    <3> QED
      BY <3>3, <3>4, <3>5 DEF Held
  <2>2. CASE t.op = "allocate"
    <3>1. tx'[s] = Selecting(t)
      BY <2>2, <1>1 DEF LockOpenLead, TypeOK
    <3>2. Shape(s)'
      BY <1>1, <1>2, <2>2, <3>1 DEF Held, Shape, Transactions, LockOpenLead, market, Selecting, Candidates, Covers
    <3>3. LeadHeld(s)' /\ FundsHeld(s)' /\ RefundHeld(s)'
      BY <1>1, <1>2, <1>3, <2>2, <3>1 DEF LeadHeld, FundsHeld, RefundHeld, Transactions, market, Selecting
    <3>4. OrdersHeld(s)'
      BY <1>1, <1>2, <1>3, <2>2, <3>1 DEF Held, OrdersHeld, Transactions, market, Covers, Selecting
    <3> QED
      BY <3>2, <3>3, <3>4 DEF Held
  <2> QED
    BY <1>2, <2>1, <2>2
<1>5. ASSUME NEW r \in Sessions \ {s} PROVE Keeps(r)
  BY <1>1, MarketAssumption DEF Keeps, LockOpenLead, TypeOK
<1> QED
  BY <1>3, <1>4, <1>5, QuietStep

LEMMA LockCandidateStep ==
  ASSUME IInv, TypeOK', NEW s \in Sessions, NEW o \in Orders, LockCandidate(s, o)
  PROVE  IInv'
<1> DEFINE t == tx[s]
           C == IF Covers(o, t.lead) THEN t.cand \cup {o} ELSE t.cand
<1>1. TypeOK /\ Held(s) /\ t \in Transactions /\ t.pc = "scan" /\ UNCHANGED market
  BY DEF IInv, Held, TypeOK, LockCandidate
<1>2. tx'[s] = [t EXCEPT !.scan = @ \ {o}, !.cand = C]
  BY <1>1 DEF LockCandidate, TypeOK
<1>3. orderLock'[o] = s /\ \A q \in Orders : orderLock[q] = s => orderLock'[q] = s
  BY <1>1 DEF LockCandidate, TypeOK
<1>4. Shape(s)'
  BY <1>1, <1>2 DEF Held, Shape, Transactions, market
<1>5. LeadHeld(s)' /\ FundsHeld(s)' /\ RefundHeld(s)'
  <2>1. UNCHANGED <<leadLock, accountLock, refundLock>> /\ t.op = "allocate"
    BY <1>1 DEF LockCandidate, Held, Shape
  <2>2. LeadHeld(s)'
    BY <1>1, <1>2, <2>1 DEF Held, LeadHeld, Transactions, market
  <2>3. FundsHeld(s)'
    BY <1>1, <1>2, <2>1 DEF Held, FundsHeld, Transactions, market
  <2>4. RefundHeld(s)'
    BY <1>1, <1>2, <2>1 DEF RefundHeld, Transactions
  <2> QED
    BY <2>2, <2>3, <2>4
<1>6. OrdersHeld(s)'
  <2>1. t.op = "allocate" /\ (t.sold => t.order \in Orders) /\ t.cand \subseteq Orders /\ t.pause \subseteq Orders
    BY <1>1 DEF Held, Shape, Transactions
  <2>2. \A q \in C \cup t.pause : orderLock'[q] = s
    BY <1>1, <1>3, <2>1 DEF Held, OrdersHeld
  <2>3. \A q \in C : Covers(q, t.lead)
    BY <1>1 DEF Held, OrdersHeld
  <2> QED
    BY <1>1, <1>2, <1>3, <2>1, <2>2, <2>3 DEF Held, OrdersHeld, market, Transactions, Covers
<1>7. ASSUME NEW r \in Sessions \ {s} PROVE Keeps(r)
  BY <1>1, MarketAssumption DEF Keeps, LockCandidate, TypeOK
<1>8. Held(s)'
  BY <1>4, <1>5, <1>6 DEF Held
<1> QED
  BY <1>1, <1>7, <1>8, QuietStep

LEMMA TryCandidateStep ==
  ASSUME IInv, TypeOK', NEW s \in Sessions, NEW o \in Orders, TryCandidate(s, o)
  PROVE  IInv'
<1> DEFINE t == tx[s]
<1>1. /\ TypeOK /\ Held(s) /\ t \in Transactions /\ UNCHANGED <<market, locks>>
      /\ t.pc = "scan" /\ ~t.sold /\ o \in t.cand
  BY DEF IInv, Held, TypeOK, TryCandidate, Looping, First
<1>2. tx'[s] = [t EXCEPT !.pc = "account", !.cand = @ \ {o}, !.order = o,
                         !.user = OwnerOf[o], !.price = order[o].price]
  BY <1>1 DEF TryCandidate, TypeOK
<1>3. OwnerOf[o] \in Users /\ order[o].price \in SalePrices /\ Covers(o, t.lead) /\ orderLock[o] = s /\ t.op = "allocate"
  <2>1. Covers(o, t.lead) /\ orderLock[o] = s /\ t.op = "allocate"
    BY <1>1 DEF Held, OrdersHeld, Shape
  <2>2. order[o].price \in SalePrices
    BY <2>1 DEF IInv, OrdersPriced, Covers, SalePrices
  <2>3. OwnerOf[o] \in Users
    BY MarketAssumption
  <2> QED
    BY <2>1, <2>2, <2>3
<1>4. Shape(s)'
  BY <1>1, <1>2, <1>3 DEF Held, Shape, Transactions, market
<1>5. LeadHeld(s)' /\ FundsHeld(s)' /\ RefundHeld(s)'
  BY <1>1, <1>2, <1>3 DEF Held, LeadHeld, FundsHeld, RefundHeld, Transactions, market, locks
<1>6. OrdersHeld(s)'
  BY <1>1, <1>2, <1>3 DEF Held, OrdersHeld, Transactions, market, locks, Covers
<1>7. ASSUME NEW r \in Sessions \ {s} PROVE Keeps(r)
  BY <1>1 DEF Keeps, TryCandidate, TypeOK, locks
<1>8. Held(s)'
  BY <1>4, <1>5, <1>6 DEF Held
<1> QED
  BY <1>1, <1>7, <1>8, QuietStep

(* PauseForCredit and PassOver add to the orders to pause one it holds.    *)
LEMMA PassOverStep ==
  ASSUME IInv, TypeOK', NEW s \in Sessions, NEW o \in Orders, PassOver(s, o)
  PROVE  IInv'
<1> DEFINE t == tx[s]
           P == IF SeenBalance(s, OwnerOf[o]) >= order[o].price THEN t.pause ELSE t.pause \cup {o}
<1>1. /\ TypeOK /\ Held(s) /\ t \in Transactions /\ UNCHANGED <<market, locks>>
      /\ t.pc = "scan" /\ t.sold /\ o \in t.cand
  BY DEF IInv, Held, TypeOK, PassOver, Looping, First
<1>2. tx'[s] = [t EXCEPT !.cand = @ \ {o}, !.pause = P]
  BY <1>1 DEF PassOver, TypeOK
<1>3. Shape(s)'
  BY <1>1, <1>2 DEF Held, Shape, Transactions, market
<1>4. LeadHeld(s)' /\ FundsHeld(s)' /\ RefundHeld(s)'
  BY <1>1, <1>2 DEF Held, LeadHeld, FundsHeld, RefundHeld, Transactions, market, locks
<1>5. OrdersHeld(s)'
  <2>1. \A q \in P : orderLock[q] = s
    BY <1>1 DEF Held, OrdersHeld
  <2> QED
    BY <1>1, <1>2, <2>1 DEF Held, OrdersHeld, Transactions, market, locks, Covers
<1>6. ASSUME NEW r \in Sessions \ {s} PROVE Keeps(r)
  BY <1>1 DEF Keeps, PassOver, TypeOK, locks
<1>7. Held(s)'
  BY <1>3, <1>4, <1>5 DEF Held
<1> QED
  BY <1>1, <1>6, <1>7, QuietStep

LEMMA PauseForCreditStep ==
  ASSUME IInv, TypeOK', NEW s \in Sessions, PauseForCredit(s)
  PROVE  IInv'
<1> DEFINE t == tx[s]
<1>1. /\ TypeOK /\ Held(s) /\ t \in Transactions /\ UNCHANGED <<market, locks>>
      /\ t.pc = "balance" /\ t.op = "allocate" /\ ~t.sold
  BY DEF IInv, Held, TypeOK, PauseForCredit, Shape
<1>2. tx'[s] = [t EXCEPT !.pc = "scan", !.pause = @ \cup {t.order}]
  BY <1>1 DEF PauseForCredit, TypeOK
<1>3. Shape(s)'
  BY <1>1, <1>2 DEF Held, Shape, Transactions, market
<1>4. LeadHeld(s)' /\ FundsHeld(s)' /\ RefundHeld(s)'
  BY <1>1, <1>2 DEF Held, LeadHeld, FundsHeld, RefundHeld, Transactions, market, locks
<1>5. OrdersHeld(s)'
  BY <1>1, <1>2 DEF Held, OrdersHeld, Transactions, market, locks, Covers
<1>6. ASSUME NEW r \in Sessions \ {s} PROVE Keeps(r)
  BY <1>1 DEF Keeps, PauseForCredit, TypeOK, locks
<1>7. Held(s)'
  BY <1>3, <1>4, <1>5 DEF Held
<1> QED
  BY <1>1, <1>6, <1>7, QuietStep

LEMMA LockAccountStep ==
  ASSUME IInv, TypeOK', NEW s \in Sessions, LockAccount(s)
  PROVE  IInv'
<1> DEFINE t == tx[s]
<1>1. /\ TypeOK /\ Held(s) /\ t \in Transactions /\ UNCHANGED <<market, leadLock, orderLock, refundLock>>
      /\ t.pc = "account" /\ ~t.sold /\ t.user \in Users /\ accountLock[t.user] \in {NoSession, s}
  BY DEF IInv, Held, TypeOK, LockAccount, Shape
<1>2. tx'[s] = [t EXCEPT !.pc = IF t.op = "refund" THEN "commit" ELSE "balance"]
  BY <1>1 DEF LockAccount, TypeOK
<1>3. accountLock'[t.user] = s
  BY <1>1 DEF LockAccount, TypeOK
<1>4. Shape(s)'
  BY <1>1, <1>2 DEF Held, Shape, Transactions, market
<1>5. LeadHeld(s)' /\ FundsHeld(s)' /\ RefundHeld(s)'
  BY <1>1, <1>2, <1>3 DEF Held, LeadHeld, FundsHeld, RefundHeld, Transactions, market
<1>6. OrdersHeld(s)'
  BY <1>1, <1>2 DEF Held, OrdersHeld, Transactions, market, Covers
<1>7. ASSUME NEW r \in Sessions \ {s} PROVE Keeps(r)
  BY <1>1, MarketAssumption DEF Keeps, LockAccount, TypeOK
<1>8. Held(s)'
  BY <1>4, <1>5, <1>6 DEF Held
<1> QED
  BY <1>1, <1>7, <1>8, QuietStep

LEMMA DebitStep ==
  ASSUME IInv, TypeOK', NEW s \in Sessions, Debit(s)
  PROVE  IInv'
<1> DEFINE t == tx[s]
<1>1. /\ TypeOK /\ Held(s) /\ t \in Transactions /\ UNCHANGED <<market, locks>>
      /\ t.pc = "balance" /\ balance[t.user] >= t.price
  BY DEF IInv, Held, TypeOK, Debit, CanPay
<1>2. t.op \in {"buy", "allocate"}
  BY <1>1 DEF Held, Shape, Transactions
<1>3. tx'[s] = [t EXCEPT !.sold = TRUE, !.pc = IF t.op = "buy" THEN "commit" ELSE "scan"]
  BY <1>1 DEF Debit, TypeOK
<1>4. Shape(s)'
  BY <1>1, <1>2, <1>3 DEF Held, Shape, Transactions, market
<1>5. LeadHeld(s)' /\ FundsHeld(s)' /\ RefundHeld(s)'
  BY <1>1, <1>2, <1>3 DEF Held, LeadHeld, FundsHeld, RefundHeld, Transactions, market, locks
<1>6. OrdersHeld(s)'
  BY <1>1, <1>2, <1>3 DEF Held, OrdersHeld, Transactions, market, locks, Covers
<1>7. ASSUME NEW r \in Sessions \ {s} PROVE Keeps(r)
  BY <1>1 DEF Keeps, Debit, TypeOK, locks
<1>8. Held(s)'
  BY <1>4, <1>5, <1>6 DEF Held
<1> QED
  BY <1>1, <1>7, <1>8, QuietStep

(* A transaction that ends having written nothing.                         *)
LEMMA EmptyEndStep ==
  ASSUME IInv, TypeOK', NEW s \in Sessions, End(s), UNCHANGED market
  PROVE  IInv'
  BY EndHeld, QuietStep DEF IInv

LEMMA RequestStep ==
  ASSUME IInv, TypeOK', NEW s \in Sessions, Request(s)
  PROVE  IInv'
<1> DEFINE t == tx[s]
<1>1. PICK l \in Leads : \/ CreateLead(s, l) \/ RetryLead(s, l) \/ ApproveRefund(s, l)
                         \/ \E u \in Users : BuyLead(s, u, l)
  BY DEF Request
<1>2. TypeOK /\ UNCHANGED market /\ t.pc = "idle"
  BY <1>1 DEF IInv, CreateLead, RetryLead, ApproveRefund, BuyLead, Begin
<1>3. ASSUME NEW r \in Sessions \ {s} PROVE Keeps(r)
  <2>1. tx'[r] = tx[r]
    BY <1>1, <1>2 DEF CreateLead, RetryLead, ApproveRefund, BuyLead, Begin, TypeOK
  <2>2. CASE UNCHANGED locks
    BY <2>1, <2>2 DEF Keeps, locks
  <2>3. CASE CreateLead(s, l)
    BY <1>2, <2>1, <2>3, MarketAssumption DEF Keeps, CreateLead, TypeOK
  <2>4. CASE ApproveRefund(s, l)
    BY <1>2, <2>1, <2>4, MarketAssumption DEF Keeps, ApproveRefund, TypeOK
  <2> QED
    BY <1>1, <2>2, <2>3, <2>4 DEF RetryLead, BuyLead
<1>4. Held(s)'
  <2>1. CASE CreateLead(s, l)
    <3> DEFINE new == [Idle EXCEPT !.op = "allocate", !.lead = l, !.creates = TRUE]
    <3>1. tx'[s] = Selecting(new) /\ leadLock'[l] = s /\ lead[l].status = "absent"
      BY <1>2, <2>1 DEF CreateLead, Begin, TypeOK
    <3>2. Shape(s)'
      BY <3>1, <1>2 DEF Shape, Idle, Selecting, Candidates, Covers, market
    <3>3. LeadHeld(s)'
      BY <3>1, <1>2 DEF LeadHeld, Idle, Selecting, market
    <3>4. FundsHeld(s)' /\ RefundHeld(s)' /\ OrdersHeld(s)'
      BY <3>1 DEF FundsHeld, RefundHeld, OrdersHeld, Idle, Selecting
    <3> QED
      BY <3>2, <3>3, <3>4 DEF Held
  <2>2. CASE RetryLead(s, l)
    <3>1. tx'[s] = [Idle EXCEPT !.op = "allocate", !.pc = "lead", !.lead = l]
      BY <1>2, <2>2 DEF RetryLead, Begin, TypeOK
    <3> QED
      BY <3>1 DEF Held, Shape, LeadHeld, FundsHeld, RefundHeld, OrdersHeld, Idle
  <2>3. CASE ApproveRefund(s, l)
    <3>1. /\ tx'[s] = [Idle EXCEPT !.op = "refund", !.pc = "account", !.lead = l,
                                   !.user = purchase[l].buyer, !.price = purchase[l].price]
          /\ refundLock'[l] = s /\ refund[l] = "pending"
      BY <1>2, <2>3 DEF ApproveRefund, Begin, TypeOK
    <3>2. purchase[l].buyer \in Users /\ purchase[l].price \in SalePrices
      BY <3>1 DEF IInv, SalesRecorded
    <3>3. Shape(s)' /\ LeadHeld(s)' /\ FundsHeld(s)' /\ OrdersHeld(s)'
      BY <3>1, <3>2 DEF Shape, LeadHeld, FundsHeld, OrdersHeld, Idle
    <3>4. RefundHeld(s)'
      BY <3>1, <1>2 DEF RefundHeld, Idle, market
    <3> QED
      BY <3>3, <3>4 DEF Held
  <2>4. ASSUME NEW u \in Users, BuyLead(s, u, l) PROVE Held(s)'
    <3>1. tx'[s] = [Idle EXCEPT !.op = "buy", !.pc = "lead", !.lead = l, !.user = u]
      BY <1>2, <2>4 DEF BuyLead, Begin, TypeOK
    <3> QED
      BY <3>1 DEF Held, Shape, LeadHeld, FundsHeld, RefundHeld, OrdersHeld, Idle
  <2> QED
    BY <1>1, <2>1, <2>2, <2>3, <2>4
<1> QED
  BY <1>2, <1>3, <1>4, QuietStep

-----------------------------------------------------------------------------
(* Commits. *)

LEMMA CommitStep ==
  ASSUME IInv, TypeOK', NEW s \in Sessions, End(s), Books', \A r \in Sessions \ {s} : Respects(r)
  PROVE  IInv'
<1>1. Held(s)'
  BY EndHeld DEF IInv
<1>2. ASSUME NEW r \in Sessions \ {s} PROVE Held(r)'
  BY Frame DEF IInv, Held
<1> QED
  BY <1>1, <1>2 DEF IInv, Books, Held

(* What a transaction knows of its own sale when it commits it.            *)
LEMMA SaleFacts ==
  ASSUME IInv, NEW s \in Sessions, tx[s].sold
  PROVE  /\ tx[s].lead \in Leads /\ tx[s].user \in Users
         /\ tx[s].price \in Nat /\ tx[s].price > 0 /\ tx[s].price \in SalePrices
         /\ leadLock[tx[s].lead] = s /\ accountLock[tx[s].user] = s
         /\ lead[tx[s].lead].status # "sold" /\ purchase[tx[s].lead] = NoPurchase
         /\ balance[tx[s].user] >= tx[s].price
         /\ tx[s].op = "allocate" => tx[s].order \in Orders /\ orderLock[tx[s].order] = s
<1> DEFINE t == tx[s]
<1>1. TypeOK /\ Shape(s) /\ LeadHeld(s) /\ FundsHeld(s) /\ OrdersHeld(s) /\ SoldIffPurchased /\ t \in Transactions
  BY DEF IInv, TypeOK
<1>2. /\ t.lead \in Leads /\ t.user \in Users /\ t.price \in SalePrices
      /\ t.op \in {"buy", "allocate"} /\ t.pc \in {"scan", "commit"}
      /\ t.op = "allocate" => t.order \in Orders
  BY <1>1 DEF Shape
<1>3. t.price \in Nat /\ t.price > 0
  BY <1>2, SalePricesPositive
<1> QED
  BY <1>1, <1>2, <1>3 DEF LeadHeld, FundsHeld, OrdersHeld, SoldIffPurchased

LEMMA RecordSaleBooks ==
  ASSUME IInv, TypeOK', NEW s \in Sessions, tx[s].sold, RecordSale(s), UNCHANGED <<refund, refundRows>>
  PROVE  SalesRecorded' /\ SoldIffPurchased' /\ BalanceNeverNegative'
<1> DEFINE t == tx[s]
<1>1. TypeOK /\ SalesRecorded /\ SoldIffPurchased /\ BalanceNeverNegative
  BY DEF IInv
<1>2. /\ purchase'[t.lead] = [buyer |-> t.user, order |-> t.order, price |-> t.price]
      /\ lead'[t.lead].status = "sold"
      /\ \A l \in Leads \ {t.lead} : purchase'[l] = purchase[l] /\ lead'[l] = lead[l]
  BY SaleFacts, <1>1 DEF RecordSale, TypeOK
<1>3. purchase'[t.lead] # NoPurchase
  BY <1>2, SaleFacts, MarketAssumption DEF NoPurchase
<1>4. SoldIffPurchased'
  BY <1>1, <1>2, <1>3 DEF SoldIffPurchased
<1>5. SalesRecorded'
  BY <1>1, <1>2, <1>3, SaleFacts DEF SalesRecorded
<1>6. BalanceNeverNegative'
  <2>1. balance'[t.user] = balance[t.user] - t.price /\ \A u \in Users \ {t.user} : balance'[u] = balance[u]
    BY SaleFacts, <1>1 DEF RecordSale, TypeOK
  <2>2. balance[t.user] \in Int
    BY SaleFacts, <1>1 DEF TypeOK
  <2> QED
    BY <1>1, <2>1, <2>2, SaleFacts DEF BalanceNeverNegative
<1> QED
  BY <1>4, <1>5, <1>6

(* The rows of a sale are the session's own, so it respects the others.    *)
LEMMA RecordSaleRespects ==
  ASSUME IInv, NEW s \in Sessions, tx[s].sold, RecordSale(s), NEW r \in Sessions \ {s}
  PROVE  /\ \A l \in Leads : leadLock[l] = r => lead'[l].status = lead[l].status
         /\ \A u \in Users : accountLock[u] = r => balance'[u] >= balance[u]
         /\ \A l \in Leads : purchase[l] # NoPurchase => purchase'[l] = purchase[l]
<1>1. TypeOK
  BY DEF IInv
<1>2. ASSUME NEW l \in Leads, leadLock[l] = r PROVE lead'[l].status = lead[l].status
  BY <1>1, <1>2, SaleFacts DEF RecordSale, TypeOK
<1>3. ASSUME NEW u \in Users, accountLock[u] = r PROVE balance'[u] >= balance[u]
  <2>1. balance[u] \in Int /\ balance'[u] = balance[u]
    BY <1>1, <1>3, SaleFacts DEF RecordSale, TypeOK
  <2> QED
    BY <2>1
<1>4. ASSUME NEW l \in Leads, purchase[l] # NoPurchase PROVE purchase'[l] = purchase[l]
  BY <1>1, <1>4, SaleFacts DEF RecordSale, TypeOK
<1> QED
  BY <1>2, <1>3, <1>4

LEMMA SettleOrdersEffect ==
  ASSUME IInv, NEW s \in Sessions, tx[s].op = "allocate", SettleOrders(s)
  PROVE  /\ OrdersPriced'
         /\ \A r \in Sessions \ {s} :
              /\ \A o \in Orders : orderLock[o] = r => order'[o] = order[o]
              /\ \A o \in Orders : order[o].status # "absent" => order'[o].status # "absent"
<1> DEFINE t == tx[s]
<1>1. TypeOK /\ OrdersPriced /\ OrdersHeld(s) /\ t \in Transactions
  BY DEF IInv, TypeOK
<1>2. ASSUME NEW o \in Orders
      PROVE  /\ order'[o].price = order[o].price
             /\ order[o].status # "absent" => order'[o].status # "absent"
             /\ order'[o] = order[o] \/ orderLock[o] = s
             /\ order[o].status = "absent" => order'[o].status = "absent"
  <2>1. order[o] \in [status : OrderStatus, price : Nat, covers : SUBSET Leads, won : Nat]
    BY <1>1 DEF TypeOK
  <2>2. CASE o \in t.pause
    <3>1. order'[o] = [order[o] EXCEPT !.status = "no_credit"]
      BY <2>2 DEF SettleOrders
    <3>2. orderLock[o] = s /\ order[o].status # "absent"
      BY <1>1, <2>2 DEF OrdersHeld
    <3> QED
      BY <2>1, <3>1, <3>2
  <2>3. CASE o \notin t.pause /\ t.sold /\ o = t.order
    <3>1. order'[o] = [order[o] EXCEPT !.won = @ + 1]
      BY <2>3 DEF SettleOrders
    <3>2. orderLock[o] = s
      BY <1>1, <2>3 DEF OrdersHeld
    <3> QED
      BY <2>1, <3>1, <3>2
  <2>4. CASE o \notin t.pause /\ ~(t.sold /\ o = t.order)
    BY <2>4 DEF SettleOrders
  <2> QED
    BY <2>2, <2>3, <2>4
<1>3. OrdersPriced'
  BY <1>1, <1>2 DEF OrdersPriced
<1> QED
  BY <1>2, <1>3

LEMMA CommitBuyStep ==
  ASSUME IInv, TypeOK', NEW s \in Sessions, CommitBuy(s)
  PROVE  IInv'
<1>1. tx[s].sold /\ TypeOK
  BY DEF CommitBuy, IInv, Shape
<1>2. Books'
  <2>1. OrdersPriced'
    BY DEF IInv, OrdersPriced, CommitBuy
  <2> QED
    BY <1>1, <2>1, RecordSaleBooks DEF CommitBuy, Books
<1>3. ASSUME NEW r \in Sessions \ {s} PROVE Respects(r)
  BY <1>1, EndHeld, RecordSaleRespects DEF Respects, CommitBuy
<1> QED
  BY <1>2, <1>3, CommitStep DEF CommitBuy

LEMMA CommitAllocatedStep ==
  ASSUME IInv, TypeOK', NEW s \in Sessions, CommitAllocated(s)
  PROVE  IInv'
<1>1. TypeOK /\ tx[s].sold /\ tx[s].op = "allocate"
  BY DEF CommitAllocated, IInv, Shape, Looping
<1>2. Books'
  BY <1>1, RecordSaleBooks, SettleOrdersEffect DEF CommitAllocated, Books
<1>3. ASSUME NEW r \in Sessions \ {s} PROVE Respects(r)
  BY <1>1, EndHeld, RecordSaleRespects, SettleOrdersEffect DEF Respects, CommitAllocated
<1> QED
  BY <1>2, <1>3, CommitStep DEF CommitAllocated

(* CommitUnsold and HookFails commit a lead as open if they created it.    *)
LEMMA OpenRowEffect ==
  ASSUME IInv, NEW s \in Sessions, tx[s].creates, lead' = [lead EXCEPT ![tx[s].lead] = OpenRow],
         UNCHANGED <<purchase, refund, refundRows, balance>>
  PROVE  /\ SalesRecorded' /\ SoldIffPurchased' /\ BalanceNeverNegative'
         /\ \A r \in Sessions \ {s}, l \in Leads : leadLock[l] = r => lead'[l].status = lead[l].status
<1> DEFINE t == tx[s]
<1>1. TypeOK /\ SalesRecorded /\ SoldIffPurchased /\ BalanceNeverNegative
  BY DEF IInv
<1>2. /\ t.lead \in Leads /\ leadLock[t.lead] = s /\ lead[t.lead].status = "absent"
  <2>1. t.op = "allocate" /\ t.pc # "lead" /\ t.pc # "idle"
    BY DEF IInv, Shape
  <2> QED
    BY <2>1 DEF IInv, Shape, LeadHeld
<1>3. lead'[t.lead].status = "open" /\ \A l \in Leads \ {t.lead} : lead'[l] = lead[l]
  BY <1>1, <1>2 DEF TypeOK, OpenRow
<1>4. SoldIffPurchased'
  BY <1>1, <1>2, <1>3 DEF SoldIffPurchased
<1>5. SalesRecorded' /\ BalanceNeverNegative'
  BY <1>1 DEF SalesRecorded, BalanceNeverNegative
<1> QED
  BY <1>2, <1>3, <1>4, <1>5

LEMMA BooksKept ==
  ASSUME IInv, UNCHANGED <<lead, purchase, refund, refundRows, balance>>
  PROVE  SalesRecorded' /\ SoldIffPurchased' /\ BalanceNeverNegative'
  BY DEF IInv, SalesRecorded, SoldIffPurchased, BalanceNeverNegative

LEMMA BalanceKept ==
  ASSUME TypeOK, UNCHANGED balance, NEW u \in Users
  PROVE  balance'[u] >= balance[u]
  BY DEF TypeOK

LEMMA CommitUnsoldStep ==
  ASSUME IInv, TypeOK', NEW s \in Sessions, CommitUnsold(s)
  PROVE  IInv'
<1>1. TypeOK /\ tx[s].op = "allocate"
  BY DEF CommitUnsold, IInv, Shape, Looping
<1>2. Books'
  <2>1. OrdersPriced'
    BY <1>1, SettleOrdersEffect DEF CommitUnsold
  <2> QED
    BY <2>1, OpenRowEffect, BooksKept DEF CommitUnsold, Books
<1>3. ASSUME NEW r \in Sessions \ {s} PROVE Respects(r)
  <2>1. \A l \in Leads : leadLock[l] = r => lead'[l].status = lead[l].status
    BY OpenRowEffect DEF CommitUnsold
  <2> QED
    BY <1>1, <2>1, EndHeld, BalanceKept, SettleOrdersEffect DEF Respects, CommitUnsold
<1> QED
  BY <1>2, <1>3, CommitStep DEF CommitUnsold

LEMMA HookFailsStep ==
  ASSUME IInv, TypeOK', NEW s \in Sessions, HookFails(s)
  PROVE  IInv'
<1>1. Books'
  BY OpenRowEffect DEF HookFails, Books, IInv, OrdersPriced
<1>2. ASSUME NEW r \in Sessions \ {s} PROVE Respects(r)
  <2>1. \A l \in Leads : leadLock[l] = r => lead'[l].status = lead[l].status
    BY OpenRowEffect DEF HookFails
  <2> QED
    BY <2>1, EndHeld, BalanceKept DEF Respects, HookFails, IInv
<1> QED
  BY <1>1, <1>2, CommitStep DEF HookFails

LEMMA CommitRefundStep ==
  ASSUME IInv, TypeOK', NEW s \in Sessions, CommitRefund(s)
  PROVE  IInv'
<1> DEFINE t == tx[s]
<1>1. /\ TypeOK /\ SalesRecorded /\ BalanceNeverNegative
      /\ t.lead \in Leads /\ t.user \in Users /\ t.price \in Nat
      /\ refund[t.lead] = "pending" /\ refundLock[t.lead] = s
  <2>1. t \in Transactions
    BY DEF IInv, TypeOK
  <2> QED
    BY <2>1 DEF IInv, CommitRefund, Shape, RefundHeld, Transactions
<1>2. ASSUME NEW u \in Users PROVE balance[u] \in Int /\ balance'[u] >= balance[u]
  BY <1>1 DEF CommitRefund, TypeOK
<1>3. refund'[t.lead] = "approved" /\ \A l \in Leads \ {t.lead} : refund'[l] = refund[l]
  BY <1>1 DEF CommitRefund, TypeOK
<1>4. Books'
  <2>1. BalanceNeverNegative'
    <3>1. \A u \in Users : balance'[u] \in Int
      BY DEF TypeOK
    <3> QED
      BY <1>1, <1>2, <3>1 DEF BalanceNeverNegative
  <2>2. SalesRecorded'
    BY <1>1, <1>3 DEF SalesRecorded, CommitRefund
  <2>3. OrdersPriced' /\ SoldIffPurchased'
    BY DEF IInv, OrdersPriced, SoldIffPurchased, CommitRefund
  <2> QED
    BY <2>1, <2>2, <2>3 DEF Books
<1>5. ASSUME NEW r \in Sessions \ {s} PROVE Respects(r)
  BY <1>1, <1>2, <1>3, EndHeld DEF Respects, CommitRefund
<1> QED
  BY <1>4, <1>5, CommitStep DEF CommitRefund

-----------------------------------------------------------------------------
(* Steps that are no session's. *)

LEMMA OutsideStep ==
  ASSUME IInv, TypeOK', Books', \A r \in Sessions : Respects(r)
  PROVE  IInv'
<1>1. ASSUME NEW r \in Sessions PROVE Held(r)'
  BY Frame DEF IInv, Held
<1> QED
  BY <1>1 DEF IInv, Books, Held

LEMMA WriteOrderStep ==
  ASSUME IInv, TypeOK', NEW o \in Orders, NEW row, WriteOrder(o, row),
         row.price \in Prices, row.status # "absent"
  PROVE  IInv'
<1>1. TypeOK /\ order'[o] = row /\ \A q \in Orders \ {o} : order'[q] = order[q]
  BY DEF IInv, WriteOrder, TypeOK
<1>2. Books'
  <2>1. OrdersPriced'
    BY <1>1 DEF IInv, OrdersPriced
  <2> QED
    BY <2>1, BooksKept DEF Books, WriteOrder
<1>3. ASSUME NEW r \in Sessions PROVE Respects(r)
  <2>1. orderLock[o] # r
    BY MarketAssumption DEF WriteOrder
  <2> QED
    BY <1>1, <2>1, BalanceKept DEF Respects, Keeps, WriteOrder, locks
<1> QED
  BY <1>2, <1>3, OutsideStep

LEMMA OwnerStepStep ==
  ASSUME IInv, TypeOK', OwnerStep
  PROVE  IInv'
<1>1. PICK o \in Orders :
        \/ \E p \in Prices, C \in Coverages : CreateStandingOrder(o, p, C) \/ UpdateStandingOrder(o, p, C)
        \/ ResumeStandingOrder(o) \/ PauseStandingOrder(o) \/ DeleteStandingOrder(o)
  BY DEF OwnerStep
<1>2. order[o] \in [status : OrderStatus, price : Nat, covers : SUBSET Leads, won : Nat]
  BY DEF IInv, TypeOK
<1>3. order[o].status # "absent" => order[o].price \in Prices
  BY DEF IInv, OrdersPriced
<1>4. ASSUME NEW p \in Prices, NEW C \in Coverages, CreateStandingOrder(o, p, C) PROVE IInv'
  BY <1>4, WriteOrderStep DEF CreateStandingOrder
<1>5. ASSUME NEW p \in Prices, NEW C \in Coverages, UpdateStandingOrder(o, p, C) PROVE IInv'
  <2> DEFINE row == [order[o] EXCEPT !.price = p, !.covers = C]
  <2>1. row.price = p /\ row.status # "absent"
    BY <1>2, <1>5 DEF UpdateStandingOrder, Exists
  <2> QED
    BY <1>5, <2>1, WriteOrderStep DEF UpdateStandingOrder
<1>6. ASSUME NEW st \in {"active", "user", "deleted"}, order[o].status # "absent",
             WriteOrder(o, [order[o] EXCEPT !.status = st])
      PROVE  IInv'
  <2> DEFINE row == [order[o] EXCEPT !.status = st]
  <2>1. row.price \in Prices /\ row.status # "absent"
    BY <1>2, <1>3, <1>6
  <2> QED
    BY <1>6, <2>1, WriteOrderStep
<1>7. CASE ResumeStandingOrder(o)
  BY <1>6, <1>7 DEF ResumeStandingOrder
<1>8. CASE PauseStandingOrder(o)
  BY <1>6, <1>8 DEF PauseStandingOrder
<1>9. CASE DeleteStandingOrder(o)
  BY <1>6, <1>9 DEF DeleteStandingOrder, Exists
<1> QED
  BY <1>1, <1>4, <1>5, <1>7, <1>8, <1>9

(* A step that changes only the leads' rows.                               *)
LEMMA LeadRowsStep ==
  ASSUME IInv, TypeOK', UNCHANGED <<purchase, refund, refundRows, balance, order, tx, locks>>,
         \A l \in Leads : lead'[l].status = "sold" <=> lead[l].status = "sold",
         \A l \in Leads : lead'[l].status = lead[l].status \/ leadLock[l] = NoSession
  PROVE  IInv'
<1>1. Books'
  BY DEF IInv, Books, OrdersPriced, SalesRecorded, SoldIffPurchased, BalanceNeverNegative
<1>2. ASSUME NEW r \in Sessions PROVE Respects(r)
  <2>1. \A u \in Users : balance'[u] >= balance[u]
    BY BalanceKept DEF IInv
  <2> QED
    BY <2>1, MarketAssumption DEF Respects, Keeps, locks
<1> QED
  BY <1>1, <1>2, OutsideStep

(* A report opened or rejected.                                            *)
LEMMA ReportStep ==
  ASSUME IInv, TypeOK', NEW l \in Leads, UNCHANGED <<lead, purchase, refundRows, balance, order, tx, locks>>,
         \/ refund[l] = "none" /\ refund' = [refund EXCEPT ![l] = "pending"] /\ purchase[l] # NoPurchase
         \/ refund[l] = "pending" /\ refund' = [refund EXCEPT ![l] = "rejected"] /\ refundLock[l] = NoSession
  PROVE  IInv'
<1>1. refund'[l] \in {"pending", "rejected"} /\ \A k \in Leads \ {l} : refund'[k] = refund[k]
  BY DEF IInv, TypeOK
<1>2. Books'
  <2>1. SalesRecorded'
    BY <1>1 DEF IInv, SalesRecorded
  <2> QED
    BY <2>1 DEF IInv, Books, OrdersPriced, SoldIffPurchased, BalanceNeverNegative
<1>3. ASSUME NEW r \in Sessions PROVE Respects(r)
  <2>1. \A u \in Users : balance'[u] >= balance[u]
    BY BalanceKept DEF IInv
  <2>2. \A k \in Leads : refundLock[k] = r /\ refund[k] = "pending" => refund'[k] = "pending"
    BY <1>1, MarketAssumption DEF IInv, TypeOK
  <2> QED
    BY <2>1, <2>2 DEF Respects, Keeps, locks
<1> QED
  BY <1>2, <1>3, OutsideStep

LEMMA LeadStepStep ==
  ASSUME IInv, TypeOK', LeadStep
  PROVE  IInv'
<1>r. TypeOK /\ \A l \in Leads : lead[l] \in [status : LeadStatus, age : Ages, purged : BOOLEAN]
  BY DEF IInv, TypeOK
<1>1. CASE SweepLeads
  <2>1. ASSUME NEW l \in Leads
        PROVE  /\ lead'[l].status = "sold" <=> lead[l].status = "sold"
               /\ lead'[l].status = lead[l].status \/ leadLock[l] = NoSession
    <3>1. lead'[l] = IF Removable(l) THEN [lead[l] EXCEPT !.status = "removed"]
                     ELSE IF Expiring(l) THEN [lead[l] EXCEPT !.status = "expired"]
                     ELSE IF Purgeable(l) THEN [lead[l] EXCEPT !.purged = TRUE]
                     ELSE lead[l]
      BY <1>1 DEF SweepLeads
    <3>2. Removable(l) \/ Expiring(l) => lead[l].status # "sold" /\ leadLock[l] = NoSession
      BY <1>1 DEF SweepLeads, Removable, Expiring
    <3> QED
      BY <1>r, <3>1, <3>2
  <2> QED
    BY <1>1, <2>1, LeadRowsStep DEF SweepLeads
<1>2. ASSUME NEW l \in Leads, Grow(l) PROVE IInv'
  <2>1. \A k \in Leads : lead'[k].status = lead[k].status
    BY <1>r, <1>2 DEF Grow, TypeOK
  <2> QED
    BY <1>2, <2>1, LeadRowsStep DEF Grow
<1>3. ASSUME NEW l \in Leads, AdminDeleteLead(l) PROVE IInv'
  <2>1. lead'[l].status = "deleted" /\ \A k \in Leads \ {l} : lead'[k] = lead[k]
    BY <1>r, <1>3 DEF AdminDeleteLead, TypeOK
  <2> QED
    BY <1>3, <2>1, LeadRowsStep DEF AdminDeleteLead
<1>4. ASSUME NEW l \in Leads, RejectRefund(l) PROVE IInv'
  BY <1>4, ReportStep DEF RejectRefund
<1>5. ASSUME NEW l \in Leads, NEW u \in Users, RequestRefund(u, l) PROVE IInv'
  <2>1. purchase[l] # NoPurchase
    BY <1>5 DEF RequestRefund, IInv, SoldIffPurchased
  <2> QED
    BY <1>5, <2>1, ReportStep DEF RequestRefund
<1> QED
  BY <1>1, <1>2, <1>3, <1>4, <1>5 DEF LeadStep

LEMMA AccountStepStep ==
  ASSUME IInv, TypeOK', AccountStep
  PROVE  IInv'
<1>1. ASSUME NEW u \in Users, Moderate(u) PROVE IInv'
  <2>1. Books'
    BY <1>1, BooksKept DEF Books, Moderate, IInv, OrdersPriced
  <2>2. ASSUME NEW r \in Sessions PROVE Respects(r)
    BY <1>1, BalanceKept DEF Respects, Keeps, Moderate, locks, IInv
  <2> QED
    BY <2>1, <2>2, OutsideStep
<1>2. ASSUME NEW u \in Users, NEW c \in Int, Fund(u, c), balance[u] + c >= 0,
             c >= 0 \/ accountLock[u] = NoSession
      PROVE  IInv'
  <2>1. /\ TypeOK /\ balance'[u] = balance[u] + c /\ balance[u] \in Int
        /\ \A v \in Users \ {u} : balance'[v] = balance[v] /\ balance[v] \in Int
    BY <1>2 DEF IInv, TypeOK, Fund
  <2>2. Books'
    <3>1. BalanceNeverNegative'
      BY <1>2, <2>1 DEF IInv, BalanceNeverNegative
    <3> QED
      BY <1>2, <3>1 DEF Books, IInv, Fund, OrdersPriced, SalesRecorded, SoldIffPurchased
  <2>3. ASSUME NEW r \in Sessions PROVE Respects(r)
    <3>1. ASSUME NEW v \in Users, accountLock[v] = r PROVE balance'[v] >= balance[v]
      BY <1>2, <2>1, <3>1, MarketAssumption
    <3> QED
      BY <1>2, <3>1 DEF Respects, Keeps, Fund, locks
  <2> QED
    BY <2>2, <2>3, OutsideStep
<1>3. ASSUME NEW u \in Users, NEW c \in Packs, TopUp(u, c) PROVE IInv'
  <2>1. c \in Int /\ c > 0 /\ balance[u] \in Int /\ balance[u] >= 0
    BY MarketAssumption DEF IInv, TypeOK, BalanceNeverNegative
  <2> QED
    BY <1>2, <1>3, <2>1 DEF TopUp
<1>4. ASSUME NEW u \in Users, NEW c \in Corrections, AdminAdjust(u, c) PROVE IInv'
  BY <1>2, <1>4, MarketAssumption DEF AdminAdjust
<1> QED
  BY <1>1, <1>3, <1>4 DEF AccountStep

-----------------------------------------------------------------------------
(* The inductive invariant. *)

LEMMA IInvInit == Init => IInv
<1> SUFFICES ASSUME Init PROVE IInv
  OBVIOUS
<1>1. TypeOK
  <2>1. lead \in [Leads -> [status : LeadStatus, age : Ages, purged : BOOLEAN]]
    BY DEF Init, LeadStatus, Ages
  <2>2. purchase \in [Leads -> [buyer : Users \cup {"none"}, order : Orders \cup {Board}, price : Nat]]
    BY DEF Init, NoPurchase, Board
  <2>3. order \in [Orders -> [status : OrderStatus, price : Nat, covers : SUBSET Leads, won : Nat]]
    BY DEF Init, OrderStatus
  <2>4. tx \in [Sessions -> Transactions]
    BY IdleIsTransaction DEF Init
  <2> QED
    BY <2>1, <2>2, <2>3, <2>4 DEF Init, TypeOK, RefundStatus
<1>2. OrdersPriced /\ SalesRecorded /\ SoldIffPurchased /\ BalanceNeverNegative
  BY DEF Init, OrdersPriced, SalesRecorded, SoldIffPurchased, BalanceNeverNegative
<1>3. \A s \in Sessions : Shape(s) /\ LeadHeld(s) /\ FundsHeld(s) /\ RefundHeld(s) /\ OrdersHeld(s)
  BY DEF Init, Idle, Shape, LeadHeld, FundsHeld, RefundHeld, OrdersHeld
<1> QED
  BY <1>1, <1>2, <1>3 DEF IInv

LEMMA IInvSessionStep ==
  ASSUME IInv, NEW s \in Sessions, SessionStep(s)
  PROVE  IInv'
<1>1. TypeOK'
  BY SessionStepType DEF IInv
<1>2. CASE LeadGone(s) \/ BuyInsufficient(s)
  BY <1>1, <1>2, EmptyEndStep DEF LeadGone, BuyInsufficient
<1>3. CASE LockOpenLead(s)
  BY <1>1, <1>3, LockOpenLeadStep
<1>4. ASSUME NEW o \in Orders, LockCandidate(s, o) \/ TryCandidate(s, o) \/ PassOver(s, o) PROVE IInv'
  BY <1>1, <1>4, LockCandidateStep, TryCandidateStep, PassOverStep
<1>5. CASE LockAccount(s) \/ Debit(s) \/ PauseForCredit(s)
  BY <1>1, <1>5, LockAccountStep, DebitStep, PauseForCreditStep
<1>6. CASE CommitBuy(s) \/ CommitAllocated(s)
  BY <1>1, <1>6, CommitBuyStep, CommitAllocatedStep
<1>7. CASE CommitUnsold(s) \/ CommitRefund(s)
  BY <1>1, <1>7, CommitUnsoldStep, CommitRefundStep
<1> QED
  BY <1>2, <1>3, <1>4, <1>5, <1>6, <1>7 DEF SessionStep

LEMMA IInvStutter ==
  ASSUME IInv, UNCHANGED vars
  PROVE  IInv'
<1>1. TypeOK'
  BY DEF IInv, TypeOK, vars, market, locks, history
<1>2. Books'
  BY BooksKept DEF IInv, Books, OrdersPriced, vars, market
<1>3. ASSUME NEW r \in Sessions PROVE Respects(r)
  BY BalanceKept DEF IInv, Respects, Keeps, vars, market, locks
<1> QED
  BY <1>1, <1>2, <1>3, OutsideStep

LEMMA IInvNext == IInv /\ [Next]_vars => IInv'
<1> SUFFICES ASSUME IInv, [Next]_vars PROVE IInv'
  OBVIOUS
<1>1. ASSUME NEW s \in Sessions, SessionStep(s) PROVE IInv'
  BY <1>1, IInvSessionStep
<1>2. ASSUME NEW s \in Sessions, Request(s) PROVE IInv'
  BY <1>2, RequestType, RequestStep DEF IInv
<1>3. ASSUME NEW s \in Sessions, Failure(s) PROVE IInv'
  <2>1. TypeOK'
    BY <1>3, FailureType DEF IInv
  <2>2. CASE HookFails(s)
    BY <2>1, <2>2, HookFailsStep
  <2>3. CASE Crash(s)
    BY <2>1, <2>3, EmptyEndStep DEF Crash
  <2> QED
    BY <1>3, <2>2, <2>3, FailureIs
<1>4. CASE OwnerStep
  BY <1>4, OwnerStepType, OwnerStepStep DEF IInv
<1>5. CASE LeadStep
  BY <1>5, LeadStepType, LeadStepStep DEF IInv
<1>6. CASE AccountStep
  BY <1>6, AccountStepType, AccountStepStep DEF IInv
<1> QED
  BY <1>1, <1>2, <1>3, <1>4, <1>5, <1>6, IInvStutter DEF Next

(* In every reachable state the invariant holds: each open transaction     *)
(* still owns what its locks protect, and the rows agree with each other.  *)
THEOREM Invariant == Spec => []IInv
BY IInvInit, IInvNext, PTL DEF Spec

(* Every variable keeps its type, for any number of sessions.              *)
THEOREM TypeCorrect == Spec => []TypeOK
<1>1. IInv => TypeOK
  BY DEF IInv
<1> QED
  BY <1>1, Invariant, PTL

(* No account is overdrawn, however many purchases, allocations, refunds,  *)
(* top-ups and corrections race on it (lockBalance, debitForPurchase).     *)
THEOREM NeverOverdrawn == Spec => []BalanceNeverNegative
<1>1. IInv => BalanceNeverNegative
  BY DEF IInv
<1> QED
  BY <1>1, Invariant, PTL

(* A lead is sold exactly when it has a purchase row (recordSale).         *)
THEOREM SoldLeadsHaveBuyers == Spec => []SoldIffPurchased
<1>1. IInv => SoldIffPurchased
  BY DEF IInv
<1> QED
  BY <1>1, Invariant, PTL

(* No two transactions hold a sale of the same lead (lockOpenLead).        *)
THEOREM OneSalePerLead == Spec => []SaleUncontested
<1>1. IInv => SaleUncontested
  <2> SUFFICES ASSUME IInv, NEW s \in Sessions, tx[s].sold
               PROVE  /\ purchase[tx[s].lead] = NoPurchase
                      /\ lead[tx[s].lead].status = IF tx[s].creates THEN "absent" ELSE "open"
                      /\ \A t \in Sessions \ {s} : tx[t].sold => tx[t].lead # tx[s].lead
    BY DEF SaleUncontested
  <2>1. tx[s].op \in {"buy", "allocate"} /\ tx[s].pc # "lead"
    BY DEF IInv, Shape
  <2>2. lead[tx[s].lead].status = IF tx[s].creates THEN "absent" ELSE "open"
    BY <2>1 DEF IInv, LeadHeld
  <2>3. \A t \in Sessions : tx[t].sold => leadLock[tx[t].lead] = t
    BY SaleFacts
  <2> QED
    BY <2>2, <2>3, SaleFacts
<1> QED
  BY <1>1, Invariant, PTL

(* The order that wins is debited its price as it stands, active and       *)
(* covering the lead (allocateLead's FOR UPDATE).                          *)
THEOREM WinnersAreCurrent == Spec => []WinnerIsCurrent
<1>1. IInv => WinnerIsCurrent
  BY DEF IInv, WinnerIsCurrent, OrdersHeld
<1> QED
  BY <1>1, Invariant, PTL

-----------------------------------------------------------------------------
(* Three more facts, each kept by the steps that write what it is about.   *)

(* A purged lead was sold, is past its retention and has no open report:   *)
(* reports are made only in the days before.                               *)
DetailsKept ==
  \A l \in Leads : lead[l].purged =>
    lead[l].status = "sold" /\ lead[l].age >= RetainedAge /\ refund[l] # "pending"

LEMMA DetailsSale ==
  ASSUME IInv, DetailsKept, NEW s \in Sessions, RecordSale(s), UNCHANGED refund, tx[s].lead \in Leads
  PROVE  DetailsKept'
BY DEF DetailsKept, RecordSale, IInv, TypeOK

LEMMA DetailsOpened ==
  ASSUME IInv, DetailsKept, UNCHANGED refund, NEW l \in Leads, lead' = [lead EXCEPT ![l] = OpenRow]
  PROVE  DetailsKept'
BY DEF DetailsKept, OpenRow, IInv, TypeOK

LEMMA DetailsUntouched ==
  ASSUME DetailsKept, UNCHANGED <<lead, refund>>
  PROVE  DetailsKept'
BY DEF DetailsKept

LEMMA DetailsSession ==
  ASSUME IInv, DetailsKept, NEW s \in Sessions, SessionStep(s)
  PROVE  DetailsKept'
<1>1. CASE CommitBuy(s)
  <2>1. tx[s].lead \in Leads
    BY <1>1 DEF CommitBuy, IInv, Shape
  <2> QED
    BY <1>1, <2>1, DetailsSale DEF CommitBuy
<1>2. CASE CommitAllocated(s)
  <2>1. tx[s].lead \in Leads
    BY <1>2 DEF CommitAllocated, Looping, IInv, Shape
  <2> QED
    BY <1>2, <2>1, DetailsSale DEF CommitAllocated
<1>3. CASE CommitUnsold(s)
  <2>1. tx[s].lead \in Leads
    BY <1>3 DEF CommitUnsold, Looping, IInv, Shape
  <2>2. UNCHANGED refund /\ (UNCHANGED lead \/ lead' = [lead EXCEPT ![tx[s].lead] = OpenRow])
    BY <1>3 DEF CommitUnsold
  <2> QED
    BY <2>1, <2>2, DetailsOpened, DetailsUntouched
<1>4. CASE CommitRefund(s)
  BY <1>4 DEF CommitRefund, DetailsKept, IInv, TypeOK
<1>5. CASE UNCHANGED market
  BY <1>5, DetailsUntouched DEF market
<1> QED
  BY <1>1, <1>2, <1>3, <1>4, <1>5
     DEF SessionStep, LockOpenLead, LeadGone, LockCandidate, TryCandidate, PassOver, LockAccount, Debit,
         BuyInsufficient, PauseForCredit

LEMMA DetailsLeads ==
  ASSUME IInv, DetailsKept, LeadStep
  PROVE  DetailsKept'
<1>t. \A l \in Leads : /\ lead[l] \in [status : LeadStatus, age : Ages, purged : BOOLEAN]
                       /\ purchase[l] = NoPurchase => lead[l].status # "sold"
  BY DEF IInv, TypeOK, SoldIffPurchased
<1>1. CASE SweepLeads
  <2> SUFFICES ASSUME NEW l \in Leads, lead'[l].purged
               PROVE  lead'[l].status = "sold" /\ lead'[l].age >= RetainedAge /\ refund'[l] # "pending"
    BY DEF DetailsKept
  <2>1. lead'[l] = IF Removable(l) THEN [lead[l] EXCEPT !.status = "removed"]
                   ELSE IF Expiring(l) THEN [lead[l] EXCEPT !.status = "expired"]
                   ELSE IF Purgeable(l) THEN [lead[l] EXCEPT !.purged = TRUE]
                   ELSE lead[l]
    BY <1>1 DEF SweepLeads
  <2>2. UNCHANGED refund
    BY <1>1 DEF SweepLeads
  <2>3. lead[l].purged => lead[l].status = "sold" /\ lead[l].age >= RetainedAge /\ refund[l] # "pending"
    BY DEF DetailsKept
  <2> QED
    BY <2>1, <2>2, <2>3, <1>t DEF Removable, Expiring, Purgeable
<1>2. ASSUME NEW l \in Leads, Grow(l) PROVE DetailsKept'
  <2>1. lead' = [lead EXCEPT ![l].age = @ + 1] /\ UNCHANGED refund
    BY <1>2 DEF Grow
  <2>2. \A m \in Leads : /\ lead'[m].status = lead[m].status /\ lead'[m].purged = lead[m].purged
                         /\ lead[m].age \in Int /\ lead'[m].age \in {lead[m].age, lead[m].age + 1}
    <3>1. \A m \in Leads : lead'[m] = IF m = l THEN [lead[l] EXCEPT !.age = @ + 1] ELSE lead[m]
      BY <2>1 DEF IInv, TypeOK
    <3> QED
      BY <3>1, <1>t
  <2> QED
    BY <2>1, <2>2 DEF DetailsKept
<1>3. ASSUME NEW l \in Leads, AdminDeleteLead(l) PROVE DetailsKept'
  BY <1>3, <1>t DEF AdminDeleteLead, DetailsKept, IInv, TypeOK
<1>4. ASSUME NEW l \in Leads, RejectRefund(l) PROVE DetailsKept'
  BY <1>4 DEF RejectRefund, DetailsKept, IInv, TypeOK
<1>5. ASSUME NEW l \in Leads, NEW u \in Users, RequestRefund(u, l) PROVE DetailsKept'
  <2>1. lead[l].age \in Int /\ lead[l].age < RetainedAge /\ UNCHANGED lead
    BY <1>5, <1>t DEF RequestRefund
  <2>2. ~lead[l].purged
    BY <2>1 DEF DetailsKept
  <2>3. \A m \in Leads \ {l} : refund'[m] = refund[m]
    BY <1>5 DEF RequestRefund, IInv, TypeOK
  <2> QED
    BY <2>1, <2>2, <2>3 DEF DetailsKept
<1> QED
  BY <1>1, <1>2, <1>3, <1>4, <1>5 DEF LeadStep

LEMMA DetailsNext == IInv /\ DetailsKept /\ [Next]_vars => DetailsKept'
<1> SUFFICES ASSUME IInv, DetailsKept, [Next]_vars PROVE DetailsKept'
  OBVIOUS
<1>1. ASSUME NEW s \in Sessions, SessionStep(s) PROVE DetailsKept'
  BY <1>1, DetailsSession
<1>2. ASSUME NEW s \in Sessions, Request(s) PROVE DetailsKept'
  BY <1>2, DetailsUntouched DEF Request, CreateLead, RetryLead, ApproveRefund, BuyLead, market
<1>3. ASSUME NEW s \in Sessions, Failure(s) PROVE DetailsKept'
  <2>1. HookFails(s) \/ Crash(s)
    BY <1>3 DEF Failure, DeadlockVictim
  <2>2. CASE HookFails(s)
    <3>1. tx[s].lead \in Leads
      BY <2>2 DEF HookFails, IInv, Shape
    <3> QED
      BY <2>2, <3>1, DetailsOpened DEF HookFails
  <2>3. CASE Crash(s)
    BY <2>3, DetailsUntouched DEF Crash, market
  <2> QED
    BY <2>1, <2>2, <2>3
<1>4. CASE OwnerStep
  BY <1>4, DetailsUntouched
     DEF OwnerStep, CreateStandingOrder, UpdateStandingOrder, ResumeStandingOrder, PauseStandingOrder,
         DeleteStandingOrder, WriteOrder
<1>5. CASE LeadStep
  BY <1>5, DetailsLeads
<1>6. CASE AccountStep
  BY <1>6, DetailsUntouched DEF AccountStep, Moderate, TopUp, AdminAdjust, Fund
<1>7. CASE UNCHANGED vars
  BY <1>7, DetailsUntouched DEF vars, market
<1> QED
  BY <1>1, <1>2, <1>3, <1>4, <1>5, <1>6, <1>7 DEF Next

(* No report is ever decided on a lead whose details are gone (sweepLeads, *)
(* requestRefund).                                                         *)
THEOREM DetailsWhileUndecided == Spec => []ContactsKeptForDecision
<1>1. Init => DetailsKept
  BY DEF Init, DetailsKept
<1>2. DetailsKept => ContactsKeptForDecision
  BY DEF DetailsKept, ContactsKeptForDecision
<1> QED
  BY <1>1, <1>2, DetailsNext, Invariant, PTL DEF Spec

(* An active order has a mail to come at most; what waits to be paused is  *)
(* active, as its row is locked.                                           *)
MailsPaid ==
  /\ \A o \in Orders : mails[o] <= activations[o]
  /\ \A o \in Orders : order[o].status = "active" => mails[o] < activations[o]
  /\ \A s \in Sessions : \A o \in tx[s].pause : order[o].status = "active"

LEMMA MailTypes ==
  ASSUME IInv
  PROVE  /\ \A o \in Orders : mails[o] \in Nat /\ activations[o] \in Nat
         /\ \A s \in Sessions : tx[s] \in Transactions /\ tx[s].pause \subseteq Orders /\ tx[s].cand \subseteq Orders
         /\ \A o \in Orders : order[o] \in [status : OrderStatus, price : Nat, covers : SUBSET Leads, won : Nat]
BY DEF IInv, TypeOK, Transactions

(* A step that edits no order and adds to no transaction's pauses. *)
LEMMA MailsQuiet ==
  ASSUME IInv, MailsPaid, UNCHANGED <<order, mails, activations>>,
         \A s \in Sessions : tx'[s].pause \subseteq tx[s].pause
  PROVE  MailsPaid'
BY DEF MailsPaid

LEMMA EndPauses ==
  ASSUME IInv, NEW s \in Sessions, End(s)
  PROVE  \A r \in Sessions : tx'[r].pause \subseteq tx[r].pause /\ (r = s => tx'[r].pause = {})
BY DEF End, Idle, IInv, TypeOK

(* A candidate is added to the pauses while its row is locked and active.  *)
LEMMA MailsPause ==
  ASSUME IInv, MailsPaid, UNCHANGED <<order, mails, activations>>, NEW s \in Sessions, NEW o \in Orders,
         order[o].status = "active",
         \A r \in Sessions : tx'[r].pause \subseteq tx[r].pause \cup (IF r = s THEN {o} ELSE {})
  PROVE  MailsPaid'
BY DEF MailsPaid

LEMMA MailsSettled ==
  ASSUME IInv, MailsPaid, NEW s \in Sessions, SettleOrders(s), End(s), UNCHANGED activations
  PROVE  MailsPaid'
<1>1. ASSUME NEW o \in Orders
      PROVE  /\ o \in tx[s].pause => order'[o].status = "no_credit" /\ mails'[o] = mails[o] + 1
             /\ o \notin tx[s].pause => order'[o].status = order[o].status /\ mails'[o] = mails[o]
  BY MailTypes DEF SettleOrders
<1>2. ASSUME NEW r \in Sessions, NEW o \in tx'[r].pause
      PROVE  o \in Orders /\ o \notin tx[s].pause /\ o \in tx[r].pause
  <2>1. r # s /\ o \in tx[r].pause
    BY EndPauses
  <2>2. \A p \in tx[s].pause : orderLock[p] = s
    BY DEF IInv, OrdersHeld
  <2>3. orderLock[o] = r
    BY <2>1 DEF IInv, OrdersHeld
  <2> QED
    BY <2>1, <2>2, <2>3, MailTypes
<1> QED
  BY <1>1, <1>2, MailTypes DEF MailsPaid

LEMMA MailsSession ==
  ASSUME IInv, MailsPaid, NEW s \in Sessions, SessionStep(s)
  PROVE  MailsPaid'
<1>t. tx \in [Sessions -> Transactions]
  BY DEF IInv, TypeOK
<1>1. CASE CommitBuy(s)
  BY <1>1, EndPauses, MailsQuiet DEF CommitBuy, history
<1>2. CASE CommitAllocated(s)
  BY <1>2, MailsSettled DEF CommitAllocated, history
<1>3. CASE CommitUnsold(s)
  BY <1>3, MailsSettled DEF CommitUnsold, history
<1>4. CASE CommitRefund(s)
  BY <1>4, EndPauses, MailsQuiet DEF CommitRefund, history
<1>5. CASE LeadGone(s) \/ BuyInsufficient(s)
  BY <1>5, EndPauses, MailsQuiet DEF LeadGone, BuyInsufficient, market, history
<1>6. ASSUME NEW o \in Orders, PassOver(s, o) PROVE MailsPaid'
  <2>1. order[o].status = "active"
    BY <1>6 DEF PassOver, First, IInv, OrdersHeld, Covers
  <2>2. \A r \in Sessions : tx'[r].pause \subseteq tx[r].pause \cup (IF r = s THEN {o} ELSE {})
    BY <1>6, <1>t DEF PassOver, Transactions
  <2> QED
    BY <1>6, <2>1, <2>2, MailsPause DEF PassOver, market, history
<1>7. CASE PauseForCredit(s)
  <2>1. tx[s].order \in Orders /\ order[tx[s].order].status = "active"
    BY <1>7 DEF PauseForCredit, IInv, OrdersHeld, Covers, Shape
  <2>2. \A r \in Sessions : tx'[r].pause \subseteq tx[r].pause \cup (IF r = s THEN {tx[s].order} ELSE {})
    BY <1>7, <1>t DEF PauseForCredit, Transactions
  <2> QED
    BY <1>7, <2>1, <2>2, MailsPause DEF PauseForCredit, market, history
<1>8. CASE LockOpenLead(s) \/ LockAccount(s) \/ Debit(s)
           \/ \E o \in Orders : LockCandidate(s, o) \/ TryCandidate(s, o)
  <2>1. UNCHANGED <<order, mails, activations>>
    BY <1>8 DEF LockOpenLead, LockAccount, Debit, LockCandidate, TryCandidate, market, history
  <2>2. \A r \in Sessions : tx'[r].pause = tx[r].pause
    <3>0. tx[s] \in Transactions
      BY <1>t
    <3>1. CASE LockOpenLead(s)
      <4>1. /\ \A r \in Sessions \ {s} : tx'[r] = tx[r]
            /\ \/ tx'[s] = [tx[s] EXCEPT !.pc = "account", !.price = CurrentPrice(tx[s].lead)]
               \/ tx'[s] = Selecting(tx[s])
        BY <3>1, <1>t DEF LockOpenLead
      <4>2. Selecting(tx[s]).pause = tx[s].pause
        BY <3>0 DEF Selecting, Transactions
      <4> QED
        BY <4>1, <4>2, <3>0 DEF Transactions
    <3>2. CASE LockAccount(s) \/ Debit(s)
      <4>1. /\ \A r \in Sessions \ {s} : tx'[r] = tx[r]
            /\ \/ \E c : tx'[s] = [tx[s] EXCEPT !.pc = c]
               \/ \E c : tx'[s] = [tx[s] EXCEPT !.sold = TRUE, !.pc = c]
        <5>1. CASE LockAccount(s)
          BY <5>1, <1>t DEF LockAccount
        <5>2. CASE Debit(s)
          BY <5>2, <1>t DEF Debit
        <5> QED
          BY <3>2, <5>1, <5>2
      <4> QED
        BY <4>1, <3>0 DEF Transactions
    <3>3. ASSUME NEW o \in Orders, LockCandidate(s, o) \/ TryCandidate(s, o)
          PROVE  \A r \in Sessions : tx'[r].pause = tx[r].pause
      <4>1. CASE LockCandidate(s, o)
        <5>1. /\ \A r \in Sessions \ {s} : tx'[r] = tx[r]
              /\ \E S, C : tx'[s] = [tx[s] EXCEPT !.scan = S, !.cand = C]
          BY <4>1, <1>t DEF LockCandidate
        <5> QED
          BY <5>1, <3>0 DEF Transactions
      <4>2. CASE TryCandidate(s, o)
        <5>1. /\ \A r \in Sessions \ {s} : tx'[r] = tx[r]
              /\ tx'[s] = [tx[s] EXCEPT !.pc = "account", !.cand = @ \ {o}, !.order = o,
                                        !.user = OwnerOf[o], !.price = order[o].price]
          BY <4>2, <1>t DEF TryCandidate
        <5> QED
          BY <5>1, <3>0 DEF Transactions
      <4> QED
        BY <3>3, <4>1, <4>2
    <3> QED
      BY <1>8, <3>1, <3>2, <3>3
  <2> QED
    BY <2>1, <2>2, MailsQuiet
<1> QED
  BY <1>1, <1>2, <1>3, <1>4, <1>5, <1>6, <1>7, <1>8 DEF SessionStep

(* An owner's edit leaves alone every order a transaction has locked.      *)
LEMMA MailsOwner ==
  ASSUME IInv, MailsPaid, OwnerStep
  PROVE  MailsPaid'
<1>1. PICK o \in Orders :
        \/ \E p \in Prices, C \in Coverages : CreateStandingOrder(o, p, C) \/ UpdateStandingOrder(o, p, C)
        \/ ResumeStandingOrder(o) \/ PauseStandingOrder(o) \/ DeleteStandingOrder(o)
  BY DEF OwnerStep
<1>2. /\ orderLock[o] = NoSession /\ UNCHANGED <<mails, tx>>
      /\ \A p \in Orders \ {o} : order'[p] = order[p] /\ activations'[p] = activations[p]
  BY <1>1 DEF CreateStandingOrder, UpdateStandingOrder, ResumeStandingOrder, PauseStandingOrder,
              DeleteStandingOrder, WriteOrder, IInv, TypeOK
<1>3. ASSUME NEW s \in Sessions PROVE o \notin tx[s].pause
  BY <1>2, MarketAssumption DEF IInv, OrdersHeld
<1> DEFINE Paid == mails[o] <= activations'[o] /\ (order'[o].status = "active" => mails[o] < activations'[o])
<1>4. Paid
  <2>t. mails[o] \in Nat /\ activations[o] \in Nat /\ mails[o] <= activations[o]
        /\ (order[o].status = "active" => mails[o] < activations[o])
    BY MailTypes DEF MailsPaid
  <2>1. ASSUME NEW p \in Prices, NEW C \in Coverages, CreateStandingOrder(o, p, C) PROVE Paid
    BY <2>1, <2>t DEF CreateStandingOrder, WriteOrder, IInv, TypeOK
  <2>2. ASSUME NEW p \in Prices, NEW C \in Coverages, UpdateStandingOrder(o, p, C) PROVE Paid
    BY <2>2, <2>t DEF UpdateStandingOrder, WriteOrder, IInv, TypeOK
  <2>3. CASE ResumeStandingOrder(o)
    BY <2>3, <2>t DEF ResumeStandingOrder, WriteOrder, IInv, TypeOK
  <2>4. CASE PauseStandingOrder(o) \/ DeleteStandingOrder(o)
    BY <2>4, <2>t DEF PauseStandingOrder, DeleteStandingOrder, WriteOrder, IInv, TypeOK
  <2> QED
    BY <1>1, <2>1, <2>2, <2>3, <2>4
<1> QED
  BY <1>2, <1>3, <1>4, MailTypes DEF MailsPaid

LEMMA MailsNext == IInv /\ MailsPaid /\ [Next]_vars => MailsPaid'
<1> SUFFICES ASSUME IInv, MailsPaid, [Next]_vars PROVE MailsPaid'
  OBVIOUS
<1>t. tx \in [Sessions -> Transactions]
  BY DEF IInv, TypeOK
<1>1. ASSUME NEW s \in Sessions, SessionStep(s) PROVE MailsPaid'
  BY <1>1, MailsSession
<1>2. ASSUME NEW s \in Sessions, Request(s) PROVE MailsPaid'
  <2>1. UNCHANGED <<order, mails, activations>>
    BY <1>2 DEF Request, CreateLead, RetryLead, ApproveRefund, BuyLead, market, history
  <2>2. \E t : t.pause = {} /\ tx' = [tx EXCEPT ![s] = t]
    BY <1>2 DEF Request, CreateLead, RetryLead, ApproveRefund, BuyLead, Begin, Selecting, Idle
  <2>3. \A r \in Sessions : tx'[r].pause \subseteq tx[r].pause
    BY <2>2, <1>t
  <2> QED
    BY <2>1, <2>3, MailsQuiet
<1>3. ASSUME NEW s \in Sessions, Failure(s) PROVE MailsPaid'
  BY <1>3, EndPauses, MailsQuiet DEF Failure, DeadlockVictim, HookFails, Crash, market, history
<1>4. CASE OwnerStep
  BY <1>4, MailsOwner
<1>5. CASE LeadStep \/ AccountStep
  <2>1. UNCHANGED <<order, mails, activations, tx>>
    BY <1>5 DEF LeadStep, SweepLeads, Grow, AdminDeleteLead, RejectRefund, RequestRefund,
                AccountStep, Moderate, TopUp, AdminAdjust, Fund, history
  <2> QED
    BY <2>1, MailsQuiet
<1>7. CASE UNCHANGED vars
  BY <1>7, MailsQuiet DEF vars, market, history
<1> QED
  BY <1>1, <1>2, <1>3, <1>4, <1>5, <1>7 DEF Next

(* One top-up mail at most for each time an order was made active          *)
(* (pauseForCredit).                                                       *)
THEOREM OneMailPerShortfall == Spec => []MailedOncePerShortfall
<1>1. Init => MailsPaid
  BY DEF Init, MailsPaid, Idle
<1>2. MailsPaid => MailedOncePerShortfall
  BY DEF MailsPaid, MailedOncePerShortfall
<1> QED
  BY <1>1, <1>2, MailsNext, Invariant, PTL DEF Spec

-----------------------------------------------------------------------------
(* The candidate that is asked to pay was selected at a price no lower     *)
(* than those still waiting.                                               *)
BestFirst ==
  \A s \in Sessions : tx[s].op = "allocate" /\ tx[s].pc \in {"account", "balance"} =>
    \A o \in tx[s].cand : tx[s].snap[tx[s].order] >= tx[s].snap[o]

LEMMA BestOthers ==
  ASSUME BestFirst, NEW s \in Sessions,
         \A r \in Sessions \ {s} : tx'[r] = tx[r],
         tx'[s].op = "allocate" /\ tx'[s].pc \in {"account", "balance"} =>
           \A o \in tx'[s].cand : tx'[s].snap[tx'[s].order] >= tx'[s].snap[o]
  PROVE  BestFirst'
BY DEF BestFirst

LEMMA BestSession ==
  ASSUME IInv, BestFirst, NEW s \in Sessions, SessionStep(s)
  PROVE  BestFirst'
<1>t. tx \in [Sessions -> Transactions] /\ tx[s] \in Transactions
  BY DEF IInv, TypeOK
<1>1. ASSUME NEW o \in Orders, TryCandidate(s, o) PROVE BestFirst'
  <2>1. /\ \A r \in Sessions \ {s} : tx'[r] = tx[r]
        /\ tx'[s] = [tx[s] EXCEPT !.pc = "account", !.cand = @ \ {o}, !.order = o,
                                  !.user = OwnerOf[o], !.price = order[o].price]
    BY <1>1, <1>t DEF TryCandidate
  <2>2. tx'[s].cand = tx[s].cand \ {o} /\ tx'[s].order = o /\ tx'[s].snap = tx[s].snap
    BY <2>1, <1>t DEF Transactions
  <2>3. \A p \in tx[s].cand : tx[s].snap[o] > tx[s].snap[p] \/ tx[s].snap[o] = tx[s].snap[p]
    BY <1>1 DEF TryCandidate, First, Outranks
  <2>4. \A p \in tx[s].cand : tx[s].snap[o] >= tx[s].snap[p]
    BY <2>3, <1>t DEF Transactions
  <2> QED
    BY <2>1, <2>2, <2>4, BestOthers
<1>2. CASE LockAccount(s)
  <2>1. /\ \A r \in Sessions \ {s} : tx'[r] = tx[r]
        /\ tx[s].pc = "account"
        /\ tx'[s] = [tx[s] EXCEPT !.pc = IF tx[s].op = "refund" THEN "commit" ELSE "balance"]
    BY <1>2, <1>t DEF LockAccount
  <2>2. /\ tx'[s].cand = tx[s].cand /\ tx'[s].order = tx[s].order
        /\ tx'[s].snap = tx[s].snap /\ tx'[s].op = tx[s].op
    BY <2>1, <1>t DEF Transactions
  <2> QED
    BY <2>1, <2>2, BestOthers DEF BestFirst
<1>3. CASE LockOpenLead(s)
  <2>1. /\ \A r \in Sessions \ {s} : tx'[r] = tx[r]
        /\ tx'[s] = IF tx[s].op = "buy"
                    THEN [tx[s] EXCEPT !.pc = "account", !.price = CurrentPrice(tx[s].lead)]
                    ELSE Selecting(tx[s])
    BY <1>3, <1>t DEF LockOpenLead
  <2>2. Selecting(tx[s]).pc = "scan"
    BY <1>t DEF Selecting, Transactions
  <2>3. CASE tx[s].op = "buy"
    <3>1. tx'[s].op = "buy"
      BY <2>1, <2>3, <1>t DEF Transactions
    <3> QED
      BY <2>1, <3>1, BestOthers
  <2>4. CASE tx[s].op # "buy"
    BY <2>1, <2>2, <2>4, BestOthers
  <2> QED
    BY <2>3, <2>4
<1>4. ASSUME Debit(s) \/ PauseForCredit(s) PROVE BestFirst'
  <2>1. /\ \A r \in Sessions \ {s} : tx'[r] = tx[r]
        /\ tx'[s].pc \in {"scan", "commit"}
    <3>1. CASE Debit(s)
      <4>1. /\ \A r \in Sessions \ {s} : tx'[r] = tx[r]
            /\ tx'[s] = [tx[s] EXCEPT !.sold = TRUE, !.pc = IF tx[s].op = "buy" THEN "commit" ELSE "scan"]
        BY <3>1, <1>t DEF Debit
      <4> QED
        BY <4>1, <1>t DEF Transactions
    <3>2. CASE PauseForCredit(s)
      <4>1. /\ \A r \in Sessions \ {s} : tx'[r] = tx[r]
            /\ tx'[s] = [tx[s] EXCEPT !.pc = "scan", !.pause = @ \cup {tx[s].order}]
        BY <3>2, <1>t DEF PauseForCredit
      <4> QED
        BY <4>1, <1>t DEF Transactions
    <3> QED
      BY <1>4, <3>1, <3>2
  <2> QED
    BY <2>1, BestOthers
<1>5. ASSUME NEW o \in Orders, LockCandidate(s, o) \/ PassOver(s, o) PROVE BestFirst'
  <2>1. /\ \A r \in Sessions \ {s} : tx'[r] = tx[r]
        /\ tx[s].pc = "scan" /\ tx'[s].pc = tx[s].pc
    <3>1. CASE LockCandidate(s, o)
      <4>1. /\ \A r \in Sessions \ {s} : tx'[r] = tx[r]
            /\ tx[s].pc = "scan"
            /\ \E S, C : tx'[s] = [tx[s] EXCEPT !.scan = S, !.cand = C]
        BY <3>1, <1>t DEF LockCandidate
      <4> QED
        BY <4>1, <1>t DEF Transactions
    <3>2. CASE PassOver(s, o)
      <4>1. /\ \A r \in Sessions \ {s} : tx'[r] = tx[r]
            /\ tx[s].pc = "scan"
            /\ \E C, P : tx'[s] = [tx[s] EXCEPT !.cand = C, !.pause = P]
        BY <3>2, <1>t DEF PassOver, Looping
      <4> QED
        BY <4>1, <1>t DEF Transactions
    <3> QED
      BY <1>5, <3>1, <3>2
  <2> QED
    BY <2>1, BestOthers
<1>6. CASE End(s)
  <2>1. (\A r \in Sessions \ {s} : tx'[r] = tx[r]) /\ tx'[s].op = "none"
    BY <1>6, <1>t DEF End, Idle
  <2> QED
    BY <2>1, BestOthers
<1> QED
  BY <1>1, <1>2, <1>3, <1>4, <1>5, <1>6
     DEF SessionStep, LeadGone, BuyInsufficient, CommitBuy, CommitAllocated, CommitUnsold, CommitRefund

LEMMA BestRequest ==
  ASSUME IInv, BestFirst, NEW s \in Sessions, Request(s)
  PROVE  BestFirst'
<1>t. tx \in [Sessions -> Transactions]
  BY DEF IInv, TypeOK
<1>1. PICK l \in Leads : CreateLead(s, l) \/ RetryLead(s, l) \/ ApproveRefund(s, l)
                         \/ \E u \in Users : BuyLead(s, u, l)
  BY DEF Request
<1>2. CASE CreateLead(s, l)
  <2> DEFINE t == [Idle EXCEPT !.op = "allocate", !.lead = l, !.creates = TRUE]
  <2>1. (\A r \in Sessions \ {s} : tx'[r] = tx[r]) /\ tx'[s] = Selecting(t)
    BY <1>2, <1>t DEF CreateLead, Begin
  <2>2. Selecting(t).pc = "scan"
    BY DEF Selecting, Idle
  <2> QED
    BY <2>1, <2>2, BestOthers
<1>3. CASE RetryLead(s, l)
  <2>1. (\A r \in Sessions \ {s} : tx'[r] = tx[r]) /\ tx'[s].pc = "lead"
    BY <1>3, <1>t DEF RetryLead, Begin, Idle
  <2> QED
    BY <2>1, BestOthers
<1>4. CASE ApproveRefund(s, l) \/ \E u \in Users : BuyLead(s, u, l)
  <2>1. (\A r \in Sessions \ {s} : tx'[r] = tx[r]) /\ tx'[s].op \in {"refund", "buy"}
    BY <1>4, <1>t DEF ApproveRefund, BuyLead, Begin, Idle
  <2> QED
    BY <2>1, BestOthers
<1> QED
  BY <1>1, <1>2, <1>3, <1>4

LEMMA BestNext == IInv /\ BestFirst /\ [Next]_vars => BestFirst'
<1> SUFFICES ASSUME IInv, BestFirst, [Next]_vars PROVE BestFirst'
  OBVIOUS
<1>t. tx \in [Sessions -> Transactions]
  BY DEF IInv, TypeOK
<1>1. ASSUME NEW s \in Sessions, SessionStep(s) PROVE BestFirst'
  BY <1>1, BestSession
<1>2. ASSUME NEW s \in Sessions, Request(s) PROVE BestFirst'
  BY <1>2, BestRequest
<1>3. ASSUME NEW s \in Sessions, Failure(s) PROVE BestFirst'
  <2>1. End(s)
    BY <1>3 DEF Failure, DeadlockVictim, HookFails, Crash
  <2>2. (\A r \in Sessions \ {s} : tx'[r] = tx[r]) /\ tx'[s].op = "none"
    BY <2>1, <1>t DEF End, Idle
  <2> QED
    BY <2>2, BestOthers
<1>4. CASE OwnerStep \/ LeadStep \/ AccountStep
  <2>1. UNCHANGED tx
    BY <1>4 DEF OwnerStep, CreateStandingOrder, UpdateStandingOrder, ResumeStandingOrder, PauseStandingOrder,
                DeleteStandingOrder, WriteOrder, LeadStep, SweepLeads, Grow, AdminDeleteLead, RejectRefund,
                RequestRefund, AccountStep, Moderate, TopUp, AdminAdjust, Fund
  <2> QED
    BY <2>1 DEF BestFirst
<1>5. CASE UNCHANGED vars
  BY <1>5 DEF vars, BestFirst
<1> QED
  BY <1>1, <1>2, <1>3, <1>4, <1>5 DEF Next

(* A candidate that bids more and can pay is passed by only after an edit  *)
(* of a price since the selection (allocateLead's ORDER BY).               *)
THEOREM OutbidOnlyByEdit == Spec => []BestPayingUnlessEdited
<1>1. Init => BestFirst
  BY DEF Init, BestFirst, Idle
<1>2. IInv /\ BestFirst => BestPayingUnlessEdited
  <2> SUFFICES ASSUME IInv, BestFirst, NEW s \in Sessions, NEW o \in Orders, Underbids(s, o),
                      order[o].price = tx[s].snap[o], tx[s].price = tx[s].snap[tx[s].order]
               PROVE  FALSE
    BY DEF BestPayingUnlessEdited
  <2>1. tx[s].snap[tx[s].order] >= tx[s].snap[o] /\ order[o].price > tx[s].price
    BY DEF BestFirst, Underbids
  <2>2. order[o].price \in Nat /\ tx[s].price \in Nat
    BY DEF IInv, TypeOK, Transactions
  <2> QED
    BY <2>1, <2>2
<1> QED
  BY <1>1, <1>2, BestNext, Invariant, PTL DEF Spec

-----------------------------------------------------------------------------
(* Deadlocks.  What each lock says of the transaction that holds it: who   *)
(* waits for its lead holds nothing yet, a sale off the board holds its    *)
(* lead while it waits for its account, and only an allocation waits with  *)
(* an order or an account in hand.                                         *)
Begun(s) == tx[s].pc \notin {"idle", "lead"}

HoldsLead(s) == \A l \in Leads : leadLock[l] = s => Begun(s) /\ tx[s].op \in {"buy", "allocate"}
HoldsOrder(s) == \A o \in Orders : orderLock[o] = s => Begun(s) /\ tx[s].op = "allocate"
HoldsAccount(s) ==
  \A u \in Users : accountLock[u] = s =>
    Begun(s) /\ (tx[s].op = "allocate" \/ tx[s].pc \in {"balance", "commit"})

Holds(s) == HoldsLead(s) /\ HoldsOrder(s) /\ HoldsAccount(s)
LocksExplained == \A s \in Sessions : Holds(s)

(* A step of one session takes no lock for another.                        *)
LEMMA HoldsOfOne ==
  ASSUME LocksExplained, NEW s \in Sessions, Holds(s)',
         \A t \in Sessions \ {s} :
           /\ tx'[t] = tx[t]
           /\ \A l \in Leads : leadLock'[l] = t => leadLock[l] = t
           /\ \A o \in Orders : orderLock'[o] = t => orderLock[o] = t
           /\ \A u \in Users : accountLock'[u] = t => accountLock[u] = t
  PROVE  LocksExplained'
BY DEF LocksExplained, Holds, HoldsLead, HoldsOrder, HoldsAccount, Begun

LEMMA HoldsQuiet ==
  ASSUME LocksExplained, UNCHANGED <<tx, locks>>
  PROVE  LocksExplained'
BY DEF LocksExplained, Holds, HoldsLead, HoldsOrder, HoldsAccount, Begun, locks

LEMMA HoldsEnd ==
  ASSUME TypeOK, LocksExplained, NEW s \in Sessions, End(s)
  PROVE  LocksExplained'
<1>1. s # NoSession
  BY MarketAssumption
<1>2. Holds(s)'
  BY <1>1 DEF TypeOK, End, Freed, Holds, HoldsLead, HoldsOrder, HoldsAccount
<1>3. \A t \in Sessions \ {s} :
        /\ tx'[t] = tx[t]
        /\ \A l \in Leads : leadLock'[l] = t => leadLock[l] = t
        /\ \A o \in Orders : orderLock'[o] = t => orderLock[o] = t
        /\ \A u \in Users : accountLock'[u] = t => accountLock[u] = t
  BY MarketAssumption DEF TypeOK, End, Freed
<1> QED
  BY <1>2, <1>3, HoldsOfOne

(* A transaction begins with no lock but, for a new lead, that lead's.     *)
LEMMA HoldsRequest ==
  ASSUME IInv, LocksExplained, NEW s \in Sessions, Request(s)
  PROVE  LocksExplained'
<1>1. /\ tx[s].pc = "idle" /\ \A t \in Sessions \ {s} : tx'[t] = tx[t]
      /\ \A l \in Leads : leadLock'[l] = s => leadLock[l] = s \/ (Begun(s) /\ tx[s].op = "allocate")'
      /\ \A t \in Sessions \ {s}, l \in Leads : leadLock'[l] = t => leadLock[l] = t
      /\ UNCHANGED <<orderLock, accountLock>>
  <2>1. ASSUME NEW l \in Leads, CreateLead(s, l) PROVE (Begun(s) /\ tx[s].op = "allocate")'
    BY <2>1 DEF CreateLead, Begin, Selecting, Idle, Begun, IInv, TypeOK
  <2> QED
    BY <2>1 DEF Request, CreateLead, RetryLead, ApproveRefund, BuyLead, Begin, locks, IInv, TypeOK
<1>2. /\ \A l \in Leads : leadLock[l] # s
      /\ \A o \in Orders : orderLock[o] # s
      /\ \A u \in Users : accountLock[u] # s
  BY <1>1 DEF LocksExplained, Holds, HoldsLead, HoldsOrder, HoldsAccount, Begun
<1>3. Holds(s)'
  BY <1>1, <1>2 DEF Holds, HoldsLead, HoldsOrder, HoldsAccount
<1> QED
  BY <1>1, <1>3, HoldsOfOne

LEMMA HoldsSession ==
  ASSUME IInv, LocksExplained, NEW s \in Sessions, SessionStep(s)
  PROVE  LocksExplained'
<1> USE DEF IInv, TypeOK, Shape, Holds, HoldsLead, HoldsOrder, HoldsAccount, Begun
<1>0. Holds(s)
  BY DEF LocksExplained
<1>1. CASE LockOpenLead(s)
  <2>1. tx[s].op \in {"buy", "allocate"} /\ tx'[s].op = tx[s].op /\ tx'[s].pc \in {"account", "scan"}
    BY <1>1 DEF LockOpenLead, Selecting, Transactions
  <2>2. Holds(s)'
    BY <1>0, <1>1, <2>1 DEF LockOpenLead
  <2> QED
    BY <1>1, <2>2, HoldsOfOne DEF LockOpenLead
<1>2. ASSUME NEW o \in Orders, LockCandidate(s, o) \/ TryCandidate(s, o) \/ PassOver(s, o) PROVE LocksExplained'
  <2>0. tx[s].pc = "scan" /\ tx[s].op = "allocate" /\ tx[s] \in Transactions
    BY <1>2 DEF LockCandidate, TryCandidate, PassOver, Looping
  <2>1. tx'[s].op = tx[s].op /\ tx'[s].pc \in {"scan", "account"}
    BY <1>2, <2>0 DEF LockCandidate, TryCandidate, PassOver, Transactions
  <2>2. Holds(s)'
    BY <2>0, <2>1
  <2> QED
    BY <1>2, <2>2, HoldsOfOne DEF LockCandidate, TryCandidate, PassOver, locks
<1>3. CASE LockAccount(s)
  <2>1. tx'[s].op = tx[s].op /\ tx[s].pc = "account" /\ tx'[s].pc \in {"balance", "commit"}
    BY <1>3 DEF LockAccount
  <2>2. Holds(s)'
    BY <1>0, <1>3, <2>1 DEF LockAccount
  <2> QED
    BY <1>3, <2>2, HoldsOfOne DEF LockAccount
<1>4. CASE Debit(s) \/ PauseForCredit(s)
  <2>0. tx[s].pc = "balance" /\ tx[s] \in Transactions /\ UNCHANGED locks
    BY <1>4 DEF Debit, PauseForCredit
  <2>1. /\ tx'[s].op = tx[s].op /\ UNCHANGED <<leadLock, orderLock, accountLock>>
        /\ tx'[s].pc = IF tx[s].op = "buy" THEN "commit" ELSE "scan"
    BY <1>4, <2>0 DEF Debit, PauseForCredit, Transactions, locks
  <2>2. tx[s].op # "buy" => tx[s].op = "allocate"
    BY <2>0 DEF Transactions
  <2>3. Holds(s)'
    BY <1>0, <2>0, <2>1, <2>2
  <2> QED
    BY <1>4, <2>3, HoldsOfOne DEF Debit, PauseForCredit, locks
<1>5. CASE End(s)
  BY <1>5, HoldsEnd
<1> QED
  BY <1>1, <1>2, <1>3, <1>4, <1>5
     DEF SessionStep, LeadGone, BuyInsufficient, CommitBuy, CommitAllocated, CommitUnsold, CommitRefund

LEMMA HoldsNext == IInv /\ LocksExplained /\ [Next]_vars => LocksExplained'
<1> SUFFICES ASSUME IInv, LocksExplained, [Next]_vars PROVE LocksExplained'
  OBVIOUS
<1>1. ASSUME NEW s \in Sessions, SessionStep(s) PROVE LocksExplained'
  BY <1>1, HoldsSession
<1>2. ASSUME NEW s \in Sessions, Request(s) PROVE LocksExplained'
  BY <1>2, HoldsRequest
<1>3. ASSUME NEW s \in Sessions, Failure(s) PROVE LocksExplained'
  BY <1>3, FailureIs, HoldsEnd DEF HookFails, Crash, IInv
<1>4. CASE UNCHANGED <<tx, locks>>
  BY <1>4, HoldsQuiet
<1> QED
  BY <1>1, <1>2, <1>3, <1>4
     DEF Next, vars, OwnerStep, CreateStandingOrder, UpdateStandingOrder, ResumeStandingOrder,
         PauseStandingOrder, DeleteStandingOrder, WriteOrder, LeadStep, SweepLeads, Grow, AdminDeleteLead,
         RejectRefund, RequestRefund, AccountStep, Moderate, TopUp, AdminAdjust, Fund

(* Only an allocation waits with a lock another waits for, so purchases    *)
(* off the board and refund decisions are never in a cycle of waits        *)
(* (buyLead, approveRefund).                                               *)
THEOREM DeadlocksAreAllocations == Spec => []OnlyAllocationsDeadlock
<1>1. Init => LocksExplained
  BY MarketAssumption DEF Init, LocksExplained, Holds, HoldsLead, HoldsOrder, HoldsAccount
<1>2. IInv /\ LocksExplained => OnlyAllocationsDeadlock
  <2> SUFFICES ASSUME IInv, LocksExplained, NEW s \in Sessions, InCycle(s)
               PROVE  tx[s].op = "allocate"
    BY DEF OnlyAllocationsDeadlock
  <2>1. PICK C \in SUBSET Sessions :
          s \in C /\ \A a \in C : (\E b \in C \ {a} : Waits(a, b)) /\ (\E b \in C \ {a} : Waits(b, a))
    BY DEF InCycle
  <2> USE DEF IInv, TypeOK, Shape, LocksExplained, Holds, HoldsLead, HoldsOrder, HoldsAccount, Begun
  <2>2. ASSUME NEW a \in C, NEW b \in C, Waits(a, b)
        PROVE  /\ tx[b].pc \notin {"idle", "lead"}
               /\ \/ tx[b].op = "allocate"
                  \/ tx[a].pc = "lead" /\ tx[b].op = "buy"
                  \/ tx[b].pc \in {"balance", "commit"}
    <3>1. a \in Sessions /\ b \in Sessions /\ tx[a] \in Transactions
      OBVIOUS
    <3>2. CASE tx[a].pc = "lead" /\ leadLock[tx[a].lead] = b
      <4>1. tx[a].lead \in Leads
        BY <3>1, <3>2
      <4> QED
        BY <3>1, <3>2, <4>1
    <3>3. CASE tx[a].pc = "account" /\ accountLock[tx[a].user] = b
      <4>1. tx[a].user \in Users
        BY <3>1, <3>3
      <4> QED
        BY <3>1, <3>3, <4>1
    <3>4. CASE \E o \in Orders : orderLock[o] = b
      BY <3>1, <3>4
    <3> QED
      BY <2>2, <3>2, <3>3, <3>4 DEF Waits
  <2>3. ASSUME NEW a \in C PROVE tx[a].pc \in {"account", "scan"}
    <3>1. \E b \in C : Waits(a, b)
      BY <2>1
    <3>2. tx[a].pc # "lead"
      BY <2>1, <2>2
    <3> QED
      BY <3>1, <3>2 DEF Waits
  <2>4. PICK b \in C : Waits(b, s)
    BY <2>1
  <2> QED
    BY <2>1, <2>2, <2>3, <2>4
<1> QED
  BY <1>1, <1>2, HoldsNext, Invariant, PTL DEF Spec

-----------------------------------------------------------------------------
(* The books.  What an account paid and was given back, by any state of    *)
(* the purchases P and the reports R.                                      *)

PriceOf(P) == [l \in Leads |-> P[l].price]
Bought(P, u) == {l \in Leads : P[l].buyer = u}
Returned(P, R, u) == {l \in Bought(P, u) : R[l] = "approved"}
Paid(P, u) == SumFunctionOnSet(PriceOf(P), Bought(P, u))
GivenBack(P, R, u) == SumFunctionOnSet(PriceOf(P), Returned(P, R, u))

SoldLeads == {l \in Leads : purchase[l] # NoPurchase}

(* Only finitely many leads were ever sold, so the sums mean something.    *)
BooksTrue == IsFiniteSet(SoldLeads) /\ BooksBalance

LEMMA BalanceIs ==
  /\ BooksBalance <=> \A u \in Users : balance[u] = funded[u] - Paid(purchase, u) + GivenBack(purchase, refund, u)
  /\ BooksBalance' <=> \A u \in Users :
       balance'[u] = funded'[u] - Paid(purchase', u) + GivenBack(purchase', refund', u)
BY DEF BooksBalance, PricesPaid, Paid, GivenBack, Bought, Returned, PriceOf

(* One more purchase, of lead k: P becomes Q.                              *)
OneMore(P, Q, R, k, u) ==
  /\ P[k].buyer # u /\ R[k] # "approved"
  /\ \A l \in Leads : P[l].price \in Int
  /\ Q[k].price \in Int
  /\ \A l \in Leads \ {k} : Q[l] = P[l]
  /\ IsFiniteSet(Bought(P, u))

Share(P, k, u) == IF P[k].buyer = u THEN P[k].price ELSE 0

LEMMA OnePurchase ==
  ASSUME NEW k \in Leads, NEW u, NEW P, NEW Q, NEW R, OneMore(P, Q, R, k, u)
  PROVE  Paid(Q, u) = Paid(P, u) + Share(Q, k, u) /\ GivenBack(Q, R, u) = GivenBack(P, R, u)
<1> USE DEF OneMore, Share
<1>1. k \notin Bought(P, u) /\ Returned(Q, R, u) = Returned(P, R, u)
      /\ Bought(Q, u) = IF Q[k].buyer = u THEN Bought(P, u) \cup {k} ELSE Bought(P, u)
  BY DEF Bought, Returned
<1>2. IsFiniteSet(Returned(P, R, u)) /\ IsFiniteSet(Bought(Q, u))
  BY <1>1, FS_Subset, FS_AddElement DEF Returned
<1>3. /\ \A l \in Bought(P, u) : PriceOf(Q)[l] = PriceOf(P)[l] /\ PriceOf(P)[l] \in Int
      /\ \A l \in Returned(P, R, u) : PriceOf(Q)[l] = PriceOf(P)[l]
      /\ \A l \in Bought(Q, u) : PriceOf(Q)[l] \in Int
      /\ PriceOf(Q)[k] = Q[k].price
  BY <1>1 DEF PriceOf, Bought, Returned
<1>4. SumFunctionOnSet(PriceOf(Q), Returned(P, R, u)) = SumFunctionOnSet(PriceOf(P), Returned(P, R, u))
  BY <1>2, <1>3, SumSame
<1>5. SumFunctionOnSet(PriceOf(Q), Bought(P, u)) = SumFunctionOnSet(PriceOf(P), Bought(P, u))
  BY <1>3, SumSame
<1>6. SumFunctionOnSet(PriceOf(P), Bought(P, u)) \in Int
  BY <1>3, SumInt
<1>7. CASE Q[k].buyer = u
  <2>1. k \in Bought(Q, u) /\ Bought(Q, u) \ {k} = Bought(P, u)
    BY <1>1, <1>7
  <2>2. SumFunctionOnSet(PriceOf(Q), Bought(Q, u)) = Q[k].price + SumFunctionOnSet(PriceOf(Q), Bought(P, u))
    BY <1>2, <1>3, <2>1, SumWithout
  <2> QED
    BY <1>1, <1>4, <1>5, <1>6, <1>7, <2>2 DEF Paid, GivenBack
<1>8. CASE Q[k].buyer # u
  BY <1>1, <1>4, <1>5, <1>6, <1>8 DEF Paid, GivenBack
<1> QED
  BY <1>7, <1>8

(* One more report approved, on lead k: R becomes Q.                       *)
OneBack(P, R, Q, k, u) ==
  /\ R[k] # "approved" /\ Q[k] = "approved"
  /\ \A l \in Leads : P[l].price \in Int
  /\ \A l \in Leads \ {k} : Q[l] = R[l]
  /\ IsFiniteSet(Bought(P, u))

LEMMA OneReturn ==
  ASSUME NEW k \in Leads, NEW u, NEW P, NEW R, NEW Q, OneBack(P, R, Q, k, u)
  PROVE  GivenBack(P, Q, u) = GivenBack(P, R, u) + Share(P, k, u)
<1> USE DEF OneBack, Share
<1>1. k \notin Returned(P, R, u)
      /\ Returned(P, Q, u) = IF P[k].buyer = u THEN Returned(P, R, u) \cup {k} ELSE Returned(P, R, u)
  BY DEF Bought, Returned
<1>2. IsFiniteSet(Returned(P, R, u)) /\ IsFiniteSet(Returned(P, Q, u))
  BY FS_Subset DEF Returned
<1>3. /\ \A l \in Returned(P, R, u) \cup Returned(P, Q, u) : PriceOf(P)[l] \in Int
      /\ PriceOf(P)[k] = P[k].price
  BY DEF PriceOf, Bought, Returned
<1>4. SumFunctionOnSet(PriceOf(P), Returned(P, R, u)) \in Int
  BY <1>2, <1>3, SumInt
<1>5. CASE P[k].buyer = u
  <2>1. k \in Returned(P, Q, u) /\ Returned(P, Q, u) \ {k} = Returned(P, R, u)
    BY <1>1, <1>5
  <2>2. SumFunctionOnSet(PriceOf(P), Returned(P, Q, u)) = P[k].price + SumFunctionOnSet(PriceOf(P), Returned(P, R, u))
    BY <1>2, <1>3, <2>1, SumWithout
  <2> QED
    BY <1>3, <1>4, <1>5, <2>2 DEF GivenBack
<1>6. CASE P[k].buyer # u
  BY <1>1, <1>4, <1>6 DEF GivenBack
<1> QED
  BY <1>5, <1>6

(* A purchase names its buyer, so what an account bought is among the sold. *)
LEMMA BoughtFacts ==
  ASSUME IInv, BooksTrue, NEW u \in Users
  PROVE  /\ IsFiniteSet(Bought(purchase, u)) /\ IsFiniteSet(Returned(purchase, refund, u))
         /\ \A l \in Leads : purchase[l].price \in Int
         /\ Paid(purchase, u) \in Int /\ GivenBack(purchase, refund, u) \in Int
         /\ balance[u] \in Int /\ funded[u] \in Int
         /\ balance[u] = funded[u] - Paid(purchase, u) + GivenBack(purchase, refund, u)
<1>1. u # "none"
  BY MarketAssumption
<1>2. Bought(purchase, u) \in SUBSET SoldLeads /\ Returned(purchase, refund, u) \in SUBSET Bought(purchase, u)
  BY <1>1 DEF Bought, Returned, SoldLeads, NoPurchase
<1>3. IsFiniteSet(Bought(purchase, u)) /\ IsFiniteSet(Returned(purchase, refund, u))
  BY <1>2, FS_Subset DEF BooksTrue
<1>4. \A l \in Leads : purchase[l].price \in Int
  BY DEF IInv, TypeOK
<1>5. /\ \A l \in Bought(purchase, u) : PriceOf(purchase)[l] \in Int
      /\ \A l \in Returned(purchase, refund, u) : PriceOf(purchase)[l] \in Int
  BY <1>4 DEF PriceOf, Bought, Returned
<1>6. Paid(purchase, u) \in Int /\ GivenBack(purchase, refund, u) \in Int
  BY <1>3, <1>5, SumInt DEF Paid, GivenBack
<1> QED
  BY <1>3, <1>4, <1>6, BalanceIs DEF IInv, TypeOK, BooksTrue

(* No sale, no decision: what moves is credit given to an account, if any. *)
LEMMA BooksCredit ==
  ASSUME IInv, BooksTrue, UNCHANGED purchase,
         \A l \in Leads : refund'[l] = "approved" <=> refund[l] = "approved",
         \A u \in Users : /\ balance'[u] \in Int /\ funded'[u] \in Int
                          /\ balance'[u] - funded'[u] = balance[u] - funded[u]
  PROVE  BooksTrue'
<1>1. SoldLeads' = SoldLeads
  BY DEF SoldLeads
<1>2. ASSUME NEW u \in Users
      PROVE  balance'[u] = funded'[u] - Paid(purchase', u) + GivenBack(purchase', refund', u)
  <2>1. Returned(purchase, refund', u) = Returned(purchase, refund, u)
    BY DEF Returned, Bought
  <2>2. GivenBack(purchase', refund', u) = GivenBack(purchase, refund, u) /\ Paid(purchase', u) = Paid(purchase, u)
    BY <2>1 DEF GivenBack
  <2>3. /\ balance[u] = funded[u] - Paid(purchase, u) + GivenBack(purchase, refund, u)
        /\ Paid(purchase, u) \in Int /\ GivenBack(purchase, refund, u) \in Int
        /\ balance[u] \in Int /\ funded[u] \in Int
    BY BoughtFacts
  <2>4. balance'[u] \in Int /\ funded'[u] \in Int /\ balance'[u] - funded'[u] = balance[u] - funded[u]
    OBVIOUS
  <2>5. purchase' = purchase
    OBVIOUS
  <2>6. PICK x, y : x = Paid(purchase, u) /\ y = GivenBack(purchase, refund, u)
    OBVIOUS
  <2>7. Paid(purchase', u) = x
    BY <2>2, <2>6
  <2>8. GivenBack(purchase', refund', u) = y
    BY <2>2, <2>5, <2>6
  <2>9. balance'[u] = funded'[u] - x + y
    BY <2>3, <2>4, <2>6
  <2> QED
    BY <2>7, <2>8, <2>9
<1> QED
  BY <1>1, <1>2, BalanceIs DEF BooksTrue

LEMMA BooksUntouched ==
  ASSUME IInv, BooksTrue, UNCHANGED <<purchase, refund, balance, funded>>
  PROVE  BooksTrue'
BY BooksCredit DEF IInv, TypeOK

(* A sale adds one lead to what its buyer bought, and debits its price.    *)
LEMMA BooksSale ==
  ASSUME IInv, BooksTrue, NEW s \in Sessions, tx[s].sold, RecordSale(s), UNCHANGED <<refund, funded>>
  PROVE  BooksTrue'
<1>0. PICK k, b, p : k = tx[s].lead /\ b = tx[s].user /\ p = tx[s].price
  OBVIOUS
<1>1. /\ k \in Leads /\ b \in Users /\ p \in Int /\ purchase[k] = NoPurchase /\ refund[k] = "none"
      /\ purchase'[k].buyer = b /\ purchase'[k].price = p /\ purchase'[k] # NoPurchase
      /\ \A l \in Leads \ {k} : purchase'[l] = purchase[l]
      /\ balance'[b] = balance[b] - p /\ \A u \in Users \ {b} : balance'[u] = balance[u]
  <2>1. k \in Leads /\ b \in Users /\ p \in Int /\ purchase[k] = NoPurchase /\ b # "none"
    BY <1>0, SaleFacts, MarketAssumption
  <2> QED
    BY <1>0, <2>1 DEF RecordSale, IInv, TypeOK, SalesRecorded, NoPurchase
<1>2. IsFiniteSet(SoldLeads')
  <2>1. SoldLeads' = SoldLeads \cup {k}
    BY <1>1 DEF SoldLeads
  <2> QED
    BY <2>1, FS_AddElement DEF BooksTrue
<1>3. ASSUME NEW u \in Users
      PROVE  balance'[u] = funded'[u] - Paid(purchase', u) + GivenBack(purchase', refund', u)
  <2>1. purchase[k].buyer # u
    BY <1>1, MarketAssumption DEF NoPurchase
  <2>2. OneMore(purchase, purchase', refund, k, u)
    <3>1. IsFiniteSet(Bought(purchase, u)) /\ \A l \in Leads : purchase[l].price \in Int
      BY BoughtFacts
    <3> QED
      BY <1>1, <2>1, <3>1 DEF OneMore
  <2>3. PICK P, Q, R : P = purchase /\ Q = purchase' /\ R = refund
    OBVIOUS
  <2>4. Paid(Q, u) = Paid(P, u) + Share(Q, k, u) /\ GivenBack(Q, R, u) = GivenBack(P, R, u)
    <3>1. k \in Leads /\ OneMore(P, Q, R, k, u)
      BY <1>1, <2>2, <2>3
    <3> QED
      BY ONLY <3>1, OnePurchase
  <2>5. PICK x, y : x = Paid(purchase, u) /\ y = GivenBack(purchase, refund, u)
    OBVIOUS
  <2>6. x \in Int /\ y \in Int /\ balance[u] \in Int /\ funded[u] \in Int /\ balance[u] = funded[u] - x + y
    BY <2>5, BoughtFacts
  <2>7. Share(Q, k, u) = IF b = u THEN p ELSE 0
    BY <1>1, <2>3 DEF Share
  <2>8. Paid(purchase', u) = x + (IF b = u THEN p ELSE 0)
    BY <2>3, <2>4, <2>5, <2>7
  <2>9. GivenBack(purchase', refund', u) = y
    BY <2>3, <2>4, <2>5
  <2>10. balance'[u] = funded'[u] - (x + (IF b = u THEN p ELSE 0)) + y
    BY <1>1, <2>6
  <2> QED
    BY <2>8, <2>9, <2>10
<1> QED
  BY <1>2, <1>3, BalanceIs DEF BooksTrue

(* A report approved gives its buyer back what the lead cost.              *)
LEMMA BooksRefund ==
  ASSUME IInv, BooksTrue, NEW s \in Sessions, CommitRefund(s)
  PROVE  BooksTrue'
<1>0. PICK k, b, p : k = tx[s].lead /\ b = tx[s].user /\ p = tx[s].price
  OBVIOUS
<1>1. /\ k \in Leads /\ b \in Users /\ purchase[k].buyer = b /\ purchase[k].price = p
      /\ refund[k] = "pending" /\ refund'[k] = "approved"
      /\ \A l \in Leads \ {k} : refund'[l] = refund[l]
      /\ balance'[b] = balance[b] + p /\ \A u \in Users \ {b} : balance'[u] = balance[u]
      /\ UNCHANGED <<purchase, funded>>
  <2>1. /\ k \in Leads /\ b \in Users /\ refund[k] = "pending"
        /\ purchase[k].buyer = b /\ purchase[k].price = p
    BY <1>0 DEF CommitRefund, IInv, Shape, RefundHeld
  <2>2. k \notin refundRows
    BY <2>1 DEF IInv, SalesRecorded
  <2> QED
    BY <1>0, <2>1, <2>2 DEF CommitRefund, IInv, TypeOK, history
<1>2. ASSUME NEW u \in Users
      PROVE  balance'[u] = funded'[u] - Paid(purchase', u) + GivenBack(purchase', refund', u)
  <2>1. OneBack(purchase, refund, refund', k, u)
    <3>1. IsFiniteSet(Bought(purchase, u)) /\ \A l \in Leads : purchase[l].price \in Int
      BY BoughtFacts
    <3> QED
      BY <1>1, <3>1 DEF OneBack
  <2>2. PICK P, R, Q : P = purchase /\ R = refund /\ Q = refund'
    OBVIOUS
  <2>3. GivenBack(P, Q, u) = GivenBack(P, R, u) + Share(P, k, u)
    <3>1. k \in Leads /\ OneBack(P, R, Q, k, u)
      BY <1>1, <2>1, <2>2
    <3> QED
      BY ONLY <3>1, OneReturn
  <2>4. PICK x, y : x = Paid(purchase, u) /\ y = GivenBack(purchase, refund, u)
    OBVIOUS
  <2>5. x \in Int /\ y \in Int /\ balance[u] \in Int /\ funded[u] \in Int /\ balance[u] = funded[u] - x + y
    BY <2>4, BoughtFacts
  <2>6. Share(P, k, u) = IF b = u THEN p ELSE 0
    BY <1>1, <2>2 DEF Share
  <2>7. Paid(purchase', u) = x
    BY <1>1, <2>4
  <2>8. GivenBack(purchase', refund', u) = y + (IF b = u THEN p ELSE 0)
    BY <1>1, <2>2, <2>3, <2>4, <2>6
  <2>9. p \in Int
    BY <1>1, BoughtFacts
  <2>10. balance'[u] = funded'[u] - x + (y + (IF b = u THEN p ELSE 0))
    BY <1>1, <2>5, <2>9
  <2> QED
    BY <2>7, <2>8, <2>10
<1>3. IsFiniteSet(SoldLeads')
  BY <1>1 DEF BooksTrue, SoldLeads
<1> QED
  BY <1>2, <1>3, BalanceIs DEF BooksTrue

LEMMA BooksSession ==
  ASSUME IInv, BooksTrue, NEW s \in Sessions, SessionStep(s)
  PROVE  BooksTrue'
<1>1. CASE CommitBuy(s)
  <2>1. tx[s].sold
    BY <1>1 DEF CommitBuy, IInv, Shape
  <2> QED
    BY <1>1, <2>1, BooksSale DEF CommitBuy, history
<1>2. CASE CommitAllocated(s)
  BY <1>2, BooksSale DEF CommitAllocated, history
<1>3. CASE CommitRefund(s)
  BY <1>3, BooksRefund
<1>4. CASE CommitUnsold(s)
  BY <1>4, BooksUntouched DEF CommitUnsold, history
<1>5. CASE UNCHANGED <<market, history>>
  BY <1>5, BooksUntouched DEF market, history
<1> QED
  BY <1>1, <1>2, <1>3, <1>4, <1>5
     DEF SessionStep, LockOpenLead, LeadGone, LockCandidate, TryCandidate, PassOver, LockAccount, Debit,
         BuyInsufficient, PauseForCredit

LEMMA BooksNext == IInv /\ BooksTrue /\ [Next]_vars => BooksTrue'
<1> SUFFICES ASSUME IInv, BooksTrue, [Next]_vars PROVE BooksTrue'
  OBVIOUS
<1>1. ASSUME NEW s \in Sessions, SessionStep(s) PROVE BooksTrue'
  BY <1>1, BooksSession
<1>2. ASSUME NEW s \in Sessions, Request(s) PROVE BooksTrue'
  BY <1>2, BooksUntouched DEF Request, CreateLead, RetryLead, ApproveRefund, BuyLead, market, history
<1>3. ASSUME NEW s \in Sessions, Failure(s) PROVE BooksTrue'
  BY <1>3, FailureIs, BooksUntouched DEF HookFails, Crash, market, history
<1>4. CASE OwnerStep
  BY <1>4, BooksUntouched
     DEF OwnerStep, CreateStandingOrder, UpdateStandingOrder, ResumeStandingOrder, PauseStandingOrder,
         DeleteStandingOrder, WriteOrder
<1>5. CASE LeadStep
  <2>1. ASSUME NEW l \in Leads, RejectRefund(l) \/ \E u \in Users : RequestRefund(u, l)
        PROVE  BooksTrue'
    <3>1. /\ UNCHANGED <<purchase, balance, funded>>
          /\ \A m \in Leads : refund'[m] = "approved" <=> refund[m] = "approved"
      BY <2>1 DEF RejectRefund, RequestRefund, IInv, TypeOK, history
    <3> QED
      BY <3>1, BooksCredit DEF IInv, TypeOK
  <2>2. CASE UNCHANGED <<purchase, refund, balance, funded>>
    BY <2>2, BooksUntouched
  <2> QED
    BY <1>5, <2>1, <2>2 DEF LeadStep, SweepLeads, Grow, AdminDeleteLead, history
<1>6. CASE AccountStep
  <2>1. ASSUME NEW u \in Users, NEW c \in Int, Fund(u, c) PROVE BooksTrue'
    <3>1. /\ UNCHANGED <<purchase, refund>>
          /\ \A v \in Users : balance'[v] = IF v = u THEN balance[u] + c ELSE balance[v]
          /\ \A v \in Users : funded'[v] = IF v = u THEN funded[u] + c ELSE funded[v]
          /\ \A v \in Users : balance[v] \in Int /\ funded[v] \in Int
      BY <2>1 DEF Fund, IInv, TypeOK
    <3>2. \A v \in Users : /\ balance'[v] \in Int /\ funded'[v] \in Int
                           /\ balance'[v] - funded'[v] = balance[v] - funded[v]
      BY <3>1
    <3> QED
      BY <3>1, <3>2, BooksCredit
  <2>2. ASSUME NEW u \in Users, Moderate(u) PROVE BooksTrue'
    BY <2>2, BooksUntouched DEF Moderate
  <2>3. Packs \subseteq Int /\ Corrections \subseteq Int
    BY MarketAssumption
  <2> QED
    BY <1>6, <2>1, <2>2, <2>3 DEF AccountStep, TopUp, AdminAdjust
<1>7. CASE UNCHANGED vars
  BY <1>7, BooksUntouched DEF vars, market, history
<1> QED
  BY <1>1, <1>2, <1>3, <1>4, <1>5, <1>6, <1>7 DEF Next

(* Every purchase is debited once and every approved report credited once, *)
(* to the account and at the price on the purchase (recordSale,            *)
(* refundToCredit): the ledger explains every balance.                     *)
THEOREM LedgerExplainsBalances == Spec => []BooksBalance
<1>1. Init => BooksTrue
  <2> SUFFICES ASSUME Init PROVE BooksTrue
    OBVIOUS
  <2>1. SoldLeads = {}
    BY DEF Init, SoldLeads
  <2>2. \A u \in Users : Bought(purchase, u) = {} /\ Returned(purchase, refund, u) = {}
    BY MarketAssumption DEF Init, Bought, Returned, NoPurchase
  <2>3. \A u \in Users : Paid(purchase, u) = 0 /\ GivenBack(purchase, refund, u) = 0
    BY <2>2, SumEmpty DEF Paid, GivenBack
  <2>4. \A u \in Users : balance[u] = 0 /\ funded[u] = 0
    BY DEF Init
  <2> QED
    BY <2>1, <2>3, <2>4, BalanceIs, FS_EmptySet DEF BooksTrue
<1>2. BooksTrue => BooksBalance
  BY DEF BooksTrue
<1> QED
  BY <1>1, <1>2, BooksNext, Invariant, PTL DEF Spec

-----------------------------------------------------------------------------
LEMMA StageByStatus ==
  ASSUME NEW l
  PROVE  /\ lead[l].status = "absent" => Stage(l) = "absent"
         /\ lead[l].status = "open" => Stage(l) = "listed"
         /\ lead[l].status = "sold" => Stage(l) = "sold"
         /\ lead[l].status \notin {"absent", "open", "sold"} => Stage(l) = "withdrawn"
  BY DEF Stage

LEMMA NextStageByStatus ==
  ASSUME NEW l
  PROVE  /\ lead'[l].status = "open" => Stage(l)' = "listed"
         /\ lead'[l].status = "sold" => Stage(l)' = "sold"
         /\ lead'[l].status \notin {"absent", "open", "sold"} => Stage(l)' = "withdrawn"
         /\ lead'[l].status = lead[l].status => Stage(l)' = Stage(l)
  BY DEF Stage

(* Nothing the ideal market sees has changed.                              *)
LEMMA IdealStutter ==
  ASSUME UNCHANGED <<lead, purchase, refundRows, balance>>
  PROVE  UNCHANGED Ideal!idealVars
  BY DEF Ideal!idealVars, Stage

LEMMA IdealInit ==
  ASSUME Init
  PROVE  Ideal!Init
  BY StageByStatus DEF Init, Ideal!Init, Ideal!NoSale, NoPurchase

LEMMA IdealList ==
  ASSUME IInv, NEW s \in Sessions, tx[s].creates, lead' = [lead EXCEPT ![tx[s].lead] = OpenRow],
         UNCHANGED <<purchase, refundRows, balance>>
  PROVE  Ideal!Next
<1>0. PICK k : k = tx[s].lead
  OBVIOUS
<1>1. k \in Leads /\ lead[k].status = "absent" /\ TypeOK
  <2>1. tx[s].op = "allocate" /\ tx[s].pc # "lead" /\ tx[s].pc # "idle"
    BY DEF IInv, Shape
  <2> QED
    BY <1>0, <2>1 DEF IInv, Shape, LeadHeld
<1>2. lead'[k].status = "open" /\ \A l \in Leads \ {k} : lead'[l] = lead[l]
  BY <1>0, <1>1 DEF TypeOK, OpenRow
<1>3. Stage(k) = "absent" /\ Stage(k)' = "listed" /\ \A l \in Leads \ {k} : Stage(l)' = Stage(l)
  BY <1>1, <1>2, StageByStatus, NextStageByStatus
<1>4. [l \in Leads |-> Stage(l)]' = [[l \in Leads |-> Stage(l)] EXCEPT ![k] = "listed"]
  BY <1>1, <1>3
<1>5. Ideal!List(k)
  BY <1>1, <1>3, <1>4 DEF Ideal!List
<1> QED
  BY <1>1, <1>5 DEF Ideal!Next

LEMMA IdealSell ==
  ASSUME IInv, NEW s \in Sessions, tx[s].sold, RecordSale(s), UNCHANGED refundRows
  PROVE  Ideal!Next
<1>0. PICK k, u, p : k = tx[s].lead /\ u = tx[s].user /\ p = tx[s].price
  OBVIOUS
<1>1. /\ TypeOK /\ k \in Leads /\ u \in Users /\ p \in SalePrices /\ p > 0 /\ balance[u] >= p
      /\ lead[k].status \in {"absent", "open"}
  <2>1. tx[s].op \in {"buy", "allocate"} /\ tx[s].pc # "lead"
    BY DEF IInv, Shape
  <2> QED
    BY <1>0, <2>1, SaleFacts DEF IInv, LeadHeld
<1>2. /\ lead'[k].status = "sold" /\ \A l \in Leads \ {k} : lead'[l] = lead[l]
      /\ purchase'[k].buyer = u /\ purchase'[k].price = p
      /\ \A l \in Leads \ {k} : purchase'[l] = purchase[l]
      /\ balance' = [balance EXCEPT ![u] = @ - p]
  BY <1>0, <1>1 DEF RecordSale, TypeOK
<1>3. Stage(k) \in {"absent", "listed"} /\ Stage(k)' = "sold" /\ \A l \in Leads \ {k} : Stage(l)' = Stage(l)
  BY <1>1, <1>2, StageByStatus, NextStageByStatus
<1>4. [l \in Leads |-> Stage(l)]' = [[l \in Leads |-> Stage(l)] EXCEPT ![k] = "sold"]
  BY <1>1, <1>3
<1>5. [l \in Leads |-> [buyer |-> purchase[l].buyer, price |-> purchase[l].price]]'
        = [[l \in Leads |-> [buyer |-> purchase[l].buyer, price |-> purchase[l].price]]
             EXCEPT ![k] = [buyer |-> u, price |-> p]]
  BY <1>1, <1>2
<1>6. Ideal!Sell(k, u, p)
  BY <1>1, <1>2, <1>3, <1>4, <1>5 DEF Ideal!Sell
<1> QED
  BY <1>1, <1>6 DEF Ideal!Next

LEMMA IdealGiveBack ==
  ASSUME IInv, NEW s \in Sessions, CommitRefund(s)
  PROVE  Ideal!Next
<1>0. PICK k : k = tx[s].lead
  OBVIOUS
<1>1. /\ TypeOK /\ k \in Leads /\ refund[k] = "pending"
      /\ purchase[k].buyer = tx[s].user /\ purchase[k].price = tx[s].price
  BY <1>0 DEF IInv, CommitRefund, Shape, RefundHeld
<1>2. lead[k].status = "sold" /\ k \notin refundRows
  BY <1>1 DEF IInv, SalesRecorded, SoldIffPurchased
<1>3. Ideal!GiveBack(k)
  BY <1>0, <1>1, <1>2 DEF CommitRefund, Ideal!GiveBack, Stage
<1> QED
  BY <1>1, <1>3 DEF Ideal!Next

LEMMA IdealWithdraw ==
  ASSUME IInv, UNCHANGED <<purchase, refundRows, balance>>,
         \A l \in Leads : \/ lead'[l].status = lead[l].status
                          \/ /\ lead[l].status \notin {"absent", "sold"}
                             /\ lead'[l].status \notin {"absent", "open", "sold"}
  PROVE  Ideal!Next
<1> DEFINE S == {l \in Leads : Stage(l) = "listed" /\ Stage(l)' # "listed"}
<1>1. \A l \in S : Stage(l)' = "withdrawn"
  BY DEF Stage
<1>2. \A l \in Leads \ S : Stage(l)' = Stage(l)
  BY DEF Stage
<1>3. Ideal!Withdraw(S)
  BY <1>1, <1>2 DEF Ideal!Withdraw
<1> QED
  BY <1>3 DEF Ideal!Next

LEMMA IdealFund ==
  ASSUME IInv, NEW u \in Users, NEW c \in Packs \cup Corrections, Fund(u, c), balance[u] + c >= 0
  PROVE  Ideal!Next
<1>1. Ideal!Fund(u, c)
  BY DEF Fund, Ideal!Fund, Stage
<1> QED
  BY <1>1 DEF Ideal!Next

-----------------------------------------------------------------------------

LEMMA IdealSessionStep ==
  ASSUME IInv, NEW s \in Sessions, SessionStep(s)
  PROVE  Ideal!Next \/ UNCHANGED Ideal!idealVars
<1>1. CASE LockOpenLead(s) \/ LeadGone(s) \/ LockAccount(s) \/ Debit(s)
  BY <1>1, IdealStutter DEF LockOpenLead, LeadGone, LockAccount, Debit, market
<1>2. CASE BuyInsufficient(s) \/ PauseForCredit(s)
  BY <1>2, IdealStutter DEF BuyInsufficient, PauseForCredit, market
<1>3. ASSUME NEW o \in Orders, LockCandidate(s, o) \/ TryCandidate(s, o) \/ PassOver(s, o)
      PROVE  UNCHANGED Ideal!idealVars
  BY <1>3, IdealStutter DEF LockCandidate, TryCandidate, PassOver, market
<1>4. CASE CommitBuy(s)
  BY <1>4, IdealSell DEF CommitBuy, IInv, Shape
<1>5. CASE CommitAllocated(s)
  BY <1>5, IdealSell DEF CommitAllocated
<1>6. CASE CommitUnsold(s)
  BY <1>6, IdealList, IdealStutter DEF CommitUnsold
<1>7. CASE CommitRefund(s)
  BY <1>7, IdealGiveBack
<1> QED
  BY <1>1, <1>2, <1>3, <1>4, <1>5, <1>6, <1>7 DEF SessionStep

LEMMA IdealLeadStep ==
  ASSUME IInv, LeadStep
  PROVE  Ideal!Next \/ UNCHANGED Ideal!idealVars
<1>r. TypeOK /\ \A l \in Leads : lead[l] \in [status : LeadStatus, age : Ages, purged : BOOLEAN]
  BY DEF IInv, TypeOK
<1>1. CASE SweepLeads
  <2>1. ASSUME NEW l \in Leads
        PROVE  \/ lead'[l].status = lead[l].status
               \/ lead[l].status \notin {"absent", "sold"} /\ lead'[l].status \in {"removed", "expired"}
    <3>1. lead'[l] = IF Removable(l) THEN [lead[l] EXCEPT !.status = "removed"]
                     ELSE IF Expiring(l) THEN [lead[l] EXCEPT !.status = "expired"]
                     ELSE IF Purgeable(l) THEN [lead[l] EXCEPT !.purged = TRUE]
                     ELSE lead[l]
      BY <1>1 DEF SweepLeads
    <3>2. Removable(l) \/ Expiring(l) => lead[l].status \notin {"absent", "sold"}
      BY DEF Removable, Expiring
    <3> QED
      BY <1>r, <3>1, <3>2
  <2> QED
    BY <1>1, <2>1, IdealWithdraw DEF SweepLeads
<1>2. ASSUME NEW l \in Leads, Grow(l) PROVE Ideal!Next
  <2>1. \A k \in Leads : lead'[k].status = lead[k].status
    BY <1>r, <1>2 DEF Grow, TypeOK
  <2> QED
    BY <1>2, <2>1, IdealWithdraw DEF Grow
<1>3. ASSUME NEW l \in Leads, AdminDeleteLead(l) PROVE Ideal!Next
  <2>1. lead'[l].status = "deleted" /\ \A k \in Leads \ {l} : lead'[k] = lead[k]
    BY <1>r, <1>3 DEF AdminDeleteLead, TypeOK
  <2> QED
    BY <1>3, <2>1, IdealWithdraw DEF AdminDeleteLead
<1>4. ASSUME NEW l \in Leads, NEW u \in Users, RejectRefund(l) \/ RequestRefund(u, l)
      PROVE  UNCHANGED Ideal!idealVars
  BY <1>4, IdealStutter DEF RejectRefund, RequestRefund
<1>5. ASSUME NEW l \in Leads, RejectRefund(l) PROVE UNCHANGED Ideal!idealVars
  BY <1>5, IdealStutter DEF RejectRefund
<1> QED
  BY <1>1, <1>2, <1>3, <1>4, <1>5 DEF LeadStep

LEMMA IdealStep ==
  ASSUME IInv, [Next]_vars
  PROVE  [Ideal!Next]_(Ideal!idealVars)
<1>1. ASSUME NEW s \in Sessions, Request(s) PROVE UNCHANGED Ideal!idealVars
  BY <1>1, IdealStutter DEF Request, CreateLead, RetryLead, ApproveRefund, BuyLead, market
<1>2. ASSUME NEW s \in Sessions, Failure(s) PROVE Ideal!Next \/ UNCHANGED Ideal!idealVars
  <2>1. CASE HookFails(s)
    BY <2>1, IdealList DEF HookFails
  <2>2. CASE Crash(s)
    BY <2>2, IdealStutter DEF Crash, market
  <2> QED
    BY <1>2, <2>1, <2>2, FailureIs
<1>3. CASE OwnerStep
  BY <1>3, IdealStutter DEF OwnerStep, CreateStandingOrder, UpdateStandingOrder, ResumeStandingOrder,
                            PauseStandingOrder, DeleteStandingOrder, WriteOrder
<1>4. CASE AccountStep
  <2>1. ASSUME NEW u \in Users, Moderate(u) PROVE UNCHANGED Ideal!idealVars
    BY <2>1, IdealStutter DEF Moderate
  <2>2. ASSUME NEW u \in Users, NEW c \in Packs, TopUp(u, c) PROVE Ideal!Next
    <3>1. c \in Int /\ c > 0 /\ balance[u] \in Int /\ balance[u] >= 0
      BY MarketAssumption DEF IInv, TypeOK, BalanceNeverNegative
    <3> QED
      BY <2>2, <3>1, IdealFund DEF TopUp
  <2>3. ASSUME NEW u \in Users, NEW c \in Corrections, AdminAdjust(u, c) PROVE Ideal!Next
    BY <2>3, IdealFund DEF AdminAdjust
  <2> QED
    BY <1>4, <2>1, <2>2, <2>3 DEF AccountStep
<1>5. CASE UNCHANGED vars
  BY <1>5, IdealStutter DEF vars, market
<1> QED
  BY <1>1, <1>2, <1>3, <1>4, <1>5, IdealSessionStep, IdealLeadStep DEF Next

(* Buyers, board, allocation, refunds and the sweep together are the ideal *)
(* market: one sale per lead, paid from credit, given back at most once.   *)
THEOREM MarketIsIdeal == Spec => ImplementsIdealMarket
<1>1. Init => Ideal!Init
  BY IdealInit
<1>2. IInv /\ [Next]_vars => [Ideal!Next]_(Ideal!idealVars)
  BY IdealStep
<1> QED
  BY <1>1, <1>2, Invariant, PTL DEF Spec, ImplementsIdealMarket, Ideal!Spec

-----------------------------------------------------------------------------

LEMMA SaleKept ==
  ASSUME IInv, [Next]_vars, NEW l \in Leads, purchase[l] # NoPurchase
  PROVE  purchase'[l] = purchase[l]
<1>1. TypeOK
  BY DEF IInv
<1>2. ASSUME NEW s \in Sessions, tx[s].sold, RecordSale(s) PROVE purchase'[l] = purchase[l]
  BY <1>1, <1>2, SaleFacts DEF RecordSale, TypeOK
<1>3. ASSUME NEW s \in Sessions, SessionStep(s) PROVE purchase'[l] = purchase[l]
  <2>1. CASE CommitBuy(s) \/ CommitAllocated(s)
    BY <1>2, <2>1 DEF CommitBuy, CommitAllocated, IInv, Shape
  <2>2. CASE ~(CommitBuy(s) \/ CommitAllocated(s))
    BY <1>3, <2>2 DEF SessionStep, LockOpenLead, LeadGone, LockCandidate, TryCandidate, PassOver, LockAccount,
                      Debit, BuyInsufficient, PauseForCredit, CommitUnsold, CommitRefund, market
  <2> QED
    BY <2>1, <2>2
<1>4. ASSUME NEW s \in Sessions, Request(s) \/ Failure(s) PROVE purchase'[l] = purchase[l]
  BY <1>4, FailureIs DEF Request, CreateLead, RetryLead, ApproveRefund, BuyLead, HookFails, Crash, market
<1>5. CASE OwnerStep
  BY <1>5 DEF OwnerStep, CreateStandingOrder, UpdateStandingOrder, ResumeStandingOrder,
              PauseStandingOrder, DeleteStandingOrder, WriteOrder
<1>6. CASE LeadStep
  BY <1>6 DEF LeadStep, SweepLeads, Grow, AdminDeleteLead, RejectRefund, RequestRefund
<1>7. CASE AccountStep
  BY <1>7 DEF AccountStep, Moderate, TopUp, AdminAdjust, Fund
<1>8. CASE UNCHANGED vars
  BY <1>8 DEF vars, market
<1> QED
  BY <1>3, <1>4, <1>5, <1>6, <1>7, <1>8 DEF Next

(* A sale, once committed, is never undone or repriced, whatever reports,  *)
(* refunds, sweeps and admin deletes follow it.                            *)
THEOREM SalesAreFinal == Spec => SaleIsFinal
<1>1. IInv /\ IInv' /\ [Next]_vars =>
        [\A l \in Leads : purchase[l] # NoPurchase =>
            purchase'[l] = purchase[l] /\ lead'[l].status = "sold"]_vars
  <2> SUFFICES ASSUME IInv, IInv', [Next]_vars, NEW l \in Leads, purchase[l] # NoPurchase
               PROVE  purchase'[l] = purchase[l] /\ lead'[l].status = "sold"
    OBVIOUS
  <2>1. purchase'[l] = purchase[l]
    BY SaleKept
  <2> QED
    BY <2>1 DEF IInv, SoldIffPurchased
<1> QED
  BY <1>1, Invariant, PTL DEF Spec, SaleIsFinal
=============================================================================
