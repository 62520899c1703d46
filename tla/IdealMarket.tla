----------------------------- MODULE IdealMarket -----------------------------
(***************************************************************************)
(* What the lead market promises, with no transactions, locks, orders or   *)
(* clocks: a lead is listed, and either sold once to an account that had   *)
(* the price in credit or withdrawn unsold; a sale is given back at most   *)
(* once, at the price paid, and never undone.  LeadMarket implements it.   *)
(***************************************************************************)
EXTENDS Integers

CONSTANTS
  Leads,
  Users,
  Amounts   \* the sums that change hands

VARIABLES
  stage,    \* of each lead: absent, listed, sold or withdrawn
  sale,     \* the buyer and the price of each lead sold
  settled,  \* the sales given back as credit
  balance   \* credit of each account

idealVars == <<stage, sale, settled, balance>>

NoSale == [buyer |-> "none", price |-> 0]

Init ==
  /\ stage = [l \in Leads |-> "absent"]
  /\ sale = [l \in Leads |-> NoSale]
  /\ settled = {}
  /\ balance = [u \in Users |-> 0]

List(l) ==
  /\ stage[l] = "absent"
  /\ stage' = [stage EXCEPT ![l] = "listed"]
  /\ UNCHANGED <<sale, settled, balance>>

(* A lead may be sold the moment it is made. *)
Sell(l, u, p) ==
  /\ stage[l] \in {"absent", "listed"}
  /\ p > 0
  /\ balance[u] >= p
  /\ stage' = [stage EXCEPT ![l] = "sold"]
  /\ sale' = [sale EXCEPT ![l] = [buyer |-> u, price |-> p]]
  /\ balance' = [balance EXCEPT ![u] = @ - p]
  /\ UNCHANGED settled

Withdraw(S) ==
  /\ \A l \in S : stage[l] = "listed"
  /\ stage' = [l \in Leads |-> IF l \in S THEN "withdrawn" ELSE stage[l]]
  /\ UNCHANGED <<sale, settled, balance>>

GiveBack(l) ==
  /\ stage[l] = "sold"
  /\ l \notin settled
  /\ settled' = settled \cup {l}
  /\ balance' = [balance EXCEPT ![sale[l].buyer] = @ + sale[l].price]
  /\ UNCHANGED <<stage, sale>>

Fund(u, c) ==
  /\ balance[u] + c >= 0
  /\ balance' = [balance EXCEPT ![u] = @ + c]
  /\ UNCHANGED <<stage, sale, settled>>

Next ==
  \/ \E l \in Leads : List(l) \/ GiveBack(l)
  \/ \E l \in Leads, u \in Users, p \in Amounts : Sell(l, u, p)
  \/ \E S \in SUBSET Leads : Withdraw(S)
  \/ \E u \in Users, c \in Amounts : Fund(u, c)

Spec == Init /\ [][Next]_idealVars
=============================================================================
