---------------------------- MODULE MCLeadMarket ----------------------------
(* Small instances of LeadMarket for TLC. *)
EXTENDS LeadMarket, TLC

CONSTANTS u1, u2, l1, l2, s1, s2, s3

(* Two accounts, one standing order each; or one account with them all. *)
EachOwnsOne == (1 :> u1) @@ (2 :> u2)
OwnsOrders == [o \in Orders |-> u1]
OnlyLead == {{l1}}
Everything == {{l1, l2}}
TakeOne == {-1}
TakeBack == {-2}
Sym == Permutations(Sessions) \cup Permutations(Leads)
=============================================================================
