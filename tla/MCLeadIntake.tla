---------------------------- MODULE MCLeadIntake ----------------------------
(* A small instance of LeadIntake for TLC: two requests of one person.     *)
EXTENDS LeadIntake, TLC

CONSTANTS r1, r2, s1, s2, x

OnePerson == {<<r, r>> : r \in Requests} \cup {<<r1, r2>>, <<r2, r1>>}
=============================================================================
