----------------------------- MODULE MCJobQueue -----------------------------
(* A small instance of JobQueue for TLC: one job goes to the owner and the *)
(* admin, the other to the admin only.                                     *)
EXTENDS JobQueue, TLC

CONSTANTS j1, j2, owner, admin, w1, w2

BothTold == (j1 :> <<owner, admin>>) @@ (j2 :> <<admin>>)
=============================================================================
