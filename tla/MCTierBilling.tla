--------------------------- MODULE MCTierBilling ---------------------------
(* A small instance of TierBilling for TLC: one subscription's charges     *)
(* leave out the next billing time, and the other's name it alone.         *)
EXTENDS TierBilling

CONSTANTS s1, s2

Notices == {"ACTIVATED", "UPDATED", "FAILED"}
NoticesOfOneChargesOfTwo == ({s1} \X Notices) \cup {<<s2, "SALE">>}
ChargesOfOneNoticesOfTwo == {<<s1, "SALE">>} \cup ({s2} \X Notices)
=============================================================================
