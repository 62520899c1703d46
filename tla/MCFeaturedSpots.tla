--------------------------- MODULE MCFeaturedSpots ---------------------------
(* Small instances of FeaturedSpots. The listings differ in nothing but    *)
(* their name, so the safety runs treat them as interchangeable, and so do *)
(* the spots where the admin may close every one of them.                  *)
EXTENDS FeaturedSpots

LOCAL Names == INSTANCE TLC
Alike == Names!Permutations(Listings)
AllAlike == Names!Permutations(Listings) \cup Names!Permutations(Spots)
=============================================================================
