--------------------------- MODULE MCActivityStack ---------------------------
(* ActivityStack for TLC: interchangeable addresses.                       *)
EXTENDS ActivityStack, TLC

Symmetry == Permutations(Activity)
=============================================================================
