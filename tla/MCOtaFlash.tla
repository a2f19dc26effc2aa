----------------------------- MODULE MCOtaFlash -----------------------------
(* OtaFlash for TLC: interchangeable images.                               *)
EXTENDS OtaFlash, TLC

Symmetry == Permutations(Fitting)
=============================================================================
