---------------------------- MODULE MCRenderSync ----------------------------
(* RenderSync for TLC: interchangeable addresses of activity objects.      *)
EXTENDS RenderSync, TLC

Symmetry == Permutations(Activity)
=============================================================================
