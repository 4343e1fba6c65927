----------------------------- MODULE MCLighttpd -----------------------------
(* LighttpdServer with model values for TLC. *)
EXTENDS LighttpdServer, TLC

Symmetry == Permutations(Cons)
=============================================================================
