------------------------------- MODULE MCOS4_fs -------------------------------
(* OS4_fs with model values for TLC. *)
EXTENDS OS4_fs, TLC

Symmetry == Permutations(Names)
=============================================================================
