------------------------------ MODULE MCPages ------------------------------
(* Constants of the TLC runs of Pages. *)
EXTENDS Pages, TLC

Symmetry == Permutations(Writers)
=============================================================================
