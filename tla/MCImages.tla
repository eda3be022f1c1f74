------------------------------- MODULE MCImages -------------------------------
(* Constants of the TLC runs of Images. *)
EXTENDS Images, TLC

Symmetry == Permutations(Handlers) \cup Permutations(Files)
=============================================================================
