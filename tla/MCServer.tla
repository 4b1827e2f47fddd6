------------------------------- MODULE MCServer -------------------------------
(* Instances of Server for TLC. *)
EXTENDS Server, TLC

Symmetry == Permutations(Session)
=============================================================================
