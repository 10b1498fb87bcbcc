------------------------------ MODULE MCTopVfw ------------------------------
(* TopVfw on a small instance. *)
EXTENDS TopVfw, TLC

Symmetry == Permutations(AZs) \cup Permutations(Requests)
=============================================================================
