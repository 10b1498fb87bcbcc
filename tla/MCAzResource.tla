---------------------------- MODULE MCAzResource ----------------------------
(* AzResource on a small instance: the requests are interchangeable. *)
EXTENDS AzResource, TLC

Symmetry == Permutations(Handlers)
=============================================================================
