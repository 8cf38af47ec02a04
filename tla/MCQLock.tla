------------------------------ MODULE MCQLock -------------------------------
(* QLock with a few processes. *)
EXTENDS QLock, TLC

Symmetry == Permutations(Proc)
=============================================================================
