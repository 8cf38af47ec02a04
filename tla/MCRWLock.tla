----------------------------- MODULE MCRWLock -------------------------------
(* Instances of RWLock for TLC. *)
EXTENDS RWLock, TLC

Symmetry == Permutations(Proc)
=============================================================================
