------------------------------ MODULE MCFgrp --------------------------------
(* Instances of Fgrp for TLC. *)
EXTENDS Fgrp, TLC

Symmetry == Permutations(Proc) \cup Permutations(Chan)
=============================================================================
