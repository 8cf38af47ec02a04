----------------------------- MODULE MCRendez ------------------------------
(* Instances of Rendez for TLC. *)
EXTENDS Rendez
=============================================================================
