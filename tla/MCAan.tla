------------------------------- MODULE MCAan --------------------------------
(* Instances of Aan for TLC. *)
EXTENDS Aan

(* A 9P conversation: requests and an answer to each. *)
Requests == [client |-> 3, server |-> 2]
=============================================================================
