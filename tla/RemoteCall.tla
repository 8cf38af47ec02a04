----------------------------- MODULE RemoteCall -----------------------------
(***************************************************************************)
(* What a client of a mount point may expect of mountrpc: a call ends with *)
(* the server's reply to that very call, once the server has given it, or  *)
(* with an error, in which case it may have been performed or not.         *)
(***************************************************************************)
EXTENDS Integers

CONSTANTS Proc, None

VARIABLES
  made,     (* made[p]: how many calls p has made                           *)
  state,    (* state[p]: of the last of them                                *)
  got       (* got[p]: the call whose reply p was given, or None            *)

vars == <<made, state, got>>

Init == /\ made = [p \in Proc |-> 0]
        /\ state = [p \in Proc |-> "ended"]
        /\ got = [p \in Proc |-> None]

Step(p, from, to) == state[p] \in from /\ state' = [state EXCEPT ![p] = to]

Call(p)  == /\ Step(p, {"ended"}, "called")
            /\ made' = [made EXCEPT ![p] = @ + 1]
            /\ got' = [got EXCEPT ![p] = None]

(* The server performs it and replies. *)
Serve(p) == Step(p, {"called"}, "served") /\ UNCHANGED <<made, got>>

Reply(p) == /\ Step(p, {"served"}, "ended")
            /\ got' = [got EXCEPT ![p] = <<p, made[p]>>]
            /\ UNCHANGED made

Fail(p)  == Step(p, {"called", "served"}, "ended") /\ UNCHANGED <<made, got>>

Next == \E p \in Proc : Call(p) \/ Serve(p) \/ Reply(p) \/ Fail(p)

Spec == Init /\ [][Next]_vars
=============================================================================
