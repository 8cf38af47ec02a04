------------------------------- MODULE Stream -------------------------------
(***************************************************************************)
(* What aan promises to the two programs it connects: each reads what the  *)
(* other wrote, in order and once, whatever happens to the connections     *)
(* between them, and end of file only after everything.                    *)
(***************************************************************************)
EXTENDS Naturals, Sequences

CONSTANTS End,      (* the two ends                                         *)
          Data      (* what is written                                      *)

VARIABLES sent, got,        (* what the program at an end wrote, and read   *)
          closed, eof       (* it has closed its end; it has read the end   *)

Peer(e) == CHOOSE f \in End : f # e

Init == /\ sent = [e \in End |-> <<>>]
        /\ got = [e \in End |-> <<>>]
        /\ closed = [e \in End |-> FALSE]
        /\ eof = [e \in End |-> FALSE]

Write(e) == /\ ~closed[e]
            /\ \E d \in Data : sent' = [sent EXCEPT ![e] = Append(@, d)]
            /\ UNCHANGED <<got, closed, eof>>

Close(e) == /\ closed' = [closed EXCEPT ![e] = TRUE]
            /\ UNCHANGED <<sent, got, eof>>

Read(e) == LET s == sent[Peer(e)]
               n == Len(got[e])
           IN /\ ~eof[e] /\ n < Len(s)
              /\ got' = [got EXCEPT ![e] = Append(@, s[n + 1])]
              /\ UNCHANGED <<sent, closed, eof>>

ReadEof(e) == /\ closed[Peer(e)] /\ got[e] = sent[Peer(e)]
              /\ eof' = [eof EXCEPT ![e] = TRUE]
              /\ UNCHANGED <<sent, got, closed>>

Next == \E e \in End : Write(e) \/ Close(e) \/ Read(e) \/ ReadEof(e)

Spec == Init /\ [][Next]_<<sent, got, closed, eof>>
=============================================================================
