------------------------------- MODULE QMutex -------------------------------
(***************************************************************************)
(* What a queued lock (QLock, sys/src/9/lock.c) promises its callers: one  *)
(* owner at a time, and a release that passes the lock directly to the     *)
(* process that has waited longest.  QLock implements it; RWLock is built  *)
(* from two of them.                                                       *)
(***************************************************************************)
EXTENDS Integers, Sequences

CONSTANTS Proc,     (* the processes that use the lock  *)
          NoProc    (* not a process: nobody            *)

VARIABLES owner,    (* the process the lock is granted to, or NoProc *)
          waiting   (* the processes queued behind it, oldest first  *)

vars == <<owner, waiting>>

Waits(p) == \E i \in 1..Len(waiting) : waiting[i] = p

Init == owner = NoProc /\ waiting = <<>>

Acquire(p) == /\ owner = NoProc
              /\ owner' = p
              /\ UNCHANGED waiting

Wait(p) == /\ owner # NoProc
           /\ owner # p
           /\ ~Waits(p)
           /\ waiting' = Append(waiting, p)
           /\ UNCHANGED owner

(* A release never leaves the lock free while somebody is queued. *)
Release == /\ owner # NoProc
           /\ IF waiting = <<>>
              THEN owner' = NoProc /\ UNCHANGED waiting
              ELSE owner' = Head(waiting) /\ waiting' = Tail(waiting)

Next == \E p \in Proc : \/ Acquire(p)
                        \/ Wait(p)
                        \/ owner = p /\ Release

Spec == Init /\ [][Next]_vars
=============================================================================
