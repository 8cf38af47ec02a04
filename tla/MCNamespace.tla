---------------------------- MODULE MCNamespace -----------------------------
(* Instances of Namespace for TLC. *)
EXTENDS Namespace, TLC

CONSTANTS a, b, c

Does(op, d, x, order, mcreate, excl) ==
  [op |-> op, b |-> d, x |-> x, order |-> order, mcreate |-> mcreate, excl |-> excl]

(* Directory a is the mount point the calls meet at; b may be one too. *)
AllCalls ==
  {Does("bind", a, b, o, FALSE, FALSE) : o \in Orders} \cup
  {Does("bind", a, c, "MBEFORE", TRUE, FALSE),
   Does("bind", b, c, "MREPL", FALSE, FALSE),
   Does("bind", a, a, "MAFTER", FALSE, FALSE),
   Does("unmount", a, Nil, "MREPL", FALSE, FALSE),
   Does("unmount", a, b, "MREPL", FALSE, FALSE),
   Does("walk", a, Nil, "MREPL", FALSE, FALSE),
   Does("open", a, Nil, "MREPL", FALSE, FALSE),
   Does("dotdot", a, b, "MREPL", FALSE, FALSE),
   Does("create", a, Nil, "MREPL", FALSE, FALSE),
   Does("create", a, Nil, "MREPL", FALSE, TRUE),
   Does("fork", a, Nil, "MREPL", FALSE, FALSE)}

Tables == {[d \in Dir |-> <<>>],
           [d \in Dir |-> IF d = a THEN <<b, c>> ELSE <<>>],
           [d \in Dir |-> IF d = b THEN <<b, c>> ELSE <<>>]}

Found == {{}, {c}}

Symmetry == Permutations(Proc)
=============================================================================
