-------------------------------- MODULE Fgrp --------------------------------
(***************************************************************************)
(* A file descriptor table (Fgrp) shared by several processes, and the     *)
(* references that its slots and the calls in progress hold on channels:   *)
(* newfd, growfd, fdtochan, fdclose, kdup and kpipe of                     *)
(* sys/src/9/sysfile.c, closefgrp of pgrp.c, the sharing done by kproc and *)
(* pexit of os.c, and procctlclosefiles of devproc.c.                      *)
(*                                                                         *)
(* What is done under f->l is one step; cclose, which comes after the      *)
(* unlock, and everything between two critical sections are others.        *)
(***************************************************************************)
EXTENDS Integers, Sequences, FiniteSets

CONSTANTS
  Proc,             (* processes                                          *)
  Chan,             (* channel structures, reused once free               *)
  Ops,              (* which calls the processes make                     *)
  PipeAlone,        (* whether kpipe is kept to tables nobody shares      *)
  Deltafd, Maxnfd,  (* DELTAFD and MAXNFD of dat.h                        *)
  Nil

ASSUME SizeAssumption == /\ Deltafd \in Nat \ {0}
                         /\ Maxnfd \in Nat
                         /\ Deltafd <= Maxnfd
ASSUME ProcAssumption == IsFiniteSet(Proc)
ASSUME NilAssumption  == Nil \notin Chan
ASSUME AloneAssumption == PipeAlone \in BOOLEAN

VARIABLES
  fd, nfd, maxfd, minfd,   (* the fields of the Fgrp                      *)
  users,   (* processes whose env->fgrp it is, f->r.ref counting them     *)
  ref,     (* ref[c]: c->r.ref, 0 when c is free                          *)
  pc,
  arg,     (* arg[p]: the descriptor p is busy with, 0 between calls      *)
  hand,    (* hand[p]: channels p holds a reference on                    *)
  first    (* first[p]: c[0] of kpipe, once it has a descriptor           *)

table == <<fd, nfd, maxfd, minfd>>
calls == <<pc, arg, hand, first>>
vars  == <<table, users, ref, calls>>

Fd == 0..Maxnfd - 1

PC == {"idle", "newfd", "fdclose", "dup", "use", "cclose", "pipe0", "pipe1",
       "pipefail", "unslot", "closefiles", "closefgrp"}

TypeOK == /\ fd \in [Fd -> Chan \cup {Nil}]
          /\ nfd \in 1..Maxnfd /\ maxfd \in Fd /\ minfd \in 0..Maxnfd
          /\ users \subseteq Proc
          /\ ref \in [Chan -> Nat]
          /\ pc \in [Proc -> PC]
          /\ arg \in [Proc -> Fd]
          /\ hand \in [Proc -> Seq(Chan)]
          /\ first \in [Proc -> Chan \cup {Nil}]

(* newfgrp(nil) *)
Init == /\ fd = [i \in Fd |-> Nil]
        /\ nfd = Deltafd /\ maxfd = 0 /\ minfd = 0
        /\ \E p \in Proc : users = {p}
        /\ ref = [c \in Chan |-> 0]
        /\ pc = [p \in Proc |-> "idle"]
        /\ arg = [p \in Proc |-> 0]
        /\ hand = [p \in Proc |-> <<>>]
        /\ first = [p \in Proc |-> Nil]

Goto(p, from, to) == pc[p] = from /\ pc' = [pc EXCEPT ![p] = to]
Call(p, name, to) == name \in Ops /\ p \in users /\ Goto(p, "idle", to)
Hold(p, s)        == hand' = [hand EXCEPT ![p] = s]
Busy(p, i)        == arg' = [arg EXCEPT ![p] = i]
MaxOf(a, b)       == IF a > b THEN a ELSE b
MinOf(a, b)       == IF a < b THEN a ELSE b

(* Drop the references in hand one by one, then return. *)
cclose(p) == /\ pc[p] = "cclose"
             /\ IF hand[p] = <<>>
                THEN /\ pc' = [pc EXCEPT ![p] = "idle"]
                     /\ Busy(p, 0)
                     /\ UNCHANGED <<ref, hand>>
                ELSE /\ ref' = [ref EXCEPT ![Head(hand[p])] = @ - 1]
                     /\ Hold(p, Tail(hand[p]))
                     /\ UNCHANGED <<pc, arg>>
             /\ UNCHANGED <<table, users, first>>

-----------------------------------------------------------------------------
(* growfd(f, i): the table has room for i afterwards, unless it fails. *)
Grown(i)  == IF i < nfd THEN nfd ELSE MinOf(nfd + Deltafd, Maxnfd)
growfd(i) == i < Grown(i) /\ nfd' = Grown(i)

(* The slot newfd settles on: the first free one not below minfd. *)
Free == CHOOSE i \in minfd..MaxOf(minfd, nfd) :
          /\ i >= nfd \/ fd[i] = Nil
          /\ \A j \in minfd..i - 1 : fd[j] # Nil

(* The slot takes over the reference p had. *)
newfd(p, from, to) ==
  /\ Goto(p, from, to)
  /\ growfd(Free)
  /\ minfd' = Free + 1
  /\ maxfd' = MaxOf(maxfd, Free)
  /\ fd' = [fd EXCEPT ![Free] = Head(hand[p])]
  /\ Hold(p, Tail(hand[p]))

Exhausted == Free >= Grown(Free)

(* kopen, kcreate, kfauth: namec or mntauth gives a channel of our own. *)
Open(p) == \E c \in Chan :
  /\ Call(p, "open", "newfd")
  /\ ref[c] = 0
  /\ ref' = [ref EXCEPT ![c] = 1]
  /\ Hold(p, <<c>>)
  /\ UNCHANGED <<table, users, arg, first>>

Newfd(p) == /\ \/ newfd(p, "newfd", "idle")
               \/ /\ Goto(p, "newfd", "cclose")
                  /\ Exhausted
                  /\ UNCHANGED <<table, hand>>
            /\ UNCHANGED <<users, ref, arg, first>>

-----------------------------------------------------------------------------
InUse(i) == i <= maxfd /\ fd[i] # Nil

(* Mutant: fdtochan takes no reference. *)
fdtochan_NoRef(p, i) == /\ InUse(i)
                        /\ Hold(p, <<fd[i]>>)
                        /\ UNCHANGED ref

(* fdtochan(f, i, .., iref = 1).  An unused descriptor is an error without *)
(* a trace.                                                                *)
fdtochan(p, i) == /\ InUse(i)
                  /\ ref' = [ref EXCEPT ![fd[i]] = @ + 1]
                  /\ Hold(p, <<fd[i]>>)

(* kread, kwrite, kfstat...: the reference is held while the device works. *)
Use(p) == \E i \in Fd : /\ Call(p, "use", "use")
                        /\ fdtochan(p, i)
                        /\ UNCHANGED <<table, users, arg, first>>

Used(p) == /\ Goto(p, "use", "cclose")
           /\ UNCHANGED <<table, users, ref, arg, hand, first>>

(* kfgrpclose: fdtochan only checks, with no reference taken. *)
Close(p) == \E i \in Fd : /\ Call(p, "close", "fdclose")
                          /\ InUse(i)
                          /\ Busy(p, i)
                          /\ UNCHANGED <<table, users, ref, hand, first>>

(* for(i=fd; --i>=0 && f->fd[i]==0; ) f->maxfd = i: the lowest slot of the *)
(* empty ones just below the last.                                         *)
Lowered(i) == IF i # maxfd THEN maxfd
              ELSE CHOOSE m \in 0..i : /\ \A j \in m..i - 1 : fd[j] = Nil
                                       /\ m = 0 \/ fd[m - 1] # Nil

(* Mutant: minfd is not lowered. *)
fdclose_KeepsMinfd(p) ==
  LET i == arg[p]
  IN /\ Goto(p, "fdclose", "cclose")
     /\ fd' = [fd EXCEPT ![i] = Nil]
     /\ maxfd' = IF fd[i] = Nil THEN maxfd ELSE Lowered(i)
     /\ Hold(p, IF fd[i] = Nil THEN <<>> ELSE <<fd[i]>>)
     /\ UNCHANGED <<nfd, minfd, users, ref, arg, first>>

fdclose(p) ==
  LET i == arg[p]
  IN /\ Goto(p, "fdclose", "cclose")
     /\ \/ /\ fd[i] = Nil         \* another process was faster
           /\ UNCHANGED <<fd, maxfd, minfd, hand>>
        \/ /\ fd[i] # Nil
           /\ fd' = [fd EXCEPT ![i] = Nil]
           /\ maxfd' = Lowered(i)
           /\ minfd' = MinOf(minfd, i)
           /\ Hold(p, <<fd[i]>>)
     /\ UNCHANGED <<nfd, users, ref, arg, first>>

-----------------------------------------------------------------------------
(* kdup(old, new): new = -1 asks for any descriptor. *)
Dup(p) == \E old \in Fd :
  /\ \/ Call(p, "dup", "newfd") /\ UNCHANGED arg
     \/ Call(p, "dup", "dup") /\ \E new \in Fd : Busy(p, new)
  /\ fdtochan(p, old)
  /\ UNCHANGED <<table, users, first>>

(* Mutant: maxfd is not raised. *)
DupTo_KeepsMaxfd(p) ==
  LET i == arg[p]
  IN /\ Goto(p, "dup", "cclose")
     /\ growfd(i)
     /\ fd' = [fd EXCEPT ![i] = Head(hand[p])]
     /\ Hold(p, IF fd[i] = Nil THEN <<>> ELSE <<fd[i]>>)
     /\ UNCHANGED <<maxfd, minfd, users, ref, arg, first>>

(* The slot takes the reference, and what was there is closed. *)
DupTo(p) ==
  LET i == arg[p]
  IN /\ Goto(p, "dup", "cclose")
     /\ \/ /\ growfd(i)
           /\ maxfd' = MaxOf(maxfd, i)
           /\ fd' = [fd EXCEPT ![i] = Head(hand[p])]
           /\ Hold(p, IF fd[i] = Nil THEN <<>> ELSE <<fd[i]>>)
        \/ /\ i >= Grown(i)
           /\ UNCHANGED <<fd, nfd, maxfd, hand>>
     /\ UNCHANGED <<minfd, users, ref, arg, first>>

-----------------------------------------------------------------------------
(* kpipe: two channels, then two descriptors.  When the second one fails,  *)
(* both channels are closed and the slot of the first is cleared, without  *)
(* f->l and without a look at what is in it.                               *)
Pipe(p) == \E c0, c1 \in Chan :
  /\ Call(p, "pipe", "pipe0")
  /\ PipeAlone => users = {p}
  /\ c0 # c1 /\ ref[c0] = 0 /\ ref[c1] = 0
  /\ ref' = [ref EXCEPT ![c0] = 1, ![c1] = 1]
  /\ Hold(p, <<c0, c1>>)
  /\ UNCHANGED <<table, users, arg, first>>

Pipe0(p) == /\ \/ /\ newfd(p, "pipe0", "pipe1")
                  /\ first' = [first EXCEPT ![p] = Head(hand[p])]
                  /\ Busy(p, Free)
               \/ /\ Goto(p, "pipe0", "cclose")
                  /\ Exhausted
                  /\ UNCHANGED <<table, arg, hand, first>>
            /\ UNCHANGED <<users, ref>>

Pipe1(p) == /\ \/ /\ newfd(p, "pipe1", "idle")
                  /\ first' = [first EXCEPT ![p] = Nil]
                  /\ Busy(p, 0)
               \/ /\ Goto(p, "pipe1", "pipefail")
                  /\ Exhausted
                  /\ UNCHANGED <<table, arg, hand, first>>
            /\ UNCHANGED <<users, ref>>

PipeFail(p) == /\ Goto(p, "pipefail", "unslot")
               /\ ref' = [c \in Chan |-> ref[c] - (IF c = first[p] THEN 1 ELSE 0)
                                                - (IF c = hand[p][1] THEN 1 ELSE 0)]
               /\ Hold(p, <<>>)
               /\ first' = [first EXCEPT ![p] = Nil]
               /\ UNCHANGED <<table, users, arg>>

PipeUnslot(p) == /\ Goto(p, "unslot", "idle")
                 /\ fd' = [fd EXCEPT ![arg[p]] = Nil]
                 /\ Busy(p, 0)
                 /\ UNCHANGED <<nfd, maxfd, minfd, users, ref, hand, first>>

-----------------------------------------------------------------------------
(* kproc(.., KPDUPFDG) *)
Kproc(p, q) == /\ "kproc" \in Ops
               /\ p \in users /\ pc[p] = "idle"
               /\ q \notin users /\ pc[q] = "idle"
               /\ users' = users \cup {q}
               /\ UNCHANGED <<table, ref, calls>>

(* closefgrp, in pexit: the last one out closes everything up to maxfd,    *)
(* one by one, and the table is gone.                                      *)
closefgrp(p) == /\ Call(p, "exit", IF users = {p} THEN "closefgrp" ELSE "idle")
                /\ users' = users \ {p}
                /\ UNCHANGED <<table, ref, arg, hand, first>>

closefgrpone(p) ==
  LET i == arg[p]
  IN /\ pc[p] = "closefgrp"
     /\ fd' = [fd EXCEPT ![i] = Nil]
     /\ \/ fd[i] = Nil /\ UNCHANGED ref
        \/ fd[i] # Nil /\ ref' = [ref EXCEPT ![fd[i]] = @ - 1]
     /\ \/ i < maxfd /\ Busy(p, i + 1) /\ UNCHANGED pc
        \/ i >= maxfd /\ Busy(p, 0) /\ pc' = [pc EXCEPT ![p] = "idle"]
     /\ UNCHANGED <<nfd, maxfd, minfd, users, hand, first>>

Elements(i) == IF fd[i] = Nil THEN <<>> ELSE <<fd[i]>>

(* procctlclosefiles(p, 1, 0): f->l is released for every cclose, maxfd    *)
(* read again each time, and neither it nor minfd changed.  A reference    *)
(* keeps the table meanwhile, here the caller's own.                       *)
Closefiles(p) == /\ Call(p, "closefiles", "closefiles")
                 /\ UNCHANGED <<table, users, ref, arg, hand, first>>

procctlcloseone(p) ==
  LET i == arg[p]
  IN /\ pc[p] = "closefiles"
     /\ hand[p] = <<>>
     /\ \/ /\ i < maxfd
           /\ fd' = [fd EXCEPT ![i] = Nil]
           /\ Hold(p, Elements(i))
           /\ Busy(p, i + 1)
           /\ UNCHANGED pc
        \/ /\ i >= maxfd
           /\ pc' = [pc EXCEPT ![p] = "idle"]
           /\ Busy(p, 0)
           /\ UNCHANGED <<fd, hand>>
     /\ UNCHANGED <<nfd, maxfd, minfd, users, ref, first>>

ClosefilesDrop(p) == /\ pc[p] = "closefiles"
                     /\ hand[p] # <<>>
                     /\ ref' = [ref EXCEPT ![hand[p][1]] = @ - 1]
                     /\ Hold(p, <<>>)
                     /\ UNCHANGED <<table, users, pc, arg, first>>

-----------------------------------------------------------------------------
Next == \E p \in Proc :
  \/ Open(p)  \/ Newfd(p) \/ Use(p)   \/ Used(p)  \/ Close(p)    \/ fdclose(p)
  \/ Dup(p)   \/ DupTo(p) \/ Pipe(p)  \/ Pipe0(p) \/ Pipe1(p)    \/ PipeFail(p)
  \/ PipeUnslot(p)        \/ cclose(p) \/ closefgrp(p) \/ closefgrpone(p)
  \/ Closefiles(p) \/ procctlcloseone(p) \/ ClosefilesDrop(p)
  \/ \E q \in Proc : Kproc(p, q)

Spec == Init /\ [][Next]_vars

-----------------------------------------------------------------------------
(* Slots kpipe has dropped the references of and not yet cleared. *)
Stale(i) == \E p \in Proc : pc[p] = "unslot" /\ arg[p] = i

Holders(c) ==
  Cardinality({i \in Fd : fd[i] = c /\ ~Stale(i)})
    + Cardinality({h \in Proc \X {1, 2} :
                     h[2] <= Len(hand[h[1]]) /\ hand[h[1]][h[2]] = c})

(* Every reference is accounted for: a channel's count is the number of    *)
(* slots and of calls in progress that hold it, through closes that race   *)
(* with one another, with use and with dup, through a kpipe that fails,    *)
(* and after the last process is gone.                                     *)
RefsMatch == \A c \in Chan : ref[c] = Holders(c)

(* Nothing is beyond maxfd, where fdtochan, closefgrp and procfds do not   *)
(* look, and maxfd is inside the table.                                    *)
NoHiddenFd == maxfd < nfd /\ \A i \in Fd : fd[i] # Nil => i <= maxfd

(* minfd is a "lower bound on free fd" (dat.h): newfd, which starts there, *)
(* gives out the lowest descriptor.                                        *)
MinfdIsBound == users # {} => \A i \in 0..minfd - 1 : fd[i] # Nil

(* It stops being one in two places only, the error path of kpipe and the  *)
(* closefiles message, which clear slots without regard to it; newfd,      *)
(* fdclose and kdup keep it.                                               *)
MinfdKept ==
  [][MinfdIsBound /\ ~MinfdIsBound' =>
       \E p \in Proc : PipeUnslot(p) \/ procctlcloseone(p)]_vars
=============================================================================
