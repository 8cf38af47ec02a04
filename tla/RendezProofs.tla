---------------------------- MODULE RendezProofs ----------------------------
(***************************************************************************)
(* Proofs about Rendez, for any processes, rendezvous, wakers and killers: *)
(* the inductive invariant, that a sleep is ended exactly once, that an    *)
(* interrupted sleep says so, and that a host note finds its call.         *)
(***************************************************************************)
EXTENDS Rendez, TLAPS, FiniteSetTheorems

(* Where Sleep and osleave hold p->rlock, where a process is posted on its *)
(* rendezvous or readied, and where it is marked as being in a host call.  *)
HasRlock(p) == pc[p] \in {"locked", "test", "post", "posted", "sleep", "check", "clear"}
Posted(p)   == pc[p] \in {"posted", "sleep", "block"}
Calling(p)  == pc[p] \in {"host", "leave", "clear", "unsys"}

(* A sleeper holds the queued lock around its rendezvous, so has it alone. *)
AtInv == \A p \in Proc :
           IF pc[p] \in {"loop"} \cup SleepPC
           THEN at[p] \in Rend /\ guard[at[p]] = p
           ELSE at[p] = Nil

(* p->rlock: its holders, and the killers that keep it for a sleeper.      *)
Pulls(k)  == kpc[k] = "pull"
RlockInv  == /\ \A p \in Proc : HasRlock(p) => rlock[p]
             /\ \A k \in Killer : Pulls(k) => /\ rlock[victim[k]]
                                              /\ ~HasRlock(victim[k])
                                              /\ pr[victim[k]] # Nil
             /\ \A j, k \in Killer : Pulls(j) /\ Pulls(k) /\ victim[j] = victim[k] => j = k
VictimInv == \A k \in Killer : kpc[k] # "idle" => victim[k] \in Proc

(* r->p is the sleeper that is posted there; a sleeper no longer posted    *)
(* has been readied, once.                                                 *)
RpInv  == \A x \in Rend : rp[x] # Nil => at[rp[x]] = x /\ Posted(rp[x])
SemInv == \A p \in Proc : sem[p] = IF Posted(p) /\ rp[at[p]] # p THEN 1 ELSE 0

(* The interrupt stays pending from swiproc to the end of Sleep.           *)
PulledInv == \A p \in Proc :
               pulled[p] => pc[p] \in {"block", "woken", "check"} /\ swipend[p]

(* A note is sent to a process in a host call, by one killer at a time.    *)
NoteInv == /\ \A p \in Proc : syscall[p] => Calling(p)
           /\ NoteStaysInCall
           /\ \A j, k \in Killer :
                kpc[j] = "hostintr" /\ kpc[k] = "hostintr" /\ victim[j] = victim[k] => j = k

IInv == TypeOK /\ AtInv /\ VictimInv /\ RlockInv /\ RpInv /\ SemInv /\ PulledInv /\ NoteInv
-----------------------------------------------------------------------------
(* The caller's own steps. *)

(* A call begins: the process takes the queued lock and goes to its loop. *)
LEMMA EnterStep ==
  ASSUME IInv, NEW p \in Proc, NEW x \in Rend, Enter(p, x)
  PROVE  IInv'
<1> USE NilAssumption DEF IInv, TypeOK, PC, KPC, SleepPC, HostPC, Enter, Goto, Set,
        procvars, envvars
<1>1. TypeOK'
  OBVIOUS
<1>2. AtInv' /\ VictimInv' /\ RlockInv' /\ RpInv' /\ SemInv' /\ PulledInv' /\ NoteInv'
  BY DEF AtInv, VictimInv, RlockInv, Pulls, HasRlock, RpInv, Posted, SemInv,
         PulledInv, NoteInv, NoteStaysInCall, Calling
<1> QED BY <1>1, <1>2

(* The call ends: the condition is consumed and the queued lock released. *)
LEMMA ConsumeStep ==
  ASSUME IInv, NEW p \in Proc, Consume(p)
  PROVE  IInv'
<1> USE NilAssumption DEF IInv, TypeOK, PC, KPC, SleepPC, HostPC, Consume, Goto, Leave,
        Set, procvars, envvars
<1>1. TypeOK'
  OBVIOUS
<1>2. AtInv' /\ VictimInv' /\ RlockInv' /\ RpInv' /\ SemInv' /\ PulledInv' /\ NoteInv'
  BY DEF AtInv, VictimInv, RlockInv, Pulls, HasRlock, RpInv, Posted, SemInv,
         PulledInv, NoteInv, NoteStaysInCall, Calling
<1> QED BY <1>1, <1>2

(* The condition is false: the call goes into Sleep. *)
LEMMA CallSleepStep ==
  ASSUME IInv, NEW p \in Proc, CallSleep(p)
  PROVE  IInv'
<1> USE NilAssumption DEF IInv, TypeOK, PC, KPC, SleepPC, HostPC, CallSleep, Goto, Set,
        rendvars, procvars, envvars
<1>1. TypeOK'
  OBVIOUS
<1>2. AtInv' /\ VictimInv' /\ RlockInv' /\ RpInv' /\ SemInv' /\ PulledInv' /\ NoteInv'
  BY DEF AtInv, VictimInv, RlockInv, Pulls, HasRlock, RpInv, Posted, SemInv,
         PulledInv, NoteInv, NoteStaysInCall, Calling
<1> QED BY <1>1, <1>2

-----------------------------------------------------------------------------
(* Sleep. *)

(* Sleep takes p->rlock. *)
LEMMA LockUpStep ==
  ASSUME IInv, NEW p \in Proc, LockUp(p)
  PROVE  IInv'
<1> USE NilAssumption DEF IInv, TypeOK, PC, KPC, SleepPC, HostPC, LockUp, Goto, Set,
        rendvars, envvars
<1>1. TypeOK'
  OBVIOUS
<1>2. AtInv' /\ VictimInv' /\ RlockInv' /\ RpInv' /\ SemInv' /\ PulledInv' /\ NoteInv'
  BY DEF AtInv, VictimInv, RlockInv, Pulls, HasRlock, RpInv, Posted, SemInv,
         PulledInv, NoteInv, NoteStaysInCall, Calling
<1> QED BY <1>1, <1>2

(* Sleep takes r->l. *)
LEMMA LockRendStep ==
  ASSUME IInv, NEW p \in Proc, LockRend(p)
  PROVE  IInv'
<1> USE NilAssumption DEF IInv, TypeOK, PC, KPC, SleepPC, HostPC, LockRend, Goto, Set,
        procvars, envvars
<1>1. TypeOK'
  OBVIOUS
<1>2. AtInv' /\ VictimInv' /\ RlockInv' /\ RpInv' /\ SemInv' /\ PulledInv' /\ NoteInv'
  BY DEF AtInv, VictimInv, RlockInv, Pulls, HasRlock, RpInv, Posted, SemInv,
         PulledInv, NoteInv, NoteStaysInCall, Calling
<1> QED BY <1>1, <1>2

(* Sleep finds its process killed or its condition true. *)
LEMMA NeverMindStep ==
  ASSUME IInv, NEW p \in Proc, NeverMind(p)
  PROVE  IInv'
<1> USE NilAssumption DEF IInv, TypeOK, PC, KPC, SleepPC, HostPC, NeverMind, Goto, Set,
        procvars, envvars
<1>1. TypeOK'
  OBVIOUS
<1>2. AtInv' /\ VictimInv' /\ RlockInv' /\ RpInv' /\ SemInv' /\ PulledInv' /\ NoteInv'
  BY DEF AtInv, VictimInv, RlockInv, Pulls, HasRlock, RpInv, Posted, SemInv,
         PulledInv, NoteInv, NoteStaysInCall, Calling
<1> QED BY <1>1, <1>2

(* Sleep has to wait. *)
LEMMA MustWaitStep ==
  ASSUME IInv, NEW p \in Proc, MustWait(p)
  PROVE  IInv'
<1> USE NilAssumption DEF IInv, TypeOK, PC, KPC, SleepPC, HostPC, MustWait, Goto, Set,
        rendvars, procvars, envvars
<1>1. TypeOK'
  OBVIOUS
<1>2. AtInv' /\ VictimInv' /\ RlockInv' /\ RpInv' /\ SemInv' /\ PulledInv' /\ NoteInv'
  BY DEF AtInv, VictimInv, RlockInv, Pulls, HasRlock, RpInv, Posted, SemInv,
         PulledInv, NoteInv, NoteStaysInCall, Calling
<1> QED BY <1>1, <1>2

(* Sleep posts the process: nobody else can be posted there. *)
LEMMA PostStep ==
  ASSUME IInv, NEW p \in Proc, Post(p)
  PROVE  IInv'
<1> USE NilAssumption DEF IInv, TypeOK, PC, KPC, SleepPC, HostPC, Post, Goto, Set,
        procvars, envvars
<1>1. TypeOK'
  OBVIOUS
<1>2. SemInv'
  BY DEF SemInv, Posted, AtInv
<1>3. AtInv' /\ VictimInv' /\ RlockInv' /\ RpInv' /\ PulledInv' /\ NoteInv'
  BY DEF AtInv, VictimInv, RlockInv, Pulls, HasRlock, RpInv, Posted, PulledInv,
         NoteInv, NoteStaysInCall, Calling
<1> QED BY <1>1, <1>2, <1>3

(* Sleep forgets earlier interrupts and says where it sleeps. *)
LEMMA PublishStep ==
  ASSUME IInv, NEW p \in Proc, Publish(p)
  PROVE  IInv'
<1> USE NilAssumption DEF IInv, TypeOK, PC, KPC, SleepPC, HostPC, Publish, Goto, Set,
        rendvars, envvars
<1>1. TypeOK'
  OBVIOUS
<1>2. AtInv' /\ VictimInv' /\ RlockInv' /\ RpInv' /\ SemInv' /\ PulledInv' /\ NoteInv'
  BY DEF AtInv, VictimInv, RlockInv, Pulls, HasRlock, RpInv, Posted, SemInv,
         PulledInv, NoteInv, NoteStaysInCall, Calling
<1> QED BY <1>1, <1>2

(* Sleep lets go of p->rlock, and swiproc may pull its process out. *)
LEMMA UnlockUpStep ==
  ASSUME IInv, NEW p \in Proc, UnlockUp(p)
  PROVE  IInv'
<1> USE NilAssumption DEF IInv, TypeOK, PC, KPC, SleepPC, HostPC, UnlockUp, Goto, Set,
        rendvars, envvars
<1>1. TypeOK'
  OBVIOUS
<1>2. AtInv' /\ VictimInv' /\ RlockInv' /\ RpInv' /\ SemInv' /\ PulledInv' /\ NoteInv'
  BY DEF AtInv, VictimInv, RlockInv, Pulls, HasRlock, RpInv, Posted, SemInv,
         PulledInv, NoteInv, NoteStaysInCall, Calling
<1> QED BY <1>1, <1>2

(* osblock takes the token; the process must have one to be no longer posted. *)
LEMMA osblockStep ==
  ASSUME IInv, NEW p \in Proc, osblock(p)
  PROVE  IInv'
<1> USE NilAssumption DEF IInv, TypeOK, PC, KPC, SleepPC, HostPC, osblock, Goto, Set,
        rendvars, envvars
<1>1. TypeOK'
  OBVIOUS
<1>2. RpInv'
  BY DEF RpInv, Posted, SemInv
<1>3. AtInv' /\ VictimInv' /\ RlockInv' /\ SemInv' /\ PulledInv' /\ NoteInv'
  BY DEF AtInv, VictimInv, RlockInv, Pulls, HasRlock, SemInv, Posted, PulledInv,
         NoteInv, NoteStaysInCall, Calling
<1> QED BY <1>1, <1>2, <1>3

(* Sleep takes p->rlock again after osblock. *)
LEMMA RelockStep ==
  ASSUME IInv, NEW p \in Proc, Relock(p)
  PROVE  IInv'
<1> USE NilAssumption DEF IInv, TypeOK, PC, KPC, SleepPC, HostPC, Relock, Goto, Set,
        rendvars, envvars
<1>1. TypeOK'
  OBVIOUS
<1>2. AtInv' /\ VictimInv' /\ RlockInv' /\ RpInv' /\ SemInv' /\ PulledInv' /\ NoteInv'
  BY DEF AtInv, VictimInv, RlockInv, Pulls, HasRlock, RpInv, Posted, SemInv,
         PulledInv, NoteInv, NoteStaysInCall, Calling
<1> QED BY <1>1, <1>2

(* Sleep raises Eintr, and the caller releases its queued lock. *)
LEMMA SleepEintrStep ==
  ASSUME IInv, NEW p \in Proc, SleepEintr(p)
  PROVE  IInv'
<1> USE NilAssumption DEF IInv, TypeOK, PC, KPC, SleepPC, HostPC, SleepEintr, Goto,
        Leave, Set, envvars
<1>1. TypeOK'
  OBVIOUS
<1>2. AtInv' /\ VictimInv' /\ RlockInv' /\ RpInv' /\ SemInv' /\ PulledInv' /\ NoteInv'
  BY DEF AtInv, VictimInv, RlockInv, Pulls, HasRlock, RpInv, Posted, SemInv,
         PulledInv, NoteInv, NoteStaysInCall, Calling
<1> QED BY <1>1, <1>2

(* Sleep returns to the loop. *)
LEMMA SleepReturnsStep ==
  ASSUME IInv, NEW p \in Proc, SleepReturns(p)
  PROVE  IInv'
<1> USE NilAssumption DEF IInv, TypeOK, PC, KPC, SleepPC, HostPC, SleepReturns, Goto,
        Set, rendvars, envvars
<1>1. TypeOK'
  OBVIOUS
<1>2. AtInv' /\ VictimInv' /\ RlockInv' /\ RpInv' /\ SemInv' /\ PulledInv' /\ NoteInv'
  BY DEF AtInv, VictimInv, RlockInv, Pulls, HasRlock, RpInv, Posted, SemInv,
         PulledInv, NoteInv, NoteStaysInCall, Calling
<1> QED BY <1>1, <1>2

-----------------------------------------------------------------------------
(* Host calls. *)

(* A host call begins. *)
LEMMA osenterStep ==
  ASSUME IInv, NEW p \in Proc, osenter(p)
  PROVE  IInv'
<1> USE NilAssumption DEF IInv, TypeOK, PC, KPC, SleepPC, HostPC, osenter, Goto, Set,
        rendvars, envvars
<1>1. TypeOK'
  OBVIOUS
<1>2. AtInv' /\ VictimInv' /\ RlockInv' /\ RpInv' /\ SemInv' /\ PulledInv' /\ NoteInv'
  BY DEF AtInv, VictimInv, RlockInv, Pulls, HasRlock, RpInv, Posted, SemInv,
         PulledInv, NoteInv, NoteStaysInCall, Calling
<1> QED BY <1>1, <1>2

(* The host returns. *)
LEMMA HostReturnsStep ==
  ASSUME IInv, NEW p \in Proc, HostReturns(p)
  PROVE  IInv'
<1> USE NilAssumption DEF IInv, TypeOK, PC, KPC, SleepPC, HostPC, HostReturns, Goto,
        Set, rendvars, procvars, envvars
<1>1. TypeOK'
  OBVIOUS
<1>2. AtInv' /\ VictimInv' /\ RlockInv' /\ RpInv' /\ SemInv' /\ PulledInv' /\ NoteInv'
  BY DEF AtInv, VictimInv, RlockInv, Pulls, HasRlock, RpInv, Posted, SemInv,
         PulledInv, NoteInv, NoteStaysInCall, Calling
<1> QED BY <1>1, <1>2

(* osleave reads swipend. *)
LEMMA LeaveReadStep ==
  ASSUME IInv, NEW p \in Proc, LeaveRead(p)
  PROVE  IInv'
<1> USE NilAssumption DEF IInv, TypeOK, PC, KPC, SleepPC, HostPC, LeaveRead, Goto, Set,
        rendvars, envvars
<1>1. TypeOK'
  OBVIOUS
<1>2. AtInv' /\ VictimInv' /\ RlockInv' /\ RpInv' /\ SemInv' /\ PulledInv' /\ NoteInv'
  BY DEF AtInv, VictimInv, RlockInv, Pulls, HasRlock, RpInv, Posted, SemInv,
         PulledInv, NoteInv, NoteStaysInCall, Calling
<1> QED BY <1>1, <1>2

(* osleave clears swipend. *)
LEMMA LeaveClearStep ==
  ASSUME IInv, NEW p \in Proc, LeaveClear(p)
  PROVE  IInv'
<1> USE NilAssumption DEF IInv, TypeOK, PC, KPC, SleepPC, HostPC, LeaveClear, Goto, Set,
        rendvars, envvars
<1>1. TypeOK'
  OBVIOUS
<1>2. AtInv' /\ VictimInv' /\ RlockInv' /\ RpInv' /\ SemInv' /\ PulledInv' /\ NoteInv'
  BY DEF AtInv, VictimInv, RlockInv, Pulls, HasRlock, RpInv, Posted, SemInv,
         PulledInv, NoteInv, NoteStaysInCall, Calling
<1> QED BY <1>1, <1>2

(* osleave clears syscall, after which no more notes are sent. *)
LEMMA LeaveSyscallStep ==
  ASSUME IInv, NEW p \in Proc, LeaveSyscall(p)
  PROVE  IInv'
<1> USE NilAssumption DEF IInv, TypeOK, PC, KPC, SleepPC, HostPC, LeaveSyscall, Goto,
        Set, rendvars, envvars
<1>1. TypeOK'
  OBVIOUS
<1>2. AtInv' /\ VictimInv' /\ RlockInv' /\ RpInv' /\ SemInv' /\ PulledInv' /\ NoteInv'
  BY DEF AtInv, VictimInv, RlockInv, Pulls, HasRlock, RpInv, Posted, SemInv,
         PulledInv, NoteInv, NoteStaysInCall, Calling
<1> QED BY <1>1, <1>2

(* osleave has seen the last note arrive. *)
LEMMA LeaveDoneStep ==
  ASSUME IInv, NEW p \in Proc, LeaveDone(p)
  PROVE  IInv'
<1> USE NilAssumption DEF IInv, TypeOK, PC, KPC, SleepPC, HostPC, LeaveDone, Goto, Set,
        rendvars, envvars
<1>1. TypeOK'
  OBVIOUS
<1>2. AtInv' /\ VictimInv' /\ RlockInv' /\ RpInv' /\ SemInv' /\ PulledInv' /\ NoteInv'
  BY DEF AtInv, VictimInv, RlockInv, Pulls, HasRlock, RpInv, Posted, SemInv,
         PulledInv, NoteInv, NoteStaysInCall, Calling
<1> QED BY <1>1, <1>2

(* notkilled forgives. *)
LEMMA notkilledStep ==
  ASSUME IInv, NEW p \in Proc, notkilled(p)
  PROVE  IInv'
<1> USE NilAssumption DEF IInv, TypeOK, PC, KPC, SleepPC, HostPC, notkilled, Set,
        rendvars, ctlvars, envvars
<1>1. TypeOK'
  OBVIOUS
<1>2. AtInv' /\ VictimInv' /\ RlockInv' /\ RpInv' /\ SemInv' /\ PulledInv' /\ NoteInv'
  BY DEF AtInv, VictimInv, RlockInv, Pulls, HasRlock, RpInv, Posted, SemInv,
         PulledInv, NoteInv, NoteStaysInCall, Calling
<1> QED BY <1>1, <1>2

-----------------------------------------------------------------------------
(* Wakers. *)

(* A waker makes the condition true. *)
LEMMA MakeTrueStep ==
  ASSUME IInv, NEW w \in Waker, NEW x \in Rend, MakeTrue(w, x)
  PROVE  IInv'
<1> USE NilAssumption DEF IInv, TypeOK, PC, KPC, SleepPC, HostPC, MakeTrue, Set,
        procvars, ctlvars
<1>1. TypeOK'
  OBVIOUS
<1>2. AtInv' /\ VictimInv' /\ RlockInv' /\ RpInv' /\ SemInv' /\ PulledInv' /\ NoteInv'
  BY DEF AtInv, VictimInv, RlockInv, Pulls, HasRlock, RpInv, Posted, SemInv,
         PulledInv, NoteInv, NoteStaysInCall, Calling
<1> QED BY <1>1, <1>2

(* Wakeup takes the sleeper off its rendezvous and readies it. *)
LEMMA WakeupStep ==
  ASSUME IInv, NEW w \in Waker, Wakeup(w)
  PROVE  IInv'
<1> USE NilAssumption DEF IInv, TypeOK, PC, KPC, SleepPC, HostPC, Wakeup, Set, ctlvars
<1>1. TypeOK'
  OBVIOUS
<1>2. SemInv'
  BY DEF SemInv, Posted, AtInv, RpInv
<1>3. AtInv' /\ VictimInv' /\ RlockInv' /\ RpInv' /\ PulledInv' /\ NoteInv'
  BY DEF AtInv, VictimInv, RlockInv, Pulls, HasRlock, RpInv, Posted, PulledInv,
         NoteInv, NoteStaysInCall, Calling
<1> QED BY <1>1, <1>2, <1>3

-----------------------------------------------------------------------------
(* swiproc. *)

(* swiproc is called. *)
LEMMA CallSwiprocStep ==
  ASSUME IInv, NEW k \in Killer, NEW p \in Proc, CallSwiproc(k, p)
  PROVE  IInv'
<1> USE NilAssumption DEF IInv, TypeOK, PC, KPC, SleepPC, HostPC, CallSwiproc, KGoto,
        Set, rendvars, procvars, ctlvars
<1>1. TypeOK'
  BY MaxIntrAssumption
<1>2. AtInv' /\ VictimInv' /\ RlockInv' /\ RpInv' /\ SemInv' /\ PulledInv' /\ NoteInv'
  BY DEF AtInv, VictimInv, RlockInv, Pulls, HasRlock, RpInv, Posted, SemInv,
         PulledInv, NoteInv, NoteStaysInCall, Calling
<1> QED BY <1>1, <1>2

(* swiproc marks its victim killed and looks where it sleeps. *)
LEMMA SwiLockStep ==
  ASSUME IInv, NEW k \in Killer, SwiLock(k)
  PROVE  IInv'
<1> USE NilAssumption DEF IInv, TypeOK, PC, KPC, SleepPC, HostPC, SwiLock, Set,
        rendvars, ctlvars
<1>1. TypeOK'
  <2>1. PICK interp \in BOOLEAN :
          killed' = [killed EXCEPT ![victim[k]] = killed[victim[k]] \/ ~interp]
    OBVIOUS
  <2>2. killed' \in [Proc -> BOOLEAN]
    BY <2>1, Zenon
  <2>3. rlock' \in [Proc -> BOOLEAN] /\ kpc' \in [Killer -> KPC]
    OBVIOUS
  <2> QED BY <2>2, <2>3
<1>2. RlockInv'
  <2>1. CASE pr[victim[k]] # Nil
    BY SMTT(30), <2>1 DEF RlockInv, VictimInv, Pulls, HasRlock
  <2>2. CASE pr[victim[k]] = Nil
    BY SMTT(30), <2>2 DEF RlockInv, VictimInv, Pulls, HasRlock
  <2> QED BY <2>1, <2>2
<1>3. AtInv' /\ VictimInv' /\ RpInv' /\ SemInv' /\ PulledInv' /\ NoteInv'
  BY DEF AtInv, VictimInv, RpInv, Posted, SemInv, PulledInv, NoteInv,
         NoteStaysInCall, Calling
<1> QED BY <1>1, <1>2, <1>3

(* swiproc ends a sleep, or finds it ended by a Wakeup. *)
LEMMA SwiPullStep ==
  ASSUME IInv, NEW k \in Killer, SwiPull(k)
  PROVE  IInv'
<1> USE NilAssumption DEF IInv, TypeOK, PC, KPC, SleepPC, HostPC, SwiPull, KGoto, Set,
        ctlvars
<1>1. TypeOK'
  <2>1. victim[k] \in Proc /\ pr[victim[k]] \in Rend
    BY DEF VictimInv, RlockInv, Pulls
  <2>2. CASE rp[pr[victim[k]]] = victim[k]
    <3>1. swipend' \in [Proc -> BOOLEAN] /\ pulled' \in [Proc -> BOOLEAN]
      BY <2>1, <2>2
    <3>2. sem' \in [Proc -> Nat] /\ rp' \in [Rend -> Proc \cup {Nil}]
      BY <2>1, <2>2
    <3>3. rlock' \in [Proc -> BOOLEAN] /\ victim' \in [Killer -> Proc \cup {Nil}]
      OBVIOUS
    <3> QED BY <3>1, <3>2, <3>3
  <2>3. CASE rp[pr[victim[k]]] # victim[k]
    BY <2>1, <2>3
  <2> QED BY <2>2, <2>3
<1>2. SemInv'
  BY DEF SemInv, Posted, AtInv, RlockInv, Pulls, HasRlock, RpInv
<1>3. PulledInv'
  BY DEF PulledInv, RlockInv, Pulls, HasRlock, RpInv, Posted
<1>4. AtInv' /\ VictimInv' /\ RlockInv' /\ RpInv' /\ NoteInv'
  BY DEF AtInv, VictimInv, RlockInv, Pulls, HasRlock, RpInv, Posted, NoteInv,
         NoteStaysInCall, Calling
<1> QED BY <1>1, <1>2, <1>3, <1>4

(* swiproc takes p->sysio. *)
LEMMA SwiSysioStep ==
  ASSUME IInv, NEW k \in Killer, SwiSysio(k)
  PROVE  IInv'
<1> USE NilAssumption DEF IInv, TypeOK, PC, KPC, SleepPC, HostPC, SwiSysio, KGoto, Set,
        rendvars, ctlvars
<1>1. TypeOK'
  OBVIOUS
<1>2. AtInv' /\ VictimInv' /\ RlockInv' /\ RpInv' /\ SemInv' /\ PulledInv' /\ NoteInv'
  BY DEF AtInv, VictimInv, RlockInv, Pulls, HasRlock, RpInv, Posted, SemInv,
         PulledInv, NoteInv, NoteStaysInCall, Calling
<1> QED BY <1>1, <1>2

(* swiproc sends a note to a process it found in a host call: no other note *)
(* is on its way there. *)
LEMMA SwiNoteStep ==
  ASSUME IInv, NEW k \in Killer, SwiNote(k)
  PROVE  IInv'
<1> USE NilAssumption DEF IInv, TypeOK, PC, KPC, SleepPC, HostPC, SwiNote, KGoto, Set,
        rendvars, ctlvars
<1>1. TypeOK'
  OBVIOUS
<1>2. NoteInv'
  BY DEF NoteInv, NoteStaysInCall, Calling, VictimInv
<1>3. AtInv' /\ VictimInv' /\ RlockInv' /\ RpInv' /\ SemInv' /\ PulledInv'
  BY DEF AtInv, VictimInv, RlockInv, Pulls, HasRlock, RpInv, Posted, SemInv,
         PulledInv
<1> QED BY <1>1, <1>2, <1>3

(* swiproc finds nothing to interrupt. *)
LEMMA SwiNothingStep ==
  ASSUME IInv, NEW k \in Killer, SwiNothing(k)
  PROVE  IInv'
<1> USE NilAssumption DEF IInv, TypeOK, PC, KPC, SleepPC, HostPC, SwiNothing, KGoto,
        Set, rendvars, ctlvars
<1>1. TypeOK'
  OBVIOUS
<1>2. AtInv' /\ VictimInv' /\ RlockInv' /\ RpInv' /\ SemInv' /\ PulledInv' /\ NoteInv'
  BY DEF AtInv, VictimInv, RlockInv, Pulls, HasRlock, RpInv, Posted, SemInv,
         PulledInv, NoteInv, NoteStaysInCall, Calling
<1> QED BY <1>1, <1>2

(* The note arrives. *)
LEMMA oshostintrStep ==
  ASSUME IInv, NEW k \in Killer, oshostintr(k)
  PROVE  IInv'
<1> USE NilAssumption DEF IInv, TypeOK, PC, KPC, SleepPC, HostPC, oshostintr, KGoto,
        Set, rendvars, ctlvars
<1>1. TypeOK'
  OBVIOUS
<1>2. AtInv' /\ VictimInv' /\ RlockInv' /\ RpInv' /\ SemInv' /\ PulledInv' /\ NoteInv'
  BY DEF AtInv, VictimInv, RlockInv, Pulls, HasRlock, RpInv, Posted, SemInv,
         PulledInv, NoteInv, NoteStaysInCall, Calling
<1> QED BY <1>1, <1>2

-----------------------------------------------------------------------------
(* The inductive invariant holds in every reachable state. *)
THEOREM Invariance == Spec => []IInv
<1>1. Init => IInv
  <2> SUFFICES ASSUME Init PROVE IInv
    OBVIOUS
  <2> USE NilAssumption, MaxIntrAssumption DEF Init
  <2>1. TypeOK
    BY DEF TypeOK, PC, KPC
  <2>2. AtInv /\ VictimInv /\ RlockInv
    BY DEF AtInv, SleepPC, VictimInv, RlockInv, Pulls, HasRlock
  <2>3. RpInv /\ SemInv /\ PulledInv /\ NoteInv
    BY DEF RpInv, SemInv, PulledInv, NoteInv, NoteStaysInCall, Posted
  <2> QED BY <2>1, <2>2, <2>3 DEF IInv
<1>2. IInv /\ [Next]_vars => IInv'
  <2> SUFFICES ASSUME IInv, [Next]_vars PROVE IInv'
    OBVIOUS
  <2>1. CASE UNCHANGED vars
    BY <2>1 DEF vars, rendvars, procvars, ctlvars, envvars, IInv, TypeOK, AtInv,
                VictimInv, RlockInv, Pulls, HasRlock, RpInv, SemInv, Posted, PulledInv,
                NoteInv, NoteStaysInCall, Calling
  <2>2. ASSUME NEW p \in Proc, NEW x \in Rend, Enter(p, x)
        PROVE  IInv'
    BY <2>2, EnterStep
  <2>3. ASSUME NEW p \in Proc, osenter(p) \/ notkilled(p) \/ Inside(p)
        PROVE  IInv'
    BY <2>3, osenterStep, notkilledStep, ConsumeStep, CallSleepStep, LockUpStep,
       LockRendStep, NeverMindStep, MustWaitStep, PostStep, PublishStep, UnlockUpStep,
       osblockStep, RelockStep, SleepEintrStep, SleepReturnsStep, HostReturnsStep,
       LeaveReadStep, LeaveClearStep, LeaveSyscallStep, LeaveDoneStep
       DEF Inside, Sleep, osleave
  <2>4. ASSUME NEW w \in Waker, (\E x \in Rend : MakeTrue(w, x)) \/ Wakeup(w)
        PROVE  IInv'
    BY <2>4, MakeTrueStep, WakeupStep
  <2>5. ASSUME NEW k \in Killer, (\E p \in Proc : CallSwiproc(k, p)) \/ swiproc(k)
        PROVE  IInv'
    BY <2>5, CallSwiprocStep, SwiLockStep, SwiPullStep, SwiSysioStep, SwiNoteStep,
       SwiNothingStep, oshostintrStep DEF swiproc
  <2> QED BY <2>1, <2>2, <2>3, <2>4, <2>5 DEF Next
<1> QED BY <1>1, <1>2, PTL DEF Spec

(* Every variable keeps to its type. *)
THEOREM TypeCorrect == Spec => []TypeOK
<1>1. IInv => TypeOK
  BY DEF IInv
<1> QED BY <1>1, Invariance, PTL

(* However Wakeup and swiproc race, a sleep is ended exactly once, and     *)
(* Sleep never finds its rendezvous taken.                                 *)
THEOREM SleepEndedOnce == Spec => []EndedOnce
<1>1. IInv => EndedOnce
  <2> SUFFICES ASSUME IInv, NEW p \in Proc
               PROVE  /\ Cardinality({x \in Rend : rp[x] = p}) + sem[p]
                           = IF pc[p] \in {"posted", "sleep", "block"} THEN 1 ELSE 0
                      /\ pc[p] = "post" => rp[at[p]] = Nil
    BY DEF EndedOnce
  <2>1. /\ pc[p] = "post" => rp[at[p]] = Nil
        /\ \A x \in Rend : rp[x] = p => x = at[p] /\ Posted(p)
        /\ Posted(p) => at[p] \in Rend
        /\ sem[p] = IF Posted(p) /\ rp[at[p]] # p THEN 1 ELSE 0
    BY NilAssumption DEF IInv, TypeOK, RpInv, AtInv, SemInv, SleepPC, Posted
  <2>2. CASE Posted(p) /\ rp[at[p]] = p
    <3>1. {x \in Rend : rp[x] = p} = {at[p]}
      BY <2>1, <2>2
    <3>2. Cardinality({x \in Rend : rp[x] = p}) = 1
      BY <3>1, FS_Singleton
    <3> QED BY <2>1, <2>2, <3>2 DEF Posted
  <2>3. CASE ~(Posted(p) /\ rp[at[p]] = p)
    <3>1. {x \in Rend : rp[x] = p} = {}
      BY <2>1, <2>3
    <3>2. Cardinality({x \in Rend : rp[x] = p}) = 0
      BY <3>1, FS_EmptySet
    <3> QED BY <2>1, <2>3, <3>2 DEF Posted
  <2> QED BY <2>2, <2>3
<1> QED BY <1>1, Invariance, PTL

(* While a host note is on its way, its process cannot leave the call.     *)
THEOREM NoteFindsItsCall == Spec => []NoteStaysInCall
<1>1. IInv => NoteStaysInCall
  BY DEF IInv, NoteInv
<1> QED BY <1>1, Invariance, PTL

(* Sleep does not return normally to a process swiproc has pulled out.     *)
THEOREM SleepSaysInterrupted == Spec => InterruptDelivered
<1>1. IInv => [\A p \in Proc : pulled[p] => ~SleepReturns(p)]_vars
  BY DEF IInv, PulledInv, SleepReturns
<1> QED BY <1>1, Invariance, PTL DEF InterruptDelivered
=============================================================================
