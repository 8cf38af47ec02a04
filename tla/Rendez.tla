------------------------------- MODULE Rendez -------------------------------
(***************************************************************************)
(* Sleep, Wakeup, swiproc, notkilled, osenter and osleave of               *)
(* sys/src/9/proc.c, with callers shaped like those of the tree: a process *)
(* takes the queued lock that guards a rendezvous, waits in a loop until   *)
(* its condition holds, consumes it and goes; a waker makes the condition  *)
(* true and calls Wakeup; anybody may interrupt a process with swiproc,    *)
(* asleep in Sleep or in a host call between osenter and osleave.          *)
(*                                                                         *)
(* A critical section of a spin lock is one step when everything it        *)
(* touches is guarded by that lock, and is opened up where it is not: f()  *)
(* reads the condition, and swiproc writes swipend, under other locks.     *)
(***************************************************************************)
EXTENDS Integers, FiniteSets

CONSTANTS Proc,      (* processes that sleep and make host calls       *)
          Rend,      (* the Rendez structures                          *)
          Waker,     (* processes that call Wakeup                     *)
          Killer,    (* processes that call swiproc                    *)
          MaxIntr,   (* bound: how often swiproc is called             *)
          Nil

ASSUME NilAssumption == Nil \notin Proc \cup Rend
ASSUME MaxIntrAssumption == MaxIntr \in Nat

VARIABLES
  cond,      (* cond[r]: what f(arg) returns for r                       *)
  guard,     (* guard[r]: who holds the qlock around Sleep(r), or Nil    *)
  rp,        (* rp[r]: r->p                                              *)
  rl,        (* rl[r]: r->l.val                                          *)
  rlock,     (* rlock[p]: p->rlock.val                                   *)
  sysio,     (* sysio[p]: p->sysio.val, as held by swiproc               *)
  pr,        (* pr[p]: p->r, the rendezvous slept on, read by swiproc    *)
  killed, swipend, syscall, intwait,   (* fields of Proc                 *)
  saw,       (* saw[p]: the local r of osleave, as run by p              *)
  sem,       (* sem[p]: osready(p) calls not yet taken by osblock        *)
  pc, at,    (* where p is, and the rendezvous it is busy with           *)
  wpc,       (* wpc[w]: the rendezvous w is about to Wakeup, or Nil      *)
  kpc, victim,  (* where a killer is in swiproc, and its p               *)
  intr,      (* how often swiproc was called, up to MaxIntr              *)
  pulled     (* auxiliary: pulled[p]: swiproc ended the present Sleep    *)

rendvars == <<cond, guard, rp, rl>>
procvars == <<rlock, sysio, pr, killed, swipend, syscall, intwait, saw, sem>>
ctlvars  == <<pc, at>>
envvars  == <<wpc, kpc, victim, intr>>
vars     == <<rendvars, procvars, ctlvars, envvars, pulled>>

SleepPC == {"lock", "locked", "test", "post", "posted", "sleep", "block",
            "woken", "check"}
HostPC  == {"host", "leave", "clear", "unsys", "spin"}
PC      == {"idle", "loop"} \cup SleepPC \cup HostPC
KPC     == {"idle", "enter", "pull", "host", "sysio", "hostintr"}

TypeOK ==
  /\ cond \in [Rend -> BOOLEAN]
  /\ guard \in [Rend -> Proc \cup {Nil}]
  /\ rp \in [Rend -> Proc \cup {Nil}]
  /\ rl \in [Rend -> BOOLEAN]
  /\ rlock \in [Proc -> BOOLEAN]
  /\ sysio \in [Proc -> BOOLEAN]
  /\ pr \in [Proc -> Rend \cup {Nil}]
  /\ killed \in [Proc -> BOOLEAN]
  /\ swipend \in [Proc -> BOOLEAN]
  /\ syscall \in [Proc -> BOOLEAN]
  /\ intwait \in [Proc -> BOOLEAN]
  /\ saw \in [Proc -> BOOLEAN]
  /\ sem \in [Proc -> Nat]
  /\ pc \in [Proc -> PC]
  /\ at \in [Proc -> Rend \cup {Nil}]
  /\ wpc \in [Waker -> Rend \cup {Nil}]
  /\ kpc \in [Killer -> KPC]
  /\ victim \in [Killer -> Proc \cup {Nil}]
  /\ intr \in 0..MaxIntr
  /\ pulled \in [Proc -> BOOLEAN]

Init ==
  /\ cond = [x \in Rend |-> FALSE]
  /\ guard = [x \in Rend |-> Nil]
  /\ rp = [x \in Rend |-> Nil]
  /\ rl = [x \in Rend |-> FALSE]
  /\ rlock = [p \in Proc |-> FALSE]
  /\ sysio = [p \in Proc |-> FALSE]
  /\ pr = [p \in Proc |-> Nil]
  /\ killed = [p \in Proc |-> FALSE]
  /\ swipend = [p \in Proc |-> FALSE]
  /\ syscall = [p \in Proc |-> FALSE]
  /\ intwait = [p \in Proc |-> FALSE]
  /\ saw = [p \in Proc |-> FALSE]
  /\ sem = [p \in Proc |-> 0]
  /\ pc = [p \in Proc |-> "idle"]
  /\ at = [p \in Proc |-> Nil]
  /\ wpc = [w \in Waker |-> Nil]
  /\ kpc = [k \in Killer |-> "idle"]
  /\ victim = [k \in Killer |-> Nil]
  /\ intr = 0
  /\ pulled = [p \in Proc |-> FALSE]

Set(f, p, v) == [f EXCEPT ![p] = v]
Goto(p, from, to) == pc[p] = from /\ pc' = Set(pc, p, to)

-----------------------------------------------------------------------------
(* The caller: qlock(&q->rlock), then a loop around Sleep, as qread does.  *)

Enter(p, x) == /\ Goto(p, "idle", "loop")
               /\ guard[x] = Nil
               /\ guard' = Set(guard, x, p)
               /\ at' = Set(at, p, x)
               /\ UNCHANGED <<cond, rp, rl, procvars, envvars, pulled>>

Leave(p) == /\ guard' = Set(guard, at[p], Nil)
            /\ at' = Set(at, p, Nil)

Consume(p) == /\ Goto(p, "loop", "idle")
              /\ cond[at[p]]
              /\ cond' = Set(cond, at[p], FALSE)
              /\ Leave(p)
              /\ UNCHANGED <<rp, rl, procvars, envvars, pulled>>

CallSleep(p) == /\ Goto(p, "loop", "lock")
                /\ ~cond[at[p]]
                /\ UNCHANGED <<rendvars, procvars, at, envvars, pulled>>

-----------------------------------------------------------------------------
(* Sleep *)

LockUp(p) == /\ Goto(p, "lock", "locked")
             /\ ~rlock[p]
             /\ rlock' = Set(rlock, p, TRUE)
             /\ UNCHANGED <<rendvars, sysio, pr, killed, swipend, syscall, intwait,
                            saw, sem, at, envvars, pulled>>

LockRend(p) == /\ Goto(p, "locked", "test")
               /\ ~rl[at[p]]
               /\ rl' = Set(rl, at[p], TRUE)
               /\ UNCHANGED <<cond, guard, rp, procvars, at, envvars, pulled>>

(* if(up->killed || f(arg)) unlock(&r->l); *)
NeverMind(p) == /\ Goto(p, "test", "check")
                /\ killed[p] \/ cond[at[p]]
                /\ rl' = Set(rl, at[p], FALSE)
                /\ UNCHANGED <<cond, guard, rp, procvars, at, envvars, pulled>>

MustWait(p) == /\ Goto(p, "test", "post")
               /\ ~killed[p] /\ ~cond[at[p]]
               /\ UNCHANGED <<rendvars, procvars, at, envvars, pulled>>

(* Line 51 panics instead if r->p is set: see EndedOnce. *)
Post(p) == /\ Goto(p, "post", "posted")
           /\ rp' = Set(rp, at[p], p)
           /\ rl' = Set(rl, at[p], FALSE)
           /\ UNCHANGED <<cond, guard, procvars, at, envvars, pulled>>

Publish(p) == /\ Goto(p, "posted", "sleep")
              /\ swipend' = Set(swipend, p, FALSE)
              /\ pr' = Set(pr, p, at[p])
              /\ UNCHANGED <<rendvars, rlock, sysio, killed, syscall, intwait, saw,
                             sem, at, envvars, pulled>>

UnlockUp(p) == /\ Goto(p, "sleep", "block")
               /\ rlock' = Set(rlock, p, FALSE)
               /\ UNCHANGED <<rendvars, sysio, pr, killed, swipend, syscall, intwait,
                              saw, sem, at, envvars, pulled>>

osblock(p) == /\ Goto(p, "block", "woken")
              /\ sem[p] > 0
              /\ sem' = Set(sem, p, sem[p] - 1)
              /\ UNCHANGED <<rendvars, rlock, sysio, pr, killed, swipend, syscall,
                             intwait, saw, at, envvars, pulled>>

(* Mutant: the pending interrupt is cleared on waking, not before sleeping. *)
Relock_Clears(p) == /\ Goto(p, "woken", "check")
                    /\ ~rlock[p]
                    /\ rlock' = Set(rlock, p, TRUE)
                    /\ pr' = Set(pr, p, Nil)
                    /\ swipend' = Set(swipend, p, FALSE)
                    /\ UNCHANGED <<rendvars, sysio, killed, syscall, intwait, saw, sem,
                                   at, envvars, pulled>>

Relock(p) == /\ Goto(p, "woken", "check")
             /\ ~rlock[p]
             /\ rlock' = Set(rlock, p, TRUE)
             /\ pr' = Set(pr, p, Nil)
             /\ UNCHANGED <<rendvars, sysio, killed, swipend, syscall, intwait, saw,
                            sem, at, envvars, pulled>>

(* error(Eintr): the caller's waserror block unlocks the qlock and returns. *)
SleepEintr(p) == /\ Goto(p, "check", "idle")
                 /\ killed[p] \/ swipend[p]
                 /\ killed' = Set(killed, p, FALSE)
                 /\ swipend' = Set(swipend, p, FALSE)
                 /\ rlock' = Set(rlock, p, FALSE)
                 /\ Leave(p)
                 /\ pulled' = Set(pulled, p, FALSE)
                 /\ UNCHANGED <<cond, rp, rl, sysio, pr, syscall, intwait, saw, sem,
                                envvars>>

SleepReturns(p) == /\ Goto(p, "check", "loop")
                   /\ ~killed[p] /\ ~swipend[p]
                   /\ rlock' = Set(rlock, p, FALSE)
                   /\ pulled' = Set(pulled, p, FALSE)
                   /\ UNCHANGED <<rendvars, sysio, pr, killed, swipend, syscall,
                                  intwait, saw, sem, at, envvars>>

-----------------------------------------------------------------------------
(* Host calls *)

osenter(p) == /\ Goto(p, "idle", "host")
              /\ syscall' = Set(syscall, p, TRUE)
              /\ UNCHANGED <<rendvars, rlock, sysio, pr, killed, swipend, intwait, saw,
                             sem, at, envvars, pulled>>

HostReturns(p) == /\ Goto(p, "host", "leave")
                  /\ UNCHANGED <<rendvars, procvars, at, envvars, pulled>>

(* osleave: r = up->swipend; up->swipend = 0; under rlock, which swiproc   *)
(* does not hold when it interrupts a host call.                           *)
LeaveRead(p) == /\ Goto(p, "leave", "clear")
                /\ ~rlock[p]
                /\ rlock' = Set(rlock, p, TRUE)
                /\ saw' = Set(saw, p, swipend[p])
                /\ UNCHANGED <<rendvars, sysio, pr, killed, swipend, syscall, intwait,
                               sem, at, envvars, pulled>>

LeaveClear(p) == /\ Goto(p, "clear", "unsys")
                 /\ swipend' = Set(swipend, p, FALSE)
                 /\ rlock' = Set(rlock, p, FALSE)
                 /\ UNCHANGED <<rendvars, sysio, pr, killed, syscall, intwait, saw, sem,
                                at, envvars, pulled>>

LeaveSyscall(p) == /\ Goto(p, "unsys", "spin")
                   /\ ~sysio[p]
                   /\ syscall' = Set(syscall, p, FALSE)
                   /\ UNCHANGED <<rendvars, rlock, sysio, pr, killed, swipend, intwait,
                                  saw, sem, at, envvars, pulled>>

(* Mutant: osleave does not wait for the note. *)
LeaveDone_NoSpin(p) == /\ Goto(p, "spin", "idle")
                       /\ saw' = Set(saw, p, FALSE)
                       /\ UNCHANGED <<rendvars, rlock, sysio, pr, killed, swipend,
                                      syscall, intwait, sem, at, envvars, pulled>>

(* while(up->intwait) osyield(); then error(Eintr) if r, or return. *)
LeaveDone(p) == /\ Goto(p, "spin", "idle")
                /\ ~intwait[p]
                /\ saw' = Set(saw, p, FALSE)
                /\ UNCHANGED <<rendvars, rlock, sysio, pr, killed, swipend, syscall,
                               intwait, sem, at, envvars, pulled>>

notkilled(p) == /\ pc[p] = "idle"
                /\ ~rlock[p]
                /\ killed[p]
                /\ killed' = Set(killed, p, FALSE)
                /\ UNCHANGED <<rendvars, rlock, sysio, pr, swipend, syscall, intwait,
                               saw, sem, ctlvars, envvars, pulled>>

-----------------------------------------------------------------------------
(* Wakers *)

MakeTrue(w, x) == /\ wpc[w] = Nil
                  /\ cond' = Set(cond, x, TRUE)
                  /\ wpc' = Set(wpc, w, x)
                  /\ UNCHANGED <<guard, rp, rl, procvars, ctlvars, kpc, victim, intr,
                                 pulled>>

(* Mutants: r->p is left set, or osready is not called. *)
Wakeup_KeepsP(w) ==
  /\ wpc[w] # Nil
  /\ ~rl[wpc[w]]
  /\ sem' = IF rp[wpc[w]] = Nil THEN sem
            ELSE Set(sem, rp[wpc[w]], sem[rp[wpc[w]]] + 1)
  /\ wpc' = Set(wpc, w, Nil)
  /\ UNCHANGED <<rendvars, rlock, sysio, pr, killed, swipend, syscall, intwait, saw,
                 ctlvars, kpc, victim, intr, pulled>>

Wakeup_NoReady(w) ==
  /\ wpc[w] # Nil
  /\ ~rl[wpc[w]]
  /\ rp' = Set(rp, wpc[w], Nil)
  /\ wpc' = Set(wpc, w, Nil)
  /\ UNCHANGED <<cond, guard, rl, procvars, ctlvars, kpc, victim, intr, pulled>>

Wakeup(w) == /\ wpc[w] # Nil
             /\ LET x == wpc[w] IN
                /\ ~rl[x]
                /\ \/ /\ rp[x] # Nil
                      /\ sem' = Set(sem, rp[x], sem[rp[x]] + 1)
                      /\ rp' = Set(rp, x, Nil)
                   \/ /\ rp[x] = Nil
                      /\ UNCHANGED <<sem, rp>>
             /\ wpc' = Set(wpc, w, Nil)
             /\ UNCHANGED <<cond, guard, rl, rlock, sysio, pr, killed, swipend,
                            syscall, intwait, saw, ctlvars, kpc, victim, intr, pulled>>

-----------------------------------------------------------------------------
(* swiproc(p, interp) *)

KGoto(k, from, to) == kpc[k] = from /\ kpc' = Set(kpc, k, to)

CallSwiproc(k, p) == /\ KGoto(k, "idle", "enter")
                     /\ intr < MaxIntr
                     /\ intr' = intr + 1
                     /\ victim' = Set(victim, k, p)
                     /\ UNCHANGED <<rendvars, procvars, ctlvars, wpc, pulled>>

(* lock(&p->rlock); if(!interp) p->killed = 1; r = p->r; if(r != nil) ... *)
SwiLock(k) ==
  LET p == victim[k] IN
  /\ kpc[k] = "enter"
  /\ ~rlock[p]
  /\ \E interp \in BOOLEAN : killed' = Set(killed, p, killed[p] \/ ~interp)
  /\ \/ /\ pr[p] # Nil
        /\ kpc' = Set(kpc, k, "pull")
        /\ rlock' = Set(rlock, p, TRUE)
     \/ /\ pr[p] = Nil
        /\ kpc' = Set(kpc, k, "host")
        /\ UNCHANGED rlock
  /\ UNCHANGED <<rendvars, sysio, pr, swipend, syscall, intwait, saw, sem, ctlvars,
                 wpc, victim, intr, pulled>>

SwiPull(k) ==
  LET p == victim[k]
      x == pr[p]
  IN /\ KGoto(k, "pull", "idle")
     /\ ~rl[x]
     /\ \/ /\ rp[x] = p
           /\ swipend' = Set(swipend, p, TRUE)
           /\ rp' = Set(rp, x, Nil)
           /\ sem' = Set(sem, p, sem[p] + 1)
           /\ pulled' = Set(pulled, p, TRUE)
        \/ /\ rp[x] # p
           /\ UNCHANGED <<swipend, rp, sem, pulled>>
     /\ rlock' = Set(rlock, p, FALSE)
     /\ victim' = Set(victim, k, Nil)
     /\ UNCHANGED <<cond, guard, rl, sysio, pr, killed, syscall, intwait, saw, ctlvars,
                    wpc, intr>>

SwiSysio(k) ==
  LET p == victim[k] IN
  /\ KGoto(k, "host", "sysio")
  /\ ~sysio[p]
  /\ sysio' = Set(sysio, p, TRUE)
  /\ UNCHANGED <<rendvars, rlock, pr, killed, swipend, syscall, intwait, saw, sem,
                 ctlvars, wpc, victim, intr, pulled>>

(* Mutant: swiproc leaves with p->sysio locked. *)
SwiNote_KeepsSysio(k) ==
  LET p == victim[k] IN
  /\ KGoto(k, "sysio", "hostintr")
  /\ syscall[p] /\ ~intwait[p]
  /\ swipend' = Set(swipend, p, TRUE)
  /\ intwait' = Set(intwait, p, TRUE)
  /\ UNCHANGED <<rendvars, rlock, sysio, pr, killed, syscall, saw, sem, ctlvars, wpc,
                 victim, intr, pulled>>

SwiNote(k) ==
  LET p == victim[k] IN
  /\ KGoto(k, "sysio", "hostintr")
  /\ syscall[p] /\ ~intwait[p]
  /\ swipend' = Set(swipend, p, TRUE)
  /\ intwait' = Set(intwait, p, TRUE)
  /\ sysio' = Set(sysio, p, FALSE)
  /\ UNCHANGED <<rendvars, rlock, pr, killed, syscall, saw, sem, ctlvars, wpc, victim,
                 intr, pulled>>

SwiNothing(k) ==
  LET p == victim[k] IN
  /\ KGoto(k, "sysio", "idle")
  /\ ~(syscall[p] /\ ~intwait[p])
  /\ sysio' = Set(sysio, p, FALSE)
  /\ victim' = Set(victim, k, Nil)
  /\ UNCHANGED <<rendvars, rlock, pr, killed, swipend, syscall, intwait, saw, sem,
                 ctlvars, wpc, intr, pulled>>

(* oshostintr: the host delivers a note, whose handler clears p->intwait. *)
oshostintr(k) ==
  /\ KGoto(k, "hostintr", "idle")
  /\ intwait' = Set(intwait, victim[k], FALSE)
  /\ victim' = Set(victim, k, Nil)
  /\ UNCHANGED <<rendvars, rlock, sysio, pr, killed, swipend, syscall, saw, sem,
                 ctlvars, wpc, intr, pulled>>

-----------------------------------------------------------------------------
Sleep(p) == \/ LockUp(p)   \/ LockRend(p) \/ NeverMind(p) \/ MustWait(p)
            \/ Post(p)     \/ Publish(p)  \/ UnlockUp(p)  \/ osblock(p)
            \/ Relock(p)   \/ SleepEintr(p) \/ SleepReturns(p)

osleave(p) == LeaveRead(p) \/ LeaveClear(p) \/ LeaveSyscall(p) \/ LeaveDone(p)

swiproc(k) == \/ SwiLock(k) \/ SwiPull(k)    \/ SwiSysio(k)
              \/ SwiNote(k) \/ SwiNothing(k) \/ oshostintr(k)

Inside(p) == Consume(p) \/ CallSleep(p) \/ Sleep(p) \/ HostReturns(p) \/ osleave(p)

Next == \/ \E p \in Proc : \/ \E x \in Rend : Enter(p, x)
                           \/ osenter(p) \/ notkilled(p) \/ Inside(p)
        \/ \E w \in Waker : (\E x \in Rend : MakeTrue(w, x)) \/ Wakeup(w)
        \/ \E k \in Killer : (\E p \in Proc : CallSwiproc(k, p)) \/ swiproc(k)

Spec == Init /\ [][Next]_vars

(* What has been started goes on: calls in progress, Wakeup included. *)
FairSpec == /\ Spec
            /\ \A p \in Proc : WF_vars(Inside(p))
            /\ \A w \in Waker : WF_vars(Wakeup(w))
            /\ \A k \in Killer : WF_vars(swiproc(k))

-----------------------------------------------------------------------------
(* Every sleep is ended exactly once.  A process between posting itself    *)
(* and waking is either still posted on its rendezvous or has one token in *)
(* its semaphore, never both, and at any other time neither: Wakeup and    *)
(* swiproc never both ready it, and no token is left for a later osblock.  *)
(* Nor does Sleep ever reach its "double sleep" panic: whoever ended the   *)
(* last sleep took the process off the rendezvous.                         *)
EndedOnce ==
  \A p \in Proc :
    LET posted == Cardinality({x \in Rend : rp[x] = p})
    IN /\ posted + sem[p] = IF pc[p] \in {"posted", "sleep", "block"} THEN 1 ELSE 0
       /\ pc[p] = "post" => rp[at[p]] = Nil

(* A sleep ended by swiproc ends with Eintr, never as if by a Wakeup.      *)
InterruptDelivered ==
  [][\A p \in Proc : pulled[p] => ~SleepReturns(p)]_vars

(* A host note only ever arrives in the host call it is meant for.  While  *)
(* one is on its way the process cannot get out of osleave.                *)
NoteStaysInCall ==
  \A k \in Killer : kpc[k] = "hostintr" =>
    intwait[victim[k]] /\ pc[victim[k]] \in HostPC

(* A sleeper whose condition is true gets away, whoever interrupts it.     *)
SleepEnds ==
  \A p \in Proc, x \in Rend :
    (pc[p] = "block" /\ at[p] = x /\ cond[x]) ~> pc[p] # "block"

(* osleave returns: it waits for rlock, for sysio and for the note on its  *)
(* way to the process, and for nothing else.                               *)
HostCallEnds == \A p \in Proc : pc[p] = "leave" ~> pc[p] = "idle"
=============================================================================
