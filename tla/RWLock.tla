------------------------------- MODULE RWLock -------------------------------
(***************************************************************************)
(* The reader-writer lock of sys/src/9/lock.c: rlock, canrlock, runlock,   *)
(* wlock and wunlock, over two queued locks and a spin lock.  The queued   *)
(* locks are taken as QLock provides them (QMutex), with one thing kept    *)
(* that QMutex hides: canqlock gives up when it meets somebody inside the  *)
(* spin lock of the QLock, and rlock does not look at its result.          *)
(***************************************************************************)
EXTENDS Integers, Sequences, FiniteSets

CONSTANTS Proc,     (* the processes that use the lock  *)
          NoProc,   (* nobody                           *)
          Readers   (* the readers, as owner of l->k    *)

ASSUME NobodyAssumption == {NoProc, Readers} \cap Proc = {} /\ NoProc # Readers

VARIABLES
  l,              (* holder of the spin lock l->l                       *)
  readers,        (* l->readers                                         *)
  xowner, xwait,  (* the queued lock l->x                               *)
  kowner, kwait,  (* the queued lock l->k                               *)
  kuse,           (* holder of the spin lock l->k.use                   *)
  pc

x == INSTANCE QMutex WITH owner <- xowner, waiting <- xwait
k == INSTANCE QMutex WITH owner <- kowner, waiting <- kwait

xvars == <<xowner, xwait>>
kvars == <<kowner, kwait, kuse>>
vars  == <<l, readers, xvars, kvars, pc>>

PC == {"idle",
       "rx", "rcount", "rl", "rdone", "reading",     \* rlock, canrlock
       "rlast", "rhand", "rout",                     \* runlock
       "wx", "wuse", "wk", "writing",                \* wlock
       "whand", "wout"}                              \* wunlock

TypeOK == /\ {l, xowner, kuse} \subseteq Proc \cup {NoProc}
          /\ kowner \in Proc \cup {NoProc, Readers}
          /\ readers \in Nat
          /\ xwait \in Seq(Proc) /\ kwait \in Seq(Proc)
          /\ pc \in [Proc -> PC]

Init == /\ l = NoProc /\ readers = 0
        /\ x!Init /\ k!Init /\ kuse = NoProc
        /\ pc = [p \in Proc |-> "idle"]

Goto(p, from, to) == pc[p] = from /\ pc' = [pc EXCEPT ![p] = to]

-----------------------------------------------------------------------------
(* rlock and canrlock *)

(* qlock(&l->x), which canrlock only tries. *)
Rlock(p) == /\ Goto(p, "idle", "rx")
            /\ x!Acquire(p) \/ x!Wait(p)
            /\ UNCHANGED <<l, readers, kvars>>

Canrlock(p) == /\ Goto(p, "idle", "rx")
               /\ x!Acquire(p)
               /\ UNCHANGED <<l, readers, kvars>>

(* Mutant: a flag instead of a count. *)
RlockCount_Flag(p) == /\ Goto(p, "rx", "rcount")
                      /\ xowner = p
                      /\ l = NoProc
                      /\ l' = p
                      /\ readers' = 1
                      /\ UNCHANGED <<xvars, kvars>>

RlockCount(p) == /\ Goto(p, "rx", "rcount")
                 /\ xowner = p
                 /\ l = NoProc
                 /\ l' = p
                 /\ readers' = readers + 1
                 /\ UNCHANGED <<xvars, kvars>>

(* Mutant: readers after the first one try, and the first does not. *)
RlockTry_NotFirst(p) == /\ Goto(p, "rcount", "rl")
                        /\ IF readers > 1 /\ kuse = NoProc /\ kowner = NoProc
                           THEN k!Acquire(Readers)
                           ELSE UNCHANGED <<kowner, kwait>>
                        /\ UNCHANGED <<l, readers, xvars, kuse>>

(* Mutant: a failure of canqlock is taken for a failure of rlock. *)
RlockTry_GivesUp(p) == /\ l' = NoProc
                       /\ \/ Goto(p, "rcount", "rdone") /\ kowner = NoProc
                             /\ k!Acquire(Readers)
                             /\ UNCHANGED <<readers, xvars>>
                          \/ Goto(p, "rcount", "idle") /\ kowner # NoProc
                             /\ readers' = readers - 1
                             /\ x!Release
                             /\ UNCHANGED <<kowner, kwait>>
                       /\ UNCHANGED kuse

(* canqlock(&l->k).  Any reader may be the one to release it. *)
RlockTry(p) == /\ Goto(p, "rcount", "rl")
               /\ IF kuse = NoProc /\ kowner = NoProc
                  THEN k!Acquire(Readers)
                  ELSE UNCHANGED <<kowner, kwait>>
               /\ UNCHANGED <<l, readers, xvars, kuse>>

RlockUnlock(p) == /\ Goto(p, "rl", "rdone")
                  /\ l' = NoProc
                  /\ UNCHANGED <<readers, xvars, kvars>>

RlockDone(p) == /\ Goto(p, "rdone", "reading")
                /\ x!Release
                /\ UNCHANGED <<l, readers, kvars>>

-----------------------------------------------------------------------------
(* runlock *)

Runlock(p) == /\ Goto(p, "reading", IF readers = 1 THEN "rlast" ELSE "rout")
              /\ l = NoProc
              /\ l' = p
              /\ readers' = readers - 1
              /\ UNCHANGED <<xvars, kvars>>

(* qunlock(&l->k), by the last reader out, whoever was the first one in *)
RunlockLast(p) == /\ Goto(p, "rlast", "rhand")
                  /\ kuse = NoProc
                  /\ kuse' = p
                  /\ UNCHANGED <<l, readers, xvars, kowner, kwait>>

RunlockHand(p) == /\ Goto(p, "rhand", "rout")
                  /\ k!Release
                  /\ kuse' = NoProc
                  /\ UNCHANGED <<l, readers, xvars>>

RunlockDone(p) == /\ Goto(p, "rout", "idle")
                  /\ l' = NoProc
                  /\ UNCHANGED <<readers, xvars, kvars>>

-----------------------------------------------------------------------------
(* wlock *)

Wlock(p) == /\ Goto(p, "idle", "wx")
            /\ x!Acquire(p) \/ x!Wait(p)
            /\ UNCHANGED <<l, readers, kvars>>

WlockUse(p) == /\ Goto(p, "wx", "wuse")
               /\ xowner = p
               /\ kuse = NoProc
               /\ kuse' = p
               /\ UNCHANGED <<l, readers, xvars, kowner, kwait>>

(* Mutant: as if qlock(&l->k) were canqlock(&l->k), its result ignored or *)
(* taken for that of wlock.                                                *)
WlockWait_Tries(p) == /\ Goto(p, "wuse", "writing")
                      /\ IF kowner = NoProc THEN k!Acquire(p)
                         ELSE UNCHANGED <<kowner, kwait>>
                      /\ kuse' = NoProc
                      /\ UNCHANGED <<l, readers, xvars>>

WlockWait_GivesUp(p) == /\ \/ Goto(p, "wuse", "wk") /\ k!Acquire(p) /\ UNCHANGED xvars
                           \/ Goto(p, "wuse", "idle") /\ kowner # NoProc /\ x!Release
                              /\ UNCHANGED <<kowner, kwait>>
                        /\ kuse' = NoProc
                        /\ UNCHANGED <<l, readers>>

(* qlock(&l->k) *)
WlockWait(p) == /\ Goto(p, "wuse", "wk")
                /\ k!Acquire(p) \/ k!Wait(p)
                /\ kuse' = NoProc
                /\ UNCHANGED <<l, readers, xvars>>

WlockDone(p) == /\ Goto(p, "wk", "writing")
                /\ kowner = p
                /\ UNCHANGED <<l, readers, xvars, kvars>>

-----------------------------------------------------------------------------
(* wunlock *)

Wunlock(p) == /\ Goto(p, "writing", "whand")
              /\ kuse = NoProc
              /\ kuse' = p
              /\ UNCHANGED <<l, readers, xvars, kowner, kwait>>

WunlockHand(p) == /\ Goto(p, "whand", "wout")
                  /\ k!Release
                  /\ kuse' = NoProc
                  /\ UNCHANGED <<l, readers, xvars>>

WunlockDone(p) == /\ Goto(p, "wout", "idle")
                  /\ x!Release
                  /\ UNCHANGED <<l, readers, kvars>>

-----------------------------------------------------------------------------
(* Calls are made freely; who holds the lock does eventually release it. *)
Step(p) == \/ RlockCount(p)  \/ RlockTry(p)    \/ RlockUnlock(p) \/ RlockDone(p)
           \/ Runlock(p)     \/ RunlockLast(p) \/ RunlockHand(p) \/ RunlockDone(p)
           \/ WlockUse(p)    \/ WlockWait(p)   \/ WlockDone(p)
           \/ Wunlock(p)     \/ WunlockHand(p) \/ WunlockDone(p)

Next == \E p \in Proc : Rlock(p) \/ Canrlock(p) \/ Wlock(p) \/ Step(p)

Spec == Init /\ [][Next]_vars

(* Processes keep running inside their calls.  Nothing is assumed of the   *)
(* spin locks: whoever could keep taking one is soon stopped by l->x.      *)
FairSpec == Spec /\ \A p \in Proc : WF_vars(Step(p))

-----------------------------------------------------------------------------
(* From the step that takes readers into the count to the one that takes   *)
(* them out; from the grant of l->k to the step that releases it.          *)
Reads(p)  == pc[p] \in {"rl", "rdone", "reading"}
Writes(p) == \/ pc[p] \in {"writing", "whand"}
             \/ pc[p] = "wk" /\ kowner = p

(* A writer is alone, counting it from the moment l->k is handed to it,    *)
(* although the hand-over is by a reader that is still in runlock.         *)
WriterAlone == \A p, q \in Proc : Writes(p) /\ p # q => ~Reads(q) /\ ~Writes(q)

(* The result of canqlock(&l->k) that rlock ignores: it never fails but    *)
(* because another reader holds l->k, so no reader goes in with k free.    *)
GateShut == (\E p \in Proc : Reads(p)) => kowner = Readers

(* The count is the number of readers inside, so that exactly one of them  *)
(* is the last one out.                                                    *)
CountedReaders ==
  readers = Cardinality({p \in Proc : pc[p] = "rcount" \/ Reads(p)})

(* A stream of readers does not keep a writer out, nor writers a reader.   *)
WritersServed == \A p \in Proc : pc[p] = "wx" ~> pc[p] = "writing"
ReadersServed == \A p \in Proc : pc[p] = "rx" ~> pc[p] = "reading"
=============================================================================
