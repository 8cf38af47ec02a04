------------------------------- MODULE QLock --------------------------------
(***************************************************************************)
(* The queued lock of sys/src/9/lock.c: qlock, canqlock and qunlock over   *)
(* the spin lock q->use, the intrusive list q->head, q->tail, p->qnext,    *)
(* and the host's per-process semaphore osblock()/osready().               *)
(*                                                                         *)
(* A process is between two steps wherever another processor can run:      *)
(* around every lock and unlock of q->use, between the pointer updates     *)
(* made under it, and between unlock(&q->use) and osblock or osready.      *)
(***************************************************************************)
EXTENDS Integers, Sequences

CONSTANTS Proc,     (* the processes that use the lock                *)
          Trier,    (* those of them that also call canqlock          *)
          NoProc    (* nil                                            *)

ASSUME NoProcAssumption == NoProc \notin Proc
ASSUME TrierAssumption  == Trier \subseteq Proc

VARIABLES
  use,      (* q->use.val: 1 while the spin lock is taken                  *)
  locked,   (* q->locked                                                   *)
  head,     (* q->head                                                     *)
  tail,     (* q->tail                                                     *)
  qnext,    (* qnext[p] is p->qnext                                        *)
  sem,      (* sem[p]: osready(p) calls that osblock() by p has not taken  *)
  pc,       (* pc[p]: where p is                                           *)
  heir,     (* heir[p]: the local variable p of qunlock, as run by p       *)
  order     (* auxiliary: who is linked into the list, oldest first        *)

lockvars == <<locked, head, tail, qnext>>
vars     == <<use, locked, head, tail, qnext, sem, pc, heir, order>>

PC == {"idle",                                        \* outside
       "qlock", "test", "link", "settail", "drop",    \* qlock
       "block",
       "canqlock", "cantest", "canfail",              \* canqlock
       "taken",                                       \* both: q->locked set
       "cs",                                          \* lock held
       "qunlock", "pop", "poptail", "hand", "ready",  \* qunlock
       "free"}

TypeOK == /\ use \in {0, 1}
          /\ locked \in {0, 1}
          /\ head \in Proc \cup {NoProc}
          /\ tail \in Proc \cup {NoProc}
          /\ qnext \in [Proc -> Proc \cup {NoProc}]
          /\ sem \in [Proc -> Nat]
          /\ pc \in [Proc -> PC]
          /\ heir \in [Proc -> Proc \cup {NoProc}]
          /\ order \in Seq(Proc)

Init == /\ use = 0
        /\ locked = 0
        /\ head = NoProc
        /\ tail = NoProc
        /\ qnext = [p \in Proc |-> NoProc]
        /\ sem = [p \in Proc |-> 0]
        /\ pc = [p \in Proc |-> "idle"]
        /\ heir = [p \in Proc |-> NoProc]
        /\ order = <<>>

Goto(p, to) == pc' = [pc EXCEPT ![p] = to]

-----------------------------------------------------------------------------
(* The spin lock: _tas(&l->val) == 0, retried until it succeeds, and       *)
(* l->val = 0.                                                             *)

(* Mutant: a test-and-set that is not atomic. *)
lock_NotAtomic(p, from, to) == /\ pc[p] = from
                               /\ use' = 1
                               /\ Goto(p, to)
                               /\ UNCHANGED <<lockvars, sem, heir, order>>

lock(p, from, to) == /\ pc[p] = from
                     /\ use = 0
                     /\ use' = 1
                     /\ Goto(p, to)
                     /\ UNCHANGED <<lockvars, sem, heir, order>>

unlock(p, from, to) == /\ pc[p] = from
                       /\ use' = 0
                       /\ Goto(p, to)
                       /\ UNCHANGED <<lockvars, sem, heir, order>>

-----------------------------------------------------------------------------
(* qlock *)

CallQlock(p) == /\ pc[p] = "idle"
                /\ Goto(p, "qlock")
                /\ UNCHANGED <<use, lockvars, sem, heir, order>>

QlockUse(p) == lock(p, "qlock", "test")

QlockTake(p) == /\ pc[p] = "test"
                /\ locked = 0
                /\ locked' = 1
                /\ Goto(p, "taken")
                /\ UNCHANGED <<use, head, tail, qnext, sem, heir, order>>

QlockBusy(p) == /\ pc[p] = "test"
                /\ locked = 1
                /\ Goto(p, "link")
                /\ UNCHANGED <<use, lockvars, sem, heir, order>>

QlockLink(p) == /\ pc[p] = "link"
                /\ \/ /\ tail = NoProc
                      /\ head' = p
                      /\ UNCHANGED qnext
                   \/ /\ tail # NoProc
                      /\ qnext' = [qnext EXCEPT ![tail] = p]
                      /\ UNCHANGED head
                /\ order' = Append(order, p)
                /\ Goto(p, "settail")
                /\ UNCHANGED <<use, locked, tail, sem, heir>>

QlockTail(p) == /\ pc[p] = "settail"
                /\ tail' = p
                /\ qnext' = [qnext EXCEPT ![p] = NoProc]
                /\ Goto(p, "drop")
                /\ UNCHANGED <<use, locked, head, sem, heir, order>>

QlockDrop(p) == unlock(p, "drop", "block")

(* osblock(): the host semaphore of the calling process. *)
osblock(p) == /\ pc[p] = "block"
              /\ sem[p] > 0
              /\ sem' = [sem EXCEPT ![p] = @ - 1]
              /\ Goto(p, "cs")
              /\ UNCHANGED <<use, lockvars, heir, order>>

(* Both qlock and canqlock end with unlock(&q->use) after q->locked = 1. *)
Taken(p) == unlock(p, "taken", "cs")

-----------------------------------------------------------------------------
(* canqlock: it never waits, not even for q->use. *)

CallCanqlock(p) == /\ p \in Trier
                   /\ pc[p] = "idle"
                   /\ Goto(p, "canqlock")
                   /\ UNCHANGED <<use, lockvars, sem, heir, order>>

CanlockFails(p) == /\ pc[p] = "canqlock"
                   /\ use = 1
                   /\ Goto(p, "idle")
                   /\ UNCHANGED <<use, lockvars, sem, heir, order>>

CanqlockUse(p) == lock(p, "canqlock", "cantest")

CanqlockTake(p) == /\ pc[p] = "cantest"
                   /\ locked = 0
                   /\ locked' = 1
                   /\ Goto(p, "taken")
                   /\ UNCHANGED <<use, head, tail, qnext, sem, heir, order>>

CanqlockBusy(p) == /\ pc[p] = "cantest"
                   /\ locked = 1
                   /\ Goto(p, "canfail")
                   /\ UNCHANGED <<use, lockvars, sem, heir, order>>

CanqlockFails(p) == unlock(p, "canfail", "idle")

-----------------------------------------------------------------------------
(* qunlock *)

CallQunlock(p) == /\ pc[p] = "cs"
                  /\ Goto(p, "qunlock")
                  /\ UNCHANGED <<use, lockvars, sem, heir, order>>

QunlockUse(p) == lock(p, "qunlock", "pop")

(* Mutant: q->locked is cleared although a waiter is given the lock. *)
QunlockPop_Unlocks(p) == /\ pc[p] = "pop"
                         /\ head # NoProc
                         /\ heir' = [heir EXCEPT ![p] = head]
                         /\ head' = qnext[head]
                         /\ locked' = 0
                         /\ order' = Tail(order)
                         /\ Goto(p, "poptail")
                         /\ UNCHANGED <<use, tail, qnext, sem>>

QunlockPop(p) == /\ pc[p] = "pop"
                 /\ head # NoProc
                 /\ heir' = [heir EXCEPT ![p] = head]
                 /\ head' = qnext[head]
                 /\ order' = Tail(order)
                 /\ Goto(p, "poptail")
                 /\ UNCHANGED <<use, locked, tail, qnext, sem>>

(* Mutant: q->tail is always cleared, so the next waiter replaces the list. *)
QunlockTail_Drops(p) == /\ pc[p] = "poptail"
                        /\ tail' = NoProc
                        /\ Goto(p, "hand")
                        /\ UNCHANGED <<use, locked, head, qnext, sem, heir, order>>

QunlockTail(p) == /\ pc[p] = "poptail"
                  /\ tail' = IF head = NoProc THEN NoProc ELSE tail
                  /\ Goto(p, "hand")
                  /\ UNCHANGED <<use, locked, head, qnext, sem, heir, order>>

QunlockHand(p) == unlock(p, "hand", "ready")

(* Mutant: the wakeup is lost. *)
osready_Lost(p) == /\ pc[p] = "ready"
                   /\ heir' = [heir EXCEPT ![p] = NoProc]
                   /\ Goto(p, "idle")
                   /\ UNCHANGED <<use, lockvars, sem, order>>

(* osready(p): q->locked stays set, the lock now belongs to the heir. *)
osready(p) == /\ pc[p] = "ready"
              /\ sem' = [sem EXCEPT ![heir[p]] = @ + 1]
              /\ heir' = [heir EXCEPT ![p] = NoProc]
              /\ Goto(p, "idle")
              /\ UNCHANGED <<use, lockvars, order>>

(* Mutant: the list is not looked at before q->locked is cleared. *)
QunlockFree_Always(p) == /\ pc[p] = "pop"
                         /\ locked' = 0
                         /\ Goto(p, "free")
                         /\ UNCHANGED <<use, head, tail, qnext, sem, heir, order>>

QunlockFree(p) == /\ pc[p] = "pop"
                  /\ head = NoProc
                  /\ locked' = 0
                  /\ Goto(p, "free")
                  /\ UNCHANGED <<use, head, tail, qnext, sem, heir, order>>

QunlockDone(p) == unlock(p, "free", "idle")

-----------------------------------------------------------------------------
qlock(p) == \/ QlockUse(p)  \/ QlockTake(p) \/ QlockBusy(p) \/ QlockLink(p)
            \/ QlockTail(p) \/ QlockDrop(p) \/ osblock(p)   \/ Taken(p)

canqlock(p) == \/ CanlockFails(p) \/ CanqlockUse(p)  \/ CanqlockTake(p)
               \/ CanqlockBusy(p) \/ CanqlockFails(p)

qunlock(p) == \/ QunlockUse(p)  \/ QunlockPop(p) \/ QunlockTail(p)
              \/ QunlockHand(p) \/ osready(p)    \/ QunlockFree(p)
              \/ QunlockDone(p)

(* Calls are made freely, except that the holder does eventually unlock. *)
Step(p) == qlock(p) \/ canqlock(p) \/ CallQunlock(p) \/ qunlock(p)

Next == \E p \in Proc : CallQlock(p) \/ CallCanqlock(p) \/ Step(p)

Spec == Init /\ [][Next]_vars

(* Every process inside a call keeps running; nothing stronger is assumed  *)
(* of the spin lock than that a free one is eventually taken by a process  *)
(* that finds it free for ever.                                            *)
FairSpec == Spec /\ \A p \in Proc : WF_vars(Step(p))

-----------------------------------------------------------------------------
Queued(p) == \E i \in 1..Len(order) : order[i] = p

(* The lock belongs to p from the step that grants it (q->locked set by p, *)
(* or p taken off the list by the previous holder, long before p wakes) to *)
(* the step of qunlock that gives it up.                                   *)
Owns(p) == \/ pc[p] \in {"taken", "cs", "qunlock", "pop"}
           \/ pc[p] = "block" /\ ~Queued(p)

InUse(p) == pc[p] \in {"test", "link", "settail", "drop", "taken", "cantest",
                       "canfail", "pop", "poptail", "hand", "free"}

Owner == IF \E p \in Proc : Owns(p) THEN CHOOSE p \in Proc : Owns(p) ELSE NoProc

-----------------------------------------------------------------------------
(* Two processes never hold the lock at once, the new holder counting from *)
(* the moment qunlock unlinks it: the hand-over leaves q->locked set while *)
(* the old holder has not called osready yet and canqlock may be trying.   *)
MutualExclusion == \A p, q \in Proc : Owns(p) /\ Owns(q) => p = q

(* q->locked is set exactly while the lock belongs to somebody, so nobody  *)
(* is ever left on the list of a lock that no qunlock will come to.        *)
NobodyStranded == /\ locked = 1 <=> \E p \in Proc : Owns(p)
                  /\ order # <<>> => locked = 1

(* Whenever q->use is free, head, tail and the qnext links hold exactly    *)
(* the waiting processes in arrival order: no stale tail, no lost link,    *)
(* although qunlock leaves a stale qnext in the process it unlinks.        *)
ListInOrder ==
  use = 0 =>
    /\ order = <<>> => head = NoProc /\ tail = NoProc
    /\ order # <<>> =>
         /\ head = order[1]
         /\ tail = order[Len(order)]
         /\ qnext[tail] = NoProc
         /\ \A i \in 1..Len(order) - 1 : qnext[order[i]] = order[i + 1]

(* osblock is balanced by exactly one osready.  The semaphore is the one   *)
(* Sleep uses too, so a token left behind would end a later sleep early:   *)
(* a process has a token only while it is the heir and still in qlock.     *)
ReadyingFor(p) == {u \in Proc : /\ pc[u] \in {"poptail", "hand", "ready"}
                                /\ heir[u] = p}

OneToken ==
  \A p \in Proc :
    IF pc[p] = "block" /\ ~Queued(p)
    THEN \/ sem[p] = 1 /\ ReadyingFor(p) = {}
         \/ sem[p] = 0 /\ \E u \in Proc : ReadyingFor(p) = {u}
    ELSE sem[p] = 0 /\ ReadyingFor(p) = {}

(* The list, the flag and the semaphores together implement a FIFO lock    *)
(* that is handed straight to the oldest waiter.                           *)
Mutex == INSTANCE QMutex WITH owner <- Owner, waiting <- order
ImplementsMutex == Mutex!Spec

(* A process linked into the list gets the lock if holders do unlock, once *)
(* canqlock is no longer called: a canqlock retried for ever can take      *)
(* q->use each time the lock() of qunlock looks at it.                     *)
WaitersServed ==
  <>[](\A p \in Proc : pc[p] # "canqlock") =>
    \A p \in Proc : Queued(p) ~> pc[p] = "cs"
=============================================================================
