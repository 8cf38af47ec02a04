---------------------------- MODULE QLockProofs -----------------------------
(***************************************************************************)
(* Proofs about QLock, for every set of processes: the inductive           *)
(* invariant, mutual exclusion, the list and semaphore invariants, and     *)
(* that QLock implements QMutex.                                           *)
(***************************************************************************)
EXTENDS QLock, SequenceTheorems, TLAPS

(* Linking p in leaves everybody else's place alone. *)
LEMMA AppendOrder ==
  ASSUME NEW P, NEW s \in Seq(P), NEW p \in P
  PROVE  /\ Append(s, p) \in Seq(P)
         /\ Append(s, p) # <<>>
         /\ Len(Append(s, p)) = Len(s) + 1
         /\ Append(s, p)[Len(s) + 1] = p
         /\ \A i \in 1..Len(s) : Append(s, p)[i] = s[i]
OBVIOUS

(* Unlinking the head moves everybody else up by one. *)
LEMMA TailOrder ==
  ASSUME NEW P, NEW s \in Seq(P), s # <<>>
  PROVE  /\ Tail(s) \in Seq(P)
         /\ Len(s) \in Nat \ {0}
         /\ Len(Tail(s)) = Len(s) - 1
         /\ Tail(s) = <<>> <=> Len(s) = 1
         /\ \A i \in 1..Len(s) - 1 : Tail(s)[i] = s[i + 1]
         /\ Head(s) = s[1]
         /\ s[1] \in P
<1>1. Len(s) \in Nat \ {0}
  BY EmptySeq
<1>2. Len(Tail(s)) = Len(s) - 1 /\ Tail(s) \in Seq(P)
  BY HeadTailProperties
<1>3. \A i \in 1..Len(s) - 1 : Tail(s)[i] = s[i + 1]
  BY <1>2, HeadTailProperties
<1>4. ASSUME Tail(s) = <<>> PROVE Len(s) = 1
  <2>1. Len(Tail(s)) = 0
    BY <1>4, EmptySeq, Zenon
  <2>2. Len(s) - 1 = 0
    BY <1>2, <2>1, Zenon
  <2> QED BY <1>1, <2>2
<1>5. ASSUME Len(s) = 1 PROVE Tail(s) = <<>>
  <2>1. Len(Tail(s)) \notin Nat \ {0}
    BY <1>2, <1>5
  <2> QED BY <1>2, <2>1, EmptySeq
<1>6. Head(s) = s[1] /\ s[1] \in P
  BY <1>1, ElementOfSeq
<1> QED BY <1>1, <1>2, <1>3, <1>4, <1>5, <1>6

(* One process at a time is between lock(&q->use) and unlock(&q->use). *)
SpinInv == /\ \A p \in Proc : InUse(p) => use = 1
           /\ \A p, q \in Proc : InUse(p) /\ InUse(q) => p = q

(* Who is on the list: each process once, and only inside qlock. *)
OrderInv ==
  /\ \A i, j \in 1..Len(order) : order[i] = order[j] => i = j
  /\ \A p \in Proc : Queued(p) => pc[p] \in {"settail", "drop", "block"}
  /\ \A p \in Proc : pc[p] \in {"settail", "drop"} => Queued(p)
  /\ \A p \in Proc : pc[p] = "settail" => order[Len(order)] = p

(* The pointers, with what is out of date inside a critical section. *)
ListInv ==
  /\ head = IF order = <<>> THEN NoProc ELSE order[1]
  /\ \A i \in 1..Len(order) - 1 : qnext[order[i]] = order[i + 1]
  /\ order # <<>> /\ (\A p \in Proc : pc[p] # "settail") =>
       tail = order[Len(order)] /\ qnext[tail] = NoProc
  /\ order = <<>> /\ (\A p \in Proc : pc[p] # "poptail") => tail = NoProc

(* Who owns the lock. *)
OwnInv ==
  /\ MutualExclusion
  /\ NobodyStranded
  /\ \A p \in Proc : pc[p] = "link" => locked = 1
  /\ \A p \in Proc : pc[p] = "free" => locked = 0

(* Semaphores. *)
Granted(p)  == pc[p] = "block" /\ ~Queued(p)
Readying(u) == pc[u] \in {"poptail", "hand", "ready"}

TokenInv ==
  /\ \A u \in Proc : Readying(u) => /\ heir[u] \in Proc
                                    /\ Granted(heir[u])
                                    /\ sem[heir[u]] = 0
  /\ \A u, v \in Proc : Readying(u) /\ Readying(v) => u = v
  /\ \A p \in Proc : sem[p] \in {0, 1}
  /\ \A p \in Proc : sem[p] = 1 => Granted(p)
  /\ \A p \in Proc : Granted(p) /\ sem[p] = 0 =>
                       \E u \in Proc : Readying(u) /\ heir[u] = p

IInv == TypeOK /\ SpinInv /\ OrderInv /\ ListInv /\ OwnInv /\ TokenInv
-----------------------------------------------------------------------------

(* Ownership is undisturbed by a step that changes neither q->locked, nor the *)
(* list, nor who owns the lock.                                            *)
LEMMA OwnershipKept ==
  ASSUME OwnInv, locked' = locked, order' = order,
         \A r \in Proc : Owns(r)' <=> Owns(r),
         \A r \in Proc : pc'[r] = "link" => locked = 1,
         \A r \in Proc : pc'[r] = "free" => locked = 0
  PROVE  OwnInv'
BY DEF OwnInv, MutualExclusion, NobodyStranded

(* The balance of osblock and osready is undisturbed by a step that changes *)
(* neither semaphores and heirs nor who is granted the lock or readying.   *)
LEMMA TokensKept ==
  ASSUME TokenInv, sem' = sem, heir' = heir,
         \A r \in Proc : Granted(r)' <=> Granted(r),
         \A r \in Proc : Readying(r)' <=> Readying(r)
  PROVE  TokenInv'
<1>1. \A u \in Proc : Readying(u)' => /\ heir'[u] \in Proc
                                      /\ Granted(heir[u])'
                                      /\ sem'[heir'[u]] = 0
  BY DEF TokenInv
<1>2. \A r \in Proc : sem'[r] \in {0, 1} /\ (sem'[r] = 1 => Granted(r)')
  BY DEF TokenInv
<1>3. \A r \in Proc : Granted(r)' /\ sem'[r] = 0 =>
                        \E u \in Proc : Readying(u)' /\ heir'[u] = r
  BY DEF TokenInv
<1>4. \A u, v \in Proc : Readying(u)' /\ Readying(v)' => u = v
  BY DEF TokenInv
<1> QED BY <1>1, <1>2, <1>3, <1>4 DEF TokenInv

(* Entering qlock touches nothing shared. *)
LEMMA CallQlockStep ==
  ASSUME IInv, NEW p \in Proc, CallQlock(p)
  PROVE  IInv'
<1>1. TypeOK'
    BY DEF IInv, TypeOK, PC, CallQlock, Goto, lockvars
<1>2. SpinInv'
    BY NoProcAssumption DEF IInv, TypeOK, SpinInv, InUse, CallQlock, Goto,
        lockvars
<1>3. OrderInv'
    BY NoProcAssumption DEF IInv, TypeOK, SpinInv, InUse, OrderInv, Queued,
        CallQlock, Goto, lockvars
<1>4. ListInv'
    BY NoProcAssumption DEF IInv, TypeOK, SpinInv, InUse, OrderInv, Queued,
        ListInv, OwnInv, MutualExclusion, NobodyStranded, Owns, CallQlock,
        Goto, lockvars
<1>5. OwnInv'
  <2>1. \A r \in Proc : Owns(r)' <=> Owns(r)
    BY DEF IInv, TypeOK, PC, SpinInv, InUse, OrderInv, Queued, Owns,
        CallQlock, Goto, lockvars
  <2> QED
    BY <2>1, OwnershipKept DEF IInv, TypeOK, PC, OwnInv, SpinInv, InUse,
        MutualExclusion, NobodyStranded, CallQlock, Goto, lockvars
<1>6. TokenInv'
  <2>1. /\ \A r \in Proc : Granted(r)' <=> Granted(r)
        /\ \A r \in Proc : Readying(r)' <=> Readying(r)
    BY DEF IInv, TypeOK, PC, OrderInv, SpinInv, InUse, Queued, Granted,
        Readying, CallQlock, Goto, lockvars
  <2> QED
    BY <2>1, TokensKept DEF IInv, CallQlock, Goto, lockvars
<1> QED BY <1>1, <1>2, <1>3, <1>4, <1>5, <1>6 DEF IInv

(* qlock takes q->use, and is then the only one inside it. *)
LEMMA QlockUseStep ==
  ASSUME IInv, NEW p \in Proc, QlockUse(p)
  PROVE  IInv'
<1>1. TypeOK'
    BY DEF IInv, TypeOK, PC, QlockUse, Goto, lockvars, lock
<1>2. SpinInv'
    BY NoProcAssumption DEF IInv, TypeOK, SpinInv, InUse, QlockUse, Goto,
        lockvars, lock
<1>3. OrderInv'
    BY NoProcAssumption DEF IInv, TypeOK, SpinInv, InUse, OrderInv, Queued,
        QlockUse, Goto, lockvars, lock
<1>4. ListInv'
    BY NoProcAssumption DEF IInv, TypeOK, SpinInv, InUse, OrderInv, Queued,
        ListInv, OwnInv, MutualExclusion, NobodyStranded, Owns, QlockUse,
        Goto, lockvars, lock
<1>5. OwnInv'
  <2>1. \A r \in Proc : Owns(r)' <=> Owns(r)
    BY DEF IInv, TypeOK, PC, SpinInv, InUse, OrderInv, Queued, Owns, QlockUse,
        Goto, lockvars, lock
  <2> QED
    BY <2>1, OwnershipKept DEF IInv, TypeOK, PC, OwnInv, SpinInv, InUse,
        MutualExclusion, NobodyStranded, QlockUse, Goto, lockvars, lock
<1>6. TokenInv'
  <2>1. /\ \A r \in Proc : Granted(r)' <=> Granted(r)
        /\ \A r \in Proc : Readying(r)' <=> Readying(r)
    BY DEF IInv, TypeOK, PC, OrderInv, SpinInv, InUse, Queued, Granted,
        Readying, QlockUse, Goto, lockvars, lock
  <2> QED
    BY <2>1, TokensKept DEF IInv, QlockUse, Goto, lockvars, lock
<1> QED BY <1>1, <1>2, <1>3, <1>4, <1>5, <1>6 DEF IInv

(* qlock finds q->locked clear: nobody owned the lock, now the caller does. *)
LEMMA QlockTakeStep ==
  ASSUME IInv, NEW p \in Proc, QlockTake(p)
  PROVE  IInv'
<1>1. TypeOK'
    BY DEF IInv, TypeOK, PC, QlockTake, Goto, lockvars
<1>2. SpinInv'
    BY NoProcAssumption DEF IInv, TypeOK, SpinInv, InUse, QlockTake, Goto,
        lockvars
<1>3. OrderInv'
    BY NoProcAssumption DEF IInv, TypeOK, SpinInv, InUse, OrderInv, Queued,
        QlockTake, Goto, lockvars
<1>4. ListInv'
    BY NoProcAssumption DEF IInv, TypeOK, SpinInv, InUse, OrderInv, Queued,
        ListInv, OwnInv, MutualExclusion, NobodyStranded, Owns, QlockTake,
        Goto, lockvars
<1>5. OwnInv'
    BY NoProcAssumption DEF IInv, TypeOK, SpinInv, InUse, OrderInv, Queued,
        ListInv, OwnInv, MutualExclusion, NobodyStranded, Owns, TokenInv,
        Granted, Readying, QlockTake, Goto, lockvars
<1>6. TokenInv'
  <2>1. /\ \A r \in Proc : Granted(r)' <=> Granted(r)
        /\ \A r \in Proc : Readying(r)' <=> Readying(r)
    BY DEF IInv, TypeOK, PC, OrderInv, SpinInv, InUse, Queued, Granted,
        Readying, QlockTake, Goto, lockvars
  <2> QED
    BY <2>1, TokensKept DEF IInv, QlockTake, Goto, lockvars
<1> QED BY <1>1, <1>2, <1>3, <1>4, <1>5, <1>6 DEF IInv

(* qlock finds q->locked set: the lock has an owner the caller can wait for. *)
LEMMA QlockBusyStep ==
  ASSUME IInv, NEW p \in Proc, QlockBusy(p)
  PROVE  IInv'
<1>1. TypeOK'
    BY DEF IInv, TypeOK, PC, QlockBusy, Goto, lockvars
<1>2. SpinInv'
    BY NoProcAssumption DEF IInv, TypeOK, SpinInv, InUse, QlockBusy, Goto,
        lockvars
<1>3. OrderInv'
    BY NoProcAssumption DEF IInv, TypeOK, SpinInv, InUse, OrderInv, Queued,
        QlockBusy, Goto, lockvars
<1>4. ListInv'
    BY NoProcAssumption DEF IInv, TypeOK, SpinInv, InUse, OrderInv, Queued,
        ListInv, OwnInv, MutualExclusion, NobodyStranded, Owns, QlockBusy,
        Goto, lockvars
<1>5. OwnInv'
  <2>1. \A r \in Proc : Owns(r)' <=> Owns(r)
    BY DEF IInv, TypeOK, PC, SpinInv, InUse, OrderInv, Queued, Owns,
        QlockBusy, Goto, lockvars
  <2> QED
    BY <2>1, OwnershipKept DEF IInv, TypeOK, PC, OwnInv, SpinInv, InUse,
        MutualExclusion, NobodyStranded, QlockBusy, Goto, lockvars
<1>6. TokenInv'
  <2>1. /\ \A r \in Proc : Granted(r)' <=> Granted(r)
        /\ \A r \in Proc : Readying(r)' <=> Readying(r)
    BY DEF IInv, TypeOK, PC, OrderInv, SpinInv, InUse, Queued, Granted,
        Readying, QlockBusy, Goto, lockvars
  <2> QED
    BY <2>1, TokensKept DEF IInv, QlockBusy, Goto, lockvars
<1> QED BY <1>1, <1>2, <1>3, <1>4, <1>5, <1>6 DEF IInv

(* The caller goes to the end of the list, behind a head or a tail that is *)
(* really waiting.                                                         *)
LEMMA QlockLinkStep ==
  ASSUME IInv, NEW p \in Proc, QlockLink(p)
  PROVE  IInv'
<1>1. TypeOK'
  <2>1. order' \in Seq(Proc)
    BY AppendOrder DEF IInv, TypeOK, QlockLink
  <2>2. pc' \in [Proc -> PC]
    BY DEF IInv, TypeOK, PC, QlockLink, Goto
  <2>3. qnext' \in [Proc -> Proc \cup {NoProc}] /\ head' \in Proc \cup {NoProc}
    BY DEF IInv, TypeOK, QlockLink
  <2>4. UNCHANGED <<use, locked, tail, sem, heir>>
    BY DEF QlockLink
  <2> QED BY <2>1, <2>2, <2>3, <2>4 DEF IInv, TypeOK
<1>2. SpinInv'
    BY NoProcAssumption DEF IInv, TypeOK, SpinInv, InUse, QlockLink, Goto,
        lockvars
<1>3. OrderInv'
  <2>1. ~Queued(p) /\ order \in Seq(Proc) /\ order' = Append(order, p)
    BY DEF IInv, TypeOK, OrderInv, QlockLink
  <2>2. \A r \in Proc : Queued(r)' <=> Queued(r) \/ r = p
    BY <2>1, AppendOrder DEF Queued
  <2>3. \A i, j \in 1..Len(order') : order'[i] = order'[j] => i = j
    BY <2>1, AppendOrder DEF IInv, OrderInv, Queued
  <2>4. order'[Len(order')] = p
    BY <2>1, AppendOrder
  <2>5. \A r \in Proc : pc[r] = "settail" => r = p
    BY DEF IInv, SpinInv, InUse, QlockLink
  <2> QED
    BY <2>2, <2>3, <2>4, <2>5 DEF IInv, TypeOK, OrderInv, QlockLink, Goto
<1>4. ListInv'
    BY NoProcAssumption DEF IInv, TypeOK, SpinInv, InUse, OrderInv, Queued,
        ListInv, OwnInv, MutualExclusion, NobodyStranded, Owns, QlockLink,
        Goto, lockvars
<1>5. OwnInv'
  <2>1. \A r \in Proc : Owns(r)' <=> Owns(r)
    <3>1. order \in Seq(Proc) /\ order' = Append(order, p)
      BY DEF IInv, TypeOK, QlockLink
    <3>2. \A r \in Proc : Queued(r)' <=> Queued(r) \/ r = p
      BY <3>1, AppendOrder DEF Queued
    <3> QED
      BY <3>2 DEF IInv, TypeOK, Owns, QlockLink, Goto
  <2> QED
    BY <2>1 DEF IInv, TypeOK, OwnInv, SpinInv, InUse, MutualExclusion,
        NobodyStranded, QlockLink, Goto
<1>6. TokenInv'
  <2>1. order \in Seq(Proc) /\ order' = Append(order, p)
    BY DEF IInv, TypeOK, QlockLink
  <2>2. \A r \in Proc : Queued(r)' <=> Queued(r) \/ r = p
    BY <2>1, AppendOrder DEF Queued
  <2>3. /\ \A r \in Proc : Granted(r)' <=> Granted(r)
        /\ \A r \in Proc : Readying(r)' <=> Readying(r)
    BY <2>2 DEF IInv, TypeOK, Granted, Readying, QlockLink, Goto
  <2> QED
    BY <2>3, TokensKept DEF IInv, QlockLink
<1> QED BY <1>1, <1>2, <1>3, <1>4, <1>5, <1>6 DEF IInv

(* q->tail catches up with the new last process, whose qnext is cleared. *)
LEMMA QlockTailStep ==
  ASSUME IInv, NEW p \in Proc, QlockTail(p)
  PROVE  IInv'
<1>1. TypeOK'
    BY DEF IInv, TypeOK, PC, QlockTail, Goto, lockvars
<1>2. SpinInv'
    BY NoProcAssumption DEF IInv, TypeOK, SpinInv, InUse, QlockTail, Goto,
        lockvars
<1>3. OrderInv'
    BY NoProcAssumption DEF IInv, TypeOK, SpinInv, InUse, OrderInv, Queued,
        QlockTail, Goto, lockvars
<1>4. ListInv'
    BY NoProcAssumption DEF IInv, TypeOK, SpinInv, InUse, OrderInv, Queued,
        ListInv, OwnInv, MutualExclusion, NobodyStranded, Owns, QlockTail,
        Goto, lockvars
<1>5. OwnInv'
  <2>1. \A r \in Proc : Owns(r)' <=> Owns(r)
    BY DEF IInv, TypeOK, PC, SpinInv, InUse, OrderInv, Queued, Owns,
        QlockTail, Goto, lockvars
  <2> QED
    BY <2>1, OwnershipKept DEF IInv, TypeOK, PC, OwnInv, SpinInv, InUse,
        MutualExclusion, NobodyStranded, QlockTail, Goto, lockvars
<1>6. TokenInv'
  <2>1. /\ \A r \in Proc : Granted(r)' <=> Granted(r)
        /\ \A r \in Proc : Readying(r)' <=> Readying(r)
    BY DEF IInv, TypeOK, PC, OrderInv, SpinInv, InUse, Queued, Granted,
        Readying, QlockTail, Goto, lockvars
  <2> QED
    BY <2>1, TokensKept DEF IInv, QlockTail, Goto, lockvars
<1> QED BY <1>1, <1>2, <1>3, <1>4, <1>5, <1>6 DEF IInv

(* qlock releases q->use with the list in order. *)
LEMMA QlockDropStep ==
  ASSUME IInv, NEW p \in Proc, QlockDrop(p)
  PROVE  IInv'
<1>1. TypeOK'
    BY DEF IInv, TypeOK, PC, QlockDrop, Goto, lockvars, unlock
<1>2. SpinInv'
    BY NoProcAssumption DEF IInv, TypeOK, SpinInv, InUse, QlockDrop, Goto,
        lockvars, unlock
<1>3. OrderInv'
    BY NoProcAssumption DEF IInv, TypeOK, SpinInv, InUse, OrderInv, Queued,
        QlockDrop, Goto, lockvars, unlock
<1>4. ListInv'
    BY NoProcAssumption DEF IInv, TypeOK, SpinInv, InUse, OrderInv, Queued,
        ListInv, OwnInv, MutualExclusion, NobodyStranded, Owns, QlockDrop,
        Goto, lockvars, unlock
<1>5. OwnInv'
  <2>1. \A r \in Proc : Owns(r)' <=> Owns(r)
    BY DEF IInv, TypeOK, PC, SpinInv, InUse, OrderInv, Queued, Owns,
        QlockDrop, Goto, lockvars, unlock
  <2> QED
    BY <2>1, OwnershipKept DEF IInv, TypeOK, PC, OwnInv, SpinInv, InUse,
        MutualExclusion, NobodyStranded, QlockDrop, Goto, lockvars, unlock
<1>6. TokenInv'
  <2>1. /\ \A r \in Proc : Granted(r)' <=> Granted(r)
        /\ \A r \in Proc : Readying(r)' <=> Readying(r)
    BY DEF IInv, TypeOK, PC, OrderInv, SpinInv, InUse, Queued, Granted,
        Readying, QlockDrop, Goto, lockvars, unlock
  <2> QED
    BY <2>1, TokensKept DEF IInv, QlockDrop, Goto, lockvars, unlock
<1> QED BY <1>1, <1>2, <1>3, <1>4, <1>5, <1>6 DEF IInv

(* A waiter wakes: it has been unlinked, and takes the one token it was given. *)
LEMMA osblockStep ==
  ASSUME IInv, NEW p \in Proc, osblock(p)
  PROVE  IInv'
<1>1. TypeOK'
    BY DEF IInv, TypeOK, PC, osblock, Goto, lockvars
<1>2. SpinInv'
    BY NoProcAssumption DEF IInv, TypeOK, SpinInv, InUse, osblock, Goto,
        lockvars
<1>3. OrderInv'
    BY DEF IInv, TypeOK, OrderInv, Queued, TokenInv, Granted, osblock, Goto,
        lockvars
<1>4. ListInv'
    BY NoProcAssumption DEF IInv, TypeOK, SpinInv, InUse, OrderInv, Queued,
        ListInv, OwnInv, MutualExclusion, NobodyStranded, Owns, osblock, Goto,
        lockvars
<1>5. OwnInv'
    BY NoProcAssumption DEF IInv, TypeOK, SpinInv, InUse, OrderInv, Queued,
        ListInv, OwnInv, MutualExclusion, NobodyStranded, Owns, TokenInv,
        Granted, Readying, osblock, Goto, lockvars
<1>6. TokenInv'
    BY NoProcAssumption DEF IInv, TypeOK, SpinInv, InUse, OrderInv, Queued,
        OwnInv, MutualExclusion, NobodyStranded, Owns, TokenInv, Granted,
        Readying, osblock, Goto, lockvars
<1> QED BY <1>1, <1>2, <1>3, <1>4, <1>5, <1>6 DEF IInv

(* qlock and canqlock release q->use, the lock taken. *)
LEMMA TakenStep ==
  ASSUME IInv, NEW p \in Proc, Taken(p)
  PROVE  IInv'
<1>1. TypeOK'
    BY DEF IInv, TypeOK, PC, Taken, Goto, lockvars, unlock
<1>2. SpinInv'
    BY NoProcAssumption DEF IInv, TypeOK, SpinInv, InUse, Taken, Goto,
        lockvars, unlock
<1>3. OrderInv'
    BY NoProcAssumption DEF IInv, TypeOK, SpinInv, InUse, OrderInv, Queued,
        Taken, Goto, lockvars, unlock
<1>4. ListInv'
    BY NoProcAssumption DEF IInv, TypeOK, SpinInv, InUse, OrderInv, Queued,
        ListInv, OwnInv, MutualExclusion, NobodyStranded, Owns, Taken, Goto,
        lockvars, unlock
<1>5. OwnInv'
    BY NoProcAssumption DEF IInv, TypeOK, SpinInv, InUse, OrderInv, Queued,
        ListInv, OwnInv, MutualExclusion, NobodyStranded, Owns, TokenInv,
        Granted, Readying, Taken, Goto, lockvars, unlock
<1>6. TokenInv'
  <2>1. /\ \A r \in Proc : Granted(r)' <=> Granted(r)
        /\ \A r \in Proc : Readying(r)' <=> Readying(r)
    BY DEF IInv, TypeOK, PC, OrderInv, SpinInv, InUse, Queued, Granted,
        Readying, Taken, Goto, lockvars, unlock
  <2> QED
    BY <2>1, TokensKept DEF IInv, Taken, Goto, lockvars, unlock
<1> QED BY <1>1, <1>2, <1>3, <1>4, <1>5, <1>6 DEF IInv

(* Entering canqlock touches nothing shared. *)
LEMMA CallCanqlockStep ==
  ASSUME IInv, NEW p \in Proc, CallCanqlock(p)
  PROVE  IInv'
<1>1. TypeOK'
    BY DEF IInv, TypeOK, PC, CallCanqlock, Goto, lockvars
<1>2. SpinInv'
    BY NoProcAssumption DEF IInv, TypeOK, SpinInv, InUse, CallCanqlock, Goto,
        lockvars
<1>3. OrderInv'
    BY NoProcAssumption DEF IInv, TypeOK, SpinInv, InUse, OrderInv, Queued,
        CallCanqlock, Goto, lockvars
<1>4. ListInv'
    BY NoProcAssumption DEF IInv, TypeOK, SpinInv, InUse, OrderInv, Queued,
        ListInv, OwnInv, MutualExclusion, NobodyStranded, Owns, CallCanqlock,
        Goto, lockvars
<1>5. OwnInv'
  <2>1. \A r \in Proc : Owns(r)' <=> Owns(r)
    BY DEF IInv, TypeOK, PC, SpinInv, InUse, OrderInv, Queued, Owns,
        CallCanqlock, Goto, lockvars
  <2> QED
    BY <2>1, OwnershipKept DEF IInv, TypeOK, PC, OwnInv, SpinInv, InUse,
        MutualExclusion, NobodyStranded, CallCanqlock, Goto, lockvars
<1>6. TokenInv'
  <2>1. /\ \A r \in Proc : Granted(r)' <=> Granted(r)
        /\ \A r \in Proc : Readying(r)' <=> Readying(r)
    BY DEF IInv, TypeOK, PC, OrderInv, SpinInv, InUse, Queued, Granted,
        Readying, CallCanqlock, Goto, lockvars
  <2> QED
    BY <2>1, TokensKept DEF IInv, CallCanqlock, Goto, lockvars
<1> QED BY <1>1, <1>2, <1>3, <1>4, <1>5, <1>6 DEF IInv

(* canqlock gives up at once when q->use is busy. *)
LEMMA CanlockFailsStep ==
  ASSUME IInv, NEW p \in Proc, CanlockFails(p)
  PROVE  IInv'
<1>1. TypeOK'
    BY DEF IInv, TypeOK, PC, CanlockFails, Goto, lockvars
<1>2. SpinInv'
    BY NoProcAssumption DEF IInv, TypeOK, SpinInv, InUse, CanlockFails, Goto,
        lockvars
<1>3. OrderInv'
    BY NoProcAssumption DEF IInv, TypeOK, SpinInv, InUse, OrderInv, Queued,
        CanlockFails, Goto, lockvars
<1>4. ListInv'
    BY NoProcAssumption DEF IInv, TypeOK, SpinInv, InUse, OrderInv, Queued,
        ListInv, OwnInv, MutualExclusion, NobodyStranded, Owns, CanlockFails,
        Goto, lockvars
<1>5. OwnInv'
  <2>1. \A r \in Proc : Owns(r)' <=> Owns(r)
    BY DEF IInv, TypeOK, PC, SpinInv, InUse, OrderInv, Queued, Owns,
        CanlockFails, Goto, lockvars
  <2> QED
    BY <2>1, OwnershipKept DEF IInv, TypeOK, PC, OwnInv, SpinInv, InUse,
        MutualExclusion, NobodyStranded, CanlockFails, Goto, lockvars
<1>6. TokenInv'
  <2>1. /\ \A r \in Proc : Granted(r)' <=> Granted(r)
        /\ \A r \in Proc : Readying(r)' <=> Readying(r)
    BY DEF IInv, TypeOK, PC, OrderInv, SpinInv, InUse, Queued, Granted,
        Readying, CanlockFails, Goto, lockvars
  <2> QED
    BY <2>1, TokensKept DEF IInv, CanlockFails, Goto, lockvars
<1> QED BY <1>1, <1>2, <1>3, <1>4, <1>5, <1>6 DEF IInv

(* canqlock takes q->use, and is then the only one inside it. *)
LEMMA CanqlockUseStep ==
  ASSUME IInv, NEW p \in Proc, CanqlockUse(p)
  PROVE  IInv'
<1>1. TypeOK'
    BY DEF IInv, TypeOK, PC, CanqlockUse, Goto, lockvars, lock
<1>2. SpinInv'
    BY NoProcAssumption DEF IInv, TypeOK, SpinInv, InUse, CanqlockUse, Goto,
        lockvars, lock
<1>3. OrderInv'
    BY NoProcAssumption DEF IInv, TypeOK, SpinInv, InUse, OrderInv, Queued,
        CanqlockUse, Goto, lockvars, lock
<1>4. ListInv'
    BY NoProcAssumption DEF IInv, TypeOK, SpinInv, InUse, OrderInv, Queued,
        ListInv, OwnInv, MutualExclusion, NobodyStranded, Owns, CanqlockUse,
        Goto, lockvars, lock
<1>5. OwnInv'
  <2>1. \A r \in Proc : Owns(r)' <=> Owns(r)
    BY DEF IInv, TypeOK, PC, SpinInv, InUse, OrderInv, Queued, Owns,
        CanqlockUse, Goto, lockvars, lock
  <2> QED
    BY <2>1, OwnershipKept DEF IInv, TypeOK, PC, OwnInv, SpinInv, InUse,
        MutualExclusion, NobodyStranded, CanqlockUse, Goto, lockvars, lock
<1>6. TokenInv'
  <2>1. /\ \A r \in Proc : Granted(r)' <=> Granted(r)
        /\ \A r \in Proc : Readying(r)' <=> Readying(r)
    BY DEF IInv, TypeOK, PC, OrderInv, SpinInv, InUse, Queued, Granted,
        Readying, CanqlockUse, Goto, lockvars, lock
  <2> QED
    BY <2>1, TokensKept DEF IInv, CanqlockUse, Goto, lockvars, lock
<1> QED BY <1>1, <1>2, <1>3, <1>4, <1>5, <1>6 DEF IInv

(* canqlock finds q->locked clear and takes the lock. *)
LEMMA CanqlockTakeStep ==
  ASSUME IInv, NEW p \in Proc, CanqlockTake(p)
  PROVE  IInv'
<1>1. TypeOK'
    BY DEF IInv, TypeOK, PC, CanqlockTake, Goto, lockvars
<1>2. SpinInv'
    BY NoProcAssumption DEF IInv, TypeOK, SpinInv, InUse, CanqlockTake, Goto,
        lockvars
<1>3. OrderInv'
    BY NoProcAssumption DEF IInv, TypeOK, SpinInv, InUse, OrderInv, Queued,
        CanqlockTake, Goto, lockvars
<1>4. ListInv'
    BY NoProcAssumption DEF IInv, TypeOK, SpinInv, InUse, OrderInv, Queued,
        ListInv, OwnInv, MutualExclusion, NobodyStranded, Owns, CanqlockTake,
        Goto, lockvars
<1>5. OwnInv'
    BY NoProcAssumption DEF IInv, TypeOK, SpinInv, InUse, OrderInv, Queued,
        ListInv, OwnInv, MutualExclusion, NobodyStranded, Owns, TokenInv,
        Granted, Readying, CanqlockTake, Goto, lockvars
<1>6. TokenInv'
  <2>1. /\ \A r \in Proc : Granted(r)' <=> Granted(r)
        /\ \A r \in Proc : Readying(r)' <=> Readying(r)
    BY DEF IInv, TypeOK, PC, OrderInv, SpinInv, InUse, Queued, Granted,
        Readying, CanqlockTake, Goto, lockvars
  <2> QED
    BY <2>1, TokensKept DEF IInv, CanqlockTake, Goto, lockvars
<1> QED BY <1>1, <1>2, <1>3, <1>4, <1>5, <1>6 DEF IInv

(* canqlock finds q->locked set. *)
LEMMA CanqlockBusyStep ==
  ASSUME IInv, NEW p \in Proc, CanqlockBusy(p)
  PROVE  IInv'
<1>1. TypeOK'
    BY DEF IInv, TypeOK, PC, CanqlockBusy, Goto, lockvars
<1>2. SpinInv'
    BY NoProcAssumption DEF IInv, TypeOK, SpinInv, InUse, CanqlockBusy, Goto,
        lockvars
<1>3. OrderInv'
    BY NoProcAssumption DEF IInv, TypeOK, SpinInv, InUse, OrderInv, Queued,
        CanqlockBusy, Goto, lockvars
<1>4. ListInv'
    BY NoProcAssumption DEF IInv, TypeOK, SpinInv, InUse, OrderInv, Queued,
        ListInv, OwnInv, MutualExclusion, NobodyStranded, Owns, CanqlockBusy,
        Goto, lockvars
<1>5. OwnInv'
  <2>1. \A r \in Proc : Owns(r)' <=> Owns(r)
    BY DEF IInv, TypeOK, PC, SpinInv, InUse, OrderInv, Queued, Owns,
        CanqlockBusy, Goto, lockvars
  <2> QED
    BY <2>1, OwnershipKept DEF IInv, TypeOK, PC, OwnInv, SpinInv, InUse,
        MutualExclusion, NobodyStranded, CanqlockBusy, Goto, lockvars
<1>6. TokenInv'
  <2>1. /\ \A r \in Proc : Granted(r)' <=> Granted(r)
        /\ \A r \in Proc : Readying(r)' <=> Readying(r)
    BY DEF IInv, TypeOK, PC, OrderInv, SpinInv, InUse, Queued, Granted,
        Readying, CanqlockBusy, Goto, lockvars
  <2> QED
    BY <2>1, TokensKept DEF IInv, CanqlockBusy, Goto, lockvars
<1> QED BY <1>1, <1>2, <1>3, <1>4, <1>5, <1>6 DEF IInv

(* canqlock releases q->use without the lock. *)
LEMMA CanqlockFailsStep ==
  ASSUME IInv, NEW p \in Proc, CanqlockFails(p)
  PROVE  IInv'
<1>1. TypeOK'
    BY DEF IInv, TypeOK, PC, CanqlockFails, Goto, lockvars, unlock
<1>2. SpinInv'
    BY NoProcAssumption DEF IInv, TypeOK, SpinInv, InUse, CanqlockFails, Goto,
        lockvars, unlock
<1>3. OrderInv'
    BY NoProcAssumption DEF IInv, TypeOK, SpinInv, InUse, OrderInv, Queued,
        CanqlockFails, Goto, lockvars, unlock
<1>4. ListInv'
    BY NoProcAssumption DEF IInv, TypeOK, SpinInv, InUse, OrderInv, Queued,
        ListInv, OwnInv, MutualExclusion, NobodyStranded, Owns, CanqlockFails,
        Goto, lockvars, unlock
<1>5. OwnInv'
  <2>1. \A r \in Proc : Owns(r)' <=> Owns(r)
    BY DEF IInv, TypeOK, PC, SpinInv, InUse, OrderInv, Queued, Owns,
        CanqlockFails, Goto, lockvars, unlock
  <2> QED
    BY <2>1, OwnershipKept DEF IInv, TypeOK, PC, OwnInv, SpinInv, InUse,
        MutualExclusion, NobodyStranded, CanqlockFails, Goto, lockvars, unlock
<1>6. TokenInv'
  <2>1. /\ \A r \in Proc : Granted(r)' <=> Granted(r)
        /\ \A r \in Proc : Readying(r)' <=> Readying(r)
    BY DEF IInv, TypeOK, PC, OrderInv, SpinInv, InUse, Queued, Granted,
        Readying, CanqlockFails, Goto, lockvars, unlock
  <2> QED
    BY <2>1, TokensKept DEF IInv, CanqlockFails, Goto, lockvars, unlock
<1> QED BY <1>1, <1>2, <1>3, <1>4, <1>5, <1>6 DEF IInv

(* The owner enters qunlock, still the owner. *)
LEMMA CallQunlockStep ==
  ASSUME IInv, NEW p \in Proc, CallQunlock(p)
  PROVE  IInv'
<1>1. TypeOK'
    BY DEF IInv, TypeOK, PC, CallQunlock, Goto, lockvars
<1>2. SpinInv'
    BY NoProcAssumption DEF IInv, TypeOK, SpinInv, InUse, CallQunlock, Goto,
        lockvars
<1>3. OrderInv'
    BY NoProcAssumption DEF IInv, TypeOK, SpinInv, InUse, OrderInv, Queued,
        CallQunlock, Goto, lockvars
<1>4. ListInv'
    BY NoProcAssumption DEF IInv, TypeOK, SpinInv, InUse, OrderInv, Queued,
        ListInv, OwnInv, MutualExclusion, NobodyStranded, Owns, CallQunlock,
        Goto, lockvars
<1>5. OwnInv'
  <2>1. \A r \in Proc : Owns(r)' <=> Owns(r)
    BY DEF IInv, TypeOK, PC, SpinInv, InUse, OrderInv, Queued, Owns,
        CallQunlock, Goto, lockvars
  <2> QED
    BY <2>1, OwnershipKept DEF IInv, TypeOK, PC, OwnInv, SpinInv, InUse,
        MutualExclusion, NobodyStranded, CallQunlock, Goto, lockvars
<1>6. TokenInv'
  <2>1. /\ \A r \in Proc : Granted(r)' <=> Granted(r)
        /\ \A r \in Proc : Readying(r)' <=> Readying(r)
    BY DEF IInv, TypeOK, PC, OrderInv, SpinInv, InUse, Queued, Granted,
        Readying, CallQunlock, Goto, lockvars
  <2> QED
    BY <2>1, TokensKept DEF IInv, CallQunlock, Goto, lockvars
<1> QED BY <1>1, <1>2, <1>3, <1>4, <1>5, <1>6 DEF IInv

(* qunlock takes q->use, and is then the only one inside it. *)
LEMMA QunlockUseStep ==
  ASSUME IInv, NEW p \in Proc, QunlockUse(p)
  PROVE  IInv'
<1>1. TypeOK'
    BY DEF IInv, TypeOK, PC, QunlockUse, Goto, lockvars, lock
<1>2. SpinInv'
    BY NoProcAssumption DEF IInv, TypeOK, SpinInv, InUse, QunlockUse, Goto,
        lockvars, lock
<1>3. OrderInv'
    BY NoProcAssumption DEF IInv, TypeOK, SpinInv, InUse, OrderInv, Queued,
        QunlockUse, Goto, lockvars, lock
<1>4. ListInv'
    BY NoProcAssumption DEF IInv, TypeOK, SpinInv, InUse, OrderInv, Queued,
        ListInv, OwnInv, MutualExclusion, NobodyStranded, Owns, QunlockUse,
        Goto, lockvars, lock
<1>5. OwnInv'
  <2>1. \A r \in Proc : Owns(r)' <=> Owns(r)
    BY DEF IInv, TypeOK, PC, SpinInv, InUse, OrderInv, Queued, Owns,
        QunlockUse, Goto, lockvars, lock
  <2> QED
    BY <2>1, OwnershipKept DEF IInv, TypeOK, PC, OwnInv, SpinInv, InUse,
        MutualExclusion, NobodyStranded, QunlockUse, Goto, lockvars, lock
<1>6. TokenInv'
  <2>1. /\ \A r \in Proc : Granted(r)' <=> Granted(r)
        /\ \A r \in Proc : Readying(r)' <=> Readying(r)
    BY DEF IInv, TypeOK, PC, OrderInv, SpinInv, InUse, Queued, Granted,
        Readying, QunlockUse, Goto, lockvars, lock
  <2> QED
    BY <2>1, TokensKept DEF IInv, QunlockUse, Goto, lockvars, lock
<1> QED BY <1>1, <1>2, <1>3, <1>4, <1>5, <1>6 DEF IInv

(* qunlock unlinks the head: that process is the owner from here on, and the *)
(* caller is the one that will ready it.                                   *)
LEMMA QunlockPopStep ==
  ASSUME IInv, NEW p \in Proc, QunlockPop(p)
  PROVE  IInv'
<1>1. TypeOK'
  <2>1. order # <<>> /\ order \in Seq(Proc) /\ order' = Tail(order) /\ head = order[1]
    BY DEF IInv, TypeOK, ListInv, QunlockPop
  <2> QED
    BY <2>1, TailOrder DEF IInv, TypeOK, PC, QunlockPop, Goto
<1>2. SpinInv'
    BY NoProcAssumption DEF IInv, TypeOK, SpinInv, InUse, QunlockPop, Goto,
        lockvars
<1>3. OrderInv'
  <2>1. order # <<>> /\ order \in Seq(Proc) /\ order' = Tail(order) /\ head = order[1]
    BY DEF IInv, TypeOK, ListInv, QunlockPop
  <2>2. \A r \in Proc : Queued(r)' => Queued(r)
    BY <2>1, TailOrder DEF Queued
  <2>3. \A i, j \in 1..Len(order') : order'[i] = order'[j] => i = j
    BY <2>1, TailOrder DEF IInv, OrderInv
  <2>4. \A r \in Proc : pc[r] \notin {"settail", "drop"}
    BY DEF IInv, SpinInv, InUse, QunlockPop
  <2> QED
    BY <2>2, <2>3, <2>4 DEF IInv, TypeOK, OrderInv, QunlockPop, Goto
<1>4. ListInv'
  <2>1. order # <<>> /\ order \in Seq(Proc) /\ order' = Tail(order) /\ head = order[1]
    BY DEF IInv, TypeOK, ListInv, QunlockPop
  <2>2. \A r \in Proc : pc[r] # "settail" /\ (pc[r] = "poptail" => FALSE)
    BY DEF IInv, SpinInv, InUse, QunlockPop
  <2>3. tail = order[Len(order)] /\ qnext[tail] = NoProc
    BY <2>1, <2>2 DEF IInv, ListInv
  <2>4. head' = IF order' = <<>> THEN NoProc ELSE order'[1]
    <3>1. head' = qnext[order[1]]
      BY <2>1 DEF QunlockPop
    <3>2. CASE order' = <<>>
      <4>1. Len(order) = 1
        BY <2>1, <3>2, TailOrder
      <4> QED BY <2>3, <3>1, <3>2, <4>1
    <3>3. CASE order' # <<>>
      <4>1. 1 \in 1..Len(order) - 1
        BY <2>1, <3>3, TailOrder
      <4>2. order'[1] = order[2] /\ qnext[order[1]] = order[2]
        BY <2>1, <4>1, TailOrder DEF IInv, ListInv
      <4> QED BY <3>1, <3>3, <4>2
    <3> QED BY <3>2, <3>3
  <2>5. \A i \in 1..Len(order') - 1 : qnext'[order'[i]] = order'[i + 1]
    BY <2>1, TailOrder DEF IInv, ListInv, QunlockPop
  <2>6. order' # <<>> => tail' = order'[Len(order')] /\ qnext'[tail'] = NoProc
    BY <2>1, <2>3, TailOrder DEF QunlockPop
  <2>7. pc'[p] = "poptail"
    BY DEF IInv, TypeOK, QunlockPop, Goto
  <2> QED
    BY <2>4, <2>5, <2>6, <2>7 DEF ListInv
<1>5. OwnInv'
  <2>1. order # <<>> /\ order \in Seq(Proc) /\ order' = Tail(order) /\ head = order[1]
    BY DEF IInv, TypeOK, ListInv, QunlockPop
  <2>2. \A r \in Proc : Queued(r)' <=> Queued(r) /\ r # head
    <3>1. ASSUME NEW r \in Proc, Queued(r)' PROVE Queued(r) /\ r # head
      <4>1. PICK i \in 1..Len(order') : order'[i] = r
        BY <3>1 DEF Queued
      <4>2. i + 1 \in 1..Len(order) /\ order[i + 1] = r /\ 1 \in 1..Len(order)
        BY <2>1, <4>1, TailOrder
      <4> QED
        BY <2>1, <4>1, <4>2 DEF IInv, OrderInv, Queued
    <3>2. ASSUME NEW r \in Proc, Queued(r), r # head PROVE Queued(r)'
      <4>1. PICK i \in 1..Len(order) : order[i] = r
        BY <3>2 DEF Queued
      <4>2. i - 1 \in 1..Len(order') /\ order'[i - 1] = r
        BY <2>1, <3>2, <4>1, TailOrder
      <4> QED
        BY <4>2 DEF Queued
    <3> QED BY <3>1, <3>2
  <2>3. pc[head] = "block" /\ Queued(head) /\ head \in Proc /\ head # p
    <3>1. Queued(head) /\ head \in Proc
      BY <2>1, TailOrder DEF Queued
    <3> QED
      BY <3>1 DEF IInv, OrderInv, SpinInv, InUse, QunlockPop
  <2>4. \A r \in Proc : Owns(r)' <=> r = head
    BY <2>2, <2>3 DEF IInv, TypeOK, OwnInv, MutualExclusion, Owns, QunlockPop, Goto
  <2>5. locked = 1
    BY <2>1 DEF IInv, OwnInv, NobodyStranded
  <2> QED
    BY <2>3, <2>4, <2>5 DEF IInv, TypeOK, OwnInv, SpinInv, InUse, MutualExclusion,
        NobodyStranded, QunlockPop, Goto
<1>6. TokenInv'
  <2>1. order # <<>> /\ order \in Seq(Proc) /\ order' = Tail(order) /\ head = order[1]
    BY DEF IInv, TypeOK, ListInv, QunlockPop
  <2>2. \A r \in Proc : Queued(r)' <=> Queued(r) /\ r # head
    <3>1. ASSUME NEW r \in Proc, Queued(r)' PROVE Queued(r) /\ r # head
      <4>1. PICK i \in 1..Len(order') : order'[i] = r
        BY <3>1 DEF Queued
      <4>2. i + 1 \in 1..Len(order) /\ order[i + 1] = r /\ 1 \in 1..Len(order)
        BY <2>1, <4>1, TailOrder
      <4> QED
        BY <2>1, <4>1, <4>2 DEF IInv, OrderInv, Queued
    <3>2. ASSUME NEW r \in Proc, Queued(r), r # head PROVE Queued(r)'
      <4>1. PICK i \in 1..Len(order) : order[i] = r
        BY <3>2 DEF Queued
      <4>2. i - 1 \in 1..Len(order') /\ order'[i - 1] = r
        BY <2>1, <3>2, <4>1, TailOrder
      <4> QED
        BY <4>2 DEF Queued
    <3> QED BY <3>1, <3>2
  <2>3. pc[head] = "block" /\ Queued(head) /\ head \in Proc /\ head # p
    <3>1. Queued(head) /\ head \in Proc
      BY <2>1, TailOrder DEF Queued
    <3> QED
      BY <3>1 DEF IInv, OrderInv, SpinInv, InUse, QunlockPop
  <2>4. \A r \in Proc : ~Granted(r) /\ ~Readying(r)
    BY DEF IInv, OwnInv, MutualExclusion, Owns, TokenInv, Granted, Readying,
        QunlockPop
  <2>5. \A r \in Proc : Granted(r)' <=> r = head
    BY <2>2, <2>3, <2>4 DEF IInv, TypeOK, Granted, QunlockPop, Goto
  <2>6. \A r \in Proc : Readying(r)' <=> r = p
    BY <2>4 DEF IInv, TypeOK, Readying, QunlockPop, Goto
  <2>7. \A r \in Proc : sem'[r] = 0
    BY <2>4 DEF IInv, TokenInv, QunlockPop
  <2>8. heir'[p] = head
    BY DEF IInv, TypeOK, QunlockPop
  <2> QED
    BY <2>3, <2>5, <2>6, <2>7, <2>8 DEF TokenInv
<1> QED BY <1>1, <1>2, <1>3, <1>4, <1>5, <1>6 DEF IInv

(* qunlock clears q->tail if the list has become empty. *)
LEMMA QunlockTailStep ==
  ASSUME IInv, NEW p \in Proc, QunlockTail(p)
  PROVE  IInv'
<1>1. TypeOK'
    BY DEF IInv, TypeOK, PC, QunlockTail, Goto, lockvars
<1>2. SpinInv'
    BY NoProcAssumption DEF IInv, TypeOK, SpinInv, InUse, QunlockTail, Goto,
        lockvars
<1>3. OrderInv'
    BY NoProcAssumption DEF IInv, TypeOK, SpinInv, InUse, OrderInv, Queued,
        QunlockTail, Goto, lockvars
<1>4. ListInv'
    BY NoProcAssumption DEF IInv, TypeOK, SpinInv, InUse, OrderInv, Queued,
        ListInv, OwnInv, MutualExclusion, NobodyStranded, Owns, QunlockTail,
        Goto, lockvars
<1>5. OwnInv'
  <2>1. \A r \in Proc : Owns(r)' <=> Owns(r)
    BY DEF IInv, TypeOK, PC, SpinInv, InUse, OrderInv, Queued, Owns,
        QunlockTail, Goto, lockvars
  <2> QED
    BY <2>1, OwnershipKept DEF IInv, TypeOK, PC, OwnInv, SpinInv, InUse,
        MutualExclusion, NobodyStranded, QunlockTail, Goto, lockvars
<1>6. TokenInv'
  <2>1. /\ \A r \in Proc : Granted(r)' <=> Granted(r)
        /\ \A r \in Proc : Readying(r)' <=> Readying(r)
    BY DEF IInv, TypeOK, PC, OrderInv, SpinInv, InUse, Queued, Granted,
        Readying, QunlockTail, Goto, lockvars
  <2> QED
    BY <2>1, TokensKept DEF IInv, QunlockTail, Goto, lockvars
<1> QED BY <1>1, <1>2, <1>3, <1>4, <1>5, <1>6 DEF IInv

(* qunlock releases q->use before it readies the new owner. *)
LEMMA QunlockHandStep ==
  ASSUME IInv, NEW p \in Proc, QunlockHand(p)
  PROVE  IInv'
<1>1. TypeOK'
    BY DEF IInv, TypeOK, PC, QunlockHand, Goto, lockvars, unlock
<1>2. SpinInv'
    BY NoProcAssumption DEF IInv, TypeOK, SpinInv, InUse, QunlockHand, Goto,
        lockvars, unlock
<1>3. OrderInv'
    BY NoProcAssumption DEF IInv, TypeOK, SpinInv, InUse, OrderInv, Queued,
        QunlockHand, Goto, lockvars, unlock
<1>4. ListInv'
    BY NoProcAssumption DEF IInv, TypeOK, SpinInv, InUse, OrderInv, Queued,
        ListInv, OwnInv, MutualExclusion, NobodyStranded, Owns, QunlockHand,
        Goto, lockvars, unlock
<1>5. OwnInv'
  <2>1. \A r \in Proc : Owns(r)' <=> Owns(r)
    BY DEF IInv, TypeOK, PC, SpinInv, InUse, OrderInv, Queued, Owns,
        QunlockHand, Goto, lockvars, unlock
  <2> QED
    BY <2>1, OwnershipKept DEF IInv, TypeOK, PC, OwnInv, SpinInv, InUse,
        MutualExclusion, NobodyStranded, QunlockHand, Goto, lockvars, unlock
<1>6. TokenInv'
  <2>1. /\ \A r \in Proc : Granted(r)' <=> Granted(r)
        /\ \A r \in Proc : Readying(r)' <=> Readying(r)
    BY DEF IInv, TypeOK, PC, OrderInv, SpinInv, InUse, Queued, Granted,
        Readying, QunlockHand, Goto, lockvars, unlock
  <2> QED
    BY <2>1, TokensKept DEF IInv, QunlockHand, Goto, lockvars, unlock
<1> QED BY <1>1, <1>2, <1>3, <1>4, <1>5, <1>6 DEF IInv

(* The new owner gets its token. *)
LEMMA osreadyStep ==
  ASSUME IInv, NEW p \in Proc, osready(p)
  PROVE  IInv'
<1>1. TypeOK'
    BY DEF IInv, TypeOK, PC, TokenInv, Granted, Readying, osready, Goto,
        lockvars
<1>2. SpinInv'
    BY NoProcAssumption DEF IInv, TypeOK, SpinInv, InUse, osready, Goto,
        lockvars
<1>3. OrderInv'
    BY NoProcAssumption DEF IInv, TypeOK, SpinInv, InUse, OrderInv, Queued,
        osready, Goto, lockvars
<1>4. ListInv'
    BY NoProcAssumption DEF IInv, TypeOK, SpinInv, InUse, OrderInv, Queued,
        ListInv, OwnInv, MutualExclusion, NobodyStranded, Owns, osready, Goto,
        lockvars
<1>5. OwnInv'
    BY NoProcAssumption DEF IInv, TypeOK, SpinInv, InUse, OrderInv, Queued,
        ListInv, OwnInv, MutualExclusion, NobodyStranded, Owns, TokenInv,
        Granted, Readying, osready, Goto, lockvars
<1>6. TokenInv'
    BY NoProcAssumption DEF IInv, TypeOK, SpinInv, InUse, OrderInv, Queued,
        OwnInv, MutualExclusion, NobodyStranded, Owns, TokenInv, Granted,
        Readying, osready, Goto, lockvars
<1> QED BY <1>1, <1>2, <1>3, <1>4, <1>5, <1>6 DEF IInv

(* With nobody waiting q->locked is cleared, and nobody owns the lock. *)
LEMMA QunlockFreeStep ==
  ASSUME IInv, NEW p \in Proc, QunlockFree(p)
  PROVE  IInv'
<1>1. TypeOK'
    BY DEF IInv, TypeOK, PC, QunlockFree, Goto, lockvars
<1>2. SpinInv'
    BY NoProcAssumption DEF IInv, TypeOK, SpinInv, InUse, QunlockFree, Goto,
        lockvars
<1>3. OrderInv'
    BY NoProcAssumption DEF IInv, TypeOK, SpinInv, InUse, OrderInv, Queued,
        QunlockFree, Goto, lockvars
<1>4. ListInv'
    BY NoProcAssumption DEF IInv, TypeOK, SpinInv, InUse, OrderInv, Queued,
        ListInv, OwnInv, MutualExclusion, NobodyStranded, Owns, QunlockFree,
        Goto, lockvars
<1>5. OwnInv'
    BY NoProcAssumption DEF IInv, TypeOK, SpinInv, InUse, OrderInv, Queued,
        ListInv, OwnInv, MutualExclusion, NobodyStranded, Owns, TokenInv,
        Granted, Readying, QunlockFree, Goto, lockvars
<1>6. TokenInv'
  <2>1. /\ \A r \in Proc : Granted(r)' <=> Granted(r)
        /\ \A r \in Proc : Readying(r)' <=> Readying(r)
    BY DEF IInv, TypeOK, PC, OrderInv, SpinInv, InUse, Queued, Granted,
        Readying, QunlockFree, Goto, lockvars
  <2> QED
    BY <2>1, TokensKept DEF IInv, QunlockFree, Goto, lockvars
<1> QED BY <1>1, <1>2, <1>3, <1>4, <1>5, <1>6 DEF IInv

(* qunlock releases q->use, the lock free. *)
LEMMA QunlockDoneStep ==
  ASSUME IInv, NEW p \in Proc, QunlockDone(p)
  PROVE  IInv'
<1>1. TypeOK'
    BY DEF IInv, TypeOK, PC, QunlockDone, Goto, lockvars, unlock
<1>2. SpinInv'
    BY NoProcAssumption DEF IInv, TypeOK, SpinInv, InUse, QunlockDone, Goto,
        lockvars, unlock
<1>3. OrderInv'
    BY NoProcAssumption DEF IInv, TypeOK, SpinInv, InUse, OrderInv, Queued,
        QunlockDone, Goto, lockvars, unlock
<1>4. ListInv'
    BY NoProcAssumption DEF IInv, TypeOK, SpinInv, InUse, OrderInv, Queued,
        ListInv, OwnInv, MutualExclusion, NobodyStranded, Owns, QunlockDone,
        Goto, lockvars, unlock
<1>5. OwnInv'
    BY NoProcAssumption DEF IInv, TypeOK, SpinInv, InUse, OrderInv, Queued,
        ListInv, OwnInv, MutualExclusion, NobodyStranded, Owns, TokenInv,
        Granted, Readying, QunlockDone, Goto, lockvars, unlock
<1>6. TokenInv'
  <2>1. /\ \A r \in Proc : Granted(r)' <=> Granted(r)
        /\ \A r \in Proc : Readying(r)' <=> Readying(r)
    BY DEF IInv, TypeOK, PC, OrderInv, SpinInv, InUse, Queued, Granted,
        Readying, QunlockDone, Goto, lockvars, unlock
  <2> QED
    BY <2>1, TokensKept DEF IInv, QunlockDone, Goto, lockvars, unlock
<1> QED BY <1>1, <1>2, <1>3, <1>4, <1>5, <1>6 DEF IInv


(* The inductive invariant: it holds at first and every step of the lock keeps it. *)
THEOREM Invariance == Spec => []IInv
<1>1. Init => IInv
  BY DEF Init, IInv, TypeOK, PC, SpinInv, InUse, OrderInv, Queued, ListInv,
      OwnInv, MutualExclusion, NobodyStranded, Owns, TokenInv, Granted, Readying
<1>2. IInv /\ [Next]_vars => IInv'
  <2> SUFFICES ASSUME IInv, [Next]_vars PROVE IInv'
    OBVIOUS
  <2>1. CASE UNCHANGED vars
    BY <2>1 DEF vars, lockvars, IInv, TypeOK, SpinInv, InUse, OrderInv, Queued,
        ListInv, OwnInv, MutualExclusion, NobodyStranded, Owns, TokenInv, Granted,
        Readying
  <2>2. ASSUME NEW p \in Proc, CallQlock(p) \/ CallCanqlock(p) PROVE IInv'
    BY <2>2, CallQlockStep, CallCanqlockStep
  <2>3. ASSUME NEW p \in Proc, qlock(p) PROVE IInv'
    BY <2>3, QlockUseStep, QlockTakeStep, QlockBusyStep, QlockLinkStep,
        QlockTailStep, QlockDropStep, osblockStep, TakenStep DEF qlock
  <2>4. ASSUME NEW p \in Proc, canqlock(p) PROVE IInv'
    BY <2>4, CanlockFailsStep, CanqlockUseStep, CanqlockTakeStep,
        CanqlockBusyStep, CanqlockFailsStep DEF canqlock
  <2>5. ASSUME NEW p \in Proc, CallQunlock(p) \/ qunlock(p) PROVE IInv'
    BY <2>5, CallQunlockStep, QunlockUseStep, QunlockPopStep, QunlockTailStep,
        QunlockHandStep, osreadyStep, QunlockFreeStep, QunlockDoneStep DEF qunlock
  <2> QED BY <2>1, <2>2, <2>3, <2>4, <2>5 DEF Next, Step
<1> QED BY <1>1, <1>2, PTL DEF Spec

(* Every variable keeps its type: no step follows a nil head or heir. *)
THEOREM TypeCorrect == Spec => []TypeOK
<1>1. IInv => TypeOK
  BY DEF IInv
<1> QED BY <1>1, Invariance, PTL

(* At most one process holds the lock, hand-over included. *)
THEOREM Exclusion == Spec => []MutualExclusion
<1>1. IInv => MutualExclusion
  BY DEF IInv, OwnInv
<1> QED BY <1>1, Invariance, PTL

(* A lock with waiters always has an owner who will pass it on. *)
THEOREM WaitersHaveOwner == Spec => []NobodyStranded
<1>1. IInv => NobodyStranded
  BY DEF IInv, OwnInv
<1> QED BY <1>1, Invariance, PTL

(* The pointers hold the waiting processes in arrival order. *)
THEOREM ListCorrect == Spec => []ListInOrder
<1>1. IInv => ListInOrder
  BY DEF IInv, ListInOrder, ListInv, SpinInv, InUse
<1> QED BY <1>1, Invariance, PTL

(* Each osblock is matched by exactly one osready. *)
THEOREM TokensBalanced == Spec => []OneToken
<1>1. ASSUME IInv PROVE OneToken
  <2> SUFFICES ASSUME NEW p \in Proc
               PROVE  IF Granted(p)
                      THEN \/ sem[p] = 1 /\ ReadyingFor(p) = {}
                           \/ sem[p] = 0 /\ \E u \in Proc : ReadyingFor(p) = {u}
                      ELSE sem[p] = 0 /\ ReadyingFor(p) = {}
    BY DEF OneToken, Granted
  <2>1. \A u \in ReadyingFor(p) : u \in Proc /\ Readying(u) /\ heir[u] = p
    BY DEF ReadyingFor, Readying
  <2>2. \A u \in Proc : Readying(u) /\ heir[u] = p => u \in ReadyingFor(p)
    BY DEF ReadyingFor, Readying
  <2>3. ~Granted(p) => sem[p] = 0 /\ ReadyingFor(p) = {}
    BY <1>1, <2>1 DEF IInv, TokenInv
  <2>4. sem[p] = 1 => ReadyingFor(p) = {}
    BY <1>1, <2>1 DEF IInv, TokenInv
  <2>5. ASSUME Granted(p), sem[p] = 0
        PROVE  \E u \in Proc : ReadyingFor(p) = {u}
    <3>1. PICK u \in Proc : Readying(u) /\ heir[u] = p
      BY <1>1, <2>5 DEF IInv, TokenInv
    <3>2. \A v \in ReadyingFor(p) : v = u
      BY <1>1, <2>1, <3>1 DEF IInv, TokenInv
    <3> QED BY <2>2, <3>1, <3>2
  <2>6. sem[p] \in {0, 1}
    BY <1>1 DEF IInv, TokenInv
  <2> QED BY <2>3, <2>4, <2>5, <2>6
<1> QED BY <1>1, Invariance, PTL

-----------------------------------------------------------------------------
(* Refinement *)

(* The owner in the refinement mapping is the process that owns the lock. *)
LEMMA OwnerIs ==
  ASSUME OwnInv
  PROVE  /\ \A p \in Proc : Owns(p) => Owner = p
         /\ (\A p \in Proc : ~Owns(p)) => Owner = NoProc
BY DEF OwnInv, MutualExclusion, Owner

(* The same of the next state. *)
LEMMA OwnerIsNext ==
  ASSUME OwnInv'
  PROVE  /\ \A p \in Proc : Owns(p)' => Owner' = p
         /\ (\A p \in Proc : ~Owns(p)') => Owner' = NoProc
BY DEF OwnInv, MutualExclusion, Owner

(* The mapped owner changes only when ownership does. *)
LEMMA OwnerKept ==
  ASSUME OwnInv, OwnInv', \A r \in Proc : Owns(r)' <=> Owns(r)
  PROVE  Owner' = Owner
BY OwnerIs, OwnerIsNext

(* Steps that map to the steps of QMutex. *)
LEMMA TakeMaps ==
  ASSUME IInv, IInv', NEW p \in Proc, QlockTake(p) \/ CanqlockTake(p)
  PROVE  Mutex!Acquire(p)
<1>1. Owner = NoProc
  BY OwnerIs DEF IInv, OwnInv, NobodyStranded, QlockTake, CanqlockTake
<1>2. Owns(p)'
  BY DEF IInv, TypeOK, Owns, QlockTake, CanqlockTake, Goto
<1>3. Owner' = p
  BY <1>2, OwnerIsNext DEF IInv
<1> QED BY <1>1, <1>3 DEF Mutex!Acquire, QlockTake, CanqlockTake

(* Joining the list is the abstract Wait. *)
LEMMA LinkMaps ==
  ASSUME IInv, IInv', NEW p \in Proc, QlockLink(p)
  PROVE  Mutex!Wait(p)
<1>1. PICK o \in Proc : Owns(o)
  BY DEF IInv, OwnInv, NobodyStranded, QlockLink
<1>2. Owner = o /\ o # NoProc /\ o # p
  BY <1>1, OwnerIs, NoProcAssumption DEF IInv, Owns, QlockLink
<1>3. ~Queued(p)
  BY DEF IInv, OrderInv, QlockLink
<1>4. Owner' = Owner
  <2>1. \A r \in Proc : Queued(r)' <=> Queued(r) \/ r = p
    BY AppendOrder DEF IInv, TypeOK, Queued, QlockLink
  <2>2. \A r \in Proc : Owns(r)' <=> Owns(r)
    BY <2>1 DEF IInv, TypeOK, Owns, QlockLink, Goto
  <2> QED BY <2>2, OwnerKept DEF IInv
<1> QED
  BY <1>2, <1>3, <1>4 DEF Mutex!Wait, Mutex!Waits, Queued, QlockLink

(* Unlinking the head is the abstract Release to the oldest waiter. *)
LEMMA PopMaps ==
  ASSUME IInv, IInv', NEW p \in Proc, QunlockPop(p)
  PROVE  Owner = p /\ Mutex!Release
<1>1. Owner = p /\ Owner # NoProc
  BY OwnerIs, NoProcAssumption DEF IInv, Owns, QunlockPop
<1>2. order # <<>> /\ order \in Seq(Proc) /\ head = order[1]
  BY DEF IInv, TypeOK, ListInv, QunlockPop
<1>3. PICK h \in Proc : h = head
  BY <1>2, TailOrder
<1>4. Owns(h)'
  <2>1. heir'[p] = h /\ pc'[p] = "poptail"
    BY <1>3 DEF IInv, TypeOK, QunlockPop, Goto
  <2> QED BY <2>1 DEF IInv, TokenInv, Readying, Granted, Owns
<1>5. Owner' = h
  BY <1>4, OwnerIsNext DEF IInv
<1> QED BY <1>1, <1>2, <1>3, <1>5 DEF Mutex!Release, QunlockPop

(* Clearing q->locked is the abstract Release with nobody waiting. *)
LEMMA FreeMaps ==
  ASSUME IInv, IInv', NEW p \in Proc, QunlockFree(p)
  PROVE  Owner = p /\ Mutex!Release
<1>1. Owner = p /\ Owner # NoProc
  BY OwnerIs, NoProcAssumption DEF IInv, Owns, QunlockFree
<1>2. order = <<>>
  BY TailOrder, NoProcAssumption DEF IInv, TypeOK, ListInv, QunlockFree
<1>3. Owner' = NoProc
  BY OwnerIsNext DEF IInv, OwnInv, NobodyStranded, QunlockFree
<1> QED BY <1>1, <1>2, <1>3 DEF Mutex!Release, QunlockFree

(* All other steps leave the abstract lock alone. *)
Inner(p) == \/ CallQlock(p)   \/ QlockUse(p)    \/ QlockBusy(p)    \/ QlockTail(p)
            \/ QlockDrop(p)   \/ osblock(p)     \/ Taken(p)        \/ CallCanqlock(p)
            \/ CanlockFails(p) \/ CanqlockUse(p) \/ CanqlockBusy(p) \/ CanqlockFails(p)
            \/ CallQunlock(p) \/ QunlockUse(p)  \/ QunlockTail(p)  \/ QunlockHand(p)
            \/ osready(p)     \/ QunlockDone(p)

(* Every other step leaves owner and queue as they are. *)
LEMMA InnerStutters ==
  ASSUME IInv, IInv', NEW p \in Proc, Inner(p)
  PROVE  UNCHANGED Mutex!vars
<1>1. order' = order
  BY DEF Inner, CallQlock, QlockUse, QlockBusy, QlockTail, QlockDrop, osblock,
      Taken, CallCanqlock, CanlockFails, CanqlockUse, CanqlockBusy, CanqlockFails,
      CallQunlock, QunlockUse, QunlockTail, QunlockHand, osready, QunlockDone,
      lock, unlock
<1>2. \A r \in Proc : Owns(r)' <=> Owns(r)
  <2>1. \A r \in Proc : Queued(r)' <=> Queued(r)
    BY <1>1 DEF Queued
  <2>2. pc[p] = "settail" \/ pc[p] = "drop" => Queued(p)
    BY DEF IInv, OrderInv
  <2>3. osblock(p) => ~Queued(p)
    BY DEF IInv, TypeOK, TokenInv, Granted, osblock
  <2> QED
    BY <2>1, <2>2, <2>3 DEF IInv, TypeOK, Owns, Goto, Inner, CallQlock, QlockUse,
      QlockBusy, QlockTail, QlockDrop, osblock, Taken, CallCanqlock, CanlockFails,
      CanqlockUse, CanqlockBusy, CanqlockFails, CallQunlock, QunlockUse,
      QunlockTail, QunlockHand, osready, QunlockDone, lock, unlock
<1>3. Owner' = Owner
  BY <1>2, OwnerKept DEF IInv
<1> QED BY <1>1, <1>3 DEF Mutex!vars

(* QLock implements the FIFO hand-over lock. *)
THEOREM Refinement == Spec => ImplementsMutex
<1>1. Init => Mutex!Init
  BY DEF Init, Mutex!Init, Owner, Owns
<1>2. IInv /\ IInv' /\ [Next]_vars => [Mutex!Next]_(Mutex!vars)
  <2> SUFFICES ASSUME IInv, IInv', [Next]_vars
               PROVE  [Mutex!Next]_(Mutex!vars)
    OBVIOUS
  <2>1. CASE UNCHANGED vars
    <3>1. \A r \in Proc : Owns(r)' <=> Owns(r)
      BY <2>1 DEF vars, Owns, Queued
    <3> QED BY <2>1, <3>1, OwnerKept DEF vars, IInv, Mutex!vars
  <2>2. CASE Next
    <3>1. PICK p \in Proc : CallQlock(p) \/ CallCanqlock(p) \/ Step(p)
      BY <2>2 DEF Next
    <3>2. CASE QlockTake(p) \/ CanqlockTake(p)
      BY <3>2, TakeMaps DEF Mutex!Next
    <3>3. CASE QlockLink(p)
      BY <3>3, LinkMaps DEF Mutex!Next
    <3>4. CASE QunlockPop(p)
      BY <3>4, PopMaps DEF Mutex!Next
    <3>5. CASE QunlockFree(p)
      BY <3>5, FreeMaps DEF Mutex!Next
    <3>6. CASE Inner(p)
      BY <3>6, InnerStutters
    <3> QED
      BY <3>1, <3>2, <3>3, <3>4, <3>5, <3>6
         DEF Step, qlock, canqlock, qunlock, Inner
  <2> QED BY <2>1, <2>2
<1> QED BY <1>1, <1>2, Invariance, PTL DEF Spec, ImplementsMutex, Mutex!Spec
=============================================================================
