---------------------------- MODULE RWLockProofs ----------------------------
(***************************************************************************)
(* Proofs about RWLock, for every set of processes: the inductive          *)
(* invariant, that a writer is alone, that no reader goes in with the gate *)
(* open, and that the readers are counted.                                 *)
(***************************************************************************)
EXTENDS RWLock, SequenceTheorems, FiniteSetTheorems, TLAPS

(* Linking p in leaves everybody else's place alone. *)
LEMMA AppendOrder ==
  ASSUME NEW P, NEW s \in Seq(P), NEW p \in P
  PROVE  /\ Append(s, p) \in Seq(P)
         /\ Append(s, p) # <<>>
         /\ Len(Append(s, p)) = Len(s) + 1
         /\ Append(s, p)[Len(s) + 1] = p
         /\ \A i \in 1..Len(s) : Append(s, p)[i] = s[i]
OBVIOUS

(* Unlinking the head moves everybody else up by one. *)
LEMMA TailOrder ==
  ASSUME NEW P, NEW s \in Seq(P), s # <<>>
  PROVE  /\ Tail(s) \in Seq(P)
         /\ Len(s) \in Nat \ {0}
         /\ Len(Tail(s)) = Len(s) - 1
         /\ Tail(s) = <<>> <=> Len(s) = 1
         /\ \A i \in 1..Len(s) - 1 : Tail(s)[i] = s[i + 1]
         /\ Head(s) = s[1]
         /\ s[1] \in P
<1>1. Len(s) \in Nat \ {0}
  BY EmptySeq
<1>2. Len(Tail(s)) = Len(s) - 1 /\ Tail(s) \in Seq(P)
  BY HeadTailProperties
<1>3. \A i \in 1..Len(s) - 1 : Tail(s)[i] = s[i + 1]
  BY <1>2, HeadTailProperties
<1>4. ASSUME Tail(s) = <<>> PROVE Len(s) = 1
  <2>1. Len(Tail(s)) = 0
    BY <1>4, EmptySeq, Zenon
  <2>2. Len(s) - 1 = 0
    BY <1>2, <2>1, Zenon
  <2> QED BY <1>1, <2>2
<1>5. ASSUME Len(s) = 1 PROVE Tail(s) = <<>>
  <2>1. Len(Tail(s)) \notin Nat \ {0}
    BY <1>2, <1>5
  <2> QED BY <1>2, <2>1, EmptySeq
<1>6. Head(s) = s[1] /\ s[1] \in P
  BY <1>1, ElementOfSeq
<1> QED BY <1>1, <1>2, <1>3, <1>4, <1>5, <1>6

(* A queue without repeats stays one, and the process taken off its head   *)
(* is no longer in it.                                                     *)
Distinct(s) == \A i, j \in 1..Len(s) : s[i] = s[j] => i = j

LEMMA AppendDistinct ==
  ASSUME NEW P, NEW s \in Seq(P), NEW p \in P, Distinct(s),
         \A i \in 1..Len(s) : s[i] # p
  PROVE  Distinct(Append(s, p))
<1>1. \A i \in 1..Len(Append(s, p)) : i \in 1..Len(s) \/ i = Len(s) + 1
  BY AppendOrder
<1> QED BY <1>1, AppendOrder DEF Distinct

LEMMA TailDistinct ==
  ASSUME NEW P, NEW s \in Seq(P), s # <<>>, Distinct(s)
  PROVE  /\ Distinct(Tail(s))
         /\ \A i \in 1..Len(Tail(s)) : Tail(s)[i] # Head(s)
<1>1. \A i \in 1..Len(Tail(s)) : /\ i \in 1..Len(s) - 1
                                 /\ i + 1 \in 2..Len(s)
                                 /\ Tail(s)[i] = s[i + 1]
  BY TailOrder
<1>2. Head(s) = s[1] /\ 1 \in 1..Len(s)
  BY TailOrder
<1> QED BY <1>1, <1>2 DEF Distinct

LEMMA HandedOver ==
  ASSUME NEW P, NEW s \in Seq(P), s # <<>>, Distinct(s)
  PROVE  /\ Head(s) \in P /\ Tail(s) \in Seq(P) /\ Distinct(Tail(s))
         /\ \E j \in 1..Len(s) : Head(s) = s[j]
         /\ \A i \in 1..Len(Tail(s)) : /\ Tail(s)[i] # Head(s)
                                       /\ \E j \in 1..Len(s) : Tail(s)[i] = s[j]
<1>1. Head(s) \in P /\ Tail(s) \in Seq(P) /\ \E j \in 1..Len(s) : Head(s) = s[j]
  BY TailOrder
<1>2. \A i \in 1..Len(Tail(s)) : \E j \in 1..Len(s) : Tail(s)[i] = s[j]
  BY TailOrder
<1> QED BY <1>1, <1>2, TailDistinct

(* The calls that have l->x, and the readers in the count. *)
HoldsX(p) == pc[p] \in {"rcount", "rl", "rdone", "wuse", "wk", "writing", "whand", "wout"}
Inside    == {p \in Proc : pc[p] = "rcount" \/ Reads(p)}

(* l->x: who has it, and who may be queued for it. *)
XInv == /\ \A p \in Proc : HoldsX(p) => xowner = p
        /\ xowner \in Proc => HoldsX(xowner) \/ pc[xowner] \in {"rx", "wx"}
        /\ \A i \in 1..Len(xwait) : pc[xwait[i]] \in {"rx", "wx"} /\ xwait[i] # xowner
        /\ Distinct(xwait)

(* The spin lock of l, and that of l->k. *)
LInv == \A p \in Proc : pc[p] \in {"rcount", "rl", "rlast", "rhand", "rout"} => l = p

UseInv == /\ \A p \in Proc : pc[p] \in {"rhand", "wuse", "whand"} => kuse = p
          /\ kuse \in Proc => pc[kuse] \in {"rhand", "wuse", "whand"}

(* l->k: a writer has it from its grant until it releases it, and only     *)
(* writers on their way in are queued for it.                              *)
KInv == /\ \A p \in Proc : pc[p] \in {"writing", "whand"} => kowner = p
        /\ kowner \in Proc => pc[kowner] \in {"wk", "writing", "whand"}
        /\ \A i \in 1..Len(kwait) : pc[kwait[i]] = "wk" /\ kwait[i] # kowner
        /\ Distinct(kwait)

(* The readers have the gate while one is inside; the last one out passes  *)
(* it on when the count is zero.                                           *)
GateInv == /\ GateShut
           /\ \A p \in Proc : pc[p] \in {"rlast", "rhand"} => readers = 0 /\ kowner = Readers

CountInv == IsFiniteSet(Inside) /\ readers = Cardinality(Inside)

IInv == TypeOK /\ XInv /\ LInv /\ UseInv /\ KInv /\ GateInv /\ CountInv

-----------------------------------------------------------------------------
(* What a release of l->x leaves behind. *)
LEMMA XReleased ==
  ASSUME TypeOK, XInv, x!Release
  PROVE  /\ xowner' \in Proc \cup {NoProc}
         /\ xwait' \in Seq(Proc)
         /\ Distinct(xwait')
         /\ xowner' = NoProc \/ \E j \in 1..Len(xwait) : xowner' = xwait[j]
         /\ \A i \in 1..Len(xwait') : /\ xwait'[i] # xowner'
                                    /\ \E j \in 1..Len(xwait) : xwait'[i] = xwait[j]
<1>1. xwait \in Seq(Proc) /\ Distinct(xwait)
  BY DEF TypeOK, XInv
<1>2. CASE xwait = <<>>
  BY <1>1, <1>2 DEF x!Release
<1>3. CASE xwait # <<>>
  <2>1. xowner' = Head(xwait) /\ xwait' = Tail(xwait)
    BY <1>3 DEF x!Release
  <2> QED BY <1>1, <1>3, <2>1, HandedOver
<1> QED BY <1>2, <1>3

(* What a release of l->k leaves behind. *)
LEMMA KReleased ==
  ASSUME TypeOK, KInv, k!Release
  PROVE  /\ kowner' \in Proc \cup {NoProc}
         /\ kwait' \in Seq(Proc)
         /\ Distinct(kwait')
         /\ kowner' = NoProc \/ \E j \in 1..Len(kwait) : kowner' = kwait[j]
         /\ \A i \in 1..Len(kwait') : /\ kwait'[i] # kowner'
                                    /\ \E j \in 1..Len(kwait) : kwait'[i] = kwait[j]
<1>1. kwait \in Seq(Proc) /\ Distinct(kwait)
  BY DEF TypeOK, KInv
<1>2. CASE kwait = <<>>
  BY <1>1, <1>2 DEF k!Release
<1>3. CASE kwait # <<>>
  <2>1. kowner' = Head(kwait) /\ kwait' = Tail(kwait)
    BY <1>3 DEF k!Release
  <2> QED BY <1>1, <1>3, <2>1, HandedOver
<1> QED BY <1>2, <1>3

(* rlock begins: the caller gets l->x or queues for it. *)
LEMMA RlockStep ==
  ASSUME IInv, NEW p \in Proc, Rlock(p)
  PROVE  IInv'
<1> USE NobodyAssumption DEF IInv, TypeOK, PC, Rlock, Goto, xvars, kvars, x!Acquire, x!Wait
<1>1. TypeOK'
  <2>1. CASE x!Acquire(p)
    BY <2>1
  <2>2. CASE x!Wait(p)
    BY <2>2, AppendOrder
  <2> QED BY <2>1, <2>2
<1>2. XInv'
  <2>1. CASE x!Acquire(p)
    BY <2>1 DEF XInv, HoldsX
  <2>2. CASE x!Wait(p)
    <3>1. \A i \in 1..Len(xwait) : xwait[i] \in Proc /\ xwait[i] # p
      BY ElementOfSeq DEF XInv
    <3>2. Distinct(xwait')
      BY <2>2, <3>1, AppendDistinct DEF XInv
    <3>3. \A i \in 1..Len(xwait') : \/ xwait'[i] = p
                                    \/ \E j \in 1..Len(xwait) : xwait'[i] = xwait[j]
      BY <2>2, AppendOrder
    <3>4. \A i \in 1..Len(xwait') : pc'[xwait'[i]] \in {"rx", "wx"} /\ xwait'[i] # xowner'
      BY <2>2, <3>1, <3>3 DEF XInv
    <3> QED BY <2>2, <3>2, <3>4 DEF XInv, HoldsX
  <2> QED BY <2>1, <2>2
<1>3. LInv'
  BY DEF LInv
<1>4. UseInv'
  BY DEF UseInv
<1>5. KInv'
  BY DEF KInv, XInv, HoldsX
<1>6. GateInv'
  BY DEF GateInv, GateShut, Reads, XInv, HoldsX, LInv, UseInv, KInv, CountInv
<1>7. CountInv'
  BY DEF CountInv, Inside, Reads
<1> QED BY <1>1, <1>2, <1>3, <1>4, <1>5, <1>6, <1>7

(* canrlock begins, with l->x free. *)
LEMMA CanrlockStep ==
  ASSUME IInv, NEW p \in Proc, Canrlock(p)
  PROVE  IInv'
<1> USE NobodyAssumption DEF IInv, TypeOK, PC, Canrlock, Goto, xvars, kvars, x!Acquire
<1>1. TypeOK'
  OBVIOUS
<1>2. XInv'
  BY DEF XInv, HoldsX
<1>3. LInv'
  BY DEF LInv
<1>4. UseInv'
  BY DEF UseInv
<1>5. KInv'
  BY DEF KInv, XInv, HoldsX
<1>6. GateInv'
  BY DEF GateInv, GateShut, Reads, XInv, HoldsX, LInv, UseInv, KInv, CountInv
<1>7. CountInv'
  BY DEF CountInv, Inside, Reads
<1> QED BY <1>1, <1>2, <1>3, <1>4, <1>5, <1>6, <1>7

(* wlock begins as rlock does. *)
LEMMA WlockStep ==
  ASSUME IInv, NEW p \in Proc, Wlock(p)
  PROVE  IInv'
<1> USE NobodyAssumption DEF IInv, TypeOK, PC, Wlock, Goto, xvars, kvars, x!Acquire, x!Wait
<1>1. TypeOK'
  <2>1. CASE x!Acquire(p)
    BY <2>1
  <2>2. CASE x!Wait(p)
    BY <2>2, AppendOrder
  <2> QED BY <2>1, <2>2
<1>2. XInv'
  <2>1. CASE x!Acquire(p)
    BY <2>1 DEF XInv, HoldsX
  <2>2. CASE x!Wait(p)
    <3>1. \A i \in 1..Len(xwait) : xwait[i] \in Proc /\ xwait[i] # p
      BY ElementOfSeq DEF XInv
    <3>2. Distinct(xwait')
      BY <2>2, <3>1, AppendDistinct DEF XInv
    <3>3. \A i \in 1..Len(xwait') : \/ xwait'[i] = p
                                    \/ \E j \in 1..Len(xwait) : xwait'[i] = xwait[j]
      BY <2>2, AppendOrder
    <3>4. \A i \in 1..Len(xwait') : pc'[xwait'[i]] \in {"rx", "wx"} /\ xwait'[i] # xowner'
      BY <2>2, <3>1, <3>3 DEF XInv
    <3> QED BY <2>2, <3>2, <3>4 DEF XInv, HoldsX
  <2> QED BY <2>1, <2>2
<1>3. LInv'
  BY DEF LInv
<1>4. UseInv'
  BY DEF UseInv
<1>5. KInv'
  BY DEF KInv, XInv, HoldsX
<1>6. GateInv'
  BY DEF GateInv, GateShut, Reads, XInv, HoldsX, LInv, UseInv, KInv, CountInv
<1>7. CountInv'
  BY DEF CountInv, Inside, Reads
<1> QED BY <1>1, <1>2, <1>3, <1>4, <1>5, <1>6, <1>7

(* The reader counts itself in. *)
LEMMA RlockCountStep ==
  ASSUME IInv, NEW p \in Proc, RlockCount(p)
  PROVE  IInv'
<1> USE NobodyAssumption DEF IInv, TypeOK, PC, RlockCount, Goto, xvars, kvars
<1>1. TypeOK'
  OBVIOUS
<1>2. XInv'
  BY DEF XInv, HoldsX
<1>3. LInv'
  BY DEF LInv
<1>4. UseInv'
  BY DEF UseInv
<1>5. KInv'
  BY DEF KInv, XInv, HoldsX
<1>6. GateInv'
  BY DEF GateInv, GateShut, Reads, XInv, HoldsX, LInv, UseInv, KInv, CountInv
<1>7. CountInv'
  <2>1. Inside' = Inside \cup {p} /\ p \notin Inside
    BY DEF Inside, Reads
  <2> QED BY <2>1, FS_AddElement DEF CountInv
<1> QED BY <1>1, <1>2, <1>3, <1>4, <1>5, <1>6, <1>7

(* The gate: at this point nobody is inside the spin lock of l->k and no   *)
(* writer owns it, since whoever did would hold l->x or l->l too.          *)
LEMMA RlockTryStep ==
  ASSUME IInv, NEW p \in Proc, RlockTry(p)
  PROVE  IInv'
<1> USE NobodyAssumption DEF IInv, TypeOK, PC, RlockTry, Goto, xvars, kvars, k!Acquire
<1>1. TypeOK'
  OBVIOUS
<1>2. XInv'
  BY DEF XInv, HoldsX
<1>3. LInv'
  BY DEF LInv
<1>4. UseInv'
  BY DEF UseInv
<1>5. KInv'
  BY DEF KInv, XInv, HoldsX
<1>6. GateInv'
  BY DEF GateInv, GateShut, Reads, XInv, HoldsX, LInv, UseInv, KInv, CountInv
<1>7. CountInv'
  BY DEF CountInv, Inside, Reads
<1> QED BY <1>1, <1>2, <1>3, <1>4, <1>5, <1>6, <1>7

(* The reader lets go of l->l. *)
LEMMA RlockUnlockStep ==
  ASSUME IInv, NEW p \in Proc, RlockUnlock(p)
  PROVE  IInv'
<1> USE NobodyAssumption DEF IInv, TypeOK, PC, RlockUnlock, Goto, xvars, kvars
<1>1. TypeOK'
  OBVIOUS
<1>2. XInv'
  BY DEF XInv, HoldsX
<1>3. LInv'
  BY DEF LInv
<1>4. UseInv'
  BY DEF UseInv
<1>5. KInv'
  BY DEF KInv, XInv, HoldsX
<1>6. GateInv'
  BY DEF GateInv, GateShut, Reads, XInv, HoldsX, LInv, UseInv, KInv, CountInv
<1>7. CountInv'
  BY DEF CountInv, Inside, Reads
<1> QED BY <1>1, <1>2, <1>3, <1>4, <1>5, <1>6, <1>7

(* The reader lets go of l->x and reads. *)
LEMMA RlockDoneStep ==
  ASSUME IInv, NEW p \in Proc, RlockDone(p)
  PROVE  IInv'
<1> USE NobodyAssumption DEF IInv, TypeOK, PC, RlockDone, Goto, xvars, kvars, x!Release
<1>1. TypeOK'
  BY XReleased
<1>2. XInv'
  <2>1. xowner = p
    BY DEF XInv, HoldsX
  <2>2. \A i \in 1..Len(xwait) : xwait[i] \in Proc /\ xwait[i] # p /\ pc[xwait[i]] \in {"rx", "wx"}
    BY <2>1, ElementOfSeq DEF XInv
  <2> QED BY <2>1, <2>2, XReleased DEF XInv, HoldsX
<1>3. LInv'
  BY DEF LInv
<1>4. UseInv'
  BY DEF UseInv
<1>5. KInv'
  BY DEF KInv, XInv, HoldsX
<1>6. GateInv'
  BY DEF GateInv, GateShut, Reads, XInv, HoldsX, LInv, UseInv, KInv, CountInv
<1>7. CountInv'
  BY DEF CountInv, Inside, Reads
<1> QED BY <1>1, <1>2, <1>3, <1>4, <1>5, <1>6, <1>7

(* The reader counts itself out. *)
LEMMA RunlockStep ==
  ASSUME IInv, NEW p \in Proc, Runlock(p)
  PROVE  IInv'
<1> USE NobodyAssumption DEF IInv, TypeOK, PC, Runlock, Goto, xvars, kvars
<1>1. TypeOK'
  <2>1. p \in Inside
    BY DEF Inside, Reads
  <2>2. readers # 0
    BY <2>1, FS_EmptySet DEF CountInv
  <2> QED BY <2>2
<1>2. XInv'
  BY DEF XInv, HoldsX
<1>3. LInv'
  BY DEF LInv
<1>4. UseInv'
  BY DEF UseInv
<1>5. KInv'
  BY DEF KInv, XInv, HoldsX
<1>6. GateInv'
  BY DEF GateInv, GateShut, Reads, XInv, HoldsX, LInv, UseInv, KInv, CountInv
<1>7. CountInv'
  <2>1. Inside' = Inside \ {p} /\ p \in Inside
    BY DEF Inside, Reads
  <2> QED BY <2>1, FS_RemoveElement DEF CountInv
<1> QED BY <1>1, <1>2, <1>3, <1>4, <1>5, <1>6, <1>7

(* The last reader out enters qunlock(&l->k). *)
LEMMA RunlockLastStep ==
  ASSUME IInv, NEW p \in Proc, RunlockLast(p)
  PROVE  IInv'
<1> USE NobodyAssumption DEF IInv, TypeOK, PC, RunlockLast, Goto, xvars, kvars
<1>1. TypeOK'
  OBVIOUS
<1>2. XInv'
  BY DEF XInv, HoldsX
<1>3. LInv'
  BY DEF LInv
<1>4. UseInv'
  BY DEF UseInv
<1>5. KInv'
  BY DEF KInv, XInv, HoldsX
<1>6. GateInv'
  BY DEF GateInv, GateShut, Reads, XInv, HoldsX, LInv, UseInv, KInv, CountInv
<1>7. CountInv'
  BY DEF CountInv, Inside, Reads
<1> QED BY <1>1, <1>2, <1>3, <1>4, <1>5, <1>6, <1>7

(* It releases l->k: nobody is inside, since the count is zero. *)
LEMMA RunlockHandStep ==
  ASSUME IInv, NEW p \in Proc, RunlockHand(p)
  PROVE  IInv'
<1> USE NobodyAssumption DEF IInv, TypeOK, PC, RunlockHand, Goto, xvars, kvars, k!Release
<1>1. TypeOK'
  BY KReleased
<1>2. XInv'
  BY DEF XInv, HoldsX
<1>3. LInv'
  BY DEF LInv
<1>4. UseInv'
  BY DEF UseInv
<1>5. KInv'
  <2>1. \A r \in Proc : pc[r] \in {"writing", "whand"} => r = p
    BY DEF KInv, GateInv
  <2>2. \A i \in 1..Len(kwait) : kwait[i] \in Proc /\ kwait[i] # p /\ pc[kwait[i]] = "wk"
    BY ElementOfSeq DEF KInv
  <2> QED BY <2>1, <2>2, KReleased DEF KInv
<1>6. GateInv'
  <2>1. readers = 0
    BY DEF GateInv
  <2>2. \A r \in Proc : ~Reads(r)
    BY <2>1, FS_EmptySet DEF CountInv, Inside
  <2>3. \A r \in Proc : pc[r] \in {"rlast", "rhand"} => r = p
    BY DEF LInv
  <2> QED BY <2>2, <2>3 DEF GateInv, GateShut, Reads
<1>7. CountInv'
  BY DEF CountInv, Inside, Reads
<1> QED BY <1>1, <1>2, <1>3, <1>4, <1>5, <1>6, <1>7

(* The reader lets go of l->l. *)
LEMMA RunlockDoneStep ==
  ASSUME IInv, NEW p \in Proc, RunlockDone(p)
  PROVE  IInv'
<1> USE NobodyAssumption DEF IInv, TypeOK, PC, RunlockDone, Goto, xvars, kvars
<1>1. TypeOK'
  OBVIOUS
<1>2. XInv'
  BY DEF XInv, HoldsX
<1>3. LInv'
  BY DEF LInv
<1>4. UseInv'
  BY DEF UseInv
<1>5. KInv'
  BY DEF KInv, XInv, HoldsX
<1>6. GateInv'
  BY DEF GateInv, GateShut, Reads, XInv, HoldsX, LInv, UseInv, KInv, CountInv
<1>7. CountInv'
  BY DEF CountInv, Inside, Reads
<1> QED BY <1>1, <1>2, <1>3, <1>4, <1>5, <1>6, <1>7

(* The writer, with l->x, enters qlock(&l->k). *)
LEMMA WlockUseStep ==
  ASSUME IInv, NEW p \in Proc, WlockUse(p)
  PROVE  IInv'
<1> USE NobodyAssumption DEF IInv, TypeOK, PC, WlockUse, Goto, xvars, kvars
<1>1. TypeOK'
  OBVIOUS
<1>2. XInv'
  BY DEF XInv, HoldsX
<1>3. LInv'
  BY DEF LInv
<1>4. UseInv'
  BY DEF UseInv
<1>5. KInv'
  BY DEF KInv, XInv, HoldsX
<1>6. GateInv'
  BY DEF GateInv, GateShut, Reads, XInv, HoldsX, LInv, UseInv, KInv, CountInv
<1>7. CountInv'
  BY DEF CountInv, Inside, Reads
<1> QED BY <1>1, <1>2, <1>3, <1>4, <1>5, <1>6, <1>7

(* The writer gets l->k or queues for it. *)
LEMMA WlockWaitStep ==
  ASSUME IInv, NEW p \in Proc, WlockWait(p)
  PROVE  IInv'
<1> USE NobodyAssumption DEF IInv, TypeOK, PC, WlockWait, Goto, xvars, kvars, k!Acquire, k!Wait
<1>1. TypeOK'
  <2>1. CASE k!Acquire(p)
    BY <2>1
  <2>2. CASE k!Wait(p)
    BY <2>2, AppendOrder
  <2> QED BY <2>1, <2>2
<1>2. XInv'
  BY DEF XInv, HoldsX
<1>3. LInv'
  BY DEF LInv
<1>4. UseInv'
  BY DEF UseInv
<1>5. KInv'
  <2>1. CASE k!Acquire(p)
    BY <2>1 DEF KInv
  <2>2. CASE k!Wait(p)
    <3>1. \A i \in 1..Len(kwait) : kwait[i] \in Proc /\ kwait[i] # p
      BY ElementOfSeq DEF KInv
    <3>2. Distinct(kwait')
      BY <2>2, <3>1, AppendDistinct DEF KInv
    <3>3. \A i \in 1..Len(kwait') : \/ kwait'[i] = p
                                    \/ \E j \in 1..Len(kwait) : kwait'[i] = kwait[j]
      BY <2>2, AppendOrder
    <3>4. \A i \in 1..Len(kwait') : pc'[kwait'[i]] = "wk" /\ kwait'[i] # kowner'
      BY <2>2, <3>1, <3>3 DEF KInv
    <3> QED BY <2>2, <3>2, <3>4 DEF KInv
  <2> QED BY <2>1, <2>2
<1>6. GateInv'
  BY DEF GateInv, GateShut, Reads, XInv, HoldsX, LInv, UseInv, KInv, CountInv
<1>7. CountInv'
  BY DEF CountInv, Inside, Reads
<1> QED BY <1>1, <1>2, <1>3, <1>4, <1>5, <1>6, <1>7

(* The writer writes. *)
LEMMA WlockDoneStep ==
  ASSUME IInv, NEW p \in Proc, WlockDone(p)
  PROVE  IInv'
<1> USE NobodyAssumption DEF IInv, TypeOK, PC, WlockDone, Goto, xvars, kvars
<1>1. TypeOK'
  OBVIOUS
<1>2. XInv'
  BY DEF XInv, HoldsX
<1>3. LInv'
  BY DEF LInv
<1>4. UseInv'
  BY DEF UseInv
<1>5. KInv'
  BY DEF KInv, XInv, HoldsX
<1>6. GateInv'
  BY DEF GateInv, GateShut, Reads, XInv, HoldsX, LInv, UseInv, KInv, CountInv
<1>7. CountInv'
  BY DEF CountInv, Inside, Reads
<1> QED BY <1>1, <1>2, <1>3, <1>4, <1>5, <1>6, <1>7

(* The writer enters qunlock(&l->k). *)
LEMMA WunlockStep ==
  ASSUME IInv, NEW p \in Proc, Wunlock(p)
  PROVE  IInv'
<1> USE NobodyAssumption DEF IInv, TypeOK, PC, Wunlock, Goto, xvars, kvars
<1>1. TypeOK'
  OBVIOUS
<1>2. XInv'
  BY DEF XInv, HoldsX
<1>3. LInv'
  BY DEF LInv
<1>4. UseInv'
  BY DEF UseInv
<1>5. KInv'
  BY DEF KInv, XInv, HoldsX
<1>6. GateInv'
  BY DEF GateInv, GateShut, Reads, XInv, HoldsX, LInv, UseInv, KInv, CountInv
<1>7. CountInv'
  BY DEF CountInv, Inside, Reads
<1> QED BY <1>1, <1>2, <1>3, <1>4, <1>5, <1>6, <1>7

(* The writer releases l->k. *)
LEMMA WunlockHandStep ==
  ASSUME IInv, NEW p \in Proc, WunlockHand(p)
  PROVE  IInv'
<1> USE NobodyAssumption DEF IInv, TypeOK, PC, WunlockHand, Goto, xvars, kvars, k!Release
<1>1. TypeOK'
  BY KReleased
<1>2. XInv'
  BY DEF XInv, HoldsX
<1>3. LInv'
  BY DEF LInv
<1>4. UseInv'
  BY DEF UseInv
<1>5. KInv'
  <2>1. \A r \in Proc : pc[r] \in {"writing", "whand"} => r = p
    BY DEF KInv, GateInv
  <2>2. \A i \in 1..Len(kwait) : kwait[i] \in Proc /\ kwait[i] # p /\ pc[kwait[i]] = "wk"
    BY ElementOfSeq DEF KInv
  <2>3. /\ Distinct(kwait')
        /\ kowner' = NoProc \/ \E j \in 1..Len(kwait) : kowner' = kwait[j]
        /\ \A i \in 1..Len(kwait') : /\ kwait'[i] # kowner'
                                     /\ \E j \in 1..Len(kwait) : kwait'[i] = kwait[j]
    BY KReleased
  <2>4. \A r \in Proc : pc'[r] \notin {"writing", "whand"} /\ (r # p => pc'[r] = pc[r])
    BY <2>1
  <2>5. kowner' \in Proc => pc'[kowner'] = "wk"
    BY <2>2, <2>3, <2>4
  <2>6. \A i \in 1..Len(kwait') : pc'[kwait'[i]] = "wk" /\ kwait'[i] # kowner'
    BY <2>2, <2>3, <2>4
  <2> QED BY <2>3, <2>4, <2>5, <2>6 DEF KInv
<1>6. GateInv'
  BY DEF GateInv, GateShut, Reads, XInv, HoldsX, LInv, UseInv, KInv, CountInv
<1>7. CountInv'
  BY DEF CountInv, Inside, Reads
<1> QED BY <1>1, <1>2, <1>3, <1>4, <1>5, <1>6, <1>7

(* The writer lets go of l->x. *)
LEMMA WunlockDoneStep ==
  ASSUME IInv, NEW p \in Proc, WunlockDone(p)
  PROVE  IInv'
<1> USE NobodyAssumption DEF IInv, TypeOK, PC, WunlockDone, Goto, xvars, kvars, x!Release
<1>1. TypeOK'
  BY XReleased
<1>2. XInv'
  <2>1. xowner = p
    BY DEF XInv, HoldsX
  <2>2. \A i \in 1..Len(xwait) : xwait[i] \in Proc /\ xwait[i] # p /\ pc[xwait[i]] \in {"rx", "wx"}
    BY <2>1, ElementOfSeq DEF XInv
  <2> QED BY <2>1, <2>2, XReleased DEF XInv, HoldsX
<1>3. LInv'
  BY DEF LInv
<1>4. UseInv'
  BY DEF UseInv
<1>5. KInv'
  BY DEF KInv, XInv, HoldsX
<1>6. GateInv'
  BY DEF GateInv, GateShut, Reads, XInv, HoldsX, LInv, UseInv, KInv, CountInv
<1>7. CountInv'
  BY DEF CountInv, Inside, Reads
<1> QED BY <1>1, <1>2, <1>3, <1>4, <1>5, <1>6, <1>7

-----------------------------------------------------------------------------
(* The inductive invariant holds in every reachable state, for any number  *)
(* of processes.                                                           *)
THEOREM Invariance == Spec => []IInv
<1>1. Init => IInv
  <2> SUFFICES ASSUME Init PROVE IInv
    OBVIOUS
  <2> USE NobodyAssumption DEF Init, x!Init, k!Init
  <2>1. TypeOK
    BY DEF TypeOK, PC
  <2>2. XInv /\ KInv
    BY DEF XInv, HoldsX, KInv, Distinct
  <2>3. LInv /\ UseInv /\ GateInv
    BY DEF LInv, UseInv, GateInv, GateShut, Reads
  <2>4. Inside = {}
    BY DEF Inside, Reads
  <2>5. CountInv
    BY <2>4, FS_EmptySet DEF CountInv
  <2> QED BY <2>1, <2>2, <2>3, <2>5 DEF IInv
<1>2. IInv /\ [Next]_vars => IInv'
  <2> SUFFICES ASSUME IInv, [Next]_vars PROVE IInv'
    OBVIOUS
  <2>1. CASE UNCHANGED vars
    BY <2>1 DEF vars, xvars, kvars, IInv, TypeOK, XInv, HoldsX, LInv, UseInv, KInv,
                GateInv, GateShut, Reads, CountInv, Inside
  <2>2. ASSUME NEW p \in Proc, Rlock(p) \/ Canrlock(p) \/ Wlock(p)
        PROVE  IInv'
    BY <2>2, RlockStep, CanrlockStep, WlockStep
  <2>3. ASSUME NEW p \in Proc, Step(p)
        PROVE  IInv'
    BY <2>3, RlockCountStep, RlockTryStep, RlockUnlockStep, RlockDoneStep, RunlockStep,
       RunlockLastStep, RunlockHandStep, RunlockDoneStep, WlockUseStep, WlockWaitStep,
       WlockDoneStep, WunlockStep, WunlockHandStep, WunlockDoneStep DEF Step
  <2> QED BY <2>1, <2>2, <2>3 DEF Next
<1> QED BY <1>1, <1>2, PTL DEF Spec

(* A writer is alone, counting it from the moment the gate is handed to it. *)
THEOREM Exclusion == Spec => []WriterAlone
<1>1. IInv => WriterAlone
  BY NobodyAssumption DEF IInv, WriterAlone, Writes, KInv, GateInv, GateShut
<1> QED BY <1>1, Invariance, PTL

(* rlock may ignore the result of canqlock: while a reader is inside, the  *)
(* readers own the gate.                                                   *)
THEOREM GateIsShut == Spec => []GateShut
<1>1. IInv => GateShut
  BY DEF IInv, GateInv
<1> QED BY <1>1, Invariance, PTL

(* The count is the number of readers inside. *)
THEOREM ReadersCounted == Spec => []CountedReaders
<1>1. IInv => CountedReaders
  BY DEF IInv, CountInv, CountedReaders, Inside
<1> QED BY <1>1, Invariance, PTL
=============================================================================
