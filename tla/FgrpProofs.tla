----------------------------- MODULE FgrpProofs -----------------------------
(***************************************************************************)
(* What holds of Fgrp for every number of processes, channels and table    *)
(* sizes: TypeOK, RefsMatch and MinfdKept of MCFgrp's run, and NoHiddenFd. *)
(* The counts are those of a system that keeps kpipe to tables nobody      *)
(* shares, PipeAlone; the bounds maxfd and minfd do not depend on that.    *)
(***************************************************************************)
EXTENDS Fgrp, SequenceTheorems, WellFoundedInduction, FiniteSetTheorems, TLAPS

(* Unlinking the head moves everybody else up by one. *)
LEMMA TailOrder ==
  ASSUME NEW P, NEW s \in Seq(P), s # <<>>
  PROVE  /\ Tail(s) \in Seq(P)
         /\ Len(s) \in Nat \ {0}
         /\ Len(Tail(s)) = Len(s) - 1
         /\ Tail(s) = <<>> <=> Len(s) = 1
         /\ \A i \in 1..Len(s) - 1 : Tail(s)[i] = s[i + 1]
         /\ Head(s) = s[1]
         /\ s[1] \in P
<1>1. Len(s) \in Nat \ {0}
  BY EmptySeq
<1>2. Len(Tail(s)) = Len(s) - 1 /\ Tail(s) \in Seq(P)
  BY HeadTailProperties
<1>3. \A i \in 1..Len(s) - 1 : Tail(s)[i] = s[i + 1]
  BY <1>2, HeadTailProperties
<1>4. ASSUME Tail(s) = <<>> PROVE Len(s) = 1
  <2>1. Len(Tail(s)) = 0
    BY <1>4, EmptySeq, Zenon
  <2>2. Len(s) - 1 = 0
    BY <1>2, <2>1, Zenon
  <2> QED BY <1>1, <2>2
<1>5. ASSUME Len(s) = 1 PROVE Tail(s) = <<>>
  <2>1. Len(Tail(s)) \notin Nat \ {0}
    BY <1>2, <1>5
  <2> QED BY <1>2, <2>1, EmptySeq
<1>6. Head(s) = s[1] /\ s[1] \in P
  BY <1>1, ElementOfSeq
<1> QED BY <1>1, <1>2, <1>3, <1>4, <1>5, <1>6

(* Every nonempty set of places in a queue, or of counts, has a least one. *)
LEMMA Least ==
  ASSUME NEW T \in SUBSET Nat, T # {}
  PROVE  \E x \in T : \A y \in T : x <= y
<1>1. PICK x \in T : \A y \in T : ~(<<y, x>> \in OpToRel(<, Nat))
  BY WFMin, NatLessThanWellFounded
<1>2. \A y \in T : ~(y < x)
  BY <1>1 DEF OpToRel
<1> QED BY <1>2

Piping(p) == pc[p] \in {"pipe0", "pipe1", "pipefail", "unslot"}

(* TypeOK but for the sign of the counts, which only hold with PipeAlone.  *)
Types == /\ fd \in [Fd -> Chan \cup {Nil}]
         /\ nfd \in 1..Maxnfd /\ maxfd \in Fd /\ minfd \in 0..Maxnfd
         /\ users \subseteq Proc
         /\ ref \in [Chan -> Int]
         /\ pc \in [Proc -> PC]
         /\ arg \in [Proc -> Fd]
         /\ hand \in [Proc -> Seq(Chan)]
         /\ first \in [Proc -> Chan \cup {Nil}]

(* A process in a call uses the table; the one that frees it does so alone. *)
UserOf(p) == /\ pc[p] \notin {"idle", "cclose", "closefgrp"} => p \in users
             /\ pc[p] = "closefgrp" => users = {}

(* How many channels a process has in hand, by where it is.                *)
HandOf(p) ==
  /\ pc[p] \in {"idle", "fdclose", "unslot", "closefgrp"} => Len(hand[p]) = 0
  /\ pc[p] \in {"newfd", "dup", "use", "pipe1", "pipefail"} => Len(hand[p]) = 1
  /\ pc[p] = "pipe0" => Len(hand[p]) = 2
  /\ pc[p] = "closefiles" => Len(hand[p]) <= 1
  /\ pc[p] = "cclose" => Len(hand[p]) <= 2

(* kpipe has the table to itself, so its first descriptor stays its own.   *)
AloneOf(p) ==
  /\ Piping(p) => users = {p}
  /\ pc[p] \in {"pipe1", "pipefail"} => first[p] \in Chan /\ fd[arg[p]] = first[p]

UsersInv == \A p \in Proc : UserOf(p)
HandInv  == \A p \in Proc : HandOf(p)
AloneInv == \A p \in Proc : AloneOf(p)

IInv == /\ Types /\ UsersInv /\ HandInv /\ NoHiddenFd
        /\ PipeAlone => AloneInv /\ RefsMatch

-----------------------------------------------------------------------------
(* The sizes of the table, from SizeAssumption.                            *)
LEMMA Sizes == /\ 0 \in Fd /\ Maxnfd \in Nat \ {0} /\ Deltafd \in 1..Maxnfd
               /\ Fd \subseteq Nat /\ IsFiniteSet(Fd)
<1>1. IsFiniteSet(0..Maxnfd - 1)
  BY SizeAssumption, FS_Interval
<1> QED BY <1>1, SizeAssumption DEF Fd

(* The descriptor after one below another is a descriptor.                 *)
LEMMA NextFd == \A j, m \in Fd : j < m => j + 1 \in Fd
BY SizeAssumption DEF Fd

(* newfd's slot: everything from minfd to it is taken, it is not.          *)
LEMMA FreeSlot ==
  ASSUME Types
  PROVE  /\ Free \in Nat /\ minfd <= Free
         /\ Free >= nfd \/ fd[Free] = Nil
         /\ \A j \in minfd..Free - 1 : fd[j] # Nil
<1> DEFINE T == {k \in minfd..MaxOf(minfd, nfd) : k >= nfd \/ fd[k] = Nil}
<1>1. minfd \in Nat /\ nfd \in Nat
  BY Sizes DEF Types
<1>2. MaxOf(minfd, nfd) \in T /\ T \subseteq Nat
  BY <1>1 DEF MaxOf
<1>3. PICK x \in T : \A y \in T : x <= y
  BY <1>2, Least
<1>4. \A j \in minfd..x - 1 : j \notin T /\ j \in minfd..MaxOf(minfd, nfd)
  BY <1>1, <1>2, <1>3
<1>5. \E k \in minfd..MaxOf(minfd, nfd) :
        /\ k >= nfd \/ fd[k] = Nil
        /\ \A j \in minfd..k - 1 : fd[j] # Nil
  BY <1>3, <1>4
<1>6. /\ Free \in minfd..MaxOf(minfd, nfd)
      /\ Free >= nfd \/ fd[Free] = Nil
      /\ \A j \in minfd..Free - 1 : fd[j] # Nil
  BY <1>5 DEF Free
<1> QED BY <1>1, <1>6 DEF MaxOf

(* fdclose's new maxfd: no slot is left in use between it and the old one. *)
LEMMA LoweredSlot ==
  ASSUME Types, NEW k \in Fd, k <= maxfd
  PROVE  /\ Lowered(k) \in Fd /\ Lowered(k) <= maxfd
         /\ k # maxfd => Lowered(k) = maxfd
         /\ k = maxfd => \A j \in Fd : j < k /\ fd[j] # Nil => j <= Lowered(k)
<1>1. k \in Nat /\ maxfd \in Nat
  BY Sizes DEF Types
<1>2. CASE k # maxfd
  BY <1>1, <1>2 DEF Lowered, Types
<1>3. CASE k = maxfd
  <2> DEFINE T == {m \in 0..k : \A j \in m..k - 1 : fd[j] = Nil}
  <2>1. k \in T /\ T \subseteq Nat
    BY <1>1
  <2>2. PICK x \in T : \A y \in T : x <= y
    BY <2>1, Least
  <2>3. x = 0 \/ fd[x - 1] # Nil
    <3>1. SUFFICES ASSUME x # 0, fd[x - 1] = Nil PROVE FALSE
      OBVIOUS
    <3>2. x - 1 \in 0..k /\ \A j \in x - 1..k - 1 : j = x - 1 \/ j \in x..k - 1
      BY <1>1, <2>2, <3>1
    <3>3. x - 1 \in T
      BY <2>2, <3>1, <3>2
    <3> QED BY <1>1, <2>2, <3>3
  <2>4. \E m \in 0..k : /\ \A j \in m..k - 1 : fd[j] = Nil
                        /\ m = 0 \/ fd[m - 1] # Nil
    BY <2>2, <2>3
  <2>5. Lowered(k) \in 0..k /\ \A j \in Lowered(k)..k - 1 : fd[j] = Nil
    BY <1>3, <2>4 DEF Lowered
  <2>6. Lowered(k) \in Fd
    BY <1>1, <2>5, Sizes DEF Fd
  <2>7. \A j \in Fd : j < k /\ fd[j] # Nil => j <= Lowered(k)
    BY <1>1, <2>5, Sizes
  <2> QED BY <1>1, <1>3, <2>5, <2>6, <2>7
<1> QED BY <1>2, <1>3

(* Where growfd leaves the end of the table.                               *)
LEMMA GrownSize ==
  ASSUME Types, NEW k \in Nat, growfd(k)
  PROVE  nfd' \in 1..Maxnfd /\ nfd <= nfd' /\ k \in Fd /\ k < nfd'
<1>1. nfd \in 1..Maxnfd /\ Maxnfd \in Nat /\ Deltafd \in Nat
  BY Sizes DEF Types
<1>2. nfd' = Grown(k) /\ k < Grown(k)
  BY DEF growfd
<1> QED BY <1>1, <1>2 DEF Grown, MinOf, Fd

-----------------------------------------------------------------------------
(* Counting the holders of a channel.                                      *)
One(b)   == IF b THEN 1 ELSE 0
Is(a, c) == IF a = c THEN 1 ELSE 0
In(s, c) == One(Len(s) >= 1 /\ s[1] = c) + One(Len(s) >= 2 /\ s[2] = c)

SlotsOf(f, c) == {i \in Fd : f[i] = c}
Slots(c)      == {i \in Fd : fd[i] = c /\ ~Stale(i)}
Hands(h, c)   == {x \in Proc \X {1, 2} : x[2] <= Len(h[x[1]]) /\ h[x[1]][x[2]] = c}

(* Setting one slot changes its old and its new channel's count by one.    *)
LEMMA SlotCount ==
  ASSUME NEW f \in [Fd -> Chan \cup {Nil}], NEW k \in Fd,
         NEW v \in Chan \cup {Nil}, NEW g, g = [f EXCEPT ![k] = v], NEW c \in Chan
  PROVE  /\ Cardinality(SlotsOf(f, c)) \in Nat /\ Cardinality(SlotsOf(g, c)) \in Nat
         /\ Cardinality(SlotsOf(g, c))
              = Cardinality(SlotsOf(f, c)) - Is(f[k], c) + Is(v, c)
<1> DEFINE S == SlotsOf(f, c)
           R == S \ {k}
<1>1. IsFiniteSet(S) /\ Cardinality(S) \in Nat
  BY Sizes, FS_Subset, FS_CardinalityType DEF SlotsOf
<1>2. /\ IsFiniteSet(R)
      /\ Cardinality(R) = IF k \in S THEN Cardinality(S) - 1 ELSE Cardinality(S)
  BY <1>1, FS_RemoveElement
<1>3. k \in S <=> f[k] = c
  BY DEF SlotsOf
<1>4. SlotsOf(g, c) = IF v = c THEN R \cup {k} ELSE R
  BY DEF SlotsOf
<1>5. Cardinality(R \cup {k}) = Cardinality(R) + 1 /\ Cardinality(R) \in Nat
  BY <1>2, FS_AddElement, FS_CardinalityType
<1> HIDE DEF R, S
<1>6. Cardinality(R) = Cardinality(S) - Is(f[k], c)
  BY <1>1, <1>2, <1>3 DEF Is
<1>7. Cardinality(SlotsOf(g, c)) = Cardinality(R) + Is(v, c)
  BY <1>4, <1>5 DEF Is
<1>8. Cardinality(SlotsOf(g, c)) = Cardinality(S) - Is(f[k], c) + Is(v, c)
  BY <1>6, <1>7
<1>9. Cardinality(SlotsOf(g, c)) \in Nat
  BY <1>5, <1>7 DEF Is
<1> QED BY <1>1, <1>8, <1>9 DEF S

(* Only the hands of p change: its part of the pairs is at most two.       *)
LEMMA HandCount ==
  ASSUME NEW h \in [Proc -> Seq(Chan)], NEW p \in Proc,
         NEW s \in Seq(Chan), NEW e, e = [h EXCEPT ![p] = s], NEW c \in Chan
  PROVE  /\ Cardinality(Hands(h, c)) \in Nat /\ Cardinality(Hands(e, c)) \in Nat
         /\ Cardinality(Hands(e, c))
              = Cardinality(Hands(h, c)) - In(h[p], c) + In(s, c)
<1> DEFINE R == {x \in (Proc \ {p}) \X {1, 2} :
                   x[2] <= Len(h[x[1]]) /\ h[x[1]][x[2]] = c}
<1>1. IsFiniteSet(Proc \X {1, 2})
  <2>1. IsFiniteSet({1} \cup {2}) /\ {1} \cup {2} = {1, 2}
    BY FS_Singleton, FS_AddElement
  <2> QED BY <2>1, FS_Product, ProcAssumption
<1>2. IsFiniteSet(R) /\ Cardinality(R) \in Nat
  <2>1. R \subseteq Proc \X {1, 2}
    OBVIOUS
  <2> QED BY <1>1, <2>1, FS_Subset, FS_CardinalityType
<1>3. ASSUME NEW g \in [Proc -> Seq(Chan)], \A q \in Proc \ {p} : g[q] = h[q]
      PROVE  Cardinality(Hands(g, c)) = Cardinality(R) + In(g[p], c)
  <2> DEFINE t == g[p]
             A == IF Len(t) >= 1 /\ t[1] = c THEN R \cup {<<p, 1>>} ELSE R
             B == IF Len(t) >= 2 /\ t[2] = c THEN A \cup {<<p, 2>>} ELSE A
  <2>1. Len(t) \in Nat
    OBVIOUS
  <2>2. Hands(g, c) = B
    <3>1. \A x \in Proc \X {1, 2} :
             \/ x \in (Proc \ {p}) \X {1, 2}
             \/ x = <<p, 1>>
             \/ x = <<p, 2>>
      OBVIOUS
    <3>2. \A x \in (Proc \ {p}) \X {1, 2} : x \in Hands(g, c) <=> x \in R
      BY <1>3 DEF Hands
    <3>3. <<p, 1>> \in Hands(g, c) <=> Len(t) >= 1 /\ t[1] = c
      BY <2>1 DEF Hands
    <3>4. <<p, 2>> \in Hands(g, c) <=> Len(t) >= 2 /\ t[2] = c
      <4>1. <<p, 2>> \in Proc \X {1, 2} /\ <<p, 2>>[1] = p /\ <<p, 2>>[2] = 2
        OBVIOUS
      <4>2. <<p, 2>> \in Hands(g, c) <=> 2 <= Len(t) /\ t[2] = c
        BY <4>1 DEF Hands
      <4>3. 2 <= Len(t) <=> Len(t) >= 2
        BY <2>1
      <4> QED BY <4>2, <4>3, Zenon
    <3>5. <<p, 1>> \notin R /\ <<p, 2>> \notin R /\ R \subseteq (Proc \ {p}) \X {1, 2}
      OBVIOUS
    <3>6. Hands(g, c) \subseteq Proc \X {1, 2}
      BY DEF Hands
    <3>7. \A x \in Proc \X {1, 2} :
             x \in B <=> \/ x \in R
                         \/ x = <<p, 1>> /\ Len(t) >= 1 /\ t[1] = c
                         \/ x = <<p, 2>> /\ Len(t) >= 2 /\ t[2] = c
      <4> HIDE DEF R, t
      <4> QED OBVIOUS
    <3>8. B \subseteq Proc \X {1, 2}
      OBVIOUS
    <3>9. \A x \in Proc \X {1, 2} : x \in Hands(g, c) <=> x \in B
      <4> HIDE DEF R, t, B, A
      <4> QED BY <3>1, <3>2, <3>3, <3>4, <3>5, <3>7, Zenon
    <3> HIDE DEF B
    <3> QED BY <3>6, <3>8, <3>9
  <2>3. <<p, 1>> \notin R /\ <<p, 2>> \notin A
    OBVIOUS
  <2>4. /\ IsFiniteSet(A)
        /\ Cardinality(A) = Cardinality(R) + One(Len(t) >= 1 /\ t[1] = c)
    <3>1. /\ IsFiniteSet(R \cup {<<p, 1>>})
          /\ Cardinality(R \cup {<<p, 1>>}) = Cardinality(R) + 1
      <4> HIDE DEF R
      <4> QED BY <1>2, <2>3, FS_AddElement
    <3>2. CASE Len(t) >= 1 /\ t[1] = c
      <4>1. A = R \cup {<<p, 1>>} /\ One(Len(t) >= 1 /\ t[1] = c) = 1
        BY <3>2, Zenon DEF One
      <4> HIDE DEF A, R, t
      <4> QED BY <3>1, <4>1
    <3>3. CASE ~(Len(t) >= 1 /\ t[1] = c)
      <4>1. A = R /\ One(Len(t) >= 1 /\ t[1] = c) = 0
        BY <3>3, Zenon DEF One
      <4> HIDE DEF A, R, t
      <4> QED BY <1>2, <4>1
    <3> QED BY <3>2, <3>3
  <2>5. Cardinality(B) = Cardinality(A) + One(Len(t) >= 2 /\ t[2] = c)
    <3>1. Cardinality(A) \in Nat
      BY <2>4, FS_CardinalityType
    <3>2. Cardinality(A \cup {<<p, 2>>}) = Cardinality(A) + 1
      <4> HIDE DEF A
      <4> QED BY <2>3, <2>4, FS_AddElement
    <3>3. CASE Len(t) >= 2 /\ t[2] = c
      <4>1. B = A \cup {<<p, 2>>} /\ One(Len(t) >= 2 /\ t[2] = c) = 1
        BY <3>3, Zenon DEF One
      <4> HIDE DEF A, B, t
      <4> QED BY <3>2, <4>1
    <3>4. CASE ~(Len(t) >= 2 /\ t[2] = c)
      <4>1. B = A /\ One(Len(t) >= 2 /\ t[2] = c) = 0
        BY <3>4, Zenon DEF One
      <4> HIDE DEF A, B, t
      <4> QED BY <3>1, <4>1
    <3> QED BY <3>3, <3>4
  <2> HIDE DEF A, B, R, t
  <2>6. Cardinality(B) = Cardinality(R) + In(t, c)
    <3>1. Cardinality(A) \in Nat
      BY <2>4, FS_CardinalityType
    <3> QED BY <1>2, <2>4, <2>5, <3>1 DEF In, One
  <2>7. Cardinality(Hands(g, c)) = Cardinality(R) + In(t, c)
    BY <2>2, <2>6, Zenon
  <2> QED BY <2>7, Zenon DEF t
<1>4. Cardinality(Hands(h, c)) = Cardinality(R) + In(h[p], c)
  BY <1>3
<1>5. Cardinality(Hands(e, c)) = Cardinality(R) + In(s, c)
  <2>1. e \in [Proc -> Seq(Chan)] /\ e[p] = s /\ \A q \in Proc \ {p} : e[q] = h[q]
    OBVIOUS
  <2> HIDE DEF R
  <2>2. Cardinality(Hands(e, c)) = Cardinality(R) + In(e[p], c)
    BY <1>3, <2>1
  <2> QED BY <2>1, <2>2
<1>6. In(h[p], c) \in Nat /\ In(s, c) \in Nat
  BY DEF In, One
<1> HIDE DEF R
<1> QED BY <1>2, <1>4, <1>5, <1>6

(* What the hands count for when the first channel leaves them, and when   *)
(* they are new.                                                           *)
LEMMA InTail ==
  ASSUME NEW s \in Seq(Chan), Len(s) \in {1, 2}, NEW c \in Chan
  PROVE  /\ Tail(s) \in Seq(Chan) /\ Len(Tail(s)) = Len(s) - 1
         /\ Head(s) \in Chan /\ Head(s) = s[1]
         /\ In(Tail(s), c) = In(s, c) - Is(Head(s), c)
<1>1. s # <<>>
  OBVIOUS
<1>2. /\ Tail(s) \in Seq(Chan) /\ Len(Tail(s)) = Len(s) - 1
      /\ Head(s) \in Chan /\ Head(s) = s[1]
  BY <1>1
<1>3. Len(s) = 2 => Tail(s)[1] = s[2]
  BY <1>1, TailOrder
<1>4. CASE Len(s) = 1
  BY <1>2, <1>4 DEF In, One, Is
<1>5. CASE Len(s) = 2
  <2>1. In(Tail(s), c) = Is(s[2], c)
    <3> DEFINE t == Tail(s)
    <3>1. Len(t) = 1 /\ t[1] = s[2]
      BY <1>2, <1>3, <1>5
    <3> HIDE DEF t
    <3>2. One(Len(t) >= 2 /\ t[2] = c) = 0
      BY <3>1 DEF One
    <3>3. One(Len(t) >= 1 /\ t[1] = c) = Is(s[2], c)
      BY <3>1 DEF One, Is
    <3>4. In(t, c) = Is(s[2], c)
      BY <3>2, <3>3 DEF In, Is
    <3> QED BY <3>4 DEF t
  <2>2. In(s, c) = Is(s[1], c) + Is(s[2], c)
    BY <1>5 DEF In, One, Is
  <2>3. Is(s[1], c) \in Nat /\ Is(s[2], c) \in Nat
    BY DEF Is
  <2>4. In(Tail(s), c) = In(s, c) - Is(Head(s), c)
    BY <1>2, <2>1, <2>2, <2>3
  <2> QED BY <1>2, <2>4
<1> QED BY <1>4, <1>5

(* The same for hands that have just been filled, or are empty.            *)
LEMMA InNew ==
  ASSUME NEW a \in Chan, NEW b \in Chan, NEW c \in Chan
  PROVE  /\ In(<<>>, c) = 0 /\ In(<<a>>, c) = Is(a, c)
         /\ In(<<a, b>>, c) = Is(a, c) + Is(b, c)
         /\ \A s \in Seq(Chan) : Len(s) = 0 => In(s, c) = 0
BY DEF In, One, Is

(* Holders is the number of slots and the number of hands.                 *)
LEMMA HoldersCount ==
  ASSUME Types, NEW c \in Chan
  PROVE  Holders(c) = Cardinality(Slots(c)) + Cardinality(Hands(hand, c))
BY DEF Holders, Slots, Hands

(* Only p steps.                                                           *)
Alone(p) == /\ \A q \in Proc \ {p} : /\ pc'[q] = pc[q] /\ arg'[q] = arg[q]
                                     /\ hand'[q] = hand[q] /\ first'[q] = first[q]

(* Only kpipe's error path makes a slot stale or ends that.                *)
LEMMA StaleKept ==
  ASSUME NEW p \in Proc, Alone(p), pc[p] # "unslot", pc'[p] # "unslot", NEW k
  PROVE  Stale(k)' <=> Stale(k)
BY DEF Stale, Alone

(* Nobody else is there while kpipe has a stale slot.                      *)
LEMMA NoneStale ==
  ASSUME AloneInv, NEW p \in Proc, p \in users \/ users = {}, pc[p] # "unslot", NEW k
  PROVE  ~Stale(k)
BY DEF AloneInv, AloneOf, Piping, Stale

(* How the holders change when only p's hands do, or one slot as well.     *)
LEMMA HandsChange ==
  ASSUME Types, RefsMatch, NEW p \in Proc, NEW s \in Seq(Chan),
         hand' = [hand EXCEPT ![p] = s], fd' = fd,
         \A k \in Fd : Stale(k)' <=> Stale(k),
         NEW c \in Chan
  PROVE  Holders(c)' \in Nat /\ Holders(c)' = ref[c] - In(hand[p], c) + In(s, c)
<1>1. hand \in [Proc -> Seq(Chan)] /\ ref[c] = Holders(c) /\ ref[c] \in Int
  BY DEF Types, RefsMatch
<1>2. Slots(c)' = Slots(c)
  BY DEF Slots
<1>3. Holders(c)' = Cardinality(Slots(c)) + Cardinality(Hands(hand', c))
  BY <1>2 DEF Holders, Slots, Hands
<1>4. Cardinality(Slots(c)) \in Nat
  BY Sizes, FS_Subset, FS_CardinalityType DEF Slots
<1>5. /\ Cardinality(Hands(hand, c)) \in Nat /\ Cardinality(Hands(hand', c)) \in Nat
      /\ Cardinality(Hands(hand', c))
           = Cardinality(Hands(hand, c)) - In(hand[p], c) + In(s, c)
  <2>1. hand \in [Proc -> Seq(Chan)] /\ p \in Proc /\ s \in Seq(Chan) /\ c \in Chan
    BY <1>1
  <2> QED BY <2>1, HandCount, ZenonT(30)
<1>7. In(hand[p], c) \in Nat /\ In(s, c) \in Nat
  BY DEF In, One, Is
<1> QED BY <1>1, <1>3, <1>4, <1>5, <1>7, HoldersCount

(* ... and when a slot changes too.                                        *)
LEMMA SlotChange ==
  ASSUME Types, RefsMatch, NEW p \in Proc, NEW s \in Seq(Chan),
         hand' = [hand EXCEPT ![p] = s],
         NEW k \in Fd, NEW v \in Chan \cup {Nil}, fd' = [fd EXCEPT ![k] = v],
         \A j \in Fd : ~Stale(j) /\ ~Stale(j)',
         NEW c \in Chan
  PROVE  /\ Holders(c)' \in Nat
         /\ Holders(c)' = ref[c] - Is(fd[k], c) + Is(v, c)
                            - In(hand[p], c) + In(s, c)
<1>1. /\ hand \in [Proc -> Seq(Chan)] /\ ref[c] = Holders(c) /\ ref[c] \in Int
      /\ fd \in [Fd -> Chan \cup {Nil}]
  BY DEF Types, RefsMatch
<1>2. Slots(c) = SlotsOf(fd, c) /\ Slots(c)' = SlotsOf(fd', c)
  BY DEF Slots, SlotsOf
<1>3. Holders(c)' = Cardinality(SlotsOf(fd', c)) + Cardinality(Hands(hand', c))
  BY <1>2 DEF Holders, Slots, Hands
<1>4. /\ Cardinality(SlotsOf(fd, c)) \in Nat /\ Cardinality(SlotsOf(fd', c)) \in Nat
      /\ Cardinality(SlotsOf(fd', c))
           = Cardinality(SlotsOf(fd, c)) - Is(fd[k], c) + Is(v, c)
  <2>1. fd \in [Fd -> Chan \cup {Nil}] /\ k \in Fd /\ v \in Chan \cup {Nil} /\ c \in Chan
    BY <1>1
  <2> QED BY <2>1, SlotCount, ZenonT(30)
<1>5. /\ Cardinality(Hands(hand, c)) \in Nat /\ Cardinality(Hands(hand', c)) \in Nat
      /\ Cardinality(Hands(hand', c))
           = Cardinality(Hands(hand, c)) - In(hand[p], c) + In(s, c)
  <2>1. hand \in [Proc -> Seq(Chan)] /\ p \in Proc /\ s \in Seq(Chan) /\ c \in Chan
    BY <1>1
  <2> QED BY <2>1, HandCount, ZenonT(30)
<1>7. /\ In(hand[p], c) \in Nat /\ In(s, c) \in Nat
      /\ Is(fd[k], c) \in Nat /\ Is(v, c) \in Nat
  BY DEF In, One, Is
<1>8. Holders(c) = Cardinality(SlotsOf(fd, c)) + Cardinality(Hands(hand, c))
  BY <1>2, HoldersCount
<1>9. Holders(c)' \in Nat
  BY <1>3, <1>4, <1>5
<1>10. ref[c] = Cardinality(SlotsOf(fd, c)) + Cardinality(Hands(hand, c))
  BY <1>1, <1>8
<1>11. Holders(c)' = (Cardinality(SlotsOf(fd, c)) - Is(fd[k], c) + Is(v, c))
                       + (Cardinality(Hands(hand, c)) - In(hand[p], c) + In(s, c))
  BY <1>3, <1>4, <1>5
<1>12. Holders(c)' = ref[c] - Is(fd[k], c) + Is(v, c) - In(hand[p], c) + In(s, c)
  <2> DEFINE x == Cardinality(SlotsOf(fd, c))
             y == Cardinality(Hands(hand, c))
             a == Is(fd[k], c)
             b == Is(v, c)
             d == In(hand[p], c)
             e == In(s, c)
  <2>1. x \in Nat /\ y \in Nat /\ a \in Nat /\ b \in Nat /\ d \in Nat /\ e \in Nat
    BY <1>4, <1>5, <1>7
  <2>2. Holders(c)' = (x - a + b) + (y - d + e) /\ ref[c] = x + y
    BY <1>10, <1>11
  <2> HIDE DEF x, y, a, b, d, e
  <2>3. (x - a + b) + (y - d + e) = (x + y) - a + b - d + e
    BY <2>1
  <2>4. Holders(c)' = ref[c] - a + b - d + e
    BY <2>2, <2>3, Zenon
  <2> QED BY <2>4 DEF a, b, d, e
<1> QED BY <1>9, <1>12

(* A kpipe has the table to itself: nobody else can change it.             *)
LEMMA AloneKept ==
  ASSUME AloneInv, NEW p \in Proc, Alone(p), AloneOf(p)', users' = users,
         p \in users \/ users = {} \/ fd' = fd
  PROVE  AloneInv'
<1> SUFFICES ASSUME NEW q \in Proc, q # p PROVE AloneOf(q)'
  BY DEF AloneInv
<1>1. pc'[q] = pc[q] /\ arg'[q] = arg[q] /\ first'[q] = first[q]
  BY DEF Alone
<1>2. AloneOf(q)
  BY DEF AloneInv
<1>3. Piping(q) => users = {q} /\ fd' = fd
  BY <1>2 DEF AloneOf
<1> QED BY <1>1, <1>2, <1>3 DEF AloneOf, Piping

(* A step of one process leaves what is said of the others.                *)
LEMMA OthersKept ==
  ASSUME UsersInv, HandInv, NEW p \in Proc, Alone(p), users' = users,
         UserOf(p)', HandOf(p)'
  PROVE  UsersInv' /\ HandInv'
<1> SUFFICES ASSUME NEW q \in Proc, q # p PROVE UserOf(q)' /\ HandOf(q)'
  BY DEF UsersInv, HandInv
<1>1. pc'[q] = pc[q] /\ hand'[q] = hand[q] /\ UserOf(q) /\ HandOf(q)
  BY DEF Alone, UsersInv, HandInv
<1> QED BY <1>1 DEF UserOf, HandOf

-----------------------------------------------------------------------------
(* The two kinds of step: p changes what it has in hand, or also a slot of *)
(* the table, and the counts follow.                                       *)
LEMMA HandStep ==
  ASSUME IInv, NEW p \in Proc, Alone(p), UNCHANGED <<table, users>>,
         NEW s \in Seq(Chan), hand' = [hand EXCEPT ![p] = s],
         Types', UserOf(p)', HandOf(p)', pc[p] # "unslot", pc'[p] # "unslot",
         PipeAlone => AloneOf(p)',
         \A c \in Chan : ref'[c] = ref[c] - In(hand[p], c) + In(s, c)
  PROVE  IInv'
<1>1. fd' = fd /\ users' = users /\ NoHiddenFd'
  BY DEF IInv, table, NoHiddenFd
<1>2. UsersInv' /\ HandInv'
  BY <1>1, OthersKept DEF IInv
<1>3. ASSUME PipeAlone PROVE AloneInv' /\ RefsMatch'
  <2>1. AloneInv'
    BY <1>1, <1>3, AloneKept DEF IInv
  <2>2. \A k \in Fd : Stale(k)' <=> Stale(k)
    BY StaleKept
  <2>3. \A c \in Chan : Holders(c)' = ref[c] - In(hand[p], c) + In(s, c)
    BY <1>1, <1>3, <2>2, HandsChange DEF IInv
  <2> QED BY <2>1, <2>3 DEF RefsMatch
<1> QED BY <1>1, <1>2, <1>3 DEF IInv

(* ... and the step of p that changes a slot too.                          *)
LEMMA SlotStep ==
  ASSUME IInv, NEW p \in Proc, Alone(p), users' = users, p \in users \/ users = {},
         NEW s \in Seq(Chan), hand' = [hand EXCEPT ![p] = s],
         NEW k \in Fd, NEW v \in Chan \cup {Nil}, fd' = [fd EXCEPT ![k] = v],
         Types', NoHiddenFd', UserOf(p)', HandOf(p)',
         pc[p] # "unslot", pc'[p] # "unslot",
         PipeAlone => AloneOf(p)',
         \A c \in Chan : ref'[c] = ref[c] - Is(fd[k], c) + Is(v, c)
                                     - In(hand[p], c) + In(s, c)
  PROVE  IInv'
<1>1. UsersInv' /\ HandInv'
  BY OthersKept DEF IInv
<1>2. ASSUME PipeAlone PROVE AloneInv' /\ RefsMatch'
  <2>1. AloneInv'
    BY <1>2, AloneKept DEF IInv
  <2>2. \A j \in Fd : ~Stale(j) /\ ~Stale(j)'
    BY <1>2, StaleKept, NoneStale DEF IInv
  <2>3. \A c \in Chan : Holders(c)' = ref[c] - Is(fd[k], c) + Is(v, c)
                                        - In(hand[p], c) + In(s, c)
    BY <1>2, <2>2, SlotChange DEF IInv
  <2> QED BY <2>1, <2>3 DEF RefsMatch
<1> QED BY <1>1, <1>2 DEF IInv

-----------------------------------------------------------------------------
(* One lemma per action.                                                   *)
LEMMA OpenStep ==
  ASSUME IInv, NEW p \in Proc, Open(p)
  PROVE  IInv'
<1>1. PICK c \in Chan : /\ p \in users /\ pc[p] = "idle"
                        /\ pc' = [pc EXCEPT ![p] = "newfd"]
                        /\ ref[c] = 0 /\ ref' = [ref EXCEPT ![c] = 1]
                        /\ hand' = [hand EXCEPT ![p] = <<c>>]
                        /\ UNCHANGED <<table, users, arg, first>>
  BY DEF Open, Call, Goto, Hold
<1>2. Types /\ HandOf(p) /\ hand[p] \in Seq(Chan)
  BY DEF IInv, Types, HandInv
<1>3. <<c>> \in Seq(Chan) /\ Len(<<c>>) = 1
  OBVIOUS
<1>4. Types'
  BY <1>1, <1>2, <1>3 DEF Types, PC, table
<1>5. /\ Alone(p) /\ hand'[p] = <<c>> /\ pc'[p] = "newfd" /\ users' = users
      /\ Len(hand[p]) = 0
  BY <1>1, <1>2 DEF Alone, Types, HandOf
<1>6. UserOf(p)' /\ HandOf(p)' /\ AloneOf(p)'
  BY <1>1, <1>3, <1>5 DEF UserOf, HandOf, AloneOf, Piping
<1>7. \A d \in Chan : ref'[d] = ref[d] - In(hand[p], d) + In(<<c>>, d)
  <2>1. \A d \in Chan : In(hand[p], d) = 0 /\ In(<<c>>, d) = Is(c, d)
    BY <1>2, <1>5, InNew
  <2>2. \A d \in Chan : ref'[d] = ref[d] + Is(c, d) /\ ref[d] \in Int /\ Is(c, d) \in Nat
    BY <1>1, <1>2 DEF Types, Is
  <2> QED BY <2>1, <2>2
<1> QED BY <1>1, <1>3, <1>4, <1>5, <1>6, <1>7, HandStep

(* A call that takes a reference with fdtochan.                            *)
LEMMA FdtochanStep ==
  ASSUME IInv, NEW p \in Proc, p \in users, pc[p] = "idle",
         NEW k \in Fd, fdtochan(p, k), NEW to \in {"use", "newfd", "dup"},
         pc' = [pc EXCEPT ![p] = to], NEW a \in Fd, arg' = [arg EXCEPT ![p] = a],
         UNCHANGED <<table, users, first>>
  PROVE  IInv'
<1> DEFINE c == fd[k]
<1>1. Types /\ HandOf(p) /\ hand[p] \in Seq(Chan)
  BY DEF IInv, Types, HandInv
<1>2. /\ c \in Chan /\ ref' = [ref EXCEPT ![c] = ref[c] + 1]
      /\ hand' = [hand EXCEPT ![p] = <<c>>]
  BY <1>1 DEF fdtochan, InUse, Hold, Types
<1> HIDE DEF c
<1>3. <<c>> \in Seq(Chan) /\ Len(<<c>>) = 1
  BY <1>2
<1>4. Types'
  BY <1>1, <1>2, <1>3 DEF Types, PC, table
<1>5. /\ Alone(p) /\ hand'[p] = <<c>> /\ pc'[p] = to /\ users' = users
      /\ Len(hand[p]) = 0
  BY <1>1, <1>2 DEF Alone, Types, HandOf
<1>6. UserOf(p)' /\ HandOf(p)' /\ AloneOf(p)'
  BY <1>3, <1>5 DEF UserOf, HandOf, AloneOf, Piping
<1>7. \A d \in Chan : ref'[d] = ref[d] - In(hand[p], d) + In(<<c>>, d)
  <2>1. \A d \in Chan : In(hand[p], d) = 0 /\ In(<<c>>, d) = Is(c, d)
    BY <1>1, <1>2, <1>5, InNew
  <2>2. \A d \in Chan : ref'[d] = ref[d] + Is(c, d) /\ ref[d] \in Int /\ Is(c, d) \in Nat
    BY <1>1, <1>2 DEF Types, Is
  <2> QED BY <2>1, <2>2
<1> QED BY <1>2, <1>3, <1>4, <1>5, <1>6, <1>7, HandStep

(* The first part of kread, kwrite and the like: fdtochan.                 *)
LEMMA UseStep ==
  ASSUME IInv, NEW p \in Proc, Use(p)
  PROVE  IInv'
<1>1. PICK k \in Fd : Call(p, "use", "use") /\ fdtochan(p, k) /\ UNCHANGED <<table, users, arg, first>>
  BY DEF Use
<1>2. arg[p] \in Fd /\ arg' = [arg EXCEPT ![p] = arg[p]]
  BY <1>1 DEF IInv, Types
<1> QED BY <1>1, <1>2, FdtochanStep DEF Call, Goto

(* kdup takes its reference as kread does.                                 *)
LEMMA DupStep ==
  ASSUME IInv, NEW p \in Proc, Dup(p)
  PROVE  IInv'
<1>1. PICK k \in Fd :
        /\ \/ Call(p, "dup", "newfd") /\ UNCHANGED arg
           \/ Call(p, "dup", "dup") /\ \E new \in Fd : Busy(p, new)
        /\ fdtochan(p, k) /\ UNCHANGED <<table, users, first>>
  BY DEF Dup
<1>2. CASE Call(p, "dup", "newfd") /\ UNCHANGED arg
  <2>1. arg[p] \in Fd /\ arg' = [arg EXCEPT ![p] = arg[p]]
    BY <1>2 DEF IInv, Types
  <2> QED BY <1>1, <1>2, <2>1, FdtochanStep DEF Call, Goto
<1>3. CASE Call(p, "dup", "dup") /\ \E new \in Fd : Busy(p, new)
  BY <1>1, <1>3, FdtochanStep DEF Call, Goto, Busy
<1> QED BY <1>1, <1>2, <1>3

(* A step that only goes on, with what it has in hand.                     *)
LEMMA GoStep ==
  ASSUME IInv, NEW p \in Proc, NEW to \in PC, pc' = [pc EXCEPT ![p] = to],
         NEW a \in Fd, arg' = [arg EXCEPT ![p] = a],
         UNCHANGED <<table, users, ref, hand, first>>,
         UserOf(p)', HandOf(p)', pc[p] # "unslot", to # "unslot",
         AloneInv => AloneOf(p)'
  PROVE  IInv'
<1>1. Types /\ hand[p] \in Seq(Chan) /\ hand' = [hand EXCEPT ![p] = hand[p]]
  BY DEF IInv, Types
<1>2. Types'
  BY <1>1 DEF Types, table
<1>3. Alone(p) /\ pc'[p] = to
  BY <1>1 DEF Alone, Types
<1>4. \A d \in Chan : ref'[d] = ref[d] - In(hand[p], d) + In(hand[p], d)
  <2>1. \A d \in Chan : ref[d] \in Int /\ In(hand[p], d) \in Nat
    BY <1>1 DEF Types, In, One
  <2> QED BY <2>1
<1>5. PipeAlone => AloneOf(p)'
  BY DEF IInv
<1> QED BY <1>1, <1>2, <1>3, <1>4, <1>5, HandStep

(* The device is done; the reference is still to be dropped.               *)
LEMMA UsedStep ==
  ASSUME IInv, NEW p \in Proc, Used(p)
  PROVE  IInv'
<1>1. Types /\ HandOf(p) /\ UserOf(p)
  BY DEF IInv, HandInv, UsersInv
<1>2. /\ pc[p] = "use" /\ pc' = [pc EXCEPT ![p] = "cclose"]
      /\ arg' = [arg EXCEPT ![p] = arg[p]] /\ arg[p] \in Fd
      /\ UNCHANGED <<table, users, ref, hand, first>>
  BY <1>1 DEF Used, Goto, Types
<1>3. pc'[p] = "cclose" /\ Len(hand'[p]) = 1
  BY <1>1, <1>2 DEF Types, HandOf
<1>4. UserOf(p)' /\ HandOf(p)' /\ AloneOf(p)'
  BY <1>3 DEF UserOf, HandOf, AloneOf, Piping
<1> QED BY <1>2, <1>4, GoStep DEF PC

(* kfgrpclose has looked at the slot and holds nothing.                    *)
LEMMA CloseStep ==
  ASSUME IInv, NEW p \in Proc, Close(p)
  PROVE  IInv'
<1>1. Types /\ HandOf(p)
  BY DEF IInv, HandInv
<1>2. PICK k \in Fd : /\ pc[p] = "idle" /\ p \in users
                      /\ pc' = [pc EXCEPT ![p] = "fdclose"]
                      /\ arg' = [arg EXCEPT ![p] = k]
                      /\ UNCHANGED <<table, users, ref, hand, first>>
  BY DEF Close, Call, Goto, Busy
<1>3. pc'[p] = "fdclose" /\ Len(hand'[p]) = 0
  BY <1>1, <1>2 DEF Types, HandOf
<1>4. UserOf(p)' /\ HandOf(p)' /\ AloneOf(p)'
  BY <1>2, <1>3 DEF UserOf, HandOf, AloneOf, Piping
<1> QED BY <1>2, <1>4, GoStep DEF PC

(* closefiles begins at descriptor 0.                                      *)
LEMMA ClosefilesStep ==
  ASSUME IInv, NEW p \in Proc, Closefiles(p)
  PROVE  IInv'
<1>1. Types /\ HandOf(p)
  BY DEF IInv, HandInv
<1>2. /\ pc[p] = "idle" /\ p \in users /\ pc' = [pc EXCEPT ![p] = "closefiles"]
      /\ arg' = [arg EXCEPT ![p] = arg[p]] /\ arg[p] \in Fd
      /\ UNCHANGED <<table, users, ref, hand, first>>
  BY <1>1 DEF Closefiles, Call, Goto, Types
<1>3. pc'[p] = "closefiles" /\ Len(hand'[p]) = 0
  BY <1>1, <1>2 DEF Types, HandOf
<1>4. UserOf(p)' /\ HandOf(p)' /\ AloneOf(p)'
  BY <1>2, <1>3 DEF UserOf, HandOf, AloneOf, Piping
<1> QED BY <1>2, <1>4, GoStep DEF PC

(* A reference in hand is dropped.                                         *)
LEMMA DropStep ==
  ASSUME IInv, NEW p \in Proc, pc[p] \in {"cclose", "closefiles"}, hand[p] # <<>>,
         ref' = [ref EXCEPT ![Head(hand[p])] = @ - 1],
         hand' = [hand EXCEPT ![p] = Tail(hand[p])],
         UNCHANGED <<table, users, pc, arg, first>>
  PROVE  IInv'
<1> DEFINE s == hand[p]
<1>1. Types /\ HandOf(p) /\ UserOf(p) /\ s \in Seq(Chan)
  BY DEF IInv, Types, HandInv, UsersInv
<1>2. Len(s) \in {1, 2}
  <2>1. Len(s) \in Nat /\ Len(s) # 0
    BY <1>1, EmptySeq
  <2>2. Len(s) <= 2
    BY <1>1, <2>1 DEF HandOf
  <2>3. \A n \in Nat : n # 0 /\ n <= 2 => n \in {1, 2}
    OBVIOUS
  <2> QED BY <2>1, <2>2, <2>3
<1>3. /\ Tail(s) \in Seq(Chan) /\ Len(Tail(s)) = Len(s) - 1 /\ Head(s) \in Chan
      /\ \A d \in Chan : In(Tail(s), d) = In(s, d) - Is(Head(s), d)
  <2> HIDE DEF s
  <2>1. Head(s) \in Chan /\ Tail(s) \in Seq(Chan) /\ Len(Tail(s)) = Len(s) - 1
    <3>1. s # <<>>
      BY <1>2
    <3> QED BY <1>1, <3>1
  <2>2. \A d \in Chan : In(Tail(s), d) = In(s, d) - Is(Head(s), d)
    BY <1>1, <1>2, InTail
  <2> QED BY <2>1, <2>2
<1>4. /\ Alone(p) /\ hand'[p] = Tail(s) /\ pc'[p] = pc[p] /\ users' = users
  BY <1>1 DEF Alone, Types
<1>5. Types'
  BY <1>1, <1>3 DEF Types, table
<1>6. UserOf(p)' /\ HandOf(p)' /\ AloneOf(p)'
  <2>1. UserOf(p)' /\ AloneOf(p)'
    BY <1>1, <1>4 DEF UserOf, AloneOf, Piping
  <2>2. Len(Tail(s)) <= Len(s)
    BY <1>2, <1>3
  <2>3. HandOf(p)'
    BY <1>1, <1>2, <1>3, <1>4 DEF HandOf
  <2> QED BY <2>1, <2>3
<1>7. \A d \in Chan : ref'[d] = ref[d] - In(s, d) + In(Tail(s), d)
  <2>1. \A d \in Chan : ref'[d] = ref[d] - Is(Head(s), d)
    BY <1>1, <1>3 DEF Types, Is
  <2>2. \A d \in Chan : ref[d] \in Int /\ In(s, d) \in Nat /\ Is(Head(s), d) \in Nat
    BY <1>1 DEF Types, In, One, Is
  <2> HIDE DEF s
  <2> QED BY <1>3, <2>1, <2>2
<1> QED BY <1>3, <1>4, <1>5, <1>6, <1>7, HandStep

(* cclose: one reference less in hand, or the call returns.                *)
LEMMA CcloseStep ==
  ASSUME IInv, NEW p \in Proc, cclose(p)
  PROVE  IInv'
<1>1. Types /\ HandOf(p)
  BY DEF IInv, HandInv
<1>2. CASE hand[p] = <<>>
  <2>1. /\ pc[p] = "cclose" /\ pc' = [pc EXCEPT ![p] = "idle"]
        /\ arg' = [arg EXCEPT ![p] = 0] /\ 0 \in Fd
        /\ UNCHANGED <<table, users, ref, hand, first>>
    BY <1>2, Sizes DEF cclose, Busy
  <2>2. pc'[p] = "idle" /\ Len(hand'[p]) = 0
    BY <1>1, <1>2, <2>1 DEF Types
  <2>3. UserOf(p)' /\ HandOf(p)' /\ AloneOf(p)'
    BY <2>2 DEF UserOf, HandOf, AloneOf, Piping
  <2> QED BY <2>1, <2>3, GoStep DEF PC
<1>3. CASE hand[p] # <<>>
  BY <1>3, DropStep DEF cclose, Hold
<1> QED BY <1>2, <1>3

(* closefiles drops the reference it took from a slot.                     *)
LEMMA ClosefilesDropStep ==
  ASSUME IInv, NEW p \in Proc, ClosefilesDrop(p)
  PROVE  IInv'
<1>1. Types /\ HandOf(p) /\ hand[p] \in Seq(Chan)
  BY DEF IInv, HandInv, Types
<1>2. Len(hand[p]) = 1
  <2>1. Len(hand[p]) \in Nat /\ Len(hand[p]) # 0
    BY <1>1, EmptySeq DEF ClosefilesDrop
  <2>2. Len(hand[p]) <= 1
    BY <1>1 DEF ClosefilesDrop, HandOf
  <2>3. \A n \in Nat : n # 0 /\ n <= 1 => n = 1
    OBVIOUS
  <2> QED BY <2>1, <2>2, <2>3
<1>3. Head(hand[p]) = hand[p][1] /\ Tail(hand[p]) = <<>>
  BY <1>1, <1>2, TailOrder DEF ClosefilesDrop
<1> QED BY <1>3, DropStep DEF ClosefilesDrop, Hold

-----------------------------------------------------------------------------
(* newfd, in open, dup and pipe: the reference moves from hand to table.    *)
LEMMA NewfdSlot ==
  ASSUME IInv, NEW p \in Proc, NEW from, NEW to, newfd(p, from, to)
  PROVE  /\ Free \in Fd /\ Free < nfd' /\ fd[Free] = Nil
         /\ nfd' \in 1..Maxnfd /\ minfd' \in 0..Maxnfd /\ maxfd' \in Fd
         /\ maxfd' < nfd' /\ maxfd <= maxfd' /\ Free <= maxfd'
<1>1. Types /\ NoHiddenFd
  BY Sizes DEF IInv
<1>2. Free \in Nat /\ (Free >= nfd \/ fd[Free] = Nil)
  BY <1>1, FreeSlot
<1>3. nfd' \in 1..Maxnfd /\ nfd <= nfd' /\ Free \in Fd /\ Free < nfd'
  BY <1>1, <1>2, GrownSize DEF newfd
<1>4. nfd \in Nat /\ maxfd \in Nat /\ maxfd < nfd
  BY <1>1, Sizes DEF Types, NoHiddenFd
<1>5. fd[Free] = Nil
  BY <1>1, <1>2, <1>3, <1>4 DEF NoHiddenFd
<1>6. minfd' = Free + 1 /\ maxfd' = MaxOf(maxfd, Free)
  BY DEF newfd
<1>7. minfd' \in 0..Maxnfd
  BY <1>3, <1>6, Sizes DEF Fd
<1>8. maxfd' \in Fd /\ maxfd' < nfd' /\ maxfd <= maxfd' /\ Free <= maxfd'
  BY <1>1, <1>2, <1>3, <1>4, <1>6 DEF MaxOf, Types
<1> QED BY <1>3, <1>5, <1>7, <1>8

(* newfd moves the first reference in hand to a free slot.                 *)
LEMMA NewfdStep ==
  ASSUME IInv, NEW p \in Proc, p \in users, NEW from, NEW to \in PC, newfd(p, from, to),
         from \in {"newfd", "pipe0", "pipe1"}, to # "unslot",
         UNCHANGED <<users, ref>>,
         NEW a \in Fd, arg' = [arg EXCEPT ![p] = a],
         NEW c \in Chan \cup {Nil}, first' = [first EXCEPT ![p] = c],
         UserOf(p)', HandOf(p)', PipeAlone => AloneOf(p)'
  PROVE  IInv'
<1> DEFINE s == hand[p]
<1>1. Types /\ HandOf(p) /\ s \in Seq(Chan) /\ NoHiddenFd
  BY DEF IInv, Types, HandInv
<1>2. /\ pc[p] = from /\ pc' = [pc EXCEPT ![p] = to]
      /\ fd' = [fd EXCEPT ![Free] = Head(s)] /\ hand' = [hand EXCEPT ![p] = Tail(s)]
  BY DEF newfd, Goto, Hold
<1>3. Len(s) \in {1, 2}
  BY <1>1, <1>2 DEF HandOf
<1>4. /\ Tail(s) \in Seq(Chan) /\ Head(s) \in Chan
      /\ \A d \in Chan : In(Tail(s), d) = In(s, d) - Is(Head(s), d)
  <2> HIDE DEF s
  <2>1. Head(s) \in Chan /\ Tail(s) \in Seq(Chan)
    <3>1. s # <<>>
      BY <1>3
    <3> QED BY <1>1, <3>1
  <2>2. \A d \in Chan : In(Tail(s), d) = In(s, d) - Is(Head(s), d)
    BY <1>1, <1>3, InTail
  <2> QED BY <2>1, <2>2
<1>5. /\ Free \in Fd /\ fd[Free] = Nil
      /\ nfd' \in 1..Maxnfd /\ minfd' \in 0..Maxnfd /\ maxfd' \in Fd
      /\ maxfd' < nfd' /\ maxfd <= maxfd' /\ Free <= maxfd'
  BY NewfdSlot
<1>6. Alone(p) /\ pc'[p] = to /\ pc[p] # "unslot"
  BY <1>1, <1>2 DEF Alone, Types
<1>7. Types'
  <2>1. fd' \in [Fd -> Chan \cup {Nil}] /\ hand' \in [Proc -> Seq(Chan)]
    BY <1>1, <1>2, <1>4 DEF Types
  <2> QED BY <1>1, <1>2, <1>5, <2>1 DEF Types
<1>8. NoHiddenFd'
  <2>1. maxfd \in Nat /\ maxfd' \in Nat /\ Fd \subseteq Nat
    BY <1>1, <1>5, Sizes DEF Types
  <2>2. \A k \in Fd : fd'[k] # Nil => k = Free \/ fd[k] # Nil
    BY <1>1, <1>2 DEF Types
  <2>3. \A k \in Fd : fd[k] # Nil => k <= maxfd
    BY <1>1 DEF NoHiddenFd
  <2>4. ASSUME NEW k \in Fd, fd'[k] # Nil PROVE k <= maxfd'
    <3>1. k \in Nat /\ maxfd <= maxfd' /\ Free <= maxfd'
      BY <1>5, <2>1
    <3>2. k = Free \/ k <= maxfd
      BY <2>2, <2>3, <2>4
    <3> QED BY <2>1, <3>1, <3>2
  <2> QED BY <1>5, <2>4 DEF NoHiddenFd
<1>9. \A d \in Chan : ref'[d] = ref[d] - Is(fd[Free], d) + Is(Head(s), d) - In(s, d) + In(Tail(s), d)
  <2>1. \A d \in Chan : Is(fd[Free], d) = 0
    BY <1>5, NilAssumption DEF Is
  <2>2. \A d \in Chan : /\ ref[d] \in Int /\ In(s, d) \in Nat /\ Is(Head(s), d) \in Nat
                        /\ ref'[d] = ref[d]
    BY <1>1 DEF Types, In, One, Is
  <2>3. ASSUME NEW d \in Chan
        PROVE  ref'[d] = ref[d] - Is(fd[Free], d) + Is(Head(s), d) - In(s, d) + In(Tail(s), d)
    <3> DEFINE x == Is(Head(s), d)
               y == In(s, d)
               z == In(Tail(s), d)
    <3>1. ref[d] \in Int /\ x \in Nat /\ y \in Nat /\ z = y - x
      BY <1>4, <2>2
    <3> HIDE DEF x, y, z
    <3>2. ref[d] = ref[d] - 0 + x - y + z
      BY <3>1
    <3>3. ref'[d] = ref[d] - Is(fd[Free], d) + x - y + z
      BY <2>1, <2>2, <3>2, Zenon
    <3> QED BY <3>3 DEF x, y, z
  <2> QED BY <2>3
<1> DEFINE k == Free
           v == Head(s)
           t == Tail(s)
<1>10. /\ k \in Fd /\ v \in Chan \cup {Nil} /\ t \in Seq(Chan)
       /\ fd' = [fd EXCEPT ![k] = v] /\ hand' = [hand EXCEPT ![p] = t]
       /\ users' = users /\ pc'[p] # "unslot" /\ pc[p] # "unslot"
  BY <1>2, <1>4, <1>5, <1>6
<1>11. \A d \in Chan : ref'[d] = ref[d] - Is(fd[k], d) + Is(v, d) - In(hand[p], d) + In(t, d)
  BY <1>9
<1> HIDE DEF k, v, t
<1> QED BY <1>6, <1>7, <1>8, <1>10, <1>11, SlotStep

(* It gives up when the table is full.                                     *)
LEMMA FullStep ==
  ASSUME IInv, NEW p \in Proc, NEW from \in {"newfd", "pipe0"}, Goto(p, from, "cclose"),
         UNCHANGED <<table, users, ref, arg, hand, first>>
  PROVE  IInv'
<1>1. Types /\ HandOf(p)
  BY DEF IInv, HandInv
<1>2. /\ pc[p] = from /\ pc' = [pc EXCEPT ![p] = "cclose"]
      /\ arg' = [arg EXCEPT ![p] = arg[p]] /\ arg[p] \in Fd
  BY <1>1 DEF Goto, Types
<1>3. pc'[p] = "cclose" /\ Len(hand'[p]) <= 2
  <2>1. Len(hand[p]) = 1 \/ Len(hand[p]) = 2
    BY <1>1, <1>2 DEF HandOf
  <2>2. hand'[p] = hand[p] /\ pc'[p] = "cclose"
    BY <1>1, <1>2 DEF Types
  <2>3. \A n : n = 1 \/ n = 2 => n <= 2
    OBVIOUS
  <2>4. Len(hand[p]) <= 2
    BY <2>1, <2>3, Zenon
  <2> QED BY <2>2, <2>4, Zenon
<1>4. UserOf(p)' /\ HandOf(p)' /\ AloneOf(p)'
  BY <1>3 DEF UserOf, HandOf, AloneOf, Piping
<1>5. "cclose" \in PC /\ pc[p] # "unslot"
  BY <1>2 DEF PC
<1> QED BY <1>2, <1>4, <1>5, GoStep

(* newfd of kopen and kdup, successful or not.                             *)
LEMMA OpenNewfdStep ==
  ASSUME IInv, NEW p \in Proc, Newfd(p)
  PROVE  IInv'
<1>1. Types /\ HandOf(p) /\ UserOf(p)
  BY DEF IInv, HandInv, UsersInv
<1>2. CASE newfd(p, "newfd", "idle")
  <2>1. /\ pc[p] = "newfd" /\ pc' = [pc EXCEPT ![p] = "idle"]
        /\ hand' = [hand EXCEPT ![p] = Tail(hand[p])]
        /\ UNCHANGED <<users, ref, arg, first>>
    BY <1>2 DEF newfd, Goto, Hold, Newfd
  <2>2. /\ p \in users /\ arg[p] \in Fd /\ first[p] \in Chan \cup {Nil}
        /\ arg' = [arg EXCEPT ![p] = arg[p]] /\ first' = [first EXCEPT ![p] = first[p]]
    BY <1>1, <2>1 DEF Types, UserOf
  <2>3. Len(hand[p]) = 1 /\ hand[p] \in Seq(Chan)
    BY <1>1, <2>1 DEF Types, HandOf
  <2>4. pc'[p] = "idle" /\ hand'[p] = Tail(hand[p])
    BY <1>1, <2>1 DEF Types
  <2>5. Len(hand'[p]) = 0
    BY <2>3, <2>4, TailOrder, EmptySeq
  <2>6. UserOf(p)' /\ HandOf(p)' /\ AloneOf(p)'
    BY <2>4, <2>5 DEF UserOf, HandOf, AloneOf, Piping
  <2> QED BY <1>2, <2>1, <2>2, <2>6, NewfdStep DEF PC
<1>3. CASE Goto(p, "newfd", "cclose") /\ UNCHANGED <<table, hand>>
  BY <1>3, FullStep DEF Newfd
<1> QED BY <1>2, <1>3 DEF Newfd

(* kpipe begins with two new channels in hand.                             *)
LEMMA PipeStep ==
  ASSUME IInv, NEW p \in Proc, Pipe(p)
  PROVE  IInv'
<1>1. PICK c0, c1 \in Chan :
        /\ p \in users /\ pc[p] = "idle" /\ pc' = [pc EXCEPT ![p] = "pipe0"]
        /\ PipeAlone => users = {p}
        /\ c0 # c1 /\ ref' = [ref EXCEPT ![c0] = 1, ![c1] = 1]
        /\ ref[c0] = 0 /\ ref[c1] = 0
        /\ hand' = [hand EXCEPT ![p] = <<c0, c1>>]
        /\ UNCHANGED <<table, users, arg, first>>
  BY DEF Pipe, Call, Goto, Hold
<1>2. Types /\ HandOf(p) /\ hand[p] \in Seq(Chan)
  BY DEF IInv, Types, HandInv
<1>3. <<c0, c1>> \in Seq(Chan) /\ Len(<<c0, c1>>) = 2
  OBVIOUS
<1>4. Types'
  BY <1>1, <1>2, <1>3 DEF Types, PC, table
<1>5. /\ Alone(p) /\ hand'[p] = <<c0, c1>> /\ pc'[p] = "pipe0" /\ users' = users
      /\ Len(hand[p]) = 0
  BY <1>1, <1>2 DEF Alone, Types, HandOf
<1>6. UserOf(p)' /\ HandOf(p)' /\ (PipeAlone => AloneOf(p)')
  BY <1>1, <1>3, <1>5 DEF UserOf, HandOf, AloneOf
<1>7. \A d \in Chan : ref'[d] = ref[d] - In(hand[p], d) + In(<<c0, c1>>, d)
  <2>1. \A d \in Chan : In(hand[p], d) = 0 /\ In(<<c0, c1>>, d) = Is(c0, d) + Is(c1, d)
    BY <1>2, <1>5, InNew
  <2>2. \A d \in Chan : /\ ref'[d] = ref[d] + Is(c0, d) + Is(c1, d)
                        /\ ref[d] \in Int /\ Is(c0, d) \in Nat /\ Is(c1, d) \in Nat
    BY <1>1, <1>2 DEF Types, Is
  <2> QED BY <2>1, <2>2
<1> QED BY <1>1, <1>3, <1>4, <1>5, <1>6, <1>7, HandStep

(* The first newfd of kpipe.                                               *)
LEMMA Pipe0Step ==
  ASSUME IInv, NEW p \in Proc, Pipe0(p)
  PROVE  IInv'
<1>1. Types /\ HandOf(p) /\ UserOf(p) /\ (PipeAlone => AloneOf(p))
  BY DEF IInv, HandInv, UsersInv, AloneInv
<1>2. CASE newfd(p, "pipe0", "pipe1") /\ first' = [first EXCEPT ![p] = Head(hand[p])] /\ Busy(p, Free)
  <2>1. /\ pc[p] = "pipe0" /\ pc' = [pc EXCEPT ![p] = "pipe1"]
        /\ hand' = [hand EXCEPT ![p] = Tail(hand[p])]
        /\ fd' = [fd EXCEPT ![Free] = Head(hand[p])]
        /\ arg' = [arg EXCEPT ![p] = Free]
        /\ UNCHANGED <<users, ref>>
    BY <1>2 DEF newfd, Goto, Hold, Busy, Pipe0
  <2>2. p \in users /\ Free \in Fd
    BY <1>1, <1>2, <2>1, NewfdSlot DEF UserOf
  <2>3. Len(hand[p]) = 2 /\ hand[p] \in Seq(Chan)
    BY <1>1, <2>1 DEF Types, HandOf
  <2>4. /\ pc'[p] = "pipe1" /\ hand'[p] = Tail(hand[p]) /\ first'[p] = Head(hand[p])
        /\ arg'[p] = Free /\ fd'[Free] = Head(hand[p])
    BY <1>1, <1>2, <2>1, <2>2 DEF Types
  <2>5. Len(hand'[p]) = 1 /\ Head(hand[p]) \in Chan
    BY <2>3, <2>4, InTail
  <2>6. UserOf(p)' /\ HandOf(p)'
    BY <2>1, <2>2, <2>4, <2>5 DEF UserOf, HandOf
  <2>7. PipeAlone => AloneOf(p)'
    BY <1>1, <2>1, <2>4, <2>5 DEF AloneOf, Piping
  <2> QED BY <1>2, <2>1, <2>2, <2>5, <2>6, <2>7, NewfdStep DEF PC
<1>3. CASE Goto(p, "pipe0", "cclose") /\ UNCHANGED <<table, arg, hand, first>>
  BY <1>3, FullStep DEF Pipe0
<1> QED BY <1>2, <1>3 DEF Pipe0

(* The second newfd of kpipe.                                              *)
LEMMA Pipe1Step ==
  ASSUME IInv, NEW p \in Proc, Pipe1(p)
  PROVE  IInv'
<1>1. Types /\ HandOf(p) /\ UserOf(p) /\ (PipeAlone => AloneOf(p))
  BY DEF IInv, HandInv, UsersInv, AloneInv
<1>2. CASE newfd(p, "pipe1", "idle") /\ first' = [first EXCEPT ![p] = Nil] /\ Busy(p, 0)
  <2>1. /\ pc[p] = "pipe1" /\ pc' = [pc EXCEPT ![p] = "idle"]
        /\ hand' = [hand EXCEPT ![p] = Tail(hand[p])]
        /\ arg' = [arg EXCEPT ![p] = 0] /\ 0 \in Fd
        /\ UNCHANGED <<users, ref>>
    BY <1>2, Sizes DEF newfd, Goto, Hold, Busy, Pipe1
  <2>2. p \in users
    BY <1>1, <2>1 DEF UserOf
  <2>3. Len(hand[p]) = 1 /\ hand[p] \in Seq(Chan)
    BY <1>1, <2>1 DEF Types, HandOf
  <2>4. pc'[p] = "idle" /\ hand'[p] = Tail(hand[p])
    BY <1>1, <2>1 DEF Types
  <2>5. Len(hand'[p]) = 0
    BY <2>3, <2>4, TailOrder, EmptySeq
  <2>6. UserOf(p)' /\ HandOf(p)' /\ AloneOf(p)'
    BY <2>4, <2>5 DEF UserOf, HandOf, AloneOf, Piping
  <2> QED BY <1>2, <2>1, <2>2, <2>6, NewfdStep DEF PC
<1>3. CASE Goto(p, "pipe1", "pipefail") /\ UNCHANGED <<table, arg, hand, first>>
  <2>1. /\ pc[p] = "pipe1" /\ pc' = [pc EXCEPT ![p] = "pipefail"]
        /\ arg' = [arg EXCEPT ![p] = arg[p]] /\ arg[p] \in Fd
        /\ UNCHANGED <<table, users, ref, hand, first>>
    BY <1>1, <1>3 DEF Goto, Types, Pipe1
  <2>2. /\ pc'[p] = "pipefail" /\ hand'[p] = hand[p] /\ users' = users /\ fd' = fd
        /\ arg'[p] = arg[p] /\ first'[p] = first[p]
    BY <1>1, <2>1 DEF Types, table
  <2>3. UserOf(p)' /\ HandOf(p)'
    BY <1>1, <2>1, <2>2 DEF UserOf, HandOf
  <2>4. AloneInv => AloneOf(p)'
    BY <2>1, <2>2 DEF AloneInv, AloneOf, Piping
  <2> QED BY <2>1, <2>3, <2>4, GoStep DEF PC
<1> QED BY <1>2, <1>3 DEF Pipe1

(* The error path of kpipe: the references first, the slot later.           *)
LEMMA PipeFailStep ==
  ASSUME IInv, NEW p \in Proc, PipeFail(p)
  PROVE  IInv'
<1> DEFINE a == first[p]
           b == hand[p][1]
<1>1. Types /\ HandOf(p) /\ UserOf(p) /\ NoHiddenFd
  BY DEF IInv, HandInv, UsersInv
<1>2. /\ pc[p] = "pipefail" /\ pc' = [pc EXCEPT ![p] = "unslot"]
      /\ ref' = [c \in Chan |-> ref[c] - (IF c = a THEN 1 ELSE 0) - (IF c = b THEN 1 ELSE 0)]
      /\ hand' = [hand EXCEPT ![p] = <<>>] /\ first' = [first EXCEPT ![p] = Nil]
      /\ UNCHANGED <<fd, nfd, maxfd, minfd, users, arg>>
  BY DEF PipeFail, Goto, Hold, table
<1>3. Len(hand[p]) = 1 /\ hand[p] \in Seq(Chan) /\ p \in users
  BY <1>1, <1>2 DEF Types, HandOf, UserOf
<1>4. Alone(p) /\ pc'[p] = "unslot" /\ hand'[p] = <<>>
  BY <1>1, <1>2 DEF Alone, Types
<1>5. Types'
  <2>1. ref' \in [Chan -> Int]
    BY <1>1, <1>2 DEF Types
  <2>2. pc' \in [Proc -> PC] /\ hand' \in [Proc -> Seq(Chan)] /\ first' \in [Proc -> Chan \cup {Nil}]
    BY <1>1, <1>2 DEF Types, PC
  <2> QED BY <1>1, <1>2, <2>1, <2>2 DEF Types
<1>6. NoHiddenFd'
  BY <1>1, <1>2 DEF NoHiddenFd
<1>7. UsersInv' /\ HandInv'
  <2>1. UserOf(p)' /\ HandOf(p)'
    BY <1>2, <1>3, <1>4 DEF UserOf, HandOf
  <2> QED BY <1>2, <1>4, <2>1, OthersKept DEF IInv
<1>8. ASSUME PipeAlone PROVE AloneInv' /\ RefsMatch'
  <2>1. AloneInv /\ RefsMatch /\ AloneOf(p)
    BY <1>8 DEF IInv, AloneInv
  <2>2. AloneOf(p)' /\ users = {p} /\ a \in Chan /\ fd[arg[p]] = a /\ arg[p] \in Fd
    BY <1>1, <1>2, <1>4, <2>1 DEF AloneOf, Piping, Types
  <2>3. AloneInv'
    BY <1>2, <1>4, <2>1, <2>2, AloneKept
  <2>4. \A k \in Fd : ~Stale(k) /\ (Stale(k)' <=> k = arg[p])
    <3>1. \A k \in Fd : ~Stale(k)
      BY <1>2, <1>3, <2>1, NoneStale
    <3>2. \A q \in Proc \ {p} : pc'[q] # "unslot"
      BY <1>2, <2>2, <2>3 DEF AloneInv, AloneOf, Piping
    <3>3. pc'[p] = "unslot" /\ arg'[p] = arg[p]
      BY <1>2, <1>4
    <3> QED BY <3>1, <3>2, <3>3 DEF Stale
  <2>5. ASSUME NEW c \in Chan PROVE ref'[c] = Holders(c)'
    <3>1. Slots(c)' = Slots(c) \ {arg[p]} /\ (arg[p] \in Slots(c) <=> a = c)
      BY <1>2, <2>2, <2>4 DEF Slots
    <3>2. IsFiniteSet(Slots(c))
      BY Sizes, FS_Subset DEF Slots
    <3>3. /\ Cardinality(Slots(c)) \in Nat
          /\ Cardinality(Slots(c)') = Cardinality(Slots(c)) - Is(a, c)
      <4>1. Cardinality(Slots(c)) \in Nat
        BY <3>2, FS_CardinalityType
      <4>2. Cardinality(Slots(c) \ {arg[p]})
              = IF arg[p] \in Slots(c) THEN Cardinality(Slots(c)) - 1 ELSE Cardinality(Slots(c))
        BY <3>2, FS_RemoveElement
      <4> HIDE DEF a
      <4> QED BY <3>1, <4>1, <4>2 DEF Is
    <3>4. /\ Cardinality(Hands(hand, c)) \in Nat
          /\ Cardinality(Hands(hand', c))
               = Cardinality(Hands(hand, c)) - In(hand[p], c) + In(<<>>, c)
      <4>1. <<>> \in Seq(Chan) /\ hand \in [Proc -> Seq(Chan)]
        BY <1>1 DEF Types
      <4> QED BY <1>2, <4>1, HandCount
    <3>5. In(hand[p], c) = Is(b, c) /\ In(<<>>, c) = 0
      BY <1>3 DEF In, One, Is
    <3>6. /\ Holders(c)' = Cardinality(Slots(c)') + Cardinality(Hands(hand', c))
          /\ ref[c] = Cardinality(Slots(c)) + Cardinality(Hands(hand, c))
      <4>1. Holders(c)' = Cardinality(Slots(c)') + Cardinality(Hands(hand', c))
        BY DEF Holders, Slots, Hands
      <4> QED BY <1>1, <2>1, <4>1, HoldersCount DEF RefsMatch
    <3>7. ref'[c] = ref[c] - Is(a, c) - Is(b, c)
      BY <1>2 DEF Is
    <3>8. Is(a, c) \in Nat /\ Is(b, c) \in Nat
      BY DEF Is
    <3> DEFINE n == Cardinality(Slots(c))
               m == Cardinality(Hands(hand, c))
    <3>9. ref[c] = n + m /\ Holders(c)' = (n - Is(a, c)) + (m - Is(b, c) + 0) /\ n \in Nat /\ m \in Nat
      BY <3>3, <3>4, <3>5, <3>6
    <3> HIDE DEF n, m, a, b
    <3> QED BY <3>7, <3>8, <3>9
  <2> QED BY <2>3, <2>5 DEF RefsMatch
<1> QED BY <1>5, <1>6, <1>7, <1>8 DEF IInv

(* kpipe clears the slot, of a channel it holds no more.                   *)
LEMMA PipeUnslotStep ==
  ASSUME IInv, NEW p \in Proc, PipeUnslot(p)
  PROVE  IInv'
<1>1. Types /\ HandOf(p) /\ UserOf(p) /\ NoHiddenFd
  BY DEF IInv, HandInv, UsersInv
<1>2. /\ pc[p] = "unslot" /\ pc' = [pc EXCEPT ![p] = "idle"]
      /\ fd' = [fd EXCEPT ![arg[p]] = Nil] /\ arg' = [arg EXCEPT ![p] = 0]
      /\ UNCHANGED <<nfd, maxfd, minfd, users, ref, hand, first>>
  BY DEF PipeUnslot, Goto, Busy
<1>3. Alone(p) /\ pc'[p] = "idle" /\ Len(hand'[p]) = 0 /\ arg[p] \in Fd
  BY <1>1, <1>2 DEF Alone, Types, HandOf
<1>4. Types'
  BY <1>1, <1>2, Sizes DEF Types, PC
<1>5. NoHiddenFd'
  BY <1>1, <1>2 DEF NoHiddenFd, Types
<1>6. UserOf(p)' /\ HandOf(p)' /\ AloneOf(p)'
  BY <1>3 DEF UserOf, HandOf, AloneOf, Piping
<1>7. UsersInv' /\ HandInv'
  BY <1>2, <1>3, <1>6, OthersKept DEF IInv
<1>8. ASSUME PipeAlone PROVE AloneInv' /\ RefsMatch'
  <2>1. AloneInv /\ RefsMatch /\ p \in users /\ users = {p}
    BY <1>1, <1>2, <1>8 DEF IInv, AloneInv, AloneOf, Piping, UserOf
  <2>2. AloneInv'
    BY <1>2, <1>3, <1>6, <2>1, AloneKept
  <2>3. \A q \in Proc \ {p} : pc[q] # "unslot" /\ pc'[q] = pc[q]
    BY <1>3, <2>1 DEF AloneInv, AloneOf, Piping, Alone
  <2>4. \A k \in Fd : (Stale(k) <=> k = arg[p]) /\ ~Stale(k)'
    BY <1>2, <1>3, <2>3 DEF Stale
  <2>5. ASSUME NEW c \in Chan PROVE ref'[c] = Holders(c)'
    <3>1. Slots(c)' = Slots(c)
      BY <1>1, <1>2, <2>4, NilAssumption DEF Slots, Types
    <3>2. Holders(c)' = Cardinality(Slots(c)') + Cardinality(Hands(hand, c))
      BY <1>2 DEF Holders, Slots, Hands
    <3> QED BY <1>1, <1>2, <2>1, <3>1, <3>2, HoldersCount DEF RefsMatch
  <2> QED BY <2>2, <2>5 DEF RefsMatch
<1> QED BY <1>4, <1>5, <1>7, <1>8 DEF IInv

-----------------------------------------------------------------------------
(* The steps that clear a slot.                                             *)
LEMMA FdcloseStep ==
  ASSUME IInv, NEW p \in Proc, fdclose(p)
  PROVE  IInv'
<1> DEFINE k == arg[p]
           c == fd[k]
<1>1. Types /\ HandOf(p) /\ UserOf(p) /\ NoHiddenFd
  BY DEF IInv, HandInv, UsersInv
<1>2. /\ pc[p] = "fdclose" /\ pc' = [pc EXCEPT ![p] = "cclose"]
      /\ UNCHANGED <<nfd, users, ref, arg, first>>
  BY DEF fdclose, Goto
<1>3. p \in users /\ Len(hand[p]) = 0 /\ hand[p] \in Seq(Chan) /\ k \in Fd
  BY <1>1, <1>2 DEF Types, HandOf, UserOf
<1>4. CASE c = Nil
  <2>1. UNCHANGED <<table, hand>> /\ arg' = [arg EXCEPT ![p] = k]
    BY <1>1, <1>2, <1>4 DEF fdclose, table, Types
  <2>2. pc'[p] = "cclose" /\ Len(hand'[p]) = 0
    BY <1>1, <1>2, <1>3, <2>1 DEF Types
  <2>3. UserOf(p)' /\ HandOf(p)' /\ AloneOf(p)'
    BY <2>2 DEF UserOf, HandOf, AloneOf, Piping
  <2>4. "cclose" \in PC /\ pc[p] # "unslot"
    BY <1>2 DEF PC
  <2> QED BY <1>2, <1>3, <2>1, <2>3, <2>4, GoStep
<1>5. CASE c # Nil
  <2>1. /\ fd' = [fd EXCEPT ![k] = Nil] /\ maxfd' = Lowered(k)
        /\ minfd' = MinOf(minfd, k) /\ hand' = [hand EXCEPT ![p] = <<c>>]
    BY <1>5 DEF fdclose, Hold
  <2>2. c \in Chan /\ k <= maxfd /\ maxfd < nfd
    BY <1>1, <1>3, <1>5 DEF Types, NoHiddenFd
  <2>3. /\ maxfd' \in Fd /\ maxfd' <= maxfd
        /\ k # maxfd => maxfd' = maxfd
        /\ k = maxfd => \A j \in Fd : j < k /\ fd[j] # Nil => j <= maxfd'
    BY <1>1, <1>3, <2>1, <2>2, LoweredSlot
  <2>4. <<c>> \in Seq(Chan) /\ Len(<<c>>) = 1 /\ Fd \subseteq Nat /\ minfd' \in 0..Maxnfd
    BY <1>1, <1>3, <2>1, <2>2, Sizes DEF Types, MinOf
  <2>5. Types'
    <3>1. /\ fd' \in [Fd -> Chan \cup {Nil}] /\ hand' \in [Proc -> Seq(Chan)]
          /\ pc' \in [Proc -> PC]
      BY <1>1, <1>2, <2>1, <2>4 DEF Types, PC
    <3> QED BY <1>1, <1>2, <2>3, <2>4, <3>1 DEF Types
  <2>6. NoHiddenFd'
    <3>1. maxfd \in Nat /\ maxfd' \in Nat /\ nfd \in Nat /\ nfd' = nfd
      BY <1>1, <1>2, <2>3, <2>4 DEF Types
    <3>2. ASSUME NEW j \in Fd, fd'[j] # Nil PROVE j <= maxfd'
      <4>1. j # k /\ fd[j] # Nil /\ j \in Nat /\ k \in Nat
        BY <1>1, <1>3, <2>1, <2>4, <3>2 DEF Types
      <4>2. j <= maxfd
        BY <1>1, <4>1 DEF NoHiddenFd
      <4> HIDE DEF k
      <4> QED BY <2>2, <2>3, <3>1, <4>1, <4>2
    <3>3. maxfd' < nfd'
      BY <2>2, <2>3, <3>1
    <3> QED BY <3>2, <3>3 DEF NoHiddenFd
  <2>7. Alone(p) /\ pc'[p] = "cclose" /\ hand'[p] = <<c>>
    BY <1>1, <1>2, <2>1 DEF Alone, Types
  <2>8. UserOf(p)' /\ HandOf(p)' /\ AloneOf(p)'
    BY <2>4, <2>7 DEF UserOf, HandOf, AloneOf, Piping
  <2>9. ASSUME NEW d \in Chan
        PROVE  ref'[d] = ref[d] - Is(fd[k], d) + Is(Nil, d) - In(hand[p], d) + In(<<c>>, d)
    <3>1. /\ In(hand[p], d) = 0 /\ In(<<c>>, d) = Is(c, d) /\ Is(Nil, d) = 0
          /\ Is(c, d) \in Nat /\ ref[d] \in Int /\ ref'[d] = ref[d]
      BY <1>1, <1>2, <1>3, <2>2, InNew, NilAssumption DEF Types, Is
    <3> QED BY <3>1
  <2>10. pc[p] # "unslot" /\ pc'[p] # "unslot" /\ users' = users
    BY <1>2, <2>7
  <2>11. fd' = [fd EXCEPT ![k] = Nil]
    BY <2>1
  <2>12. (p \in users \/ users = {}) /\ Nil \in Chan \cup {Nil} /\ (PipeAlone => AloneOf(p)')
    BY <1>3, <2>8
  <2> DEFINE s == <<c>>
  <2>13. s \in Seq(Chan) /\ hand' = [hand EXCEPT ![p] = s]
    BY <2>1, <2>4
  <2>14. \A d \in Chan : ref'[d] = ref[d] - Is(fd[k], d) + Is(Nil, d)
                                      - In(hand[p], d) + In(s, d)
    BY <2>9
  <2> HIDE DEF k, c, s
  <2> QED BY <1>3, <2>5, <2>6, <2>7, <2>8, <2>10, <2>11, <2>12, <2>13, <2>14, SlotStep
<1> QED BY <1>4, <1>5

(* kdup to a given descriptor: what was there comes to hand.               *)
LEMMA DupToStep ==
  ASSUME IInv, NEW p \in Proc, DupTo(p)
  PROVE  IInv'
<1> DEFINE k == arg[p]
           c == Head(hand[p])
           s == IF fd[k] = Nil THEN <<>> ELSE <<fd[k]>>
<1>1. Types /\ HandOf(p) /\ UserOf(p) /\ NoHiddenFd
  BY DEF IInv, HandInv, UsersInv
<1>2. /\ pc[p] = "dup" /\ pc' = [pc EXCEPT ![p] = "cclose"]
      /\ UNCHANGED <<minfd, users, ref, arg, first>>
  BY DEF DupTo, Goto
<1>3. /\ p \in users /\ Len(hand[p]) = 1 /\ hand[p] \in Seq(Chan) /\ k \in Fd
      /\ c \in Chan /\ \A d \in Chan : In(hand[p], d) = Is(c, d)
  <2>1. p \in users /\ Len(hand[p]) = 1 /\ hand[p] \in Seq(Chan) /\ k \in Fd
    BY <1>1, <1>2 DEF Types, HandOf, UserOf
  <2>2. c \in Chan /\ c = hand[p][1]
    BY <2>1, InTail
  <2> QED BY <2>1, <2>2 DEF In, One, Is
<1>4. CASE UNCHANGED <<fd, nfd, maxfd, hand>>
  <2>1. UNCHANGED <<table, hand>> /\ arg' = [arg EXCEPT ![p] = k]
    BY <1>1, <1>2, <1>4 DEF table, Types
  <2>2. pc'[p] = "cclose" /\ Len(hand'[p]) = 1
    BY <1>1, <1>2, <1>3, <2>1 DEF Types
  <2>3. UserOf(p)' /\ HandOf(p)' /\ AloneOf(p)'
    BY <2>2 DEF UserOf, HandOf, AloneOf, Piping
  <2>4. "cclose" \in PC /\ pc[p] # "unslot"
    BY <1>2 DEF PC
  <2> QED BY <1>2, <1>3, <2>1, <2>3, <2>4, GoStep
<1>5. CASE /\ growfd(k) /\ maxfd' = MaxOf(maxfd, k)
           /\ fd' = [fd EXCEPT ![k] = c] /\ hand' = [hand EXCEPT ![p] = s]
  <2>1. k \in Nat /\ maxfd \in Nat /\ nfd \in Nat /\ maxfd < nfd /\ Fd \subseteq Nat
    <3>1. Fd \subseteq Nat /\ k \in Nat
      BY <1>3, Sizes
    <3>2. maxfd \in Fd /\ nfd \in 1..Maxnfd /\ maxfd < nfd
      BY <1>1 DEF Types, NoHiddenFd
    <3> QED BY <3>1, <3>2
  <2>2. nfd' \in 1..Maxnfd /\ nfd <= nfd' /\ k < nfd'
    BY <1>1, <1>5, <2>1, GrownSize
  <2>3. maxfd' \in Fd /\ maxfd <= maxfd' /\ k <= maxfd' /\ maxfd' < nfd'
    <3> HIDE DEF k
    <3> QED BY <1>1, <1>3, <1>5, <2>1, <2>2, Sizes DEF MaxOf, Types
  <2>4. s \in Seq(Chan) /\ Len(s) <= 1
    <3>1. fd[k] \in Chan \cup {Nil}
      BY <1>1, <1>3 DEF Types
    <3> QED BY <3>1
  <2>5. Types'
    <3>1. /\ fd' \in [Fd -> Chan \cup {Nil}] /\ hand' \in [Proc -> Seq(Chan)]
          /\ pc' \in [Proc -> PC]
      <4> HIDE DEF c, s, k
      <4> QED BY <1>1, <1>2, <1>3, <1>5, <2>4 DEF Types, PC
    <3> QED BY <1>1, <1>2, <2>2, <2>3, <3>1 DEF Types
  <2>6. NoHiddenFd'
    <3>1. ASSUME NEW j \in Fd, fd'[j] # Nil PROVE j <= maxfd'
      <4>1. j = k \/ fd[j] # Nil
        BY <1>1, <1>3, <1>5, <3>1 DEF Types
      <4>2. j = k \/ j <= maxfd
        BY <1>1, <4>1 DEF NoHiddenFd
      <4>3. j \in Nat /\ maxfd' \in Nat
        BY <2>1, <2>3
      <4> HIDE DEF k
      <4> QED BY <2>1, <2>3, <4>2, <4>3
    <3> QED BY <2>3, <3>1 DEF NoHiddenFd
  <2>7. Alone(p) /\ pc'[p] = "cclose" /\ hand'[p] = s
    <3> HIDE DEF s
    <3> QED BY <1>1, <1>2, <1>5 DEF Alone, Types
  <2>8. UserOf(p)' /\ HandOf(p)' /\ AloneOf(p)'
    <3>1. Len(s) <= 2
      BY <2>4
    <3> HIDE DEF s
    <3> QED BY <2>7, <3>1 DEF UserOf, HandOf, AloneOf, Piping
  <2>9. ASSUME NEW d \in Chan
        PROVE  ref'[d] = ref[d] - Is(fd[k], d) + Is(c, d) - In(hand[p], d) + In(s, d)
    <3>1. In(s, d) = Is(fd[k], d)
      <4>1. fd[k] \in Chan \cup {Nil}
        BY <1>1, <1>3 DEF Types
      <4>2. CASE fd[k] = Nil
        BY <4>2, InNew, NilAssumption DEF Is
      <4>3. CASE fd[k] # Nil
        BY <4>1, <4>3, InNew
      <4> QED BY <4>2, <4>3
    <3>2. /\ In(hand[p], d) = Is(c, d) /\ Is(c, d) \in Nat /\ Is(fd[k], d) \in Nat
          /\ ref[d] \in Int /\ ref'[d] = ref[d]
      BY <1>1, <1>2, <1>3 DEF Types, Is
    <3> HIDE DEF c, s, k
    <3> QED BY <3>1, <3>2
  <2>10. pc[p] # "unslot" /\ pc'[p] # "unslot" /\ users' = users /\ c \in Chan \cup {Nil}
    BY <1>2, <1>3, <2>7
  <2> HIDE DEF k, c, s
  <2> QED BY <1>3, <1>5, <2>4, <2>5, <2>6, <2>7, <2>8, <2>9, <2>10, SlotStep
<1> QED BY <1>4, <1>5 DEF DupTo, Hold

(* closefiles takes one slot's reference in hand.                          *)
LEMMA ClosefilesOneStep ==
  ASSUME IInv, NEW p \in Proc, procctlcloseone(p)
  PROVE  IInv'
<1> DEFINE k == arg[p]
           c == fd[k]
<1>1. Types /\ HandOf(p) /\ UserOf(p) /\ NoHiddenFd
  BY DEF IInv, HandInv, UsersInv
<1>2. /\ pc[p] = "closefiles" /\ hand[p] = <<>> /\ UNCHANGED <<nfd, maxfd, minfd, users, ref, first>>
      /\ \/ /\ k < maxfd /\ fd' = [fd EXCEPT ![k] = Nil]
            /\ hand' = [hand EXCEPT ![p] = Elements(k)]
            /\ arg' = [arg EXCEPT ![p] = k + 1] /\ UNCHANGED pc
         \/ /\ pc' = [pc EXCEPT ![p] = "idle"] /\ arg' = [arg EXCEPT ![p] = 0]
            /\ UNCHANGED <<fd, hand>>
  BY DEF procctlcloseone, Hold, Busy
<1>3. p \in users /\ k \in Fd /\ k \in Nat /\ Fd \subseteq Nat /\ maxfd \in Fd /\ 0 \in Fd
  BY <1>1, <1>2, Sizes DEF Types, UserOf
<1>4. CASE pc' = [pc EXCEPT ![p] = "idle"] /\ arg' = [arg EXCEPT ![p] = 0] /\ UNCHANGED <<fd, hand>>
  <2>1. UNCHANGED <<table, users, ref, hand, first>>
    BY <1>2, <1>4 DEF table
  <2>2. pc'[p] = "idle" /\ Len(hand'[p]) = 0
    BY <1>1, <1>2, <1>4 DEF Types
  <2>3. UserOf(p)' /\ HandOf(p)' /\ AloneOf(p)'
    BY <2>2 DEF UserOf, HandOf, AloneOf, Piping
  <2>4. "idle" \in PC /\ pc[p] # "unslot"
    BY <1>2 DEF PC
  <2> QED BY <1>3, <1>4, <2>1, <2>3, <2>4, GoStep
<1>5. CASE /\ k < maxfd /\ fd' = [fd EXCEPT ![k] = Nil]
           /\ hand' = [hand EXCEPT ![p] = Elements(k)]
           /\ arg' = [arg EXCEPT ![p] = k + 1] /\ UNCHANGED pc
  <2> DEFINE s == Elements(k)
  <2>1. c \in Chan \cup {Nil}
    BY <1>1, <1>3 DEF Types
  <2>2. s \in Seq(Chan) /\ Len(s) <= 1 /\ \A d \in Chan : In(s, d) = Is(c, d)
    <3>1. CASE c = Nil
      <4>1. s = <<>>
        BY <3>1 DEF Elements
      <4>2. \A d \in Chan : In(<<>>, d) = 0 /\ Is(c, d) = 0
        BY <3>1, InNew, NilAssumption DEF Is
      <4>3. <<>> \in Seq(Chan) /\ Len(<<>>) <= 1
        OBVIOUS
      <4> HIDE DEF s, c
      <4> QED BY <4>1, <4>2, <4>3
    <3>2. CASE c # Nil
      <4>1. s = <<c>> /\ c \in Chan
        BY <2>1, <3>2 DEF Elements
      <4> HIDE DEF s, c
      <4>2. <<c>> \in Seq(Chan) /\ Len(<<c>>) <= 1
        BY <4>1
      <4> QED BY <4>1, <4>2, InNew
    <3> QED BY <3>1, <3>2
  <2>3. k + 1 \in Fd
    BY <1>3, <1>5, NextFd
  <2>4. Types'
    <3>1. /\ fd' \in [Fd -> Chan \cup {Nil}] /\ hand' \in [Proc -> Seq(Chan)]
          /\ arg' \in [Proc -> Fd] /\ pc' \in [Proc -> PC]
      <4>1. hand' = [hand EXCEPT ![p] = s]
        BY <1>5
      <4>2. fd' \in [Fd -> Chan \cup {Nil}] /\ pc' \in [Proc -> PC]
        BY <1>1, <1>3, <1>5 DEF Types
      <4>3. arg' \in [Proc -> Fd]
        BY <1>1, <1>5, <2>3 DEF Types
      <4> HIDE DEF s
      <4>4. hand' \in [Proc -> Seq(Chan)]
        BY <1>1, <2>2, <4>1 DEF Types
      <4> QED BY <4>2, <4>3, <4>4
    <3> QED BY <1>1, <1>2, <3>1 DEF Types
  <2>5. NoHiddenFd'
    BY <1>1, <1>2, <1>5 DEF NoHiddenFd, Types
  <2>6. Alone(p) /\ pc'[p] = pc[p] /\ hand'[p] = s /\ users' = users
    <3>1. hand' = [hand EXCEPT ![p] = s]
      BY <1>5
    <3>2. \A q \in Proc \ {p} : arg'[q] = arg[q]
      BY <1>1, <1>5 DEF Types
    <3> HIDE DEF s, k
    <3>3. hand'[p] = s /\ \A q \in Proc \ {p} : hand'[q] = hand[q]
      BY <1>1, <3>1 DEF Types
    <3> QED BY <1>2, <1>5, <3>2, <3>3 DEF Alone
  <2>7. UserOf(p)' /\ HandOf(p)' /\ AloneOf(p)'
    <3> HIDE DEF s
    <3> QED BY <1>1, <1>2, <2>2, <2>6 DEF UserOf, HandOf, AloneOf, Piping
  <2>8. ASSUME NEW d \in Chan
        PROVE  ref'[d] = ref[d] - Is(fd[k], d) + Is(Nil, d) - In(hand[p], d) + In(s, d)
    <3>1. /\ In(hand[p], d) = 0 /\ In(s, d) = Is(c, d) /\ Is(Nil, d) = 0
          /\ Is(c, d) \in Nat /\ ref[d] \in Int /\ ref'[d] = ref[d]
      BY <1>1, <1>2, <2>2, InNew, NilAssumption DEF Types, Is
    <3> HIDE DEF s
    <3> QED BY <3>1
  <2>9. pc[p] # "unslot" /\ pc'[p] # "unslot"
    BY <1>2, <2>6
  <2>10. (p \in users \/ users = {}) /\ Nil \in Chan \cup {Nil} /\ (PipeAlone => AloneOf(p)')
    BY <1>3, <2>7
  <2>11. fd' = [fd EXCEPT ![k] = Nil] /\ hand' = [hand EXCEPT ![p] = s]
    BY <1>5
  <2>12. s \in Seq(Chan) /\ Alone(p) /\ users' = users
    BY <2>2, <2>6
  <2>13. k \in Fd /\ \A d \in Chan : ref'[d] = ref[d] - Is(fd[k], d) + Is(Nil, d)
                                                  - In(hand[p], d) + In(s, d)
    BY <1>3, <2>8
  <2> HIDE DEF k, c, s
  <2> QED BY <2>4, <2>5, <2>7, <2>9, <2>10, <2>11, <2>12, <2>13, SlotStep
<1> QED BY <1>2, <1>4, <1>5

(* closefgrp drops one slot's reference, with nobody left.                 *)
LEMMA ClosefgrpOneStep ==
  ASSUME IInv, NEW p \in Proc, closefgrpone(p)
  PROVE  IInv'
<1> DEFINE k == arg[p]
           c == fd[k]
<1>1. Types /\ HandOf(p) /\ UserOf(p) /\ NoHiddenFd
  BY DEF IInv, HandInv, UsersInv
<1>2. /\ pc[p] = "closefgrp" /\ UNCHANGED <<nfd, maxfd, minfd, users, hand, first>>
      /\ fd' = [fd EXCEPT ![k] = Nil]
      /\ \/ c = Nil /\ UNCHANGED ref
         \/ c # Nil /\ ref' = [ref EXCEPT ![c] = ref[c] - 1]
      /\ \/ k < maxfd /\ arg' = [arg EXCEPT ![p] = k + 1] /\ UNCHANGED pc
         \/ arg' = [arg EXCEPT ![p] = 0] /\ pc' = [pc EXCEPT ![p] = "idle"]
  BY DEF closefgrpone, Busy
<1>3. /\ users = {} /\ k \in Fd /\ k \in Nat /\ Fd \subseteq Nat /\ maxfd \in Fd /\ 0 \in Fd
      /\ hand[p] \in Seq(Chan) /\ Len(hand[p]) = 0 /\ c \in Chan \cup {Nil}
  BY <1>1, <1>2, Sizes DEF Types, UserOf, HandOf
<1>4. Alone(p) /\ pc'[p] \in {"closefgrp", "idle"} /\ hand'[p] = hand[p]
  BY <1>1, <1>2 DEF Alone, Types
<1>5. Types'
  <2>1. k < maxfd => k + 1 \in Fd
    BY <1>3, NextFd
  <2>2. pc' \in [Proc -> PC] /\ arg' \in [Proc -> Fd]
    BY <1>1, <1>2, <1>3, <2>1 DEF Types, PC
  <2>3. fd' \in [Fd -> Chan \cup {Nil}] /\ ref' \in [Chan -> Int]
    BY <1>1, <1>2, <1>3 DEF Types
  <2> QED BY <1>1, <1>2, <2>2, <2>3 DEF Types
<1>6. NoHiddenFd'
  BY <1>1, <1>2 DEF NoHiddenFd, Types
<1>7. UserOf(p)' /\ HandOf(p)' /\ AloneOf(p)'
  BY <1>2, <1>3, <1>4 DEF UserOf, HandOf, AloneOf, Piping
<1>8. ASSUME NEW d \in Chan
      PROVE  ref'[d] = ref[d] - Is(fd[k], d) + Is(Nil, d) - In(hand[p], d) + In(hand[p], d)
  <2>1. ref'[d] = ref[d] - Is(c, d)
    BY <1>1, <1>2, <1>3, NilAssumption DEF Types, Is
  <2>2. Is(Nil, d) = 0 /\ Is(c, d) \in Nat /\ ref[d] \in Int /\ In(hand[p], d) = 0
    BY <1>1, <1>3, InNew, NilAssumption DEF Types, Is
  <2> QED BY <2>1, <2>2
<1>9. /\ pc[p] # "unslot" /\ pc'[p] # "unslot" /\ users' = users
      /\ hand' = [hand EXCEPT ![p] = hand[p]]
  BY <1>1, <1>2, <1>4 DEF Types
<1>10. fd' = [fd EXCEPT ![k] = Nil]
  BY <1>2
<1>11. (p \in users \/ users = {}) /\ Nil \in Chan \cup {Nil} /\ (PipeAlone => AloneOf(p)')
  BY <1>3, <1>7
<1> HIDE DEF k, c
<1> QED BY <1>3, <1>4, <1>5, <1>6, <1>7, <1>8, <1>9, <1>10, <1>11, SlotStep

-----------------------------------------------------------------------------
(* Sharing the table and leaving it.                                        *)
LEMMA ClosefgrpStep ==
  ASSUME IInv, NEW p \in Proc, closefgrp(p)
  PROVE  IInv'
<1> DEFINE to == IF users = {p} THEN "closefgrp" ELSE "idle"
<1>1. Types /\ UsersInv /\ HandInv /\ NoHiddenFd
  BY DEF IInv
<1>2. /\ pc[p] = "idle" /\ p \in users /\ pc' = [pc EXCEPT ![p] = to]
      /\ users' = users \ {p} /\ UNCHANGED <<table, ref, arg, hand, first>>
  BY DEF closefgrp, Call, Goto
<1>3. /\ UNCHANGED <<fd, nfd, maxfd, minfd>> /\ pc'[p] = to
      /\ \A q \in Proc \ {p} : pc'[q] = pc[q]
  BY <1>1, <1>2 DEF Types, table
<1>4. Types'
  BY <1>1, <1>2, <1>3 DEF Types, PC
<1>5. NoHiddenFd' /\ HandInv'
  BY <1>1, <1>2, <1>3 DEF NoHiddenFd, HandInv, HandOf
<1>6. UsersInv'
  <2>1. UserOf(p)'
    BY <1>2, <1>3 DEF UserOf
  <2>2. ASSUME NEW q \in Proc \ {p} PROVE UserOf(q)'
    BY <1>1, <1>2, <1>3 DEF UsersInv, UserOf
  <2> QED BY <2>1, <2>2 DEF UsersInv
<1>7. ASSUME PipeAlone PROVE AloneInv' /\ RefsMatch'
  <2>1. AloneInv /\ RefsMatch
    BY <1>7 DEF IInv
  <2>2. AloneInv'
    <3>1. AloneOf(p)'
      BY <1>3 DEF AloneOf, Piping
    <3>2. ASSUME NEW q \in Proc \ {p} PROVE AloneOf(q)'
      BY <1>2, <1>3, <2>1 DEF AloneInv, AloneOf, Piping
    <3> QED BY <3>1, <3>2 DEF AloneInv
  <2>3. \A k : Stale(k)' <=> Stale(k)
    BY <1>2, <1>3 DEF Stale
  <2>4. \A c : Holders(c)' = Holders(c)
    BY <1>2, <1>3, <2>3 DEF Holders
  <2> QED BY <1>2, <2>1, <2>2, <2>4 DEF RefsMatch
<1> QED BY <1>4, <1>5, <1>6, <1>7 DEF IInv

(* A new process shares the table.                                         *)
LEMMA KprocStep ==
  ASSUME IInv, NEW p \in Proc, NEW q \in Proc, Kproc(p, q)
  PROVE  IInv'
<1>1. Types /\ UsersInv /\ HandInv /\ NoHiddenFd
  BY DEF IInv
<1>2. /\ pc[p] = "idle" /\ p \in users /\ pc[q] = "idle"
      /\ users' = users \cup {q}
      /\ UNCHANGED <<fd, nfd, maxfd, minfd, ref, pc, arg, hand, first>>
  BY DEF Kproc, table, calls
<1>3. Types' /\ NoHiddenFd' /\ HandInv'
  BY <1>1, <1>2 DEF Types, NoHiddenFd, HandInv, HandOf
<1>4. UsersInv'
  BY <1>1, <1>2 DEF UsersInv, UserOf
<1>5. ASSUME PipeAlone PROVE AloneInv' /\ RefsMatch'
  <2>1. AloneInv /\ RefsMatch
    BY <1>5 DEF IInv
  <2>2. AloneInv'
    BY <1>2, <2>1 DEF AloneInv, AloneOf, Piping
  <2>3. \A c : Holders(c)' = Holders(c)
    BY <1>2 DEF Holders, Stale
  <2> QED BY <1>2, <2>1, <2>2, <2>3 DEF RefsMatch
<1> QED BY <1>3, <1>4, <1>5 DEF IInv

-----------------------------------------------------------------------------
(* A new table is empty and nobody holds anything.                         *)
LEMMA InitIInv == Init => IInv
<1> SUFFICES ASSUME Init PROVE IInv
  OBVIOUS
<1>1. Types
  <2>1. Deltafd \in 1..Maxnfd /\ 0 \in Fd /\ 0 \in 0..Maxnfd
    BY Sizes
  <2> QED BY <2>1 DEF Init, Types, PC
<1>2. UsersInv /\ HandInv /\ AloneInv
  BY DEF Init, UsersInv, UserOf, HandInv, HandOf, AloneInv, AloneOf, Piping
<1>3. NoHiddenFd
  BY SizeAssumption DEF Init, NoHiddenFd
<1>4. RefsMatch
  <2>1. SUFFICES ASSUME NEW c \in Chan PROVE Holders(c) = 0
    BY DEF RefsMatch, Init
  <2>2. Slots(c) = {} /\ Hands(hand, c) = {}
    BY NilAssumption DEF Init, Slots, Hands
  <2>3. Holders(c) = Cardinality(Slots(c)) + Cardinality(Hands(hand, c))
    BY <1>1, HoldersCount
  <2> QED BY <2>2, <2>3, FS_EmptySet
<1> QED BY <1>1, <1>2, <1>3, <1>4 DEF IInv

(* Every step keeps the inductive invariant.                               *)
LEMMA NextIInv == IInv /\ [Next]_vars => IInv'
<1> SUFFICES ASSUME IInv, [Next]_vars PROVE IInv'
  OBVIOUS
<1>1. CASE UNCHANGED vars
  BY <1>1 DEF vars, table, calls, IInv, Types, UsersInv, UserOf, HandInv, HandOf,
              NoHiddenFd, AloneInv, AloneOf, Piping, RefsMatch, Holders, Stale
<1>2. CASE Next
  <2>1. PICK p \in Proc :
          \/ Open(p)  \/ Newfd(p) \/ Use(p)   \/ Used(p)  \/ Close(p)    \/ fdclose(p)
          \/ Dup(p)   \/ DupTo(p) \/ Pipe(p)  \/ Pipe0(p) \/ Pipe1(p)    \/ PipeFail(p)
          \/ PipeUnslot(p)        \/ cclose(p) \/ closefgrp(p) \/ closefgrpone(p)
          \/ Closefiles(p) \/ procctlcloseone(p) \/ ClosefilesDrop(p)
          \/ \E q \in Proc : Kproc(p, q)
    BY <1>2 DEF Next
  <2>2. CASE Open(p) \/ Newfd(p) \/ Use(p) \/ Used(p) \/ Close(p) \/ fdclose(p)
    BY <2>2, OpenStep, OpenNewfdStep, UseStep, UsedStep, CloseStep, FdcloseStep
  <2>3. CASE Dup(p) \/ DupTo(p) \/ Pipe(p) \/ Pipe0(p) \/ Pipe1(p) \/ PipeFail(p)
    BY <2>3, DupStep, DupToStep, PipeStep, Pipe0Step, Pipe1Step, PipeFailStep
  <2>4. CASE \/ PipeUnslot(p) \/ cclose(p) \/ closefgrp(p) \/ closefgrpone(p)
             \/ Closefiles(p) \/ procctlcloseone(p) \/ ClosefilesDrop(p)
    BY <2>4, PipeUnslotStep, CcloseStep, ClosefgrpStep, ClosefgrpOneStep,
       ClosefilesStep, ClosefilesOneStep, ClosefilesDropStep
  <2>5. CASE \E q \in Proc : Kproc(p, q)
    BY <2>5, KprocStep
  <2> QED BY <2>1, <2>2, <2>3, <2>4, <2>5
<1> QED BY <1>1, <1>2

(* The inductive invariant holds, whatever the processes do.               *)
THEOREM Invariance == Spec => []IInv
BY InitIInv, NextIInv, PTL DEF Spec

(* maxfd bounds the descriptors in use, and lies inside the table.         *)
THEOREM NothingHidden == Spec => []NoHiddenFd
<1>1. IInv => NoHiddenFd
  BY DEF IInv
<1> QED BY <1>1, Invariance, PTL

(* Where kpipe has its table to itself, a channel's count is always the    *)
(* number of slots and hands that hold it: nothing is freed while in use,  *)
(* and nothing is kept for ever.                                           *)
THEOREM RefsCounted == PipeAlone => (Spec => []RefsMatch)
<1> SUFFICES ASSUME PipeAlone PROVE Spec => []RefsMatch
  OBVIOUS
<1>1. IInv => RefsMatch
  BY DEF IInv
<1> QED BY <1>1, Invariance, PTL

(* In particular no count becomes negative.                                *)
THEOREM TypeCorrect == PipeAlone => (Spec => []TypeOK)
<1> SUFFICES ASSUME PipeAlone PROVE Spec => []TypeOK
  OBVIOUS
<1>1. IInv => TypeOK
  <2> SUFFICES ASSUME IInv PROVE TypeOK
    OBVIOUS
  <2>1. Types /\ RefsMatch
    BY DEF IInv
  <2>2. ASSUME NEW c \in Chan PROVE ref[c] \in Nat
    <3>1. Cardinality(Slots(c)) \in Nat
      BY Sizes, FS_Subset, FS_CardinalityType DEF Slots
    <3>2. Cardinality(Hands(hand, c)) \in Nat
      <4>1. IsFiniteSet(Hands(hand, c))
        <5>1. IsFiniteSet({1} \cup {2}) /\ {1} \cup {2} = {1, 2}
          BY FS_Singleton, FS_AddElement
        <5>2. IsFiniteSet(Proc \X {1, 2})
          BY <5>1, FS_Product, ProcAssumption
        <5> QED BY <5>2, FS_Subset DEF Hands
      <4> QED BY <4>1, FS_CardinalityType
    <3> QED BY <2>1, <3>1, <3>2, HoldersCount DEF RefsMatch
  <2>3. ref \in [Chan -> Nat]
    BY <2>1, <2>2 DEF Types
  <2> QED BY <2>1, <2>3 DEF Types, TypeOK
<1> QED BY <1>1, Invariance, PTL

(* minfd bounds the free descriptors from below until one of the two steps *)
(* that clear a slot without lowering it.                                  *)
THEOREM MinfdStays == Spec => MinfdKept
<1>1. ASSUME IInv, [Next]_vars
      PROVE  [MinfdIsBound /\ ~MinfdIsBound' =>
                \E p \in Proc : PipeUnslot(p) \/ procctlcloseone(p)]_vars
  <2> SUFFICES ASSUME Next, MinfdIsBound,
                      \A p \in Proc : ~PipeUnslot(p) /\ ~procctlcloseone(p),
                      users' # {}
               PROVE  \A k \in 0..minfd' - 1 : fd'[k] # Nil
    BY <1>1 DEF MinfdIsBound
  <2>1. Types /\ UsersInv /\ minfd \in Nat
    BY <1>1 DEF IInv, Types
  <2>2. CASE fd' = fd /\ minfd' = minfd /\ users # {}
    BY <2>2 DEF MinfdIsBound
  <2>3. ASSUME NEW p \in Proc, NEW from, NEW to, newfd(p, from, to), users # {},
               Head(hand[p]) \in Chan
        PROVE  \A k \in 0..minfd' - 1 : fd'[k] # Nil
    <3>1. /\ Free \in Fd /\ minfd <= Free
          /\ \A j \in minfd..Free - 1 : fd[j] # Nil
      BY <1>1, <2>1, <2>3, NewfdSlot, FreeSlot
    <3>2. minfd' = Free + 1 /\ fd' = [fd EXCEPT ![Free] = Head(hand[p])]
      BY <2>3 DEF newfd
    <3>3. Head(hand[p]) # Nil
      BY <2>3, NilAssumption
    <3>4. ASSUME NEW k \in 0..minfd' - 1 PROVE fd'[k] # Nil
      <4>1. Free \in Nat /\ (k = Free \/ k \in 0..minfd - 1 \/ k \in minfd..Free - 1)
        BY <2>1, <3>1, <3>2, Sizes
      <4>2. CASE k = Free
        BY <2>1, <3>1, <3>2, <3>3, <4>2 DEF Types
      <4>3. CASE k # Free
        <5>1. fd[k] # Nil
          BY <2>3, <3>1, <4>1, <4>3 DEF MinfdIsBound
        <5>2. k \in Fd
          BY <3>1, <3>2, Sizes DEF Fd
        <5> QED BY <2>1, <3>2, <4>3, <5>1, <5>2 DEF Types
      <4> QED BY <4>2, <4>3
    <3> QED BY <3>4
  <2>4. PICK p \in Proc :
          \/ Open(p)  \/ Newfd(p) \/ Use(p)   \/ Used(p)  \/ Close(p)    \/ fdclose(p)
          \/ Dup(p)   \/ DupTo(p) \/ Pipe(p)  \/ Pipe0(p) \/ Pipe1(p)    \/ PipeFail(p)
          \/ cclose(p) \/ closefgrp(p) \/ closefgrpone(p)
          \/ Closefiles(p) \/ ClosefilesDrop(p)
          \/ \E q \in Proc : Kproc(p, q)
    BY DEF Next
  <2>5. UserOf(p) /\ HandOf(p) /\ hand[p] \in Seq(Chan)
    BY <1>1, <2>1 DEF IInv, UsersInv, HandInv, Types
  <2>6. ASSUME NEW from \in {"newfd", "pipe0", "pipe1"}, NEW to, newfd(p, from, to)
        PROVE  \A k \in 0..minfd' - 1 : fd'[k] # Nil
    <3>1. pc[p] = from
      BY <2>6 DEF newfd, Goto
    <3>2. users # {} /\ Len(hand[p]) \in {1, 2}
      BY <2>5, <3>1 DEF UserOf, HandOf
    <3>3. Head(hand[p]) \in Chan
      BY <2>5, <3>2, InTail
    <3> QED BY <2>3, <2>6, <3>2, <3>3
  <2>7. CASE \/ Open(p) \/ Use(p) \/ Used(p) \/ Close(p) \/ Dup(p) \/ Pipe(p)
             \/ PipeFail(p) \/ cclose(p) \/ Closefiles(p) \/ ClosefilesDrop(p)
    BY <2>2, <2>7 DEF Open, Use, Used, Close, Dup, Pipe, PipeFail, cclose, Closefiles,
                      ClosefilesDrop, table
  <2>8. CASE Newfd(p) \/ Pipe0(p) \/ Pipe1(p)
    <3>1. \/ newfd(p, "newfd", "idle") \/ newfd(p, "pipe0", "pipe1") \/ newfd(p, "pipe1", "idle")
          \/ UNCHANGED <<table, users>>
      BY <2>8 DEF Newfd, Pipe0, Pipe1
    <3>2. CASE UNCHANGED <<table, users>>
      BY <2>2, <3>2 DEF table
    <3> QED BY <2>6, <3>1, <3>2
  <2>9. CASE fdclose(p)
    <3>1. \/ fd' = fd /\ minfd' = minfd
          \/ fd' = [fd EXCEPT ![arg[p]] = Nil] /\ minfd' = MinOf(minfd, arg[p])
      BY <2>9 DEF fdclose
    <3>2. users # {} /\ arg[p] \in Fd /\ arg[p] \in Nat
      BY <2>1, <2>5, <2>9, Sizes DEF fdclose, Goto, UserOf, Types
    <3>3. CASE fd' = [fd EXCEPT ![arg[p]] = Nil] /\ minfd' = MinOf(minfd, arg[p])
      <4>1. ASSUME NEW k \in 0..minfd' - 1 PROVE fd'[k] # Nil
        <5>1. k \in 0..minfd - 1 /\ k # arg[p]
          BY <2>1, <3>2, <3>3 DEF MinOf
        <5>2. fd[k] # Nil /\ k \in Fd
          <6>1. minfd \in 0..Maxnfd
            BY <2>1 DEF Types
          <6> QED BY <3>2, <5>1, <6>1, Sizes DEF MinfdIsBound, Fd
        <5> QED BY <2>1, <3>3, <5>1, <5>2 DEF Types
      <4> QED BY <4>1
    <3> QED BY <2>2, <3>1, <3>2, <3>3
  <2>10. CASE DupTo(p)
    <3>1. /\ minfd' = minfd /\ pc[p] = "dup"
          /\ fd' = fd \/ fd' = [fd EXCEPT ![arg[p]] = Head(hand[p])]
      BY <2>10 DEF DupTo, Goto
    <3>2. users # {} /\ Len(hand[p]) \in {1, 2}
      BY <2>5, <3>1 DEF UserOf, HandOf
    <3>3. Head(hand[p]) \in Chan
      BY <2>5, <3>2, InTail
    <3>4. ASSUME NEW k \in 0..minfd' - 1 PROVE fd'[k] # Nil
      <4>1. fd[k] # Nil /\ k \in Fd
        <5>1. minfd \in 0..Maxnfd
          BY <2>1 DEF Types
        <5> QED BY <3>1, <3>2, <5>1, Sizes DEF MinfdIsBound, Fd
      <4> QED BY <2>1, <3>1, <3>3, <4>1, NilAssumption DEF Types
    <3> QED BY <3>4
  <2>11. CASE closefgrp(p) \/ closefgrpone(p)
    <3>1. users # {}
      BY <2>5, <2>11 DEF closefgrp, closefgrpone, Call, UserOf
    <3>2. closefgrp(p)
      BY <2>5, <2>11, <3>1 DEF closefgrpone, UserOf
    <3> QED BY <2>2, <3>1, <3>2 DEF closefgrp, table
  <2>12. CASE \E q \in Proc : Kproc(p, q)
    BY <2>2, <2>12 DEF Kproc, table
  <2> QED BY <2>4, <2>7, <2>8, <2>9, <2>10, <2>11, <2>12
<1> QED BY <1>1, Invariance, PTL DEF Spec, MinfdKept
====
