----------------------------- MODULE QioProofs ------------------------------
(***************************************************************************)
(* What holds of a queue (Qio) for every set of readers, writers and       *)
(* drivers, and every set of uses that keeps to AsUsed.                    *)
(***************************************************************************)
EXTENDS Qio, SequenceTheorems, FiniteSetTheorems, WellFoundedInduction, TLAPS

-----------------------------------------------------------------------------
(* Sums.                                                                   *)

(* Every nonempty set of counts has a least one.                           *)
LEMMA Least ==
  ASSUME NEW T \in SUBSET Nat, T # {}
  PROVE  \E x \in T : \A y \in T : x <= y
<1>1. PICK x \in T : \A y \in T : ~(<<y, x>> \in OpToRel(<, Nat))
  BY WFMin, NatLessThanWellFounded
<1>2. \A y \in T : ~(y < x)
  BY <1>1 DEF OpToRel
<1> QED BY <1>2

(* What Total counts.                                                      *)
Cells(f) == UNION {{x} \X (1..f[x]) : x \in DOMAIN f}

(* The sum of finitely many counts is one.                                 *)
LEMMA TotalType ==
  ASSUME NEW D, IsFiniteSet(D), NEW f \in [D -> Nat]
  PROVE  /\ IsFiniteSet(Cells(f))
         /\ Total(f) = Cardinality(Cells(f))
         /\ Total(f) \in Nat
<1> DEFINE g == [x \in D |-> {x} \X (1..f[x])]
           T == {{x} \X (1..f[x]) : x \in D}
<1>1. g \in Surjection(D, T)
  BY DEF Surjection
<1>2. IsFiniteSet(T)
  BY <1>1, FS_Surjection
<1>3. ASSUME NEW t \in T PROVE IsFiniteSet(t)
  <2>1. PICK x \in D : t = {x} \X (1..f[x])
    OBVIOUS
  <2>2. IsFiniteSet(1..f[x])
    BY FS_Interval
  <2>3. IsFiniteSet({x})
    BY FS_Singleton
  <2> QED BY <2>1, <2>2, <2>3, FS_Product
<1>4. Cells(f) = UNION T
  BY DEF Cells
<1>5. IsFiniteSet(Cells(f))
  BY <1>2, <1>3, <1>4, FS_UNION
<1> QED BY <1>5, FS_CardinalityType DEF Total, Cells

(* One element's share of a sum.                                           *)
LEMMA CellsOf ==
  ASSUME NEW x, NEW n \in Nat
  PROVE  /\ IsFiniteSet({x} \X (1..n))
         /\ Cardinality({x} \X (1..n)) = n
<1>1. IsFiniteSet(1..n) /\ Cardinality(1..n) = n
  BY FS_Interval
<1>2. IsFiniteSet({x}) /\ Cardinality({x}) = 1
  BY FS_Singleton
<1>3. IsFiniteSet({x} \X (1..n)) /\ Cardinality({x} \X (1..n)) = 1 * n
  <2>1. IsFiniteSet(1..n) /\ IsFiniteSet({x})
    BY <1>1, <1>2
  <2>2. /\ IsFiniteSet({x} \X (1..n))
        /\ Cardinality({x} \X (1..n)) = Cardinality({x}) * Cardinality(1..n)
    BY <2>1, FS_Product, Zenon
  <2> QED BY <1>1, <1>2, <2>2
<1> QED BY <1>3

(* What is left when part of a set goes.                                   *)
LEMMA CardLeft ==
  ASSUME NEW S, IsFiniteSet(S), NEW T, T \subseteq S
  PROVE  Cardinality(S \ T) = Cardinality(S) - Cardinality(T)
<1>1. S \cap T = T
  OBVIOUS
<1>2. Cardinality(S \ T) = Cardinality(S) - Cardinality(S \cap T)
  BY FS_Difference
<1> QED BY <1>1, <1>2

(* Changing one count changes the sum by as much.                          *)
LEMMA TotalExcept ==
  ASSUME NEW D, IsFiniteSet(D), NEW f \in [D -> Nat], NEW g \in [D -> Nat],
         NEW d \in D, \A x \in D \ {d} : g[x] = f[x]
  PROVE  Total(g) = Total(f) - f[d] + g[d]
<1> DEFINE F == {d} \X (1..f[d])
           G == {d} \X (1..g[d])
<1>1. Cells(f) \ F = Cells(g) \ G
  BY DEF Cells
<1>2. F \subseteq Cells(f) /\ G \subseteq Cells(g)
  BY DEF Cells
<1>3. Cardinality(F) = f[d] /\ Cardinality(G) = g[d]
  BY CellsOf
<1>4. /\ IsFiniteSet(Cells(f)) /\ Total(f) = Cardinality(Cells(f)) /\ Total(f) \in Nat
      /\ IsFiniteSet(Cells(g)) /\ Total(g) = Cardinality(Cells(g)) /\ Total(g) \in Nat
  BY TotalType
<1> HIDE DEF F, G
<1>5. Cardinality(Cells(f) \ F) = Total(f) - f[d]
  BY <1>2, <1>3, <1>4, CardLeft
<1>6. Cardinality(Cells(g) \ G) = Total(g) - g[d]
  BY <1>2, <1>3, <1>4, CardLeft
<1> QED BY <1>1, <1>4, <1>5, <1>6

(* A sum is at least each of its terms, and 0 only if they all are.        *)
LEMMA TotalTerm ==
  ASSUME NEW D, IsFiniteSet(D), NEW f \in [D -> Nat], NEW d \in D
  PROVE  f[d] <= Total(f)
<1>1. IsFiniteSet(Cells(f)) /\ Total(f) = Cardinality(Cells(f))
  BY TotalType
<1>2. {d} \X (1..f[d]) \in SUBSET Cells(f)
  BY DEF Cells
<1>3. Cardinality({d} \X (1..f[d])) = f[d]
  BY CellsOf
<1>4. Cardinality({d} \X (1..f[d])) <= Cardinality(Cells(f))
  BY <1>1, <1>2, FS_Subset
<1> QED BY <1>1, <1>3, <1>4

LEMMA TotalZero ==
  ASSUME NEW D, IsFiniteSet(D), NEW f \in [D -> Nat]
  PROVE  (\A x \in D : f[x] = 0) <=> Total(f) = 0
<1>1. ASSUME \A x \in D : f[x] = 0 PROVE Total(f) = 0
  <2>1. Cells(f) = {}
    BY <1>1 DEF Cells
  <2> QED BY <2>1, TotalType, FS_EmptySet
<1>2. ASSUME Total(f) = 0 PROVE \A x \in D : f[x] = 0
  BY <1>2, TotalTerm
<1> QED BY <1>1, <1>2

(* The sum over two sequences is the sum of their sums.                    *)
LEMMA TotalConcat ==
  ASSUME NEW s \in Seq(Nat), NEW t \in Seq(Nat)
  PROVE  /\ Total(s \o t) = Total(s) + Total(t)
         /\ Total(s) \in Nat /\ Total(t) \in Nat
<1> DEFINE u == s \o t
           m == Len(s)
           n == Len(t)
           U == Cells(u) \ Cells(s)
           h == [c \in Cells(t) |-> <<c[1] + m, c[2]>>]
<1>1. /\ m \in Nat /\ n \in Nat
      /\ s \in [1..m -> Nat] /\ t \in [1..n -> Nat] /\ u \in [1..m + n -> Nat]
      /\ \A i \in 1..m : u[i] = s[i]
      /\ \A i \in 1..n : i + m \in 1..m + n /\ u[i + m] = t[i]
      /\ \A i \in 1..m + n : i \in 1..m \/ i - m \in 1..n
  <2>1. /\ m \in Nat /\ n \in Nat
        /\ s \in [1..m -> Nat] /\ t \in [1..n -> Nat]
    BY LenProperties
  <2>2. /\ u \in Seq(Nat) /\ Len(u) = m + n
        /\ \A i \in 1..m + n : u[i] = IF i <= m THEN s[i] ELSE t[i - m]
    BY ConcatProperties
  <2>3. u \in [1..m + n -> Nat]
    BY <2>2, LenProperties
  <2> HIDE DEF m, n, u
  <2>4. \A i \in 1..m : i \in 1..m + n /\ i <= m
    BY <2>1
  <2>5. \A i \in 1..n : i + m \in 1..m + n /\ ~(i + m <= m) /\ i + m - m = i
    BY <2>1
  <2> QED BY <2>1, <2>2, <2>3, <2>4, <2>5
<1>2. IsFiniteSet(1..m) /\ IsFiniteSet(1..n) /\ IsFiniteSet(1..m + n)
  BY <1>1, FS_Interval
<1>3. /\ IsFiniteSet(Cells(s)) /\ Total(s) = Cardinality(Cells(s)) /\ Total(s) \in Nat
      /\ IsFiniteSet(Cells(t)) /\ Total(t) = Cardinality(Cells(t)) /\ Total(t) \in Nat
      /\ IsFiniteSet(Cells(u)) /\ Total(u) = Cardinality(Cells(u)) /\ Total(u) \in Nat
  BY <1>1, <1>2, TotalType
<1>4. Cells(s) = {c \in (1..m) \X (Nat \ {0}) : c[2] <= s[c[1]]}
  BY <1>1 DEF Cells
<1>5. Cells(t) = {c \in (1..n) \X (Nat \ {0}) : c[2] <= t[c[1]]}
  BY <1>1 DEF Cells
<1>6. Cells(u) = {c \in (1..m + n) \X (Nat \ {0}) : c[2] <= u[c[1]]}
  BY <1>1 DEF Cells
<1>7. Cells(s) \subseteq Cells(u)
  BY <1>1, <1>4, <1>6
<1>8. h \in [Cells(t) -> U]
  BY <1>1, <1>4, <1>5, <1>6
<1>9. h \in Injection(Cells(t), U)
  <2>1. ASSUME NEW c \in Cells(t), NEW e \in Cells(t), h[c] = h[e] PROVE c = e
    BY <1>1, <1>5, <2>1
  <2> QED BY <1>8, <2>1 DEF Injection, IsInjective
<1>10. h \in Surjection(Cells(t), U)
  <2>1. ASSUME NEW e \in U PROVE \E c \in Cells(t) : h[c] = e
    <3>1. e[1] - m \in 1..n /\ e[2] \in Nat \ {0} /\ e = <<e[1], e[2]>>
          /\ e[2] <= u[e[1]] /\ e[1] \in 1..m + n
      BY <1>1, <1>4, <1>6
    <3>2. u[e[1]] = t[e[1] - m]
      BY <1>1, <3>1
    <3>3. <<e[1] - m, e[2]>> \in Cells(t)
      BY <1>5, <3>1, <3>2
    <3>4. h[<<e[1] - m, e[2]>>] = e
      BY <1>1, <3>1, <3>3
    <3> QED BY <3>3, <3>4
  <2> QED BY <1>8, <2>1 DEF Surjection
<1>11. ExistsBijection(Cells(t), U)
  BY <1>9, <1>10 DEF ExistsBijection, Bijection
<1>12. Cardinality(U) = Total(t)
  BY <1>3, <1>11, FS_Bijection
<1>13. Cardinality(U) = Total(u) - Total(s)
  BY <1>3, <1>7, CardLeft
<1>14. Total(u) - Total(s) = Total(t)
  BY <1>12, <1>13
<1> HIDE DEF u
<1>15. Total(u) = Total(s) + Total(t)
  BY <1>3, <1>14
<1> QED BY <1>3, <1>15, Zenon DEF u

-----------------------------------------------------------------------------
(* Sequences of blocks, their bytes and their allocation.                  *)

Count(s) == [i \in 1..Len(s) |-> s[i].n]
Room(s)  == [i \in 1..Len(s) |-> s[i].alloc]

(* Both are finite sums.                                                   *)
LEMMA Counted ==
  ASSUME NEW s \in Seq(Block)
  PROVE  /\ Bytes(s) = Total(Count(s)) /\ Alloc(s) = Total(Room(s))
         /\ Count(s) \in Seq(Nat) /\ Room(s) \in Seq(Nat)
         /\ Count(s) \in [1..Len(s) -> Nat] /\ Room(s) \in [1..Len(s) -> Nat]
         /\ Len(Count(s)) = Len(s) /\ Len(Room(s)) = Len(s)
         /\ IsFiniteSet(1..Len(s)) /\ Len(s) \in Nat
         /\ Bytes(s) \in Nat /\ Alloc(s) \in Nat
<1>1. Len(s) \in Nat /\ \A i \in 1..Len(s) : s[i] \in Block
  BY ElementOfSeq, LenProperties
<1>2. Count(s) \in [1..Len(s) -> Nat] /\ Room(s) \in [1..Len(s) -> Nat]
  BY <1>1 DEF Count, Room, Block
<1>3. /\ Count(s) \in Seq(Nat) /\ Len(Count(s)) = Len(s)
      /\ Room(s) \in Seq(Nat) /\ Len(Room(s)) = Len(s)
  BY <1>1, <1>2
<1>4. Bytes(s) = Total(Count(s)) /\ Alloc(s) = Total(Room(s))
  BY DEF Bytes, Alloc, Count, Room
<1>5. IsFiniteSet(1..Len(s))
  BY <1>1, FS_Interval
<1>6. Total(Count(s)) \in Nat /\ Total(Room(s)) \in Nat
  BY <1>2, <1>5, TotalType
<1> QED BY <1>1, <1>2, <1>3, <1>4, <1>5, <1>6

(* Both are added up when sequences are joined.                            *)
LEMMA BytesConcat ==
  ASSUME NEW s \in Seq(Block), NEW t \in Seq(Block)
  PROVE  /\ s \o t \in Seq(Block)
         /\ Bytes(s \o t) = Bytes(s) + Bytes(t)
         /\ Alloc(s \o t) = Alloc(s) + Alloc(t)
<1>1. /\ s \o t \in Seq(Block)
      /\ Len(s \o t) = Len(s) + Len(t)
      /\ \A i \in 1..Len(s) + Len(t) :
           (s \o t)[i] = IF i <= Len(s) THEN s[i] ELSE t[i - Len(s)]
  BY ConcatProperties
<1>2. /\ Count(s) \in Seq(Nat) /\ Count(t) \in Seq(Nat) /\ Count(s \o t) \in Seq(Nat)
      /\ Room(s) \in Seq(Nat) /\ Room(t) \in Seq(Nat) /\ Room(s \o t) \in Seq(Nat)
      /\ Len(Count(s)) = Len(s) /\ Len(Count(t)) = Len(t) /\ Len(Count(s \o t)) = Len(s \o t)
      /\ Len(Room(s)) = Len(s) /\ Len(Room(t)) = Len(t) /\ Len(Room(s \o t)) = Len(s \o t)
      /\ Len(s) \in Nat /\ Len(t) \in Nat
  BY <1>1, Counted
<1>3. Count(s \o t) = Count(s) \o Count(t)
  <2>1. /\ Count(s) \o Count(t) \in Seq(Nat)
        /\ Len(Count(s) \o Count(t)) = Len(s) + Len(t)
        /\ \A i \in 1..Len(s) + Len(t) :
             (Count(s) \o Count(t))[i] = IF i <= Len(s) THEN Count(s)[i] ELSE Count(t)[i - Len(s)]
    <3> DEFINE x == Count(s)
               y == Count(t)
    <3>1. x \in Seq(Nat) /\ y \in Seq(Nat) /\ Len(x) = Len(s) /\ Len(y) = Len(t)
      BY <1>2
    <3> HIDE DEF x, y
    <3>2. /\ x \o y \in Seq(Nat) /\ Len(x \o y) = Len(x) + Len(y)
          /\ \A i \in 1..Len(x) + Len(y) : (x \o y)[i] = IF i <= Len(x) THEN x[i] ELSE y[i - Len(x)]
      BY <3>1, ConcatProperties
    <3> QED BY <3>1, <3>2 DEF x, y
  <2>2. \A i \in 1..Len(s) + Len(t) : Count(s \o t)[i] = (Count(s) \o Count(t))[i]
    BY <1>1, <1>2, <2>1 DEF Count
  <2> QED BY <1>1, <1>2, <2>1, <2>2, SeqEqual
<1>4. Room(s \o t) = Room(s) \o Room(t)
  <2>1. /\ Room(s) \o Room(t) \in Seq(Nat)
        /\ Len(Room(s) \o Room(t)) = Len(s) + Len(t)
        /\ \A i \in 1..Len(s) + Len(t) :
             (Room(s) \o Room(t))[i] = IF i <= Len(s) THEN Room(s)[i] ELSE Room(t)[i - Len(s)]
    <3> DEFINE x == Room(s)
               y == Room(t)
    <3>1. x \in Seq(Nat) /\ y \in Seq(Nat) /\ Len(x) = Len(s) /\ Len(y) = Len(t)
      BY <1>2
    <3> HIDE DEF x, y
    <3>2. /\ x \o y \in Seq(Nat) /\ Len(x \o y) = Len(x) + Len(y)
          /\ \A i \in 1..Len(x) + Len(y) : (x \o y)[i] = IF i <= Len(x) THEN x[i] ELSE y[i - Len(x)]
      BY <3>1, ConcatProperties
    <3> QED BY <3>1, <3>2 DEF x, y
  <2>2. \A i \in 1..Len(s) + Len(t) : Room(s \o t)[i] = (Room(s) \o Room(t))[i]
    BY <1>1, <1>2, <2>1 DEF Room
  <2> QED BY <1>1, <1>2, <2>1, <2>2, SeqEqual
<1>5. /\ Total(Count(s) \o Count(t)) = Total(Count(s)) + Total(Count(t))
      /\ Total(Room(s) \o Room(t)) = Total(Room(s)) + Total(Room(t))
  BY <1>2, TotalConcat
<1> QED BY <1>1, <1>3, <1>4, <1>5, Counted

(* The bytes of no block, and of one.                                      *)
LEMMA BytesFew ==
  /\ Bytes(<<>>) = 0 /\ Alloc(<<>>) = 0
  /\ \A b \in Block : Bytes(<<b>>) = b.n /\ Alloc(<<b>>) = b.alloc
<1>1. Bytes(<<>>) = 0 /\ Alloc(<<>>) = 0
  <2>1. <<>> \in Seq(Block) /\ Len(<<>>) = 0 /\ 1..0 = {}
    BY EmptySeq
  <2>2. /\ Count(<<>>) \in [1..0 -> Nat] /\ Room(<<>>) \in [1..0 -> Nat] /\ IsFiniteSet(1..0)
        /\ Bytes(<<>>) = Total(Count(<<>>)) /\ Alloc(<<>>) = Total(Room(<<>>))
    BY <2>1, Counted
  <2> QED BY <2>1, <2>2, TotalZero
<1>2. ASSUME NEW b \in Block PROVE Bytes(<<b>>) = b.n /\ Alloc(<<b>>) = b.alloc
  <2>1. <<b>> \in Seq(Block) /\ Len(<<b>>) = 1 /\ <<b>>[1] = b
    OBVIOUS
  <2>2. Cells(Count(<<b>>)) = {1} \X (1..b.n) /\ Cells(Room(<<b>>)) = {1} \X (1..b.alloc)
    BY <2>1 DEF Cells, Count, Room
  <2>3. b.n \in Nat /\ b.alloc \in Nat
    BY DEF Block
  <2>4. /\ Total(Count(<<b>>)) = Cardinality(Cells(Count(<<b>>)))
        /\ Total(Room(<<b>>)) = Cardinality(Cells(Room(<<b>>)))
    BY DEF Total, Cells
  <2>5. /\ Cardinality({1} \X (1..b.n)) = b.n
        /\ Cardinality({1} \X (1..b.alloc)) = b.alloc
    BY <2>3, CellsOf
  <2>6. Total(Count(<<b>>)) = b.n /\ Total(Room(<<b>>)) = b.alloc
    BY <2>2, <2>4, <2>5, Zenon
  <2>7. Bytes(<<b>>) = Total(Count(<<b>>)) /\ Alloc(<<b>>) = Total(Room(<<b>>))
    BY <2>1, Counted, Zenon
  <2> QED BY <2>6, <2>7, Zenon
<1> QED BY <1>1, <1>2

(* Every block is within the sum, which is 0 only if they all are.         *)
LEMMA BytesZero ==
  ASSUME NEW s \in Seq(Block)
  PROVE  /\ \A i \in 1..Len(s) : s[i].n <= Bytes(s) /\ s[i].alloc <= Alloc(s)
         /\ (\A i \in 1..Len(s) : s[i].n = 0) <=> Bytes(s) = 0
         /\ (\A i \in 1..Len(s) : s[i].alloc = 0) <=> Alloc(s) = 0
<1>1. /\ Bytes(s) = Total(Count(s)) /\ Alloc(s) = Total(Room(s))
      /\ Count(s) \in [1..Len(s) -> Nat] /\ Room(s) \in [1..Len(s) -> Nat]
      /\ IsFiniteSet(1..Len(s))
  BY Counted
<1>2. \A i \in 1..Len(s) : Count(s)[i] = s[i].n /\ Room(s)[i] = s[i].alloc
  BY DEF Count, Room
<1>3. \A i \in 1..Len(s) : Count(s)[i] <= Total(Count(s)) /\ Room(s)[i] <= Total(Room(s))
  BY <1>1, TotalTerm
<1>4. /\ (\A i \in 1..Len(s) : Count(s)[i] = 0) <=> Total(Count(s)) = 0
      /\ (\A i \in 1..Len(s) : Room(s)[i] = 0) <=> Total(Room(s)) = 0
  BY <1>1, TotalZero
<1> QED BY <1>1, <1>2, <1>3, <1>4

(* A sequence cut in two.                                                  *)
LEMMA Cut ==
  ASSUME NEW s \in Seq(Block), NEW k \in 0..Len(s)
  PROVE  LET a == SubSeq(s, 1, k)
             c == SubSeq(s, k + 1, Len(s))
         IN  /\ a \in Seq(Block) /\ Len(a) = k
             /\ \A i \in 1..k : a[i] = s[i]
             /\ c \in Seq(Block) /\ Len(c) = Len(s) - k
             /\ \A i \in 1..Len(s) - k : c[i] = s[k + i]
             /\ s = a \o c
             /\ Bytes(s) = Bytes(a) + Bytes(c)
             /\ Alloc(s) = Alloc(a) + Alloc(c)
             /\ Len(s) \in Nat
             /\ c = <<>> <=> k = Len(s)
             /\ a = <<>> <=> k = 0
<1> DEFINE a == SubSeq(s, 1, k)
           c == SubSeq(s, k + 1, Len(s))
<1>1. Len(s) \in Nat /\ k \in Int /\ k + 1 \in Int
      /\ \A i \in 1..Len(s) : s[i] \in Block
  BY LenProperties, ElementOfSeq
<1>2. a \in Seq(Block) /\ Len(a) = k /\ \A i \in 1..k : a[i] = s[i]
  <2>1. /\ a \in Seq(Block) /\ Len(a) = (IF 1 <= k THEN k - 1 + 1 ELSE 0)
        /\ \A i \in 1..k - 1 + 1 : a[i] = s[1 + i - 1]
    BY <1>1, SubSeqProperties
  <2> QED BY <1>1, <2>1
<1>3. c \in Seq(Block) /\ Len(c) = Len(s) - k /\ \A i \in 1..Len(s) - k : c[i] = s[k + i]
  <2>1. /\ c \in Seq(Block) /\ Len(c) = (IF k + 1 <= Len(s) THEN Len(s) - (k + 1) + 1 ELSE 0)
        /\ \A i \in 1..Len(s) - (k + 1) + 1 : c[i] = s[k + 1 + i - 1]
    BY <1>1, SubSeqProperties
  <2> QED BY <1>1, <2>1
<1> HIDE DEF a, c
<1>4. s = a \o c
  <2>1. /\ a \o c \in Seq(Block) /\ Len(a \o c) = Len(a) + Len(c)
        /\ \A i \in 1..Len(a) + Len(c) : (a \o c)[i] = IF i <= Len(a) THEN a[i] ELSE c[i - Len(a)]
    BY <1>2, <1>3, ConcatProperties
  <2>2. \A i \in 1..Len(s) : s[i] = (a \o c)[i]
    BY <1>1, <1>2, <1>3, <2>1
  <2>3. Len(s) = Len(a \o c)
    BY <1>1, <1>2, <1>3, <2>1
  <2> QED BY <2>1, <2>2, <2>3, SeqEqual
<1>5. Bytes(s) = Bytes(a) + Bytes(c) /\ Alloc(s) = Alloc(a) + Alloc(c)
  BY <1>2, <1>3, <1>4, BytesConcat
<1>6. (c = <<>> <=> k = Len(s)) /\ (a = <<>> <=> k = 0)
  <2>1. Len(<<>>) = 0 /\ (a # <<>> => Len(a) \in Nat \ {0}) /\ (c # <<>> => Len(c) \in Nat \ {0})
    BY <1>2, <1>3, EmptySeq
  <2>2. a = <<>> <=> k = 0
    BY <1>2, <2>1
  <2>3. c = <<>> <=> Len(c) = 0
    BY <2>1
  <2> QED BY <1>1, <1>3, <2>2, <2>3
<1> QED BY <1>1, <1>2, <1>3, <1>4, <1>5, <1>6 DEF a, c

-----------------------------------------------------------------------------
(* Who is where, who holds which lock, who still has to wake whom.         *)

Reads  == {"rqlock", "rwait", "rsleep", "rblock", "copy", "rdone"}
Writes == {"wqlock", "wput", "wcheck", "wflow", "wsleep", "wblock", "wnext"}
Pieces == {"iwrite", "iwoken"}
RHolds == {"rwait", "rsleep", "rblock", "copy", "rdone"}
WHolds == {"wput", "wcheck", "wflow", "wsleep", "wblock"}

(* The part of TypeOK that has nothing to do with blocks.                  *)
Shapes ==
  /\ use \in Uses
  /\ starve \in BOOLEAN /\ flow \in BOOLEAN /\ closed \in BOOLEAN
  /\ msg \in BOOLEAN /\ noblock \in BOOLEAN /\ lost \in BOOLEAN
  /\ rlock \in Reader \cup {Nil} /\ rr \in Reader \cup {Nil}
  /\ wlock \in Writer \cup {Nil} /\ wr \in Writer \cup {Nil}
  /\ pc \in [Actor -> PC]
  /\ op \in [Reader -> {"qread", "qbread"}]
  /\ arg \in [Actor -> Nat]
  /\ wake \in [Actor -> Seq({"rr", "wr"})]
  /\ writes \in 0..use.puts

(* Each part of the machine is entered only by those the use allows there. *)
Roles == \A a \in Actor :
  /\ pc[a] \in Reads => a \in use.reader
  /\ pc[a] \in Writes => a \in use.writer
  /\ pc[a] \in Pieces => a \in Dev /\ "qiwrite" \in use.ops

(* Between taking and releasing a QLock its holder is the one process      *)
(* there, and only it can be posted in that side's Rendez.                 *)
Locks ==
  /\ \A a \in Actor : pc[a] \in RHolds <=> rlock = a
  /\ \A a \in Actor : pc[a] \in WHolds <=> wlock = a
  /\ rr # Nil => pc[rr] = "rblock"
  /\ wr # Nil => pc[wr] = "wblock"

(* A process with a Wakeup to do is at the place it left q->l for.         *)
Wakes == \A a \in Actor : wake[a] # <<>> => a \in Dev \/ pc[a] \in {"wcheck", "rdone"}

(* What a call was given, or has left to do.                               *)
Within(x, S) == \E m \in S : x <= m
Args == \A a \in Actor :
  /\ pc[a] \in Reads => arg[a] \in use.rlen
  /\ pc[a] \in Writes => Within(arg[a], use.wlen)
  /\ pc[a] \in Pieces => /\ Within(arg[a], use.wlen)
                         /\ 0 \notin use.wlen => arg[a] > 0

Control == Shapes /\ Roles /\ Locks /\ Wakes /\ Args

(* What a use is made of.                                                  *)
LEMMA UseFacts ==
  ASSUME use \in Uses
  PROVE  /\ use.reader \subseteq Reader /\ use.writer \subseteq Writer
         /\ use.rlen \subseteq Nat /\ use.wlen \subseteq Nat
         /\ use.limit \in Nat \ {0, 1}
         /\ use.coalesce \in BOOLEAN /\ use.msg \in BOOLEAN /\ use.owned \in BOOLEAN
         /\ use.puts \in Nat /\ AsUsed(use)
<1>1. use \in Use
  BY UsesAssumption
<1>2. AsUsed(use)
  BY DisciplineAssumption
<1> QED BY <1>1, <1>2 DEF Use

(* The least of a length and Maxatomic is what the next block holds.       *)
LEMMA PieceFacts ==
  ASSUME NEW n \in Nat
  PROVE  /\ MinOf(n, Maxatomic) \in Nat /\ n - MinOf(n, Maxatomic) \in Nat
         /\ MinOf(n, Maxatomic) <= n /\ MinOf(n, Maxatomic) <= Maxatomic
         /\ n > 0 => MinOf(n, Maxatomic) > 0
         /\ n - MinOf(n, Maxatomic) <= n
BY MaxatomicAssumption DEF MinOf

(* The Wakeups a step can leave to be done.                                *)
LEMMA WakeSeqs ==
  /\ <<>> \in Seq({"rr", "wr"})
  /\ <<"rr">> \in Seq({"rr", "wr"})
  /\ <<"wr">> \in Seq({"rr", "wr"})
  /\ <<"rr", "wr">> \in Seq({"rr", "wr"})
OBVIOUS

LEMMA WakeShape ==
  ASSUME wake \in [Actor -> Seq({"rr", "wr"})], starve \in BOOLEAN, flow \in BOOLEAN,
         NEW p \in Actor
  PROVE  /\ StarveWake(p) => /\ starve' = FALSE
                             /\ wake' \in [Actor -> Seq({"rr", "wr"})]
         /\ \A mark : FlowWake(p, mark) => /\ flow' \in BOOLEAN
                                           /\ wake' \in [Actor -> Seq({"rr", "wr"})]
         /\ WakeBoth(p) => wake' \in [Actor -> Seq({"rr", "wr"})]
<1>1. StarveWake(p) => starve' = FALSE /\ wake' \in [Actor -> Seq({"rr", "wr"})]
  BY WakeSeqs DEF StarveWake
<1>2. ASSUME NEW mark, FlowWake(p, mark)
      PROVE  flow' \in BOOLEAN /\ wake' \in [Actor -> Seq({"rr", "wr"})]
  <2>1. wake' \in [Actor -> Seq({"rr", "wr"})]
    BY <1>2, WakeSeqs DEF FlowWake
  <2>2. flow' \in BOOLEAN
    BY <1>2, Zenon DEF FlowWake
  <2> QED BY <2>1, <2>2
<1>3. WakeBoth(p) => wake' \in [Actor -> Seq({"rr", "wr"})]
  BY WakeSeqs DEF WakeBoth
<1> QED BY <1>1, <1>2, <1>3

(* What qwrite's step to its next block does to what is left.              *)
LEMMA NextPieceFacts ==
  ASSUME arg \in [Actor -> Nat], NEW p \in Actor, NEW n \in Nat, NextPiece(p, n)
  PROVE  /\ arg' \in [Actor -> Nat]
         /\ arg'[p] = n - MinOf(n, Maxatomic) /\ arg'[p] <= n
         /\ \A a \in Actor \ {p} : arg'[a] = arg[a]
         /\ hand' = [hand EXCEPT ![p] = <<NewBlock(MinOf(n, Maxatomic), 0)>>]
         /\ live' = live + 1
BY PieceFacts DEF NextPiece, Hold

(* The bound on writes.                                                    *)
LEMMA CountFacts ==
  ASSUME use \in Uses, writes \in 0..use.puts, writes < use.puts
  PROVE  writes + 1 \in 0..use.puts
BY UseFacts

LEMMA ControlInit == Init => Control
<1> SUFFICES ASSUME Init PROVE Control
  OBVIOUS
<1>1. use \in Uses
  BY DEF Init
<1>2. Shapes
  <2>1. 0 \in 0..use.puts
    BY <1>1, UseFacts
  <2>2. wake \in [Actor -> Seq({"rr", "wr"})]
    BY WakeSeqs DEF Init
  <2>3. msg \in BOOLEAN
    BY <1>1, UseFacts DEF Init
  <2>4. pc \in [Actor -> PC] /\ op \in [Reader -> {"qread", "qbread"}] /\ arg \in [Actor -> Nat]
    BY DEF Init, PC
  <2> QED BY <1>1, <2>1, <2>2, <2>3, <2>4 DEF Init, Shapes
<1>3. Roles /\ Args /\ Wakes
  BY DEF Init, Roles, Args, Wakes, Reads, Writes, Pieces
<1>4. Locks
  BY ActorAssumption DEF Init, Locks, RHolds, WHolds
<1> QED BY <1>2, <1>3, <1>4 DEF Control

(* Every step keeps the shapes.                                            *)
LEMMA ShapesStep ==
  ASSUME Control, Next
  PROVE  Shapes'
<1> USE DEF Control, Shapes, PC, queue, flags, modes, locks, control, aux, Proc, Actor
<1>1. ASSUME NEW p \in Reader, CallRead(p) PROVE Shapes'
  BY <1>1, UseFacts, WakeSeqs, WakeShape DEF CallRead, Goto
<1>2. ASSUME NEW p \in Reader, RLock(p) PROVE Shapes'
  BY <1>2, UseFacts, WakeSeqs, WakeShape DEF RLock, Goto
<1>3. ASSUME NEW p \in Reader, ReadEof(p) PROVE Shapes'
  BY <1>3, UseFacts, WakeSeqs, WakeShape DEF ReadEof, Goto, RUnlock
<1>4. ASSUME NEW p \in Reader, ReadStarve(p) PROVE Shapes'
  BY <1>4, UseFacts, WakeSeqs, WakeShape DEF ReadStarve, Goto
<1>5. ASSUME NEW p \in Reader, ReadSleep(p) PROVE Shapes'
  <2>1. pc' \in [Actor -> PC]
    BY <1>5 DEF ReadSleep, Goto
  <2>2. rr' \in Reader \cup {Nil}
    BY <1>5 DEF ReadSleep
  <2> QED BY <1>5, <2>1, <2>2 DEF ReadSleep
<1>6. ASSUME NEW p \in Reader, ReadTake(p) PROVE Shapes'
  <2>1. pc' \in [Actor -> PC]
    BY <1>6 DEF ReadTake, Goto
  <2>2. UNCHANGED <<flags, locks, op, arg, wake, writes, lost>>
    BY <1>6 DEF ReadTake
  <2> QED BY <2>1, <2>2
<1>7. ASSUME NEW p \in Reader, ReadDone(p) PROVE Shapes'
  <2>1. pc' \in [Actor -> PC]
    BY <1>7 DEF ReadDone, Goto
  <2>2. FlowWake(p, Limit \div 2) /\ UNCHANGED <<starve, closed, modes, locks, op, arg, writes>>
    BY <1>7 DEF ReadDone
  <2>3. flow' \in BOOLEAN /\ wake' \in [Actor -> Seq({"rr", "wr"})]
    BY <2>2, WakeShape
  <2>4. lost' \in BOOLEAN
    BY <1>7 DEF ReadDone
  <2> QED BY <2>1, <2>2, <2>3, <2>4
<1>8. ASSUME NEW p \in Reader, BlockRead(p) PROVE Shapes'
  <2>1. pc' \in [Actor -> PC]
    BY <1>8 DEF BlockRead, Goto
  <2>2. FlowWake(p, Limit \div 2) /\ UNCHANGED <<starve, closed, modes, locks, op, arg, writes>>
    BY <1>8 DEF BlockRead
  <2>3. flow' \in BOOLEAN /\ wake' \in [Actor -> Seq({"rr", "wr"})]
    BY <2>2, WakeShape
  <2>4. lost' \in BOOLEAN
    BY <1>8 DEF BlockRead
  <2> QED BY <2>1, <2>2, <2>3, <2>4
<1>9. ASSUME NEW p \in Reader, ReadReturn(p) PROVE Shapes'
  BY <1>9, UseFacts, WakeSeqs, WakeShape DEF ReadReturn, Goto, Awake, RUnlock
<1>10. ASSUME NEW p \in Reader, ReadEintr(p) PROVE Shapes'
  BY <1>10, UseFacts, WakeSeqs, WakeShape DEF ReadEintr, Goto
<1>11. ASSUME NEW p \in Writer, CallWrite(p) PROVE Shapes'
  <2>1. PICK n \in use.wlen : NextPiece(p, n)
    BY <1>11 DEF CallWrite
  <2>2. arg' \in [Actor -> Nat]
    BY <2>1, UseFacts, NextPieceFacts
  <2>3. writes' \in 0..use.puts
    BY <1>11, CountFacts DEF CallWrite
  <2> QED BY <1>11, <2>2, <2>3 DEF CallWrite, Goto
<1>12. ASSUME NEW p \in Writer, WLock(p) PROVE Shapes'
  BY <1>12, UseFacts, WakeSeqs, WakeShape DEF WLock, Goto
<1>13. ASSUME NEW p \in Writer, WriteClosed(p) PROVE Shapes'
  BY <1>13, UseFacts, WakeSeqs, WakeShape DEF WriteClosed, Goto, WUnlock
<1>14. ASSUME NEW p \in Writer, WriteDropped(p) PROVE Shapes'
  BY <1>14, UseFacts, WakeSeqs, WakeShape DEF WriteDropped, Goto, WUnlock
<1>15. ASSUME NEW p \in Writer, WritePut(p) PROVE Shapes'
  BY <1>15, UseFacts, WakeSeqs, WakeShape DEF WritePut, Goto
<1>16. ASSUME NEW p \in Writer, WriteCheck(p) PROVE Shapes'
  BY <1>16, UseFacts, WakeSeqs, WakeShape DEF WriteCheck, Goto, Awake, WUnlock
<1>17. ASSUME NEW p \in Writer, WriteFlow(p) PROVE Shapes'
  BY <1>17, UseFacts, WakeSeqs, WakeShape DEF WriteFlow, Goto
<1>18. ASSUME NEW p \in Writer, WriteSleep(p) PROVE Shapes'
  <2>1. pc' \in [Actor -> PC]
    BY <1>18 DEF WriteSleep, Goto
  <2>2. wr' \in Writer \cup {Nil}
    BY <1>18 DEF WriteSleep
  <2> QED BY <1>18, <2>1, <2>2 DEF WriteSleep
<1>19. ASSUME NEW p \in Writer, WriteNext(p) PROVE Shapes'
  <2>1. pc' \in [Actor -> PC]
    BY <1>19 DEF WriteNext, Goto
  <2>2. arg' \in [Actor -> Nat]
    BY <1>19, NextPieceFacts DEF WriteNext
  <2> QED BY <1>19, <2>1, <2>2 DEF WriteNext
<1>20. ASSUME NEW p \in Writer, WriteEintr(p) PROVE Shapes'
  BY <1>20, UseFacts, WakeSeqs, WakeShape DEF WriteEintr, Goto
<1>21. ASSUME NEW d \in Dev, qproduce(d) PROVE Shapes'
  <2>1. flow' \in BOOLEAN
    BY <1>21, Zenon DEF qproduce
  <2>2. wake' \in [Actor -> Seq({"rr", "wr"})] /\ starve' \in BOOLEAN
    BY <1>21, WakeShape DEF qproduce, Put
  <2>3. writes' \in 0..use.puts
    BY <1>21, CountFacts DEF qproduce, CountWrite
  <2>4. UNCHANGED <<closed, modes, locks, control, got, lost>>
    BY <1>21 DEF qproduce
  <2> QED BY <2>1, <2>2, <2>3, <2>4
<1>22. ASSUME NEW d \in Dev, qpass(d) PROVE Shapes'
  <2>1. flow' \in BOOLEAN
    BY <1>22, Zenon DEF qpass
  <2>2. wake' \in [Actor -> Seq({"rr", "wr"})] /\ starve' \in BOOLEAN
    BY <1>22, WakeShape DEF qpass, Put
  <2>3. writes' \in 0..use.puts
    BY <1>22, CountFacts DEF qpass, CountWrite
  <2>4. UNCHANGED <<closed, modes, locks, control, got, lost>>
    BY <1>22 DEF qpass
  <2> QED BY <2>1, <2>2, <2>3, <2>4
<1>23. ASSUME NEW d \in Dev, CallIwrite(d) PROVE Shapes'
  <2>1. pc' \in [Actor -> PC]
    BY <1>23 DEF CallIwrite
  <2>2. PICK n \in use.wlen : arg' = [arg EXCEPT ![d] = n]
    BY <1>23 DEF CallIwrite
  <2>3. arg' \in [Actor -> Nat]
    BY <2>2, UseFacts
  <2>4. writes' \in 0..use.puts
    BY <1>23, CountFacts DEF CallIwrite, CountWrite
  <2>5. UNCHANGED <<flags, locks, op, wake, lost>>
    BY <1>23 DEF CallIwrite
  <2> QED BY <2>1, <2>3, <2>4, <2>5
<1>24. ASSUME NEW d \in Dev, Iwrite(d) PROVE Shapes'
  <2>1. pc' \in [Actor -> PC]
    BY <1>24 DEF Iwrite
  <2>2. arg' \in [Actor -> Nat]
    BY <1>24, PieceFacts DEF Iwrite
  <2>3. wake' \in [Actor -> Seq({"rr", "wr"})]
    BY <1>24, WakeSeqs DEF Iwrite
  <2>4. starve' = FALSE /\ UNCHANGED <<flow, closed, modes, locks, op, writes, lost>>
    BY <1>24 DEF Iwrite
  <2> QED BY <2>1, <2>2, <2>3, <2>4
<1>25. ASSUME NEW d \in Dev, qget(d) PROVE Shapes'
  <2>1. /\ starve' \in BOOLEAN
        /\ FlowWake(d, Limit \div 2) \/ UNCHANGED <<flow, wake>>
        /\ UNCHANGED <<closed, modes, locks, control, writes, lost>>
    BY <1>25 DEF qget
  <2>2. flow' \in BOOLEAN /\ wake' \in [Actor -> Seq({"rr", "wr"})]
    BY <2>1, WakeShape
  <2> QED BY <2>1, <2>2
<1>26. ASSUME NEW d \in Dev, qdiscard(d) PROVE Shapes'
  BY <1>26, UseFacts, WakeSeqs, WakeShape DEF qdiscard, Call, Awake
<1>27. ASSUME NEW d \in Dev, qconsume(d) PROVE Shapes'
  <2>1. /\ starve' \in BOOLEAN /\ lost' \in BOOLEAN
        /\ FlowWake(d, Limit \div 2) \/ UNCHANGED <<flow, wake>>
        /\ UNCHANGED <<closed, modes, locks, control, writes>>
    BY <1>27 DEF qconsume
  <2>2. flow' \in BOOLEAN /\ wake' \in [Actor -> Seq({"rr", "wr"})]
    BY <2>1, WakeShape
  <2> QED BY <2>1, <2>2
<1>28. ASSUME NEW d \in Dev, qflush(d) PROVE Shapes'
  BY <1>28, UseFacts, WakeSeqs, WakeShape DEF qflush, Call, Awake, Empty
<1>29. ASSUME NEW d \in Dev, qclose(d) PROVE Shapes'
  BY <1>29, UseFacts, WakeSeqs, WakeShape DEF qclose, Call, Awake, Empty
<1>30. ASSUME NEW d \in Dev, qhangup(d) PROVE Shapes'
  BY <1>30, UseFacts, WakeSeqs, WakeShape DEF qhangup, Call, Awake
<1>31. ASSUME NEW d \in Dev, qreopen(d) PROVE Shapes'
  BY <1>31, UseFacts, WakeSeqs, WakeShape DEF qreopen, Call, Awake
<1>32. ASSUME NEW d \in Dev, qnoblock(d) PROVE Shapes'
  BY <1>32, UseFacts, WakeSeqs, WakeShape DEF qnoblock, Call, Awake
<1>33. ASSUME NEW a \in Actor, Wakeup(a) PROVE Shapes'
  <2>1. wake[a] \in Seq({"rr", "wr"}) /\ wake[a] # <<>> /\ wake' = [wake EXCEPT ![a] = Tail(wake[a])]
    BY <1>33 DEF Wakeup
  <2>2. Tail(wake[a]) \in Seq({"rr", "wr"})
    BY <2>1
  <2>3. wake' \in [Actor -> Seq({"rr", "wr"})]
    BY <2>1, <2>2
  <2>4. rr' \in Reader \cup {Nil} /\ wr' \in Writer \cup {Nil}
    BY <1>33 DEF Wakeup
  <2>5. UNCHANGED <<flags, rlock, wlock, control, writes, lost>>
    BY <1>33 DEF Wakeup
  <2> QED BY <2>3, <2>4, <2>5
<1> QED BY <1>1, <1>2, <1>3, <1>4, <1>5, <1>6, <1>7, <1>8, <1>9, <1>10, <1>11, <1>12,
   <1>13, <1>14, <1>15, <1>16, <1>17, <1>18, <1>19, <1>20, <1>21, <1>22, <1>23, <1>24,
   <1>25, <1>26, <1>27, <1>28, <1>29, <1>30, <1>31, <1>32, <1>33 DEF Next, Reading,
   Writing, Device

(* Every step keeps everybody in his part.                                 *)
LEMMA RolesStep ==
  ASSUME Control, Next
  PROVE  Roles'
<1> USE DEF Control, Shapes, Roles, PC, Reads, Writes, Pieces, queue, flags, modes, locks,
   control, aux, Proc, Actor
<1>1. ASSUME NEW p \in Reader, CallRead(p) PROVE Roles'
  BY <1>1 DEF CallRead, Goto
<1>2. ASSUME NEW p \in Reader, RLock(p) PROVE Roles'
  BY <1>2 DEF RLock, Goto
<1>3. ASSUME NEW p \in Reader, ReadEof(p) PROVE Roles'
  BY <1>3 DEF ReadEof, Goto, Unqueue, RUnlock
<1>4. ASSUME NEW p \in Reader, ReadStarve(p) PROVE Roles'
  BY <1>4 DEF ReadStarve, Goto, Unqueue
<1>5. ASSUME NEW p \in Reader, ReadSleep(p) PROVE Roles'
  BY <1>5 DEF ReadSleep, Goto
<1>6. ASSUME NEW p \in Reader, ReadTake(p) PROVE Roles'
  BY <1>6 DEF ReadTake, Goto, Unqueue, Hold
<1>7. ASSUME NEW p \in Reader, ReadDone(p) PROVE Roles'
  BY <1>7 DEF ReadDone, Goto, Hold, Deliver, PutBack, FlowWake
<1>8. ASSUME NEW p \in Reader, BlockRead(p) PROVE Roles'
  BY <1>8 DEF BlockRead, Goto, Deliver, Unqueue, FlowWake
<1>9. ASSUME NEW p \in Reader, ReadReturn(p) PROVE Roles'
  BY <1>9 DEF ReadReturn, Goto, Awake, RUnlock
<1>10. ASSUME NEW p \in Reader, ReadEintr(p) PROVE Roles'
  BY <1>10 DEF ReadEintr, Goto
<1>11. ASSUME NEW p \in Writer, CallWrite(p) PROVE Roles'
  BY <1>11 DEF CallWrite, Goto, NextPiece, Hold
<1>12. ASSUME NEW p \in Writer, WLock(p) PROVE Roles'
  BY <1>12 DEF WLock, Goto
<1>13. ASSUME NEW p \in Writer, WriteClosed(p) PROVE Roles'
  BY <1>13 DEF WriteClosed, Goto, Hold, WUnlock
<1>14. ASSUME NEW p \in Writer, WriteDropped(p) PROVE Roles'
  BY <1>14 DEF WriteDropped, Goto, Hold, WUnlock
<1>15. ASSUME NEW p \in Writer, WritePut(p) PROVE Roles'
  BY <1>15 DEF WritePut, Goto, Enqueue, Hold, StarveWake
<1>16. ASSUME NEW p \in Writer, WriteCheck(p) PROVE Roles'
  BY <1>16 DEF WriteCheck, Goto, Awake, WUnlock
<1>17. ASSUME NEW p \in Writer, WriteFlow(p) PROVE Roles'
  BY <1>17 DEF WriteFlow, Goto
<1>18. ASSUME NEW p \in Writer, WriteSleep(p) PROVE Roles'
  BY <1>18 DEF WriteSleep, Goto
<1>19. ASSUME NEW p \in Writer, WriteNext(p) PROVE Roles'
  BY <1>19 DEF WriteNext, Goto, NextPiece, Hold
<1>20. ASSUME NEW p \in Writer, WriteEintr(p) PROVE Roles'
  BY <1>20 DEF WriteEintr, Goto
<1>21. ASSUME NEW d \in Dev, qproduce(d) PROVE Roles'
  BY <1>21 DEF qproduce, Call, Awake, CountWrite, Put, Enqueue, StarveWake
<1>22. ASSUME NEW d \in Dev, qpass(d) PROVE Roles'
  BY <1>22 DEF qpass, Call, Awake, CountWrite, Put, Enqueue, StarveWake
<1>23. ASSUME NEW d \in Dev, CallIwrite(d) PROVE Roles'
  BY <1>23 DEF CallIwrite, Call, Awake, CountWrite
<1>24. ASSUME NEW d \in Dev, Iwrite(d) PROVE Roles'
  BY <1>24 DEF Iwrite, Awake, Enqueue
<1>25. ASSUME NEW d \in Dev, qget(d) PROVE Roles'
  BY <1>25 DEF qget, Call, Awake, Unqueue, Deliver, FlowWake
<1>26. ASSUME NEW d \in Dev, qdiscard(d) PROVE Roles'
  BY <1>26 DEF qdiscard, Call, Awake, Deliver, FlowWake
<1>27. ASSUME NEW d \in Dev, qconsume(d) PROVE Roles'
  BY <1>27 DEF qconsume, Call, Awake, Unqueue, Deliver, FlowWake
<1>28. ASSUME NEW d \in Dev, qflush(d) PROVE Roles'
  BY <1>28 DEF qflush, Call, Awake, Empty
<1>29. ASSUME NEW d \in Dev, qclose(d) PROVE Roles'
  BY <1>29 DEF qclose, Call, Awake, Empty, WakeBoth
<1>30. ASSUME NEW d \in Dev, qhangup(d) PROVE Roles'
  BY <1>30 DEF qhangup, Call, Awake, WakeBoth
<1>31. ASSUME NEW d \in Dev, qreopen(d) PROVE Roles'
  BY <1>31 DEF qreopen, Call, Awake
<1>32. ASSUME NEW d \in Dev, qnoblock(d) PROVE Roles'
  BY <1>32 DEF qnoblock, Call, Awake
<1>33. ASSUME NEW a \in Actor, Wakeup(a) PROVE Roles'
  BY <1>33 DEF Wakeup
<1> QED BY <1>1, <1>2, <1>3, <1>4, <1>5, <1>6, <1>7, <1>8, <1>9, <1>10, <1>11, <1>12,
   <1>13, <1>14, <1>15, <1>16, <1>17, <1>18, <1>19, <1>20, <1>21, <1>22, <1>23, <1>24,
   <1>25, <1>26, <1>27, <1>28, <1>29, <1>30, <1>31, <1>32, <1>33 DEF Next, Reading,
   Writing, Device

(* Every step keeps the locks with those inside.                           *)
LEMMA LocksStep ==
  ASSUME Control, Next
  PROVE  Locks'
<1> USE DEF Control, Shapes, Locks, PC, RHolds, WHolds, queue, flags, modes, locks,
   control, aux, Proc, Actor
<1>1. ASSUME NEW p \in Reader, CallRead(p) PROVE Locks'
  BY <1>1, ActorAssumption DEF CallRead, Goto
<1>2. ASSUME NEW p \in Reader, RLock(p) PROVE Locks'
  BY <1>2, ActorAssumption DEF RLock, Goto
<1>3. ASSUME NEW p \in Reader, ReadEof(p) PROVE Locks'
  BY <1>3, ActorAssumption DEF ReadEof, Goto, Unqueue, RUnlock
<1>4. ASSUME NEW p \in Reader, ReadStarve(p) PROVE Locks'
  BY <1>4, ActorAssumption DEF ReadStarve, Goto, Unqueue
<1>5. ASSUME NEW p \in Reader, ReadSleep(p) PROVE Locks'
  BY <1>5, ActorAssumption DEF ReadSleep, Goto
<1>6. ASSUME NEW p \in Reader, ReadTake(p) PROVE Locks'
  BY <1>6, ActorAssumption DEF ReadTake, Goto, Unqueue, Hold
<1>7. ASSUME NEW p \in Reader, ReadDone(p) PROVE Locks'
  BY <1>7, ActorAssumption DEF ReadDone, Goto, Hold, Deliver, PutBack, FlowWake
<1>8. ASSUME NEW p \in Reader, BlockRead(p) PROVE Locks'
  BY <1>8, ActorAssumption DEF BlockRead, Goto, Deliver, Unqueue, FlowWake
<1>9. ASSUME NEW p \in Reader, ReadReturn(p) PROVE Locks'
  BY <1>9, ActorAssumption DEF ReadReturn, Goto, Awake, RUnlock
<1>10. ASSUME NEW p \in Reader, ReadEintr(p) PROVE Locks'
  <2>1. /\ pc[p] \in {"rsleep", "rblock"} /\ pc' = [pc EXCEPT ![p] = "idle"]
        /\ rlock' = Nil /\ wlock' = wlock /\ wr' = wr /\ rr' = IF rr = p THEN Nil ELSE rr
    BY <1>10 DEF ReadEintr, Goto
  <2>2. rlock = p /\ p \in Actor
    BY <2>1
  <2>3. \A a \in Actor : a # p => pc'[a] = pc[a] /\ pc[a] \notin RHolds /\ a # Nil
    BY <2>1, <2>2, ActorAssumption
  <2>4. \A a \in Actor : pc'[a] \in RHolds <=> rlock' = a
    BY <2>1, <2>2, <2>3, ActorAssumption
  <2>5. \A a \in Actor : pc'[a] \in WHolds <=> wlock' = a
    BY <2>1, <2>2, <2>3
  <2>6. rr' = Nil
    BY <2>1, <2>2, <2>3
  <2>7. wr' # Nil => pc'[wr'] = "wblock"
    BY <2>1, <2>3
  <2> QED BY <2>4, <2>5, <2>6, <2>7
<1>11. ASSUME NEW p \in Writer, CallWrite(p) PROVE Locks'
  BY <1>11, ActorAssumption DEF CallWrite, Goto, Hold
<1>12. ASSUME NEW p \in Writer, WLock(p) PROVE Locks'
  BY <1>12, ActorAssumption DEF WLock, Goto
<1>13. ASSUME NEW p \in Writer, WriteClosed(p) PROVE Locks'
  <2>1. /\ pc[p] = "wput" /\ pc' = [pc EXCEPT ![p] = "idle"]
        /\ wlock' = Nil /\ UNCHANGED <<rlock, rr, wr>>
    BY <1>13 DEF WriteClosed, Goto, WUnlock
  <2>2. wlock = p /\ p \in Actor
    BY <2>1
  <2>3. \A a \in Actor : a # p => pc'[a] = pc[a] /\ pc[a] \notin WHolds /\ a # Nil
    BY <2>1, <2>2, ActorAssumption
  <2>4. \A a \in Actor : pc'[a] \in WHolds <=> wlock' = a
    BY <2>1, <2>2, <2>3, ActorAssumption
  <2>5. \A a \in Actor : pc'[a] \in RHolds <=> rlock' = a
    BY <2>1, <2>2, <2>3
  <2>6. rr' # Nil => pc'[rr'] = "rblock"
    BY <2>1, <2>3
  <2>7. wr' # Nil => pc'[wr'] = "wblock"
    BY <2>1, <2>3
  <2> QED BY <2>4, <2>5, <2>6, <2>7
<1>14. ASSUME NEW p \in Writer, WriteDropped(p) PROVE Locks'
  BY <1>14, ActorAssumption DEF WriteDropped, Goto, Hold, WUnlock
<1>15. ASSUME NEW p \in Writer, WritePut(p) PROVE Locks'
  BY <1>15, ActorAssumption DEF WritePut, Goto, Enqueue, Hold, StarveWake
<1>16. ASSUME NEW p \in Writer, WriteCheck(p) PROVE Locks'
  BY <1>16, ActorAssumption DEF WriteCheck, Goto, Awake, WUnlock
<1>17. ASSUME NEW p \in Writer, WriteFlow(p) PROVE Locks'
  BY <1>17, ActorAssumption DEF WriteFlow, Goto
<1>18. ASSUME NEW p \in Writer, WriteSleep(p) PROVE Locks'
  BY <1>18, ActorAssumption DEF WriteSleep, Goto
<1>19. ASSUME NEW p \in Writer, WriteNext(p) PROVE Locks'
  BY <1>19, ActorAssumption DEF WriteNext, Goto, Hold
<1>20. ASSUME NEW p \in Writer, WriteEintr(p) PROVE Locks'
  <2>1. /\ pc[p] \in {"wsleep", "wblock"} /\ pc' = [pc EXCEPT ![p] = "idle"]
        /\ wlock' = Nil /\ rlock' = rlock /\ rr' = rr /\ wr' = IF wr = p THEN Nil ELSE wr
    BY <1>20 DEF WriteEintr, Goto
  <2>2. wlock = p /\ p \in Actor
    BY <2>1
  <2>3. \A a \in Actor : a # p => pc'[a] = pc[a] /\ pc[a] \notin WHolds /\ a # Nil
    BY <2>1, <2>2, ActorAssumption
  <2>4. \A a \in Actor : pc'[a] \in WHolds <=> wlock' = a
    BY <2>1, <2>2, <2>3, ActorAssumption
  <2>5. \A a \in Actor : pc'[a] \in RHolds <=> rlock' = a
    BY <2>1, <2>2, <2>3
  <2>6. wr' = Nil
    BY <2>1, <2>2, <2>3
  <2>7. rr' # Nil => pc'[rr'] = "rblock"
    BY <2>1, <2>3
  <2> QED BY <2>4, <2>5, <2>6, <2>7
<1>21. ASSUME NEW d \in Dev, qproduce(d) PROVE Locks'
  BY <1>21, ActorAssumption DEF qproduce, Call, Awake, CountWrite, Put, Enqueue, StarveWake
<1>22. ASSUME NEW d \in Dev, qpass(d) PROVE Locks'
  BY <1>22, ActorAssumption DEF qpass, Call, Awake, CountWrite, Put, Enqueue, StarveWake
<1>23. ASSUME NEW d \in Dev, CallIwrite(d) PROVE Locks'
  BY <1>23, ActorAssumption DEF CallIwrite, Call, Awake, CountWrite
<1>24. ASSUME NEW d \in Dev, Iwrite(d) PROVE Locks'
  BY <1>24, ActorAssumption DEF Iwrite, Awake, Enqueue
<1>25. ASSUME NEW d \in Dev, qget(d) PROVE Locks'
  BY <1>25, ActorAssumption DEF qget, Call, Awake, Unqueue, Deliver, FlowWake
<1>26. ASSUME NEW d \in Dev, qdiscard(d) PROVE Locks'
  BY <1>26, ActorAssumption DEF qdiscard, Call, Awake, Deliver, FlowWake
<1>27. ASSUME NEW d \in Dev, qconsume(d) PROVE Locks'
  BY <1>27, ActorAssumption DEF qconsume, Call, Awake, Unqueue, Deliver, FlowWake
<1>28. ASSUME NEW d \in Dev, qflush(d) PROVE Locks'
  BY <1>28, ActorAssumption DEF qflush, Call, Awake, Empty
<1>29. ASSUME NEW d \in Dev, qclose(d) PROVE Locks'
  BY <1>29, ActorAssumption DEF qclose, Call, Awake, Empty, WakeBoth
<1>30. ASSUME NEW d \in Dev, qhangup(d) PROVE Locks'
  BY <1>30, ActorAssumption DEF qhangup, Call, Awake, WakeBoth
<1>31. ASSUME NEW d \in Dev, qreopen(d) PROVE Locks'
  BY <1>31, ActorAssumption DEF qreopen, Call, Awake
<1>32. ASSUME NEW d \in Dev, qnoblock(d) PROVE Locks'
  BY <1>32, ActorAssumption DEF qnoblock, Call, Awake
<1>33. ASSUME NEW a \in Actor, Wakeup(a) PROVE Locks'
  BY <1>33, ActorAssumption DEF Wakeup
<1> QED BY <1>1, <1>2, <1>3, <1>4, <1>5, <1>6, <1>7, <1>8, <1>9, <1>10, <1>11, <1>12,
   <1>13, <1>14, <1>15, <1>16, <1>17, <1>18, <1>19, <1>20, <1>21, <1>22, <1>23, <1>24,
   <1>25, <1>26, <1>27, <1>28, <1>29, <1>30, <1>31, <1>32, <1>33 DEF Next, Reading,
   Writing, Device

(* Every step leaves pending Wakeups where they can be done.               *)
LEMMA WakesStep ==
  ASSUME Control, Next
  PROVE  Wakes'
<1> USE DEF Control, Shapes, Wakes, Roles, PC, Reads, Writes, Pieces, queue, flags, modes,
   locks, control, aux, Proc, Actor
<1>1. ASSUME NEW p \in Reader, CallRead(p) PROVE Wakes'
  BY <1>1, ActorAssumption DEF CallRead, Goto
<1>2. ASSUME NEW p \in Reader, RLock(p) PROVE Wakes'
  BY <1>2, ActorAssumption DEF RLock, Goto
<1>3. ASSUME NEW p \in Reader, ReadEof(p) PROVE Wakes'
  BY <1>3, ActorAssumption DEF ReadEof, Goto, Unqueue, RUnlock
<1>4. ASSUME NEW p \in Reader, ReadStarve(p) PROVE Wakes'
  BY <1>4, ActorAssumption DEF ReadStarve, Goto, Unqueue
<1>5. ASSUME NEW p \in Reader, ReadSleep(p) PROVE Wakes'
  BY <1>5, ActorAssumption DEF ReadSleep, Goto
<1>6. ASSUME NEW p \in Reader, ReadTake(p) PROVE Wakes'
  BY <1>6, ActorAssumption DEF ReadTake, Goto, Unqueue, Hold
<1>7. ASSUME NEW p \in Reader, ReadDone(p) PROVE Wakes'
  BY <1>7, ActorAssumption DEF ReadDone, Goto, Hold, Deliver, PutBack, FlowWake
<1>8. ASSUME NEW p \in Reader, BlockRead(p) PROVE Wakes'
  BY <1>8, ActorAssumption DEF BlockRead, Goto, Deliver, Unqueue, FlowWake
<1>9. ASSUME NEW p \in Reader, ReadReturn(p) PROVE Wakes'
  BY <1>9, ActorAssumption DEF ReadReturn, Goto, Awake, RUnlock
<1>10. ASSUME NEW p \in Reader, ReadEintr(p) PROVE Wakes'
  BY <1>10, ActorAssumption DEF ReadEintr, Goto
<1>11. ASSUME NEW p \in Writer, CallWrite(p) PROVE Wakes'
  BY <1>11, ActorAssumption DEF CallWrite, Goto, NextPiece, Hold
<1>12. ASSUME NEW p \in Writer, WLock(p) PROVE Wakes'
  BY <1>12, ActorAssumption DEF WLock, Goto
<1>13. ASSUME NEW p \in Writer, WriteClosed(p) PROVE Wakes'
  BY <1>13, ActorAssumption DEF WriteClosed, Goto, Hold, WUnlock
<1>14. ASSUME NEW p \in Writer, WriteDropped(p) PROVE Wakes'
  BY <1>14, ActorAssumption DEF WriteDropped, Goto, Hold, WUnlock
<1>15. ASSUME NEW p \in Writer, WritePut(p) PROVE Wakes'
  BY <1>15, ActorAssumption DEF WritePut, Goto, Enqueue, Hold, StarveWake
<1>16. ASSUME NEW p \in Writer, WriteCheck(p) PROVE Wakes'
  BY <1>16, ActorAssumption DEF WriteCheck, Goto, Awake, WUnlock
<1>17. ASSUME NEW p \in Writer, WriteFlow(p) PROVE Wakes'
  BY <1>17, ActorAssumption DEF WriteFlow, Goto
<1>18. ASSUME NEW p \in Writer, WriteSleep(p) PROVE Wakes'
  BY <1>18, ActorAssumption DEF WriteSleep, Goto
<1>19. ASSUME NEW p \in Writer, WriteNext(p) PROVE Wakes'
  BY <1>19, ActorAssumption DEF WriteNext, Goto, NextPiece, Hold
<1>20. ASSUME NEW p \in Writer, WriteEintr(p) PROVE Wakes'
  BY <1>20, ActorAssumption DEF WriteEintr, Goto
<1>21. ASSUME NEW d \in Dev, qproduce(d) PROVE Wakes'
  BY <1>21, ActorAssumption DEF qproduce, Call, Awake, CountWrite, Put, Enqueue, StarveWake
<1>22. ASSUME NEW d \in Dev, qpass(d) PROVE Wakes'
  BY <1>22, ActorAssumption DEF qpass, Call, Awake, CountWrite, Put, Enqueue, StarveWake
<1>23. ASSUME NEW d \in Dev, CallIwrite(d) PROVE Wakes'
  BY <1>23, ActorAssumption DEF CallIwrite, Call, Awake, CountWrite
<1>24. ASSUME NEW d \in Dev, Iwrite(d) PROVE Wakes'
  BY <1>24, ActorAssumption DEF Iwrite, Awake, Enqueue
<1>25. ASSUME NEW d \in Dev, qget(d) PROVE Wakes'
  BY <1>25, ActorAssumption DEF qget, Call, Awake, Unqueue, Deliver, FlowWake
<1>26. ASSUME NEW d \in Dev, qdiscard(d) PROVE Wakes'
  BY <1>26, ActorAssumption DEF qdiscard, Call, Awake, Deliver, FlowWake
<1>27. ASSUME NEW d \in Dev, qconsume(d) PROVE Wakes'
  BY <1>27, ActorAssumption DEF qconsume, Call, Awake, Unqueue, Deliver, FlowWake
<1>28. ASSUME NEW d \in Dev, qflush(d) PROVE Wakes'
  BY <1>28, ActorAssumption DEF qflush, Call, Awake, Empty
<1>29. ASSUME NEW d \in Dev, qclose(d) PROVE Wakes'
  BY <1>29, ActorAssumption DEF qclose, Call, Awake, Empty, WakeBoth
<1>30. ASSUME NEW d \in Dev, qhangup(d) PROVE Wakes'
  BY <1>30, ActorAssumption DEF qhangup, Call, Awake, WakeBoth
<1>31. ASSUME NEW d \in Dev, qreopen(d) PROVE Wakes'
  BY <1>31, ActorAssumption DEF qreopen, Call, Awake
<1>32. ASSUME NEW d \in Dev, qnoblock(d) PROVE Wakes'
  BY <1>32, ActorAssumption DEF qnoblock, Call, Awake
<1>33. ASSUME NEW a \in Actor, Wakeup(a) PROVE Wakes'
  BY <1>33, ActorAssumption DEF Wakeup
<1> QED BY <1>1, <1>2, <1>3, <1>4, <1>5, <1>6, <1>7, <1>8, <1>9, <1>10, <1>11, <1>12,
   <1>13, <1>14, <1>15, <1>16, <1>17, <1>18, <1>19, <1>20, <1>21, <1>22, <1>23, <1>24,
   <1>25, <1>26, <1>27, <1>28, <1>29, <1>30, <1>31, <1>32, <1>33 DEF Next, Reading,
   Writing, Device

(* Every step keeps what is left of a call within what it was given.       *)
LEMMA ArgsStep ==
  ASSUME Control, Next
  PROVE  Args'
<1> USE DEF Control, Shapes, Args, Roles, PC, Reads, Writes, Pieces, Within, queue, flags,
   modes, locks, control, aux, Proc, Actor
<1>1. ASSUME NEW p \in Reader, CallRead(p) PROVE Args'
  BY <1>1, UseFacts DEF CallRead, Goto
<1>2. ASSUME NEW p \in Reader, RLock(p) PROVE Args'
  BY <1>2, UseFacts DEF RLock, Goto
<1>3. ASSUME NEW p \in Reader, ReadEof(p) PROVE Args'
  BY <1>3, UseFacts DEF ReadEof, Goto, Unqueue, RUnlock
<1>4. ASSUME NEW p \in Reader, ReadStarve(p) PROVE Args'
  BY <1>4, UseFacts DEF ReadStarve, Goto, Unqueue
<1>5. ASSUME NEW p \in Reader, ReadSleep(p) PROVE Args'
  BY <1>5, UseFacts DEF ReadSleep, Goto
<1>6. ASSUME NEW p \in Reader, ReadTake(p) PROVE Args'
  BY <1>6, UseFacts DEF ReadTake, Goto, Unqueue, Hold
<1>7. ASSUME NEW p \in Reader, ReadDone(p) PROVE Args'
  BY <1>7, UseFacts DEF ReadDone, Goto, Hold, Deliver, PutBack, FlowWake
<1>8. ASSUME NEW p \in Reader, BlockRead(p) PROVE Args'
  BY <1>8, UseFacts DEF BlockRead, Goto, Deliver, Unqueue, FlowWake
<1>9. ASSUME NEW p \in Reader, ReadReturn(p) PROVE Args'
  BY <1>9, UseFacts DEF ReadReturn, Goto, Awake, RUnlock
<1>10. ASSUME NEW p \in Reader, ReadEintr(p) PROVE Args'
  BY <1>10, UseFacts DEF ReadEintr, Goto
<1>11. ASSUME NEW p \in Writer, CallWrite(p) PROVE Args'
  <2>1. PICK n \in use.wlen : NextPiece(p, n)
    BY <1>11 DEF CallWrite
  <2>2. n \in Nat
    BY UseFacts
  <2>3. /\ arg'[p] <= n
        /\ \A a \in Actor \ {p} : arg'[a] = arg[a]
    BY <2>1, <2>2, NextPieceFacts
  <2>4. pc' = [pc EXCEPT ![p] = "wqlock"] /\ use' = use
    BY <1>11 DEF CallWrite, Goto
  <2> QED BY <2>3, <2>4
<1>12. ASSUME NEW p \in Writer, WLock(p) PROVE Args'
  BY <1>12, UseFacts DEF WLock, Goto
<1>13. ASSUME NEW p \in Writer, WriteClosed(p) PROVE Args'
  BY <1>13, UseFacts DEF WriteClosed, Goto, Hold, WUnlock
<1>14. ASSUME NEW p \in Writer, WriteDropped(p) PROVE Args'
  BY <1>14, UseFacts DEF WriteDropped, Goto, Hold, WUnlock
<1>15. ASSUME NEW p \in Writer, WritePut(p) PROVE Args'
  BY <1>15, UseFacts DEF WritePut, Goto, Enqueue, Hold, StarveWake
<1>16. ASSUME NEW p \in Writer, WriteCheck(p) PROVE Args'
  BY <1>16, UseFacts DEF WriteCheck, Goto, Awake, WUnlock
<1>17. ASSUME NEW p \in Writer, WriteFlow(p) PROVE Args'
  BY <1>17, UseFacts DEF WriteFlow, Goto
<1>18. ASSUME NEW p \in Writer, WriteSleep(p) PROVE Args'
  BY <1>18, UseFacts DEF WriteSleep, Goto
<1>19. ASSUME NEW p \in Writer, WriteNext(p) PROVE Args'
  <2>1. CASE pc'[p] = "idle" /\ arg' = arg
    BY <1>19, <2>1 DEF WriteNext, Goto
  <2>2. CASE Goto(p, "wnext", "wqlock") /\ NextPiece(p, arg[p])
    <3>1. PICK m \in use.wlen : arg[p] <= m
      BY <2>2 DEF Goto
    <3>2. arg[p] \in Nat /\ m \in Nat
      BY UseFacts
    <3>3. /\ arg'[p] <= arg[p] /\ arg' \in [Actor -> Nat]
          /\ \A a \in Actor \ {p} : arg'[a] = arg[a]
      BY <2>2, <3>2, NextPieceFacts
    <3>4. arg'[p] <= m
      BY <3>1, <3>2, <3>3
    <3>5. pc' = [pc EXCEPT ![p] = "wqlock"] /\ use' = use
      BY <1>19, <2>2 DEF WriteNext, Goto
    <3> QED BY <3>3, <3>4, <3>5
  <2> QED BY <1>19, <2>1, <2>2 DEF WriteNext, Goto
<1>20. ASSUME NEW p \in Writer, WriteEintr(p) PROVE Args'
  BY <1>20, UseFacts DEF WriteEintr, Goto
<1>21. ASSUME NEW d \in Dev, qproduce(d) PROVE Args'
  BY <1>21, UseFacts DEF qproduce, Call, Awake, CountWrite, Put, Enqueue, StarveWake
<1>22. ASSUME NEW d \in Dev, qpass(d) PROVE Args'
  BY <1>22, UseFacts DEF qpass, Call, Awake, CountWrite, Put, Enqueue, StarveWake
<1>23. ASSUME NEW d \in Dev, CallIwrite(d) PROVE Args'
  BY <1>23, UseFacts DEF CallIwrite, Call, Awake, CountWrite
<1>24. ASSUME NEW d \in Dev, Iwrite(d) PROVE Args'
  <2>1. PICK m \in use.wlen : arg[d] <= m
    BY <1>24 DEF Iwrite
  <2>2. arg[d] \in Nat /\ d \in Actor /\ m \in Nat
    BY <2>1, UseFacts
  <2> DEFINE k == MinOf(arg[d], Maxatomic)
  <2>3. k \in Nat /\ k <= arg[d] /\ arg[d] - k \in Nat
    BY <2>2, PieceFacts
  <2> HIDE DEF k
  <2>4. /\ arg' = [arg EXCEPT ![d] = @ - k]
        /\ pc' = [pc EXCEPT ![d] = pc'[d]]
        /\ pc'[d] \in {"idle", "iwoken", "iwrite"}
        /\ arg[d] = k => pc'[d] = "idle"
        /\ use' = use
    BY <1>24 DEF Iwrite, k
  <2>5. arg[d] # k => arg[d] - k > 0 /\ arg[d] - k <= m
    BY <2>1, <2>2, <2>3
  <2> QED BY <2>1, <2>2, <2>3, <2>4, <2>5
<1>25. ASSUME NEW d \in Dev, qget(d) PROVE Args'
  BY <1>25, UseFacts DEF qget, Call, Awake, Unqueue, Deliver, FlowWake
<1>26. ASSUME NEW d \in Dev, qdiscard(d) PROVE Args'
  BY <1>26, UseFacts DEF qdiscard, Call, Awake, Deliver, FlowWake
<1>27. ASSUME NEW d \in Dev, qconsume(d) PROVE Args'
  BY <1>27, UseFacts DEF qconsume, Call, Awake, Unqueue, Deliver, FlowWake
<1>28. ASSUME NEW d \in Dev, qflush(d) PROVE Args'
  BY <1>28, UseFacts DEF qflush, Call, Awake, Empty
<1>29. ASSUME NEW d \in Dev, qclose(d) PROVE Args'
  BY <1>29, UseFacts DEF qclose, Call, Awake, Empty, WakeBoth
<1>30. ASSUME NEW d \in Dev, qhangup(d) PROVE Args'
  BY <1>30, UseFacts DEF qhangup, Call, Awake, WakeBoth
<1>31. ASSUME NEW d \in Dev, qreopen(d) PROVE Args'
  BY <1>31, UseFacts DEF qreopen, Call, Awake
<1>32. ASSUME NEW d \in Dev, qnoblock(d) PROVE Args'
  BY <1>32, UseFacts DEF qnoblock, Call, Awake
<1>33. ASSUME NEW a \in Actor, Wakeup(a) PROVE Args'
  BY <1>33, UseFacts DEF Wakeup
<1> QED BY <1>1, <1>2, <1>3, <1>4, <1>5, <1>6, <1>7, <1>8, <1>9, <1>10, <1>11, <1>12,
   <1>13, <1>14, <1>15, <1>16, <1>17, <1>18, <1>19, <1>20, <1>21, <1>22, <1>23, <1>24,
   <1>25, <1>26, <1>27, <1>28, <1>29, <1>30, <1>31, <1>32, <1>33 DEF Next, Reading,
   Writing, Device

-----------------------------------------------------------------------------
(* What the blocks are, on the queue and in hand, and that none is lost.   *)

(* The blocks a queue of this use can hold.                                *)
FitBlock == {b \in Block :
  /\ b.at > 0 /\ b.n <= b.alloc
  /\ b.n = 0 => b.alloc = 0
  /\ Within(b.n, use.wlen)
  /\ 0 \notin use.wlen => b.n > 0
  /\ use.ops \cap {"qproduce", "qpass", "qpassnolim"} = {} => b.alloc <= Maxatomic}

(* A writer holds the block it has not queued yet; a copying reader what   *)
(* it took, which is one block if it is more than the call asks for.       *)
Hands == \A p \in Proc :
  /\ pc[p] \in {"wqlock", "wput"} => Len(hand[p]) = 1
  /\ pc[p] = "copy" => hand[p] # <<>> /\ (Bytes(hand[p]) > arg[p] => Len(hand[p]) = 1)
  /\ pc[p] \notin {"wqlock", "wput", "copy"} => hand[p] = <<>>

(* qconsume leaks nothing where there is no empty block for it to find.    *)
Whole(u) == "qconsume" \in u.ops => 0 \notin u.wlen

Contents ==
  /\ q \in Seq(FitBlock) /\ hand \in [Proc -> Seq(FitBlock)]
  /\ len = Alloc(q) /\ dlen = Bytes(q)
  /\ sent \in Nat /\ got \in Nat
  /\ Hands

Balance == live \in Int /\ live >= Held /\ (Whole(use) => live = Held)

(* A sequence of some blocks is one of blocks, and so are its parts.       *)
LEMMA CutIn ==
  ASSUME NEW F, NEW s \in Seq(F), NEW k \in 0..Len(s), NEW m \in k..Len(s)
  PROVE  /\ SubSeq(s, 1, k) \in Seq(F) /\ SubSeq(s, k + 1, Len(s)) \in Seq(F)
         /\ SubSeq(s, k + 1, m) \in Seq(F) /\ Len(SubSeq(s, k + 1, m)) = m - k
         /\ \A i \in 1..m - k : SubSeq(s, k + 1, m)[i] = s[k + i]
<1>1. Len(s) \in Nat /\ k \in Int /\ m \in Int /\ \A i \in 1..Len(s) : s[i] \in F
  BY LenProperties, ElementOfSeq
<1>2. \A i \in 1..k : s[i] \in F
  BY <1>1
<1>3. \A i \in k + 1..Len(s) : s[i] \in F
  BY <1>1
<1>4. \A i \in k + 1..m : s[i] \in F
  BY <1>1
<1>5. SubSeq(s, 1, k) \in Seq(F)
  BY <1>1, <1>2, SubSeqProperties
<1>6. SubSeq(s, k + 1, Len(s)) \in Seq(F)
  BY <1>1, <1>3, SubSeqProperties
<1>7. k + 1 \in Int
  BY <1>1
<1>8. /\ SubSeq(s, k + 1, m) \in Seq(F)
      /\ Len(SubSeq(s, k + 1, m)) = IF k + 1 <= m THEN m - (k + 1) + 1 ELSE 0
      /\ \A i \in 1..m - (k + 1) + 1 : SubSeq(s, k + 1, m)[i] = s[k + 1 + i - 1]
  BY <1>1, <1>4, <1>7, SubSeqProperties
<1> QED BY <1>1, <1>5, <1>6, <1>8

LEMMA FitFacts ==
  /\ FitBlock \subseteq Block
  /\ Seq(FitBlock) \subseteq Seq(Block)
  /\ <<>> \in Seq(FitBlock)
  /\ \A b \in FitBlock : /\ <<b>> \in Seq(FitBlock)
                         /\ b.at \in Nat /\ b.n \in Nat /\ b.alloc \in Nat
<1>1. FitBlock \subseteq Block
  BY DEF FitBlock
<1>2. Seq(FitBlock) \subseteq Seq(Block)
  BY <1>1, SeqMonotonic
<1>3. ASSUME NEW b \in FitBlock
      PROVE  <<b>> \in Seq(FitBlock) /\ b.at \in Nat /\ b.n \in Nat /\ b.alloc \in Nat
  BY <1>1 DEF Block
<1> QED BY <1>1, <1>2, <1>3, EmptySeq

(* A new block fits, if its length is one the use allows.                  *)
LEMMA NewFits ==
  ASSUME NEW n \in Nat, NEW i \in Nat, Within(n, use.wlen), 0 \notin use.wlen => n > 0,
         use.ops \cap {"qproduce", "qpass", "qpassnolim"} = {} => n <= Maxatomic
  PROVE  /\ NewBlock(n, i) \in FitBlock
         /\ NewBlock(n, i).n = n /\ NewBlock(n, i).alloc = n /\ NewBlock(n, i).at = i + 1
BY DEF NewBlock, FitBlock, Block

(* So does what a partial read leaves of one, in its block or in a new one.*)
LEMMA RestFits ==
  ASSUME use \in Uses, NEW b \in FitBlock, NEW n \in Nat, n < b.n
  PROVE  /\ OtherBytes(b, n) \in FitBlock
         /\ [OtherBytes(b, n) EXCEPT !.alloc = b.n - n] \in FitBlock
         /\ OtherBytes(b, n).n = b.n - n /\ OtherBytes(b, n).alloc = b.alloc
         /\ OtherBytes(b, n).at = b.at + n
<1>1. b \in Block /\ b.at \in Nat /\ b.n \in Nat /\ b.alloc \in Nat
  BY FitFacts
<1>2. PICK m \in use.wlen : b.n <= m
  BY DEF FitBlock, Within
<1>3. m \in Nat
  BY UseFacts
<1>4. b.n - n \in Nat /\ b.n - n > 0 /\ b.n - n <= m /\ b.at + n \in Nat /\ b.at + n > 0
  BY <1>1, <1>2, <1>3 DEF FitBlock
<1>5. OtherBytes(b, n) = [at |-> b.at + n, n |-> b.n - n, alloc |-> b.alloc]
  <2>1. b = [at |-> b.at, n |-> b.n, alloc |-> b.alloc]
    BY <1>1 DEF Block
  <2>2. OtherBytes(b, n) = [[b EXCEPT !.at = b.at + n] EXCEPT !.n = b.n - n]
    BY <2>1 DEF OtherBytes
  <2> QED BY <2>1, <2>2
<1>6. [OtherBytes(b, n) EXCEPT !.alloc = b.n - n]
        = [at |-> b.at + n, n |-> b.n - n, alloc |-> b.n - n]
  BY <1>5
<1>7. Within(b.n - n, use.wlen)
  BY <1>4 DEF Within
<1>8. OtherBytes(b, n) \in FitBlock
  BY <1>1, <1>4, <1>5, <1>7 DEF FitBlock, Block
<1>9. [OtherBytes(b, n) EXCEPT !.alloc = b.n - n] \in FitBlock
  BY <1>1, <1>4, <1>6, <1>7, MaxatomicAssumption DEF FitBlock, Block
<1> QED BY <1>5, <1>8, <1>9

(* The empty blocks qread passes over.                                     *)
LEMMA SkipFacts ==
  ASSUME q \in Seq(FitBlock), NEW p
  PROVE  /\ Skipped(p) \in 0..Len(q)
         /\ \A i \in 1..Skipped(p) : q[i].n = 0 /\ q[i].alloc = 0
         /\ Skip(p) \in Seq(FitBlock) /\ Rest(p) \in Seq(FitBlock)
         /\ Len(Rest(p)) = Len(q) - Skipped(p)
         /\ \A i \in 1..Len(q) - Skipped(p) : Rest(p)[i] = q[Skipped(p) + i]
         /\ Bytes(Skip(p)) = 0 /\ Alloc(Skip(p)) = 0
         /\ Rest(p) = <<>> => Skipped(p) = Len(q) /\ Skip(p) = q
<1>1. Len(q) \in Nat /\ q \in Seq(Block) /\ \A i \in 1..Len(q) : q[i] \in FitBlock /\ q[i].n \in Nat
  BY FitFacts, LenProperties, ElementOfSeq
<1>2. Skipped(p) \in 0..Len(q) /\ \A i \in 1..Skipped(p) : q[i].n = 0
  <2>1. CASE ~(use.coalesce /\ op[p] = "qread")
    BY <1>1, <2>1 DEF Skipped
  <2>2. CASE use.coalesce /\ op[p] = "qread"
    <3> DEFINE T == {k \in 0..Len(q) : k = Len(q) \/ q[k + 1].n > 0}
               C(k) == /\ \A i \in 1..k : q[i].n = 0
                       /\ k = Len(q) \/ q[k + 1].n > 0
    <3>1. T \in SUBSET Nat /\ Len(q) \in T
      BY <1>1
    <3>2. PICK x \in T : \A y \in T : x <= y
      BY <3>1, Least
    <3>3. ASSUME NEW i \in 1..x PROVE q[i].n = 0
      <4>1. i - 1 \in 0..Len(q) /\ i - 1 < x /\ i - 1 + 1 = i /\ i \in 1..Len(q) /\ i - 1 # Len(q)
        BY <1>1, <3>1
      <4>2. i - 1 \notin T
        <5> HIDE DEF T
        <5>1. x \in Nat /\ i \in Nat
          BY <3>1
        <5> QED BY <3>2, <4>1, <5>1
      <4> QED BY <1>1, <4>1, <4>2
    <3>4. \E k \in 0..Len(q) : C(k)
      BY <3>3
    <3>5. Skipped(p) = CHOOSE k \in 0..Len(q) : C(k)
      BY <2>2 DEF Skipped
    <3>6. Skipped(p) \in 0..Len(q) /\ C(Skipped(p))
      BY <3>4, <3>5, Zenon
    <3> QED BY <3>6
  <2> QED BY <2>1, <2>2
<1>3. /\ Skip(p) \in Seq(Block) /\ Len(Skip(p)) = Skipped(p)
      /\ \A i \in 1..Skipped(p) : Skip(p)[i] = q[i]
      /\ Len(Rest(p)) = Len(q) - Skipped(p)
      /\ \A i \in 1..Len(q) - Skipped(p) : Rest(p)[i] = q[Skipped(p) + i]
      /\ Rest(p) = <<>> <=> Skipped(p) = Len(q)
  BY <1>1, <1>2, Cut DEF Skip, Rest
<1>4. Skipped(p) \in Skipped(p)..Len(q)
  BY <1>1, <1>2
<1>5. Skip(p) \in Seq(FitBlock) /\ Rest(p) \in Seq(FitBlock)
  BY <1>2, <1>4, CutIn DEF Skip, Rest
<1>6. \A i \in 1..Skipped(p) : i \in 1..Len(q)
  BY <1>1, <1>2
<1>7. \A i \in 1..Skipped(p) : q[i].alloc = 0
  BY <1>1, <1>2, <1>6 DEF FitBlock
<1>8. Bytes(Skip(p)) = 0 /\ Alloc(Skip(p)) = 0
  BY <1>2, <1>3, <1>7, BytesZero
<1>9. Skipped(p) = Len(q) => Skip(p) = q
  BY <1>1, SubSeqFull DEF Skip
<1> QED BY <1>2, <1>3, <1>5, <1>7, <1>8, <1>9

(* How much qread takes: more than the call asks for only if it is one     *)
(* block.                                                                  *)
LEMMA TakeFacts ==
  ASSUME NEW s \in Seq(Block), s # <<>>, NEW n \in Nat
  PROVE  /\ Take(s, n) \in 1..Len(s)
         /\ Bytes(SubSeq(s, 1, Take(s, n))) > n => Take(s, n) = 1
<1>1. Len(s) \in Nat \ {0}
  BY EmptySeq
<1>2. CASE ~use.coalesce
  BY <1>1, <1>2 DEF Take
<1>3. CASE use.coalesce
  <2> DEFINE fits(k) == k = 1 \/ Bytes(SubSeq(s, 1, k)) <= n
             C(k) == fits(k) /\ (k = Len(s) \/ ~fits(k + 1))
             T == {k \in 1..Len(s) : k = Len(s) \/ ~fits(k + 1)}
  <2>0. \A k \in 1..Len(s) : Bytes(SubSeq(s, 1, k)) \in Nat
    <3>1. ASSUME NEW k \in 1..Len(s) PROVE Bytes(SubSeq(s, 1, k)) \in Nat
      <4>1. k \in 0..Len(s)
        BY <1>1
      <4>2. SubSeq(s, 1, k) \in Seq(Block)
        BY <4>1, Cut
      <4> QED BY <4>2, Counted
    <3> QED BY <3>1
  <2> HIDE DEF fits
  <2>1. T \in SUBSET Nat /\ Len(s) \in T
    BY <1>1
  <2>2. PICK x \in T : \A y \in T : x <= y
    BY <2>1, Least
  <2>3. fits(x)
    <3>1. CASE x = 1
      BY <3>1 DEF fits
    <3>2. CASE x # 1
      <4>1. x - 1 \in 1..Len(s) /\ x - 1 < x /\ x - 1 + 1 = x
        BY <1>1, <2>1, <3>2
      <4>2. x - 1 \notin T
        <5> HIDE DEF T
        <5>1. x \in Nat
          BY <2>1
        <5> QED BY <2>2, <4>1, <5>1
      <4> QED BY <4>1, <4>2
    <3> QED BY <3>1, <3>2
  <2>4. \E k \in 1..Len(s) : C(k)
    BY <2>3
  <2>5. Take(s, n) = CHOOSE k \in 1..Len(s) : C(k)
    BY <1>3, Zenon DEF Take, fits
  <2> HIDE DEF C
  <2>6. Take(s, n) \in 1..Len(s) /\ C(Take(s, n))
    BY <2>4, <2>5, Zenon
  <2>7. fits(Take(s, n))
    BY <2>6 DEF C
  <2> QED BY <2>0, <2>6, <2>7 DEF fits
<1> QED BY <1>2, <1>3

(* A sequence cut in three.                                                *)
LEMMA Cut3 ==
  ASSUME NEW s \in Seq(Block), NEW k \in 0..Len(s), NEW m \in k..Len(s)
  PROVE  LET a == SubSeq(s, 1, k)
             b == SubSeq(s, k + 1, m)
             c == SubSeq(s, m + 1, Len(s))
         IN  /\ Bytes(s) = Bytes(a) + Bytes(b) + Bytes(c)
             /\ Alloc(s) = Alloc(a) + Alloc(b) + Alloc(c)
             /\ SubSeq(s, k + 1, Len(s)) = b \o c
             /\ SubSeq(SubSeq(s, k + 1, Len(s)), 1, m - k) = b
<1> DEFINE a == SubSeq(s, 1, k)
           b == SubSeq(s, k + 1, m)
           c == SubSeq(s, m + 1, Len(s))
           r == SubSeq(s, k + 1, Len(s))
<1>1. Len(s) \in Nat /\ k \in Nat /\ m \in Nat /\ m \in 0..Len(s) /\ m - k \in 0..Len(s) - k
  BY LenProperties
<1>2. /\ a \in Seq(Block) /\ r \in Seq(Block) /\ Len(r) = Len(s) - k
      /\ \A i \in 1..Len(s) - k : r[i] = s[k + i]
      /\ Bytes(s) = Bytes(a) + Bytes(r) /\ Alloc(s) = Alloc(a) + Alloc(r)
  BY Cut
<1>3. b \in Seq(Block) /\ Len(b) = m - k /\ \A i \in 1..m - k : b[i] = s[k + i]
  BY CutIn
<1>4. c \in Seq(Block) /\ Len(c) = Len(s) - m /\ \A i \in 1..Len(s) - m : c[i] = s[m + i]
  BY <1>1, Cut
<1> HIDE DEF a, b, c, r
<1>5. /\ b \o c \in Seq(Block) /\ Len(b \o c) = Len(b) + Len(c)
      /\ \A i \in 1..Len(b) + Len(c) : (b \o c)[i] = IF i <= Len(b) THEN b[i] ELSE c[i - Len(b)]
  BY <1>3, <1>4, ConcatProperties
<1>6. Len(r) = Len(b \o c)
  BY <1>1, <1>2, <1>3, <1>4, <1>5
<1>7. ASSUME NEW i \in 1..Len(r) PROVE r[i] = (b \o c)[i]
  <2>1. r[i] = s[k + i] /\ i \in 1..Len(b) + Len(c)
    BY <1>1, <1>2, <1>3, <1>4
  <2>2. CASE i <= Len(b)
    BY <1>1, <1>3, <1>5, <2>1, <2>2
  <2>3. CASE ~(i <= Len(b))
    <3>1. i - Len(b) \in 1..Len(s) - m /\ m + (i - Len(b)) = k + i
      BY <1>1, <1>2, <1>3, <2>3
    <3>2. c[i - Len(b)] = s[k + i]
      BY <1>4, <3>1
    <3> QED BY <1>5, <2>1, <2>3, <3>2
  <2> QED BY <2>2, <2>3
<1>8. r = b \o c
  BY <1>2, <1>5, <1>6, <1>7, SeqEqual
<1>9. Bytes(r) = Bytes(b) + Bytes(c) /\ Alloc(r) = Alloc(b) + Alloc(c)
  BY <1>3, <1>4, <1>8, BytesConcat
<1>10. SubSeq(r, 1, m - k) = b
  <2>1. /\ SubSeq(r, 1, m - k) \in Seq(Block) /\ Len(SubSeq(r, 1, m - k)) = m - k
        /\ \A i \in 1..m - k : SubSeq(r, 1, m - k)[i] = r[i]
    BY <1>1, <1>2, Cut
  <2>2. \A i \in 1..m - k : i \in 1..Len(s) - k
    BY <1>1
  <2> QED BY <1>2, <1>3, <2>1, <2>2, SeqEqual
<1>11. /\ Bytes(a) \in Nat /\ Bytes(b) \in Nat /\ Bytes(c) \in Nat
       /\ Alloc(a) \in Nat /\ Alloc(b) \in Nat /\ Alloc(c) \in Nat
  BY <1>2, <1>3, <1>4, Counted
<1>12. Bytes(s) = Bytes(a) + Bytes(b) + Bytes(c) /\ Alloc(s) = Alloc(a) + Alloc(b) + Alloc(c)
  BY <1>2, <1>9, <1>11
<1> QED BY <1>8, <1>10, <1>12 DEF a, b, c, r

(* A nonempty sequence is its first block and the rest.                    *)
LEMMA Parted ==
  ASSUME NEW F \in SUBSET Block, NEW s \in Seq(F), s # <<>>
  PROVE  /\ Head(s) = s[1] /\ s[1] \in F /\ Tail(s) \in Seq(F)
         /\ Len(s) \in Nat \ {0} /\ Len(Tail(s)) = Len(s) - 1
         /\ \A i \in 1..Len(s) - 1 : Tail(s)[i] = s[i + 1]
         /\ Tail(s) = SubSeq(s, 2, Len(s))
         /\ s = <<s[1]>> \o Tail(s)
         /\ Bytes(s) = s[1].n + Bytes(Tail(s))
         /\ Alloc(s) = s[1].alloc + Alloc(Tail(s))
<1>1. Len(s) \in Nat \ {0} /\ s \in Seq(Block)
  BY EmptySeq, SeqMonotonic
<1>2. s[1] \in F
  BY <1>1, ElementOfSeq
<1>3. /\ Head(s) = s[1] /\ Tail(s) \in Seq(F) /\ Len(Tail(s)) = Len(s) - 1
      /\ \A i \in 1..Len(s) - 1 : Tail(s)[i] = s[i + 1]
  BY <1>1, HeadTailProperties
<1>4. Tail(s) = SubSeq(s, 2, Len(s))
  BY TailIsSubSeq
<1>5. <<s[1]>> \in Seq(F) /\ Len(<<s[1]>>) = 1 /\ <<s[1]>>[1] = s[1]
  BY <1>2
<1>6. s = <<s[1]>> \o Tail(s)
  <2> DEFINE a == <<s[1]>>
             c == Tail(s)
  <2>1. a \in Seq(F) /\ c \in Seq(F) /\ Len(a) = 1 /\ Len(c) = Len(s) - 1 /\ a[1] = s[1]
        /\ \A i \in 1..Len(s) - 1 : c[i] = s[i + 1]
    BY <1>3, <1>5
  <2> HIDE DEF a, c
  <2>0. a \in Seq(F) /\ c \in Seq(F)
    BY <2>1
  <2>2. /\ a \o c \in Seq(F) /\ Len(a \o c) = Len(a) + Len(c)
        /\ \A i \in 1..Len(a) + Len(c) : (a \o c)[i] = IF i <= Len(a) THEN a[i] ELSE c[i - Len(a)]
    BY <2>0, ConcatProperties
  <2>3. ASSUME NEW i \in 1..Len(s) PROVE s[i] = (a \o c)[i]
    <3>1. CASE i = 1
      BY <1>1, <2>1, <2>2, <3>1
    <3>2. CASE i # 1
      <4>1. i - 1 \in 1..Len(s) - 1 /\ i - 1 + 1 = i /\ ~(i <= 1) /\ i \in 1..Len(a) + Len(c)
        BY <1>1, <2>1, <3>2
      <4>2. c[i - 1] = s[i]
        BY <2>1, <4>1
      <4> QED BY <2>1, <2>2, <4>1, <4>2
    <3> QED BY <3>1, <3>2
  <2>4. Len(s) = Len(a \o c)
    BY <1>1, <2>1, <2>2
  <2>5. s = a \o c
    BY <2>2, <2>3, <2>4, SeqEqual
  <2> QED BY <2>5 DEF a, c
<1>7. <<s[1]>> \in Seq(Block) /\ Tail(s) \in Seq(Block) /\ s[1] \in Block
  BY <1>2, <1>3, <1>5, SeqMonotonic
<1>8. Bytes(s) = Bytes(<<s[1]>>) + Bytes(Tail(s)) /\ Alloc(s) = Alloc(<<s[1]>>) + Alloc(Tail(s))
  BY <1>6, <1>7, BytesConcat
<1> QED BY <1>1, <1>2, <1>3, <1>4, <1>6, <1>7, <1>8, BytesFew

(* A block put in front.                                                   *)
LEMMA Fronted ==
  ASSUME NEW F \in SUBSET Block, NEW s \in Seq(F), NEW b \in F
  PROVE  /\ <<b>> \o s \in Seq(F) /\ Len(<<b>> \o s) = Len(s) + 1
         /\ (<<b>> \o s)[1] = b
         /\ \A i \in 1..Len(s) : (<<b>> \o s)[i + 1] = s[i]
         /\ Bytes(<<b>> \o s) = b.n + Bytes(s)
         /\ Alloc(<<b>> \o s) = b.alloc + Alloc(s)
         /\ <<b>> \o s # <<>>
<1> DEFINE a == <<b>>
<1>1. a \in Seq(F) /\ Len(a) = 1 /\ a[1] = b /\ Len(s) \in Nat
  BY LenProperties
<1>2. /\ s \in Seq(Block) /\ a \in Seq(Block) /\ b \in Block
  BY <1>1, SeqMonotonic
<1>3. Bytes(a) = b.n /\ Alloc(a) = b.alloc
  BY <1>2, BytesFew
<1> HIDE DEF a
<1>4. /\ a \o s \in Seq(F) /\ Len(a \o s) = Len(a) + Len(s)
      /\ \A i \in 1..Len(a) + Len(s) : (a \o s)[i] = IF i <= Len(a) THEN a[i] ELSE s[i - Len(a)]
  BY <1>1, ConcatProperties
<1>5. Bytes(a \o s) = b.n + Bytes(s) /\ Alloc(a \o s) = b.alloc + Alloc(s)
  BY <1>2, <1>3, BytesConcat
<1>6. /\ a \o s \in Seq(F) /\ Len(a \o s) = Len(s) + 1
      /\ (a \o s)[1] = b
      /\ \A i \in 1..Len(s) : (a \o s)[i + 1] = s[i]
      /\ a \o s # <<>>
  <2>1. \A i \in 1..Len(s) : ~(i + 1 <= 1) /\ i + 1 - 1 = i /\ i + 1 \in 1..1 + Len(s)
    BY <1>1
  <2>2. 1 \in 1..1 + Len(s) /\ 1 + Len(s) # 0
    BY <1>1
  <2>3. a \o s # <<>>
    BY <1>1, <1>4, <2>2, EmptySeq
  <2> QED BY <1>1, <1>4, <2>1, <2>2, <2>3
<1> QED BY <1>5, <1>6 DEF a

(* Blocks put behind.                                                      *)
LEMMA Behind ==
  ASSUME NEW F \in SUBSET Block, NEW s \in Seq(F), NEW t \in Seq(F)
  PROVE  /\ s \o t \in Seq(F) /\ Len(s \o t) = Len(s) + Len(t)
         /\ \A i \in 1..Len(s) : (s \o t)[i] = s[i]
         /\ \A i \in 1..Len(t) : (s \o t)[Len(s) + i] = t[i]
         /\ \A i \in 1..Len(s) + Len(t) :
              (s \o t)[i] = IF i <= Len(s) THEN s[i] ELSE t[i - Len(s)]
         /\ Bytes(s \o t) = Bytes(s) + Bytes(t)
         /\ Alloc(s \o t) = Alloc(s) + Alloc(t)
         /\ s \o t = <<>> => s = <<>> /\ t = <<>>
<1>1. s \in Seq(Block) /\ t \in Seq(Block) /\ Len(s) \in Nat /\ Len(t) \in Nat
  BY SeqMonotonic, LenProperties
<1>2. /\ s \o t \in Seq(F) /\ Len(s \o t) = Len(s) + Len(t)
      /\ \A i \in 1..Len(s) + Len(t) : (s \o t)[i] = IF i <= Len(s) THEN s[i] ELSE t[i - Len(s)]
  BY ConcatProperties
<1>3. \A i \in 1..Len(s) : i \in 1..Len(s) + Len(t) /\ i <= Len(s)
  BY <1>1
<1>4. \A i \in 1..Len(t) : /\ Len(s) + i \in 1..Len(s) + Len(t) /\ ~(Len(s) + i <= Len(s))
                           /\ Len(s) + i - Len(s) = i
  BY <1>1
<1>5. Bytes(s \o t) = Bytes(s) + Bytes(t) /\ Alloc(s \o t) = Alloc(s) + Alloc(t)
  BY <1>1, BytesConcat
<1>6. s \o t = <<>> => s = <<>> /\ t = <<>>
  BY <1>1, ConcatEqualIffEmpty
<1> QED BY <1>2, <1>3, <1>4, <1>5, <1>6


-----------------------------------------------------------------------------
(* What each operation does to the blocks.                                 *)

(* A queue is used for one thing as long as it is open.                    *)
LEMMA UseKept ==
  ASSUME Next
  PROVE  use' = use
<1> USE DEF flags, modes, aux, queue
<1>1. ASSUME NEW p \in Reader, CallRead(p) PROVE use' = use
  BY <1>1 DEF CallRead
<1>2. ASSUME NEW p \in Reader, RLock(p) PROVE use' = use
  BY <1>2 DEF RLock
<1>3. ASSUME NEW p \in Reader, ReadEof(p) PROVE use' = use
  BY <1>3 DEF ReadEof
<1>4. ASSUME NEW p \in Reader, ReadStarve(p) PROVE use' = use
  BY <1>4 DEF ReadStarve
<1>5. ASSUME NEW p \in Reader, ReadSleep(p) PROVE use' = use
  BY <1>5 DEF ReadSleep
<1>6. ASSUME NEW p \in Reader, ReadTake(p) PROVE use' = use
  BY <1>6 DEF ReadTake
<1>7. ASSUME NEW p \in Reader, ReadDone(p) PROVE use' = use
  BY <1>7 DEF ReadDone
<1>8. ASSUME NEW p \in Reader, BlockRead(p) PROVE use' = use
  BY <1>8 DEF BlockRead
<1>9. ASSUME NEW p \in Reader, ReadReturn(p) PROVE use' = use
  BY <1>9 DEF ReadReturn
<1>10. ASSUME NEW p \in Reader, ReadEintr(p) PROVE use' = use
  BY <1>10 DEF ReadEintr
<1>11. ASSUME NEW p \in Writer, CallWrite(p) PROVE use' = use
  BY <1>11 DEF CallWrite
<1>12. ASSUME NEW p \in Writer, WLock(p) PROVE use' = use
  BY <1>12 DEF WLock
<1>13. ASSUME NEW p \in Writer, WriteClosed(p) PROVE use' = use
  BY <1>13 DEF WriteClosed
<1>14. ASSUME NEW p \in Writer, WriteDropped(p) PROVE use' = use
  BY <1>14 DEF WriteDropped
<1>15. ASSUME NEW p \in Writer, WritePut(p) PROVE use' = use
  BY <1>15 DEF WritePut
<1>16. ASSUME NEW p \in Writer, WriteCheck(p) PROVE use' = use
  BY <1>16 DEF WriteCheck
<1>17. ASSUME NEW p \in Writer, WriteFlow(p) PROVE use' = use
  BY <1>17 DEF WriteFlow
<1>18. ASSUME NEW p \in Writer, WriteSleep(p) PROVE use' = use
  BY <1>18 DEF WriteSleep
<1>19. ASSUME NEW p \in Writer, WriteNext(p) PROVE use' = use
  BY <1>19 DEF WriteNext
<1>20. ASSUME NEW p \in Writer, WriteEintr(p) PROVE use' = use
  BY <1>20 DEF WriteEintr
<1>21. ASSUME NEW d \in Dev, qproduce(d) PROVE use' = use
  BY <1>21 DEF qproduce
<1>22. ASSUME NEW d \in Dev, qpass(d) PROVE use' = use
  BY <1>22 DEF qpass
<1>23. ASSUME NEW d \in Dev, CallIwrite(d) PROVE use' = use
  BY <1>23 DEF CallIwrite
<1>24. ASSUME NEW d \in Dev, Iwrite(d) PROVE use' = use
  BY <1>24 DEF Iwrite
<1>25. ASSUME NEW d \in Dev, qget(d) PROVE use' = use
  BY <1>25 DEF qget
<1>26. ASSUME NEW d \in Dev, qdiscard(d) PROVE use' = use
  BY <1>26 DEF qdiscard
<1>27. ASSUME NEW d \in Dev, qconsume(d) PROVE use' = use
  BY <1>27 DEF qconsume
<1>28. ASSUME NEW d \in Dev, qflush(d) PROVE use' = use
  BY <1>28 DEF qflush, Empty
<1>29. ASSUME NEW d \in Dev, qclose(d) PROVE use' = use
  BY <1>29 DEF qclose, Empty
<1>30. ASSUME NEW d \in Dev, qhangup(d) PROVE use' = use
  BY <1>30 DEF qhangup
<1>31. ASSUME NEW d \in Dev, qreopen(d) PROVE use' = use
  BY <1>31 DEF qreopen
<1>32. ASSUME NEW d \in Dev, qnoblock(d) PROVE use' = use
  BY <1>32 DEF qnoblock
<1>33. ASSUME NEW a \in Actor, Wakeup(a) PROVE use' = use
  BY <1>33 DEF Wakeup
<1> QED BY <1>1, <1>2, <1>3, <1>4, <1>5, <1>6, <1>7, <1>8, <1>9, <1>10, <1>11, <1>12,
   <1>13, <1>14, <1>15, <1>16, <1>17, <1>18, <1>19, <1>20, <1>21, <1>22, <1>23, <1>24,
   <1>25, <1>26, <1>27, <1>28, <1>29, <1>30, <1>31, <1>32, <1>33 DEF Next, Reading,
   Writing, Device

LEMMA FitKept ==
  ASSUME use' = use
  PROVE  FitBlock' = FitBlock
BY DEF FitBlock, Within

(* The last byte delivered, of blocks and of the beginning of one.         *)
LEMMA DeliverAll ==
  ASSUME NEW s \in Seq(FitBlock), Deliver(s), got \in Nat
  PROVE  /\ got' \in Nat
         /\ Bytes(s) = 0 => got' = got
         /\ Bytes(s) # 0 => s # <<>> /\ got' = s[Len(s)].at + s[Len(s)].n - 1
<1>1. CASE Bytes(s) = 0
  BY <1>1 DEF Deliver
<1>2. CASE Bytes(s) # 0
  <2>1. s # <<>>
    BY <1>2, BytesFew
  <2>2. Len(s) \in 1..Len(s)
    BY <2>1, EmptySeq
  <2>3. s[Len(s)] \in FitBlock
    BY <2>2, ElementOfSeq
  <2>4. s[Len(s)].at \in Nat /\ s[Len(s)].n \in Nat /\ s[Len(s)].at > 0
    BY <2>3 DEF FitBlock, Block
  <2>5. got' = s[Len(s)].at + s[Len(s)].n - 1
    BY <1>2 DEF Deliver, Last
  <2> QED BY <1>2, <2>1, <2>4, <2>5
<1> QED BY <1>1, <1>2

LEMMA DeliverOne ==
  ASSUME NEW b \in FitBlock, NEW n \in Nat, Deliver(<<FirstBytes(b, n)>>), got \in Nat
  PROVE  got' \in Nat /\ got' = IF n = 0 THEN got ELSE b.at + n - 1
<1>1. b.at \in Nat /\ b.at > 0
  BY DEF FitBlock, Block
<1>2. FirstBytes(b, n) \in Block /\ FirstBytes(b, n).n = n /\ FirstBytes(b, n).at = b.at
  BY DEF FitBlock, Block, FirstBytes
<1>3. Bytes(<<FirstBytes(b, n)>>) = n
  BY <1>2, BytesFew
<1>4. Last(<<FirstBytes(b, n)>>) = FirstBytes(b, n)
  BY DEF Last
<1>5. got' = IF n = 0 THEN got ELSE FirstBytes(b, n).at + FirstBytes(b, n).n - 1
  BY <1>3, <1>4 DEF Deliver
<1> QED BY <1>1, <1>2, <1>5

(* Nothing but empty blocks, which go.                                     *)
LEMMA DropFacts ==
  ASSUME Contents, NEW p \in Reader, ReadEof(p) \/ ReadStarve(p)
  PROVE  /\ q' = <<>> /\ len = 0 /\ len' = 0 /\ dlen' = 0
         /\ \A i \in 1..Len(q) : q[i].n = 0
         /\ Bytes(q) = 0
         /\ live' = live - Len(q) /\ hand' = hand
<1>1. /\ Rest(p) = <<>> /\ q' = <<>> /\ hand' = hand /\ live' = live - Skipped(p)
      /\ len' = len - Alloc(Skip(p)) /\ dlen' = dlen - Bytes(Skip(p))
  BY DEF ReadEof, ReadStarve, Unqueue
<1>2. q \in Seq(FitBlock) /\ len = Alloc(q) /\ dlen = Bytes(q)
  BY DEF Contents
<1>3. /\ Skipped(p) = Len(q) /\ Skip(p) = q
      /\ \A i \in 1..Skipped(p) : q[i].n = 0 /\ q[i].alloc = 0
      /\ Bytes(q) = 0 /\ Alloc(q) = 0
  BY <1>1, <1>2, SkipFacts
<1> QED BY <1>1, <1>2, <1>3

(* The empty blocks at the front go; those after them are in hand.         *)
LEMMA TookFacts ==
  ASSUME Control, Contents, NEW p \in Reader, ReadTake(p)
  PROVE  \E k \in 0..Len(q) : \E m \in k + 1..Len(q) :
           /\ hand' = [hand EXCEPT ![p] = SubSeq(q, k + 1, m)]
           /\ SubSeq(q, k + 1, m) \in Seq(FitBlock) /\ Len(SubSeq(q, k + 1, m)) = m - k
           /\ SubSeq(q, k + 1, m) # <<>>
           /\ q' = SubSeq(q, m + 1, Len(q))
           /\ q' \in Seq(FitBlock) /\ Len(q') = Len(q) - m
           /\ \A i \in 1..k : q[i].n = 0
           /\ SubSeq(q, k + 1, Len(q)) = SubSeq(q, k + 1, m) \o q'
           /\ Bytes(q) = Bytes(SubSeq(q, k + 1, m)) + Bytes(q')
           /\ Alloc(q) = Alloc(SubSeq(q, k + 1, m)) + Alloc(q')
           /\ Bytes(SubSeq(q, k + 1, m)) > arg[p] => m = k + 1
           /\ len' = Alloc(q') /\ dlen' = Bytes(q')
           /\ live' = live - k
<1> DEFINE k == Skipped(p)
           m == k + Take(Rest(p), arg[p])
<1>1. q \in Seq(FitBlock) /\ q \in Seq(Block) /\ len = Alloc(q) /\ dlen = Bytes(q)
  BY FitFacts DEF Contents
<1>2. /\ Rest(p) # <<>> /\ q' = SubSeq(q, m + 1, Len(q))
      /\ len' = len - Alloc(SubSeq(q, 1, m)) /\ dlen' = dlen - Bytes(SubSeq(q, 1, m))
      /\ hand' = [hand EXCEPT ![p] = SubSeq(q, k + 1, m)]
      /\ live' = live - k
  BY DEF ReadTake, Unqueue, Hold
<1>3. /\ k \in 0..Len(q) /\ \A i \in 1..k : q[i].n = 0
      /\ Rest(p) \in Seq(FitBlock) /\ Len(Rest(p)) = Len(q) - k
      /\ Bytes(SubSeq(q, 1, k)) = 0 /\ Alloc(SubSeq(q, 1, k)) = 0
      /\ Rest(p) = SubSeq(q, k + 1, Len(q)) /\ Len(q) \in Nat
  BY <1>1, SkipFacts DEF Skip, Rest
<1>4. arg[p] \in Nat
  BY DEF Control, Shapes, Actor, Proc
<1>5. Rest(p) \in Seq(Block)
  BY <1>3, FitFacts
<1>6. /\ Take(Rest(p), arg[p]) \in 1..Len(Rest(p))
      /\ Bytes(SubSeq(Rest(p), 1, Take(Rest(p), arg[p]))) > arg[p] => Take(Rest(p), arg[p]) = 1
  BY <1>2, <1>4, <1>5, TakeFacts
<1> HIDE DEF k
<1>7. m \in k + 1..Len(q) /\ m \in k..Len(q) /\ m \in 0..Len(q) /\ m - k = Take(Rest(p), arg[p])
  BY <1>3, <1>6
<1> HIDE DEF m
<1>8. /\ Bytes(q) = Bytes(SubSeq(q, 1, k)) + Bytes(SubSeq(q, k + 1, m)) + Bytes(SubSeq(q, m + 1, Len(q)))
      /\ Alloc(q) = Alloc(SubSeq(q, 1, k)) + Alloc(SubSeq(q, k + 1, m)) + Alloc(SubSeq(q, m + 1, Len(q)))
      /\ SubSeq(q, k + 1, Len(q)) = SubSeq(q, k + 1, m) \o SubSeq(q, m + 1, Len(q))
      /\ SubSeq(SubSeq(q, k + 1, Len(q)), 1, m - k) = SubSeq(q, k + 1, m)
  BY <1>1, <1>3, <1>7, Cut3
<1>9. SubSeq(q, k + 1, m) \in Seq(FitBlock) /\ Len(SubSeq(q, k + 1, m)) = m - k
  BY <1>1, <1>3, <1>7, CutIn
<1>10. SubSeq(q, m + 1, Len(q)) \in Seq(FitBlock)
  BY <1>1, <1>7, CutIn
<1>11. /\ Len(SubSeq(q, m + 1, Len(q))) = Len(q) - m
       /\ Bytes(q) = Bytes(SubSeq(q, 1, m)) + Bytes(SubSeq(q, m + 1, Len(q)))
       /\ Alloc(q) = Alloc(SubSeq(q, 1, m)) + Alloc(SubSeq(q, m + 1, Len(q)))
       /\ SubSeq(q, 1, m) \in Seq(Block)
  BY <1>1, <1>7, Cut
<1>12. /\ Bytes(SubSeq(q, 1, m)) \in Nat /\ Alloc(SubSeq(q, 1, m)) \in Nat
       /\ Bytes(SubSeq(q, k + 1, m)) \in Nat /\ Alloc(SubSeq(q, k + 1, m)) \in Nat
       /\ Bytes(q') \in Nat /\ Alloc(q') \in Nat
  BY <1>2, <1>9, <1>10, <1>11, Counted, FitFacts
<1>13. len' = Alloc(q') /\ dlen' = Bytes(q')
  BY <1>1, <1>2, <1>11, <1>12
<1>14. Bytes(SubSeq(q, k + 1, m)) > arg[p] => m = k + 1
  <2>1. SubSeq(Rest(p), 1, Take(Rest(p), arg[p])) = SubSeq(q, k + 1, m)
    BY <1>3, <1>7, <1>8
  <2>2. Take(Rest(p), arg[p]) = 1 => m = k + 1
    BY <1>3, <1>7
  <2> QED BY <1>6, <2>1, <2>2
<1>15. SubSeq(q, k + 1, m) # <<>>
  <2>1. m - k # 0
    BY <1>3, <1>7
  <2> QED BY <1>9, <2>1, EmptySeq
<1>16. /\ Bytes(q) = Bytes(SubSeq(q, k + 1, m)) + Bytes(q')
       /\ Alloc(q) = Alloc(SubSeq(q, k + 1, m)) + Alloc(q')
  BY <1>2, <1>3, <1>8, <1>12
<1> QED BY <1>2, <1>3, <1>7, <1>8, <1>9, <1>10, <1>11, <1>13, <1>14, <1>15, <1>16

(* The reader is through with what it has in hand: all of it is delivered, *)
(* or it is one block, of which the rest is thrown away or put back.       *)
LEMMA DoneFacts ==
  ASSUME Control, Contents, NEW p \in Reader, ReadDone(p)
  PROVE  /\ hand' = [hand EXCEPT ![p] = <<>>] /\ hand[p] # <<>> /\ hand[p] \in Seq(FitBlock)
         /\ \/ /\ Bytes(hand[p]) <= arg[p] /\ Deliver(hand[p])
               /\ q' = q /\ len' = len /\ dlen' = dlen
               /\ lost' = lost /\ live' = live - Len(hand[p])
            \/ /\ Len(hand[p]) = 1 /\ hand[p][1] \in FitBlock /\ hand[p][1].n > arg[p]
               /\ hand[p] = <<hand[p][1]>>
               /\ Deliver(<<FirstBytes(hand[p][1], arg[p])>>)
               /\ q' = q /\ len' = len /\ dlen' = dlen
               /\ lost' = TRUE /\ live' = live - 1
            \/ /\ Len(hand[p]) = 1 /\ hand[p][1] \in FitBlock /\ hand[p][1].n > arg[p]
               /\ hand[p] = <<hand[p][1]>>
               /\ Deliver(<<FirstBytes(hand[p][1], arg[p])>>)
               /\ q' = <<OtherBytes(hand[p][1], arg[p])>> \o q
               /\ OtherBytes(hand[p][1], arg[p]) \in FitBlock
               /\ len' = len + hand[p][1].alloc
               /\ len' = Alloc(q') /\ dlen' = Bytes(q')
               /\ lost' = lost /\ live' = live
<1>1. /\ pc[p] = "copy" /\ p \in Proc /\ p \in Actor
      /\ hand' = [hand EXCEPT ![p] = <<>>]
      /\ \/ /\ Bytes(hand[p]) <= arg[p] /\ Deliver(hand[p])
            /\ q' = q /\ len' = len /\ dlen' = dlen
            /\ lost' = lost /\ live' = live - Len(hand[p])
         \/ /\ Bytes(hand[p]) > arg[p]
            /\ Deliver(<<FirstBytes(hand[p][1], arg[p])>>)
            /\ q' = q /\ len' = len /\ dlen' = dlen
            /\ lost' = TRUE /\ live' = live - 1
         \/ /\ Bytes(hand[p]) > arg[p]
            /\ Deliver(<<FirstBytes(hand[p][1], arg[p])>>)
            /\ PutBack(OtherBytes(hand[p][1], arg[p]))
            /\ lost' = lost /\ live' = live
  BY DEF ReadDone, Goto, Hold, Proc, Actor, queue
<1>2. /\ q \in Seq(FitBlock) /\ len = Alloc(q) /\ dlen = Bytes(q)
      /\ hand[p] \in Seq(FitBlock) /\ hand[p] # <<>>
      /\ Bytes(hand[p]) > arg[p] => Len(hand[p]) = 1
  BY <1>1 DEF Contents, Hands
<1>3. arg[p] \in Nat /\ use \in Uses
  BY <1>1 DEF Control, Shapes
<1>4. ASSUME Bytes(hand[p]) > arg[p]
      PROVE  Len(hand[p]) = 1 /\ hand[p][1] \in FitBlock /\ hand[p][1].n > arg[p] /\ hand[p] = <<hand[p][1]>>
  <2>1. Len(hand[p]) = 1
    BY <1>2, <1>4
  <2>2. hand[p][1] \in FitBlock
    BY <1>2, <2>1, ElementOfSeq
  <2>3. hand[p] = <<hand[p][1]>>
    BY <1>2, <2>1
  <2>4. Bytes(<<hand[p][1]>>) = hand[p][1].n
    BY <2>2, BytesFew, FitFacts
  <2> QED BY <1>4, <2>1, <2>2, <2>3, <2>4
<1>5. ASSUME Bytes(hand[p]) > arg[p], PutBack(OtherBytes(hand[p][1], arg[p]))
      PROVE  /\ q' = <<OtherBytes(hand[p][1], arg[p])>> \o q
             /\ OtherBytes(hand[p][1], arg[p]) \in FitBlock
             /\ len' = len + hand[p][1].alloc
             /\ len' = Alloc(q') /\ dlen' = Bytes(q')
  <2> DEFINE b == OtherBytes(hand[p][1], arg[p])
  <2>1. q' = <<b>> \o q /\ len' = len + b.alloc /\ dlen' = dlen + b.n
    BY <1>5 DEF PutBack
  <2>2. b \in FitBlock /\ b.alloc = hand[p][1].alloc
    BY <1>3, <1>4, <1>5, RestFits
  <2> HIDE DEF b
  <2>3. Bytes(<<b>> \o q) = b.n + Bytes(q) /\ Alloc(<<b>> \o q) = b.alloc + Alloc(q)
    BY <1>2, <2>2, Fronted, FitFacts
  <2>4. b.n \in Nat /\ b.alloc \in Nat /\ Bytes(q) \in Nat /\ Alloc(q) \in Nat
    BY <1>2, <2>2, Counted, FitFacts
  <2> QED BY <1>2, <2>1, <2>2, <2>3, <2>4 DEF b
<1> QED BY <1>1, <1>2, <1>4, <1>5

(* A block read whole is handed over, of another the rest is kept, in a    *)
(* block of its own, or thrown away.                                       *)
LEMMA BlockFacts ==
  ASSUME Control, Contents, NEW p \in Reader, BlockRead(p)
  PROVE  /\ q # <<>> /\ q[1] \in FitBlock /\ hand' = hand
         /\ q = <<q[1]>> \o Tail(q) /\ Tail(q) \in Seq(FitBlock)
         /\ len = q[1].alloc + Alloc(Tail(q))
         /\ len' = Alloc(q') /\ dlen' = Bytes(q')
         /\ \/ /\ q[1].n <= arg[p] /\ Deliver(<<q[1]>>)
               /\ q' = Tail(q) /\ lost' = lost /\ live' = live - 1
            \/ /\ q[1].n > arg[p] /\ Deliver(<<FirstBytes(q[1], arg[p])>>)
               /\ q' = Tail(q) /\ lost' = TRUE /\ live' = live - 1
            \/ /\ q[1].n > arg[p] /\ Deliver(<<FirstBytes(q[1], arg[p])>>)
               /\ [OtherBytes(q[1], arg[p]) EXCEPT !.alloc = q[1].n - arg[p]] \in FitBlock
               /\ q' = <<[OtherBytes(q[1], arg[p]) EXCEPT !.alloc = q[1].n - arg[p]]>> \o Tail(q)
               /\ lost' = lost /\ live' = live
<1> DEFINE b == Head(q)
           long == b.n > arg[p]
           back == [OtherBytes(b, arg[p]) EXCEPT !.alloc = b.n - arg[p]]
<1>1. /\ q # <<>> /\ hand' = hand
      /\ Deliver(<<IF long THEN FirstBytes(b, arg[p]) ELSE b>>)
      /\ \/ /\ long
            /\ q' = <<back>> \o Tail(q)
            /\ len' = len - b.alloc + back.alloc
            /\ dlen' = dlen - b.n + back.n
            /\ lost' = lost /\ live' = live
         \/ /\ Unqueue(<<b>>, Tail(q))
            /\ live' = live - 1
            /\ lost' = (lost \/ long)
  BY DEF BlockRead
<1>2. q \in Seq(FitBlock) /\ len = Alloc(q) /\ dlen = Bytes(q)
  BY DEF Contents
<1>3. /\ b = q[1] /\ b \in FitBlock /\ Tail(q) \in Seq(FitBlock)
      /\ q = <<q[1]>> \o Tail(q)
      /\ Bytes(q) = q[1].n + Bytes(Tail(q)) /\ Alloc(q) = q[1].alloc + Alloc(Tail(q))
  BY <1>1, <1>2, FitFacts, Parted
<1>4. arg[p] \in Nat /\ use \in Uses /\ lost \in BOOLEAN
  BY DEF Control, Shapes, Actor, Proc
<1>5. /\ b.n \in Nat /\ b.alloc \in Nat
      /\ Bytes(Tail(q)) \in Nat /\ Alloc(Tail(q)) \in Nat
      /\ Bytes(<<b>>) = b.n /\ Alloc(<<b>>) = b.alloc
  BY <1>3, Counted, BytesFew, FitFacts
<1>6. ASSUME Unqueue(<<b>>, Tail(q))
      PROVE  q' = Tail(q) /\ len' = Alloc(q') /\ dlen' = Bytes(q')
  BY <1>2, <1>3, <1>5, <1>6 DEF Unqueue
<1>7. ASSUME long,
             q' = <<back>> \o Tail(q),
             len' = len - b.alloc + back.alloc,
             dlen' = dlen - b.n + back.n
      PROVE  back \in FitBlock /\ len' = Alloc(q') /\ dlen' = Bytes(q')
  <2>1. back \in FitBlock
    BY <1>3, <1>4, <1>7, RestFits
  <2> HIDE DEF back, b
  <2>2. Bytes(<<back>> \o Tail(q)) = back.n + Bytes(Tail(q)) /\ Alloc(<<back>> \o Tail(q)) = back.alloc + Alloc(Tail(q))
    <3>1. FitBlock \in SUBSET Block /\ Tail(q) \in Seq(FitBlock)
      BY <1>3, FitFacts
    <3> QED BY <2>1, <3>1, Fronted
  <2>3. back.n \in Nat /\ back.alloc \in Nat
    BY <2>1, FitFacts
  <2> QED BY <1>2, <1>3, <1>5, <1>7, <2>1, <2>2, <2>3
<1>8. CASE /\ long
           /\ q' = <<back>> \o Tail(q)
           /\ len' = len - b.alloc + back.alloc
           /\ dlen' = dlen - b.n + back.n
           /\ lost' = lost /\ live' = live
  BY <1>1, <1>2, <1>3, <1>7, <1>8
<1>9. CASE Unqueue(<<b>>, Tail(q)) /\ live' = live - 1 /\ lost' = (lost \/ long)
  <2>1. CASE long
    BY <1>1, <1>2, <1>3, <1>4, <1>6, <1>9, <2>1
  <2>2. CASE ~long
    <3>1. q[1].n <= arg[p] /\ lost' = lost
      BY <1>3, <1>4, <1>5, <1>9, <2>2
    <3>2. Deliver(<<q[1]>>)
      BY <1>1, <1>3, <2>2
    <3> QED BY <1>1, <1>2, <1>3, <1>6, <1>9, <3>1, <3>2
  <2> QED BY <2>1, <2>2
<1> QED BY <1>1, <1>8, <1>9

(* Sequences of two.                                                       *)
LEMMA TwoSeq ==
  ASSUME NEW S, NEW a \in S, NEW b \in S
  PROVE  <<a>> \o <<b>> = <<a, b>> /\ <<a>> \o <<>> = <<a>>
<1>1. <<a>> \in Seq(S) /\ <<b>> \in Seq(S) /\ <<a, b>> \in Seq(S)
  OBVIOUS
<1>2. Len(<<a>>) = 1 /\ Len(<<b>>) = 1 /\ Len(<<a, b>>) = 2 /\ <<a>>[1] = a /\ <<b>>[1] = b
      /\ <<a, b>>[1] = a /\ <<a, b>>[2] = b
  OBVIOUS
<1>3. /\ <<a>> \o <<b>> \in Seq(S) /\ Len(<<a>> \o <<b>>) = 1 + 1
      /\ \A i \in 1..1 + 1 : (<<a>> \o <<b>>)[i] = IF i <= 1 THEN <<a>>[i] ELSE <<b>>[i - 1]
  BY <1>1, <1>2, ConcatProperties
<1>4. \A i \in 1..2 : i = 1 \/ i = 2
  OBVIOUS
<1>5. (<<a>> \o <<b>>)[1] = a /\ (<<a>> \o <<b>>)[2] = b
  <2>1. 1 \in 1..1 + 1 /\ 2 \in 1..1 + 1 /\ 1 <= 1 /\ ~(2 <= 1) /\ 2 - 1 = 1
    OBVIOUS
  <2> QED BY <1>2, <1>3, <2>1
<1>6. \A i \in 1..2 : (<<a>> \o <<b>>)[i] = <<a, b>>[i]
  BY <1>2, <1>4, <1>5
<1>7. <<a>> \o <<b>> = <<a, b>>
  <2> DEFINE x == <<a>> \o <<b>>
             y == <<a, b>>
  <2>1. x \in Seq(S) /\ y \in Seq(S) /\ Len(x) = Len(y) /\ Len(x) = 2
    BY <1>1, <1>2, <1>3
  <2>2. \A i \in 1..2 : x[i] = y[i]
    BY <1>6
  <2> HIDE DEF x, y
  <2>3. x = y
    BY <2>1, <2>2, SeqEqual
  <2> QED BY <2>3 DEF x, y
<1> QED BY <1>1, <1>7, ConcatEmptySeq

(* Chains of one block and of two.                                         *)
LEMMA ChainFew ==
  ASSUME NEW n \in Nat, NEW m \in Nat, sent \in Nat
  PROVE  /\ Chain(<<n>>) = <<NewBlock(n, sent)>> /\ Total(<<n>>) = n
         /\ Chain(<<n, m>>) = <<NewBlock(n, sent)>> \o <<NewBlock(m, sent + n)>>
         /\ Total(<<n, m>>) = n + m
         /\ <<n>> \o <<>> = <<n>> /\ <<n>> \o <<m>> = <<n, m>>
         /\ Len(<<n>>) = 1 /\ Len(<<n, m>>) = 2
<1>1. \A k \in Nat : Total(<<k>>) = k
  <2>1. ASSUME NEW k \in Nat PROVE Total(<<k>>) = k
    <3>1. Cells(<<k>>) = {1} \X (1..k)
      BY DEF Cells
    <3>2. Cardinality({1} \X (1..k)) = k
      BY CellsOf
    <3> QED BY <3>1, <3>2, Zenon DEF Total, Cells
  <2> QED BY <2>1
<1>2. <<n>> \in Seq(Nat) /\ <<m>> \in Seq(Nat) /\ <<n>> \o <<m>> = <<n, m>> /\ <<n>> \o <<>> = <<n>>
  <2>1. <<n>> \in Seq(Nat) /\ <<m>> \in Seq(Nat)
    OBVIOUS
  <2> QED BY <2>1, TwoSeq
<1>3. Total(<<n, m>>) = n + m
  <2>1. Total(<<n>> \o <<m>>) = Total(<<n>>) + Total(<<m>>)
    BY <1>2, TotalConcat
  <2> QED BY <1>1, <1>2, <2>1
<1>4. Total(<<>>) = 0
  <2>1. Total(<<>> \o <<>>) = Total(<<>>) + Total(<<>>) /\ Total(<<>>) \in Nat
    BY EmptySeq, TotalConcat
  <2>2. <<>> \o <<>> = <<>>
    OBVIOUS
  <2> QED BY <2>1, <2>2
<1>5. /\ SubSeq(<<n>>, 1, 0) = <<>> /\ SubSeq(<<n, m>>, 1, 0) = <<>>
      /\ SubSeq(<<n, m>>, 1, 1) = <<n>>
  <2>1. 1 \in Int /\ 0 \in Int /\ 0 < 1
    OBVIOUS
  <2>2. SubSeq(<<n>>, 1, 0) = <<>> /\ SubSeq(<<n, m>>, 1, 0) = <<>>
    BY <2>1, SubSeqEmpty
  <2>3. <<n, m>> \in Seq(Nat) /\ <<n>> \in Seq(Nat) /\ Len(<<n, m>>) = 2 /\ Len(<<n>>) = 1
        /\ <<n, m>>[1] = n /\ <<n>>[1] = n
    OBVIOUS
  <2>4. /\ SubSeq(<<n, m>>, 1, 1) \in Seq(Nat) /\ Len(SubSeq(<<n, m>>, 1, 1)) = 1
        /\ SubSeq(<<n, m>>, 1, 1)[1] = n
    <3>1. \A i \in 1..1 : i = 1
      OBVIOUS
    <3>2. \A i \in 1..1 : <<n, m>>[i] \in Nat
      BY <2>3, <3>1
    <3>3. /\ SubSeq(<<n, m>>, 1, 1) \in Seq(Nat)
          /\ Len(SubSeq(<<n, m>>, 1, 1)) = IF 1 <= 1 THEN 1 - 1 + 1 ELSE 0
          /\ \A i \in 1..1 - 1 + 1 : SubSeq(<<n, m>>, 1, 1)[i] = <<n, m>>[1 + i - 1]
      BY <2>1, <3>2, SubSeqProperties
    <3>4. 1 \in 1..1 - 1 + 1 /\ 1 + 1 - 1 = 1 /\ 1 - 1 + 1 = 1
      OBVIOUS
    <3> QED BY <2>3, <3>3, <3>4
  <2>5. \A i \in 1..1 : i = 1
    OBVIOUS
  <2>6. SubSeq(<<n, m>>, 1, 1) = <<n>>
    BY <2>3, <2>4, <2>5, SeqEqual
  <2> QED BY <2>2, <2>6
<1>6. Len(<<n>>) = 1 /\ Len(<<n, m>>) = 2 /\ <<n>>[1] = n /\ <<n, m>>[1] = n /\ <<n, m>>[2] = m
  OBVIOUS
<1>7. Chain(<<n>>) = <<NewBlock(n, sent)>>
  <2>1. Chain(<<n>>) = [i \in 1..1 |-> NewBlock(<<n>>[i], sent + Total(SubSeq(<<n>>, 1, i - 1)))]
    BY <1>6 DEF Chain
  <2>2. NewBlock(<<n>>[1], sent + Total(SubSeq(<<n>>, 1, 1 - 1))) = NewBlock(n, sent)
    <3>1. SubSeq(<<n>>, 1, 1 - 1) = <<>> /\ sent + 0 = sent
      BY <1>5
    <3> QED BY <1>4, <1>6, <3>1
  <2>3. \A i \in 1..1 : i = 1
    OBVIOUS
  <2>4. Chain(<<n>>) = [i \in 1..1 |-> NewBlock(n, sent)]
    BY <2>1, <2>2, <2>3
  <2>5. <<NewBlock(n, sent)>> = [i \in 1..1 |-> NewBlock(n, sent)]
    OBVIOUS
  <2> QED BY <2>4, <2>5
<1>8. Chain(<<n, m>>) = <<NewBlock(n, sent)>> \o <<NewBlock(m, sent + n)>>
  <2> DEFINE g(i) == NewBlock(<<n, m>>[i], sent + Total(SubSeq(<<n, m>>, 1, i - 1)))
  <2>1. Chain(<<n, m>>) = [i \in 1..2 |-> g(i)]
    BY <1>6 DEF Chain
  <2>2. g(1) = NewBlock(n, sent)
    <3>1. SubSeq(<<n, m>>, 1, 1 - 1) = <<>> /\ sent + 0 = sent
      BY <1>5
    <3> QED BY <1>4, <1>6, <3>1
  <2>3. g(2) = NewBlock(m, sent + n)
    <3>1. SubSeq(<<n, m>>, 1, 2 - 1) = <<n>>
      BY <1>5
    <3> QED BY <1>1, <1>6, <3>1
  <2> HIDE DEF g
  <2>4. <<g(1)>> \o <<g(2)>> = <<g(1), g(2)>>
    <3>1. g(1) \in {g(1), g(2)} /\ g(2) \in {g(1), g(2)}
      OBVIOUS
    <3> QED BY <3>1, TwoSeq
  <2>5. <<g(1), g(2)>> = [i \in 1..2 |-> g(i)]
    OBVIOUS
  <2> QED BY <2>1, <2>2, <2>3, <2>4, <2>5
<1> QED BY <1>1, <1>2, <1>3, <1>6, <1>7, <1>8

(* New blocks s, one or two, are put behind those on the queue.            *)
Fresh(s) ==
  \/ \E n \in Nat : s = <<NewBlock(n, sent)>> /\ sent' = sent + n
  \/ \E n, m \in Nat : /\ s = <<NewBlock(n, sent)>> \o <<NewBlock(m, sent + n)>>
                       /\ sent' = sent + n + m
Added(s) == /\ s \in Seq(FitBlock) /\ s # <<>> /\ Fresh(s)
            /\ q' = q \o s
            /\ len' = len + Alloc(s)
            /\ len' = Alloc(q') /\ dlen' = Bytes(q')

(* The lengths a block can be made with.                                   *)
Legal(n) == /\ n \in Nat /\ Within(n, use.wlen)
            /\ 0 \notin use.wlen => n > 0
            /\ use.ops \cap {"qproduce", "qpass", "qpassnolim"} = {} => n <= Maxatomic

LEMMA EnqueueFacts ==
  ASSUME Contents, NEW s \in Seq(FitBlock), Enqueue(s)
  PROVE  /\ q' = q \o s
         /\ len' = len + Alloc(s)
         /\ len' = Alloc(q') /\ dlen' = Bytes(q')
<1>1. q \in Seq(FitBlock) /\ len = Alloc(q) /\ dlen = Bytes(q)
  BY DEF Contents
<1>2. Bytes(q \o s) = Bytes(q) + Bytes(s) /\ Alloc(q \o s) = Alloc(q) + Alloc(s)
  BY <1>1, Behind, FitFacts
<1> QED BY <1>1, <1>2 DEF Enqueue

LEMMA AddedOne ==
  ASSUME Contents, NEW n, Legal(n), Enqueue(<<NewBlock(n, sent)>>), sent' = sent + n
  PROVE  Added(<<NewBlock(n, sent)>>) /\ sent' \in Nat /\ Len(<<NewBlock(n, sent)>>) = 1
<1>1. sent \in Nat /\ n \in Nat
  BY DEF Contents, Legal
<1>2. NewBlock(n, sent) \in FitBlock
  BY <1>1, NewFits DEF Legal
<1>3. <<NewBlock(n, sent)>> \in Seq(FitBlock) /\ <<NewBlock(n, sent)>> # <<>> /\ Len(<<NewBlock(n, sent)>>) = 1
  BY <1>2
<1>4. /\ q' = q \o <<NewBlock(n, sent)>>
      /\ len' = len + Alloc(<<NewBlock(n, sent)>>)
      /\ len' = Alloc(q') /\ dlen' = Bytes(q')
  BY <1>3, EnqueueFacts
<1>5. Fresh(<<NewBlock(n, sent)>>)
  BY <1>1 DEF Fresh
<1> QED BY <1>1, <1>3, <1>4, <1>5 DEF Added

LEMMA PutFacts ==
  ASSUME Contents, NEW d, NEW n, Legal(n), NEW ns,
         ns = <<>> \/ \E m : Legal(m) /\ ns = <<m>>,
         Put(d, <<n>> \o ns)
  PROVE  \E s : Added(s) /\ sent' \in Nat /\ live' = live + Len(s)
<1>1. sent \in Nat /\ n \in Nat
  BY DEF Contents, Legal
<1>2. CASE ns = <<>>
  <2>1. /\ Chain(<<n>>) = <<NewBlock(n, sent)>> /\ Total(<<n>>) = n
        /\ <<n>> \o ns = <<n>> /\ Len(<<n>>) = 1
    BY <1>1, <1>2, ChainFew
  <2>2. Enqueue(<<NewBlock(n, sent)>>) /\ sent' = sent + n /\ live' = live + 1
    BY <2>1 DEF Put
  <2>3. /\ Added(<<NewBlock(n, sent)>>) /\ sent' \in Nat
        /\ Len(<<NewBlock(n, sent)>>) = 1
    BY <2>2, AddedOne
  <2>4. live' = live + Len(<<NewBlock(n, sent)>>)
    BY <2>2, <2>3
  <2> QED BY <2>3, <2>4
<1>3. ASSUME NEW m, Legal(m), ns = <<m>>
      PROVE  \E s : Added(s) /\ sent' \in Nat /\ live' = live + Len(s)
  <2> DEFINE a == NewBlock(n, sent)
             b == NewBlock(m, sent + n)
             s == <<a>> \o <<b>>
  <2>1. m \in Nat /\ sent + n \in Nat
    BY <1>1, <1>3 DEF Legal
  <2>2. /\ Chain(<<n, m>>) = s /\ Total(<<n, m>>) = n + m
        /\ <<n>> \o ns = <<n, m>> /\ Len(<<n, m>>) = 2
    BY <1>1, <1>3, <2>1, ChainFew
  <2>3. Enqueue(s) /\ sent' = sent + (n + m) /\ live' = live + 2
    BY <2>2 DEF Put
  <2>4. a \in FitBlock
    BY <1>1, NewFits DEF Legal
  <2>5. b \in FitBlock
    BY <1>3, <2>1, NewFits DEF Legal
  <2>6. Fresh(s)
    <3>1. sent' = sent + n + m
      BY <1>1, <2>1, <2>3
    <3> QED BY <1>1, <2>1, <3>1 DEF Fresh
  <2> HIDE DEF a, b
  <2>7. s \in Seq(FitBlock) /\ s # <<>> /\ Len(s) = 2
    BY <2>4, <2>5
  <2> HIDE DEF s
  <2>8. /\ q' = q \o s
        /\ len' = len + Alloc(s)
        /\ len' = Alloc(q') /\ dlen' = Bytes(q')
    BY <2>3, <2>7, EnqueueFacts
  <2>9. Added(s) /\ sent' \in Nat /\ live' = live + Len(s)
    BY <1>1, <2>1, <2>3, <2>6, <2>7, <2>8 DEF Added
  <2> QED BY <2>9
<1> QED BY <1>2, <1>3

(* A writer queues the block it has in hand.                               *)
LEMMA WritePutFacts ==
  ASSUME Control, Contents, NEW p \in Writer, WritePut(p)
  PROVE  /\ Len(hand[p]) = 1 /\ hand' = [hand EXCEPT ![p] = <<>>]
         /\ Legal(hand[p][1].n) /\ hand[p][1].n <= hand[p][1].alloc /\ hand[p][1] \in FitBlock
         /\ Added(<<NewBlock(hand[p][1].n, sent)>>) /\ sent' \in Nat
         /\ sent' = sent + hand[p][1].n /\ live' = live
<1>1. /\ pc[p] = "wput" /\ p \in Proc /\ hand' = [hand EXCEPT ![p] = <<>>]
      /\ Enqueue(<<NewBlock(hand[p][1].n, sent)>>) /\ sent' = sent + hand[p][1].n
      /\ live' = live
  BY DEF WritePut, Goto, Hold, Proc
<1>2. Len(hand[p]) = 1 /\ hand[p] \in Seq(FitBlock)
  BY <1>1 DEF Contents, Hands
<1>3. hand[p][1] \in FitBlock
  BY <1>2, ElementOfSeq
<1>4. Legal(hand[p][1].n) /\ hand[p][1].n <= hand[p][1].alloc
  BY <1>3, FitFacts, MaxatomicAssumption DEF Legal, FitBlock
<1>5. Added(<<NewBlock(hand[p][1].n, sent)>>) /\ sent' \in Nat
  BY <1>1, <1>4, AddedOne
<1> QED BY <1>1, <1>2, <1>3, <1>4, <1>5

(* A producer finds the queue full or adds to it.                          *)
LEMMA ProduceFacts ==
  ASSUME Control, Contents, NEW d \in Dev, qproduce(d) \/ qpass(d)
  PROVE  /\ hand' = hand
         /\ \/ /\ q' = q /\ len' = len /\ dlen' = dlen /\ sent' = sent /\ live' = live
               /\ starve' = starve /\ wake' = wake
            \/ \E s : Added(s) /\ sent' \in Nat /\ live' = live + Len(s) /\ StarveWake(d)
<1>1. use \in Uses
  BY DEF Control, Shapes
<1>2. ASSUME use.ops \cap {"qproduce", "qpass", "qpassnolim"} # {}
      PROVE  \A n \in use.wlen : Legal(n)
  <2>1. use.wlen \subseteq Nat
    BY <1>1, UseFacts
  <2>2. ASSUME NEW n \in use.wlen PROVE Legal(n)
    <3>1. n \in Nat /\ (0 \notin use.wlen => n > 0) /\ Within(n, use.wlen)
      BY <2>1 DEF Within
    <3> QED BY <1>2, <3>1 DEF Legal
  <2> QED BY <2>2
<1>3. CASE qproduce(d)
  <2>1. hand' = hand /\ "qproduce" \in use.ops
    BY <1>3 DEF qproduce, control, Call
  <2>2. CASE UNCHANGED <<queue, starve, wake, writes, sent, live>>
    BY <2>1, <2>2 DEF queue
  <2>3. ASSUME NEW n \in use.wlen, Put(d, <<n>>)
        PROVE  \E s : Added(s) /\ sent' \in Nat /\ live' = live + Len(s) /\ StarveWake(d)
    <3>1. Legal(n) /\ n \in Nat
      BY <1>2, <2>1 DEF Legal
    <3>2. <<n>> \o <<>> = <<n>>
      BY <3>1
    <3>3. Put(d, <<n>> \o <<>>)
      BY <2>3, <3>2
    <3>4. StarveWake(d)
      BY <2>3 DEF Put
    <3> QED BY <3>1, <3>3, <3>4, PutFacts
  <2>4. \/ UNCHANGED <<queue, starve, wake, writes, sent, live>>
        \/ \E n \in use.wlen : Put(d, <<n>>)
    BY <1>3 DEF qproduce
  <2> QED BY <2>1, <2>2, <2>3, <2>4
<1>4. CASE qpass(d)
  <2>1. hand' = hand /\ use.ops \cap {"qproduce", "qpass", "qpassnolim"} # {}
    BY <1>4 DEF qpass, control, Call
  <2>2. PICK n \in use.wlen, ns \in {<<>>} \cup {<<m>> : m \in use.wlen} : Put(d, <<n>> \o ns)
    BY <1>4 DEF qpass
  <2>3. Legal(n)
    BY <1>2, <2>1
  <2>4. ns = <<>> \/ \E m : Legal(m) /\ ns = <<m>>
    BY <1>2, <2>1
  <2>6. StarveWake(d)
    BY <2>2 DEF Put
  <2>5. \E s : Added(s) /\ sent' \in Nat /\ live' = live + Len(s) /\ StarveWake(d)
    BY <2>2, <2>3, <2>4, <2>6, PutFacts
  <2> QED BY <2>1, <2>5
<1> QED BY <1>3, <1>4

(* qiwrite adds one more piece.                                            *)
LEMMA IwriteFacts ==
  ASSUME Control, Contents, NEW d \in Dev, Iwrite(d)
  PROVE  /\ hand' = hand /\ Legal(MinOf(arg[d], Maxatomic))
         /\ Added(<<NewBlock(MinOf(arg[d], Maxatomic), sent)>>)
         /\ sent' \in Nat /\ live' = live + 1
<1> DEFINE k == MinOf(arg[d], Maxatomic)
<1>1. /\ hand' = hand /\ pc[d] \in Pieces /\ d \in Actor
      /\ Enqueue(Chain(<<k>>)) /\ sent' = sent + k /\ live' = live + 1
  BY DEF Iwrite, Pieces, Actor
<1>2. arg[d] \in Nat /\ Within(arg[d], use.wlen) /\ (0 \notin use.wlen => arg[d] > 0)
  BY <1>1 DEF Control, Shapes, Args
<1>3. k \in Nat /\ k <= arg[d] /\ k <= Maxatomic /\ (arg[d] > 0 => k > 0)
  BY <1>2, PieceFacts
<1> HIDE DEF k
<1>4. PICK m \in use.wlen : arg[d] <= m
  BY <1>2 DEF Within
<1>5. m \in Nat
  BY UseFacts DEF Control, Shapes
<1>6. Within(k, use.wlen)
  <2>1. k <= m
    BY <1>2, <1>3, <1>4, <1>5
  <2> QED BY <2>1 DEF Within
<1>7. Legal(k)
  BY <1>2, <1>3, <1>6 DEF Legal
<1>8. Chain(<<k>>) = <<NewBlock(k, sent)>>
  BY <1>3, ChainFew DEF Contents
<1>9. Added(<<NewBlock(k, sent)>>) /\ sent' \in Nat
  BY <1>1, <1>7, <1>8, AddedOne
<1> QED BY <1>1, <1>7, <1>9 DEF k

(* A driver takes the first block, if there is one.                        *)
LEMMA GetFacts ==
  ASSUME Contents, NEW d \in Dev, qget(d)
  PROVE  /\ hand' = hand
         /\ \/ /\ q = <<>> /\ q' = q /\ len' = len /\ dlen' = dlen
               /\ got' = got /\ live' = live
            \/ /\ q # <<>> /\ q[1] \in FitBlock
               /\ q = <<q[1]>> \o Tail(q) /\ Tail(q) \in Seq(FitBlock)
               /\ Deliver(<<q[1]>>)
               /\ q' = Tail(q) /\ len' = Alloc(q') /\ dlen' = Bytes(q')
               /\ live' = live - 1
<1>1. hand' = hand
  BY DEF qget, control
<1>2. CASE q = <<>>
  BY <1>1, <1>2 DEF qget, queue
<1>3. CASE q # <<>>
  <2>1. Unqueue(<<Head(q)>>, Tail(q)) /\ Deliver(<<Head(q)>>) /\ live' = live - 1
    BY <1>3 DEF qget
  <2>2. q \in Seq(FitBlock) /\ len = Alloc(q) /\ dlen = Bytes(q)
    BY DEF Contents
  <2>3. /\ Head(q) = q[1] /\ q[1] \in FitBlock /\ Tail(q) \in Seq(FitBlock)
        /\ q = <<q[1]>> \o Tail(q)
        /\ Bytes(q) = q[1].n + Bytes(Tail(q)) /\ Alloc(q) = q[1].alloc + Alloc(Tail(q))
    BY <1>3, <2>2, FitFacts, Parted
  <2>4. /\ q[1].n \in Nat /\ q[1].alloc \in Nat
        /\ Bytes(Tail(q)) \in Nat /\ Alloc(Tail(q)) \in Nat
        /\ Bytes(<<q[1]>>) = q[1].n /\ Alloc(<<q[1]>>) = q[1].alloc
    BY <2>3, Counted, BytesFew, FitFacts
  <2>5. q' = Tail(q) /\ len' = len - q[1].alloc /\ dlen' = dlen - q[1].n
    BY <2>1, <2>3, <2>4 DEF Unqueue
  <2>6. len' = Alloc(q') /\ dlen' = Bytes(q')
    BY <2>2, <2>3, <2>4, <2>5
  <2> QED BY <1>1, <1>3, <2>1, <2>3, <2>5, <2>6
<1> QED BY <1>2, <1>3

(* The block after the first k, if there is one, and those after that.     *)
LEMMA CutAt ==
  ASSUME NEW s \in Seq(FitBlock), NEW k \in 0..Len(s) - 1
  PROVE  /\ s[k + 1] \in FitBlock
         /\ SubSeq(s, k + 1, Len(s)) # <<>>
         /\ SubSeq(s, k + 1, Len(s))[1] = s[k + 1]
         /\ SubSeq(s, k + 1, Len(s)) = <<s[k + 1]>> \o Tail(SubSeq(s, k + 1, Len(s)))
         /\ Tail(SubSeq(s, k + 1, Len(s))) \in Seq(FitBlock)
         /\ Len(Tail(SubSeq(s, k + 1, Len(s)))) = Len(s) - k - 1
         /\ s = SubSeq(s, 1, k) \o SubSeq(s, k + 1, Len(s))
         /\ SubSeq(s, 1, k) \in Seq(FitBlock) /\ Len(SubSeq(s, 1, k)) = k
         /\ Bytes(s) = Bytes(SubSeq(s, 1, k)) + s[k + 1].n + Bytes(Tail(SubSeq(s, k + 1, Len(s))))
         /\ Alloc(s) = Alloc(SubSeq(s, 1, k)) + s[k + 1].alloc + Alloc(Tail(SubSeq(s, k + 1, Len(s))))
         /\ Bytes(SubSeq(s, 1, k)) \in Nat /\ Alloc(SubSeq(s, 1, k)) \in Nat
         /\ Bytes(Tail(SubSeq(s, k + 1, Len(s)))) \in Nat
         /\ Alloc(Tail(SubSeq(s, k + 1, Len(s)))) \in Nat
         /\ s[k + 1].n \in Nat /\ s[k + 1].alloc \in Nat
<1> DEFINE r == SubSeq(s, k + 1, Len(s))
<1>1. s \in Seq(Block) /\ Len(s) \in Nat
  BY FitFacts, LenProperties
<1>2. k \in 0..Len(s) /\ k # Len(s) /\ Len(s) \in k..Len(s) /\ Len(s) - k \in Nat \ {0} /\ k + 1 \in 1..Len(s)
  BY <1>1
<1>3. /\ r # <<>> /\ Len(r) = Len(s) - k /\ r[1] = s[k + 1]
      /\ s = SubSeq(s, 1, k) \o r /\ Len(SubSeq(s, 1, k)) = k
      /\ SubSeq(s, 1, k) \in Seq(Block) /\ r \in Seq(Block)
      /\ Bytes(s) = Bytes(SubSeq(s, 1, k)) + Bytes(r)
      /\ Alloc(s) = Alloc(SubSeq(s, 1, k)) + Alloc(r)
  <2>1. 1 \in 1..Len(s) - k
    BY <1>2
  <2> QED BY <1>1, <1>2, <2>1, Cut
<1>4. SubSeq(s, 1, k) \in Seq(FitBlock) /\ r \in Seq(FitBlock)
  BY <1>2, CutIn
<1>5. s[k + 1] \in FitBlock
  BY <1>2, ElementOfSeq
<1> HIDE DEF r
<1>6. /\ r = <<r[1]>> \o Tail(r) /\ Tail(r) \in Seq(FitBlock) /\ Len(Tail(r)) = Len(r) - 1
      /\ Bytes(r) = r[1].n + Bytes(Tail(r)) /\ Alloc(r) = r[1].alloc + Alloc(Tail(r))
  BY <1>3, <1>4, FitFacts, Parted
<1>7. /\ Bytes(Tail(r)) \in Nat /\ Alloc(Tail(r)) \in Nat
      /\ Bytes(SubSeq(s, 1, k)) \in Nat /\ Alloc(SubSeq(s, 1, k)) \in Nat
      /\ s[k + 1].n \in Nat /\ s[k + 1].alloc \in Nat
  BY <1>3, <1>5, <1>6, Counted, FitFacts
<1>8. /\ Bytes(s) = Bytes(SubSeq(s, 1, k)) + s[k + 1].n + Bytes(Tail(r))
      /\ Alloc(s) = Alloc(SubSeq(s, 1, k)) + s[k + 1].alloc + Alloc(Tail(r))
  <2> DEFINE fb == Bytes(SubSeq(s, 1, k))
             fa == Alloc(SubSeq(s, 1, k))
             tb == Bytes(Tail(r))
             ta == Alloc(Tail(r))
             bn == s[k + 1].n
             ba == s[k + 1].alloc
  <2>1. Bytes(s) = fb + (bn + tb) /\ Alloc(s) = fa + (ba + ta)
    <3>1. Bytes(s) = fb + Bytes(r) /\ Alloc(s) = fa + Alloc(r)
      BY <1>3
    <3>2. Bytes(r) = bn + tb /\ Alloc(r) = ba + ta
      <4>1. r[1] = s[k + 1]
        BY <1>3
      <4> QED BY <1>6, <4>1
    <3> HIDE DEF fb, fa, tb, ta, bn, ba
    <3> QED BY <3>1, <3>2
  <2>2. fb \in Nat /\ fa \in Nat /\ tb \in Nat /\ ta \in Nat /\ bn \in Nat /\ ba \in Nat
    BY <1>7
  <2> HIDE DEF fb, fa, tb, ta, bn, ba
  <2>3. Bytes(s) = fb + bn + tb
    BY <2>1, <2>2
  <2>4. Alloc(s) = fa + ba + ta
    BY <2>1, <2>2
  <2> QED BY <2>3, <2>4 DEF fb, fa, tb, ta, bn, ba
<1>9. Len(Tail(r)) = Len(s) - k - 1
  BY <1>2, <1>3, <1>6
<1> QED BY <1>3, <1>4, <1>5, <1>6, <1>7, <1>8, <1>9 DEF r

(* A driver throws bytes away: whole blocks, then a part of one.           *)
LEMMA DiscardFacts ==
  ASSUME Control, Contents, NEW d \in Dev, qdiscard(d)
  PROVE  /\ hand' = hand
         /\ \E k \in 0..Len(q) :
              /\ live' = live - k
              /\ len' = Alloc(q') /\ dlen' = Bytes(q')
              /\ \/ /\ q' = SubSeq(q, k + 1, Len(q))
                    /\ Deliver(SubSeq(q, 1, k))
                 \/ /\ k < Len(q)
                    /\ \E n \in Nat :
                         /\ 0 < n /\ n < q[k + 1].n
                         /\ OtherBytes(q[k + 1], n) \in FitBlock
                         /\ q' = <<OtherBytes(q[k + 1], n)>> \o Tail(SubSeq(q, k + 1, Len(q)))
                         /\ Deliver(<<FirstBytes(q[k + 1], n)>>)
<1>1. PICK n \in use.rlen, k \in 0..Len(q) :
        /\ n - Bytes(SubSeq(q, 1, k)) >= 0
        /\ n - Bytes(SubSeq(q, 1, k)) > 0 /\ SubSeq(q, k + 1, Len(q)) # <<>> =>
             SubSeq(q, k + 1, Len(q))[1].n > n - Bytes(SubSeq(q, 1, k))
        /\ len' = len - Alloc(SubSeq(q, 1, k))
        /\ \/ /\ n - Bytes(SubSeq(q, 1, k)) > 0 /\ SubSeq(q, k + 1, Len(q)) # <<>>
              /\ q' = <<OtherBytes(SubSeq(q, k + 1, Len(q))[1], n - Bytes(SubSeq(q, 1, k)))>>
                        \o Tail(SubSeq(q, k + 1, Len(q)))
              /\ dlen' = dlen - n
              /\ Deliver(<<FirstBytes(SubSeq(q, k + 1, Len(q))[1], n - Bytes(SubSeq(q, 1, k)))>>)
           \/ /\ q' = SubSeq(q, k + 1, Len(q))
              /\ dlen' = dlen - Bytes(SubSeq(q, 1, k))
              /\ Deliver(SubSeq(q, 1, k))
        /\ live' = live - k
        /\ hand' = hand
  BY DEF qdiscard, control
<1>2. q \in Seq(FitBlock) /\ q \in Seq(Block) /\ len = Alloc(q) /\ dlen = Bytes(q) /\ use \in Uses
  BY FitFacts DEF Contents, Control, Shapes
<1>3. n \in Nat /\ Len(q) \in Nat /\ k \in Nat /\ k <= Len(q)
  <2>1. n \in Nat
    BY <1>2, UseFacts
  <2>2. Len(q) \in Nat
    BY <1>2, LenProperties
  <2> QED BY <2>1, <2>2
<1>4. /\ Bytes(q) = Bytes(SubSeq(q, 1, k)) + Bytes(SubSeq(q, k + 1, Len(q)))
      /\ Alloc(q) = Alloc(SubSeq(q, 1, k)) + Alloc(SubSeq(q, k + 1, Len(q)))
      /\ SubSeq(q, k + 1, Len(q)) = <<>> <=> k = Len(q)
      /\ Bytes(SubSeq(q, 1, k)) \in Nat /\ Alloc(SubSeq(q, 1, k)) \in Nat
      /\ Bytes(SubSeq(q, k + 1, Len(q))) \in Nat /\ Alloc(SubSeq(q, k + 1, Len(q))) \in Nat
  BY <1>2, Cut, Counted
<1>5. CASE /\ q' = SubSeq(q, k + 1, Len(q))
           /\ dlen' = dlen - Bytes(SubSeq(q, 1, k))
           /\ Deliver(SubSeq(q, 1, k))
  <2>1. len' = Alloc(q') /\ dlen' = Bytes(q')
    BY <1>1, <1>2, <1>4, <1>5
  <2> QED BY <1>1, <1>5, <2>1
<1>6. CASE /\ n - Bytes(SubSeq(q, 1, k)) > 0 /\ SubSeq(q, k + 1, Len(q)) # <<>>
           /\ q' = <<OtherBytes(SubSeq(q, k + 1, Len(q))[1], n - Bytes(SubSeq(q, 1, k)))>>
                     \o Tail(SubSeq(q, k + 1, Len(q)))
           /\ dlen' = dlen - n
           /\ Deliver(<<FirstBytes(SubSeq(q, k + 1, Len(q))[1], n - Bytes(SubSeq(q, 1, k)))>>)
  <2> DEFINE m == n - Bytes(SubSeq(q, 1, k))
             t == Tail(SubSeq(q, k + 1, Len(q)))
             b == OtherBytes(q[k + 1], m)
  <2>1. k < Len(q) /\ k \in 0..Len(q) - 1
    <3>1. k # Len(q)
      BY <1>4, <1>6
    <3> QED BY <1>3, <3>1
  <2>2. /\ q[k + 1] \in FitBlock /\ SubSeq(q, k + 1, Len(q))[1] = q[k + 1]
        /\ t \in Seq(FitBlock)
        /\ Bytes(q) = Bytes(SubSeq(q, 1, k)) + q[k + 1].n + Bytes(t)
        /\ Alloc(q) = Alloc(SubSeq(q, 1, k)) + q[k + 1].alloc + Alloc(t)
        /\ Bytes(t) \in Nat /\ Alloc(t) \in Nat
        /\ q[k + 1].n \in Nat /\ q[k + 1].alloc \in Nat
    BY <1>2, <2>1, CutAt
  <2>3. m \in Nat /\ 0 < m /\ m < q[k + 1].n
    <3>1. n - Bytes(SubSeq(q, 1, k)) > 0 /\ q[k + 1].n > n - Bytes(SubSeq(q, 1, k))
      BY <1>1, <1>6, <2>2
    <3>2. Bytes(SubSeq(q, 1, k)) \in Nat
      BY <1>4
    <3> QED BY <1>3, <3>1, <3>2
  <2>4. b \in FitBlock /\ b.n = q[k + 1].n - m /\ b.alloc = q[k + 1].alloc
    BY <1>2, <2>2, <2>3, RestFits
  <2>5. q' = <<b>> \o t /\ Deliver(<<FirstBytes(q[k + 1], m)>>)
    BY <1>6, <2>2
  <2>6. n = Bytes(SubSeq(q, 1, k)) + m
    BY <1>3, <1>4
  <2> HIDE DEF b, t, m
  <2>7. Bytes(<<b>> \o t) = b.n + Bytes(t) /\ Alloc(<<b>> \o t) = b.alloc + Alloc(t)
    BY <2>2, <2>4, Fronted, FitFacts
  <2>8. len' = Alloc(q')
    <3>1. len' = Alloc(q) - Alloc(SubSeq(q, 1, k)) /\ Alloc(q') = q[k + 1].alloc + Alloc(t)
      BY <1>1, <1>2, <2>4, <2>5, <2>7
    <3>2. /\ Alloc(q) = Alloc(SubSeq(q, 1, k)) + q[k + 1].alloc + Alloc(t)
          /\ Alloc(SubSeq(q, 1, k)) \in Nat /\ Alloc(t) \in Nat /\ q[k + 1].alloc \in Nat
      BY <1>4, <2>2
    <3> QED BY <3>1, <3>2
  <2>9. dlen' = Bytes(q')
    <3>1. dlen' = Bytes(q) - n /\ Bytes(q') = q[k + 1].n - m + Bytes(t)
      BY <1>2, <1>6, <2>4, <2>5, <2>7
    <3>2. /\ Bytes(q) = Bytes(SubSeq(q, 1, k)) + q[k + 1].n + Bytes(t)
          /\ Bytes(SubSeq(q, 1, k)) \in Nat /\ Bytes(t) \in Nat /\ q[k + 1].n \in Nat /\ m \in Nat
      BY <1>4, <2>2, <2>3
    <3> QED BY <2>6, <3>1, <3>2
  <2> QED BY <1>1, <2>1, <2>3, <2>4, <2>5, <2>8, <2>9 DEF b, t
<1> QED BY <1>1, <1>5, <1>6

(* A driver takes what it wants of the first block that is not empty.      *)
LEMMA ConsumeFacts ==
  ASSUME Control, Contents, NEW d \in Dev, qconsume(d)
  PROVE  /\ hand' = hand /\ len' = Alloc(q') /\ dlen' = Bytes(q')
         /\ \E k \in 0..Len(q) :
              /\ \A i \in 1..k : q[i].n = 0
              /\ Bytes(SubSeq(q, 1, k)) = 0
              /\ \/ /\ k = Len(q) /\ q' = <<>>
                    /\ got' = got /\ lost' = lost /\ live' = live
                 \/ /\ k < Len(q)
                    /\ q' = Tail(SubSeq(q, k + 1, Len(q)))
                    /\ \/ Deliver(<<FirstBytes(q[k + 1], q[k + 1].n)>>) /\ lost' = lost
                       \/ /\ \E n \in Nat : n < q[k + 1].n /\ Deliver(<<FirstBytes(q[k + 1], n)>>)
                          /\ lost' = TRUE
                    /\ live' = live - k - 1
                 \/ /\ k < Len(q)
                    /\ \E n \in Nat :
                         /\ n < q[k + 1].n
                         /\ OtherBytes(q[k + 1], n) \in FitBlock
                         /\ q' = <<OtherBytes(q[k + 1], n)>> \o Tail(SubSeq(q, k + 1, Len(q)))
                         /\ Deliver(<<FirstBytes(q[k + 1], n)>>)
                    /\ lost' = lost /\ live' = live - k
<1>1. PICK n \in use.rlen, k \in 0..Len(q) :
        LET rest == SubSeq(q, k + 1, Len(q))
            b    == rest[1]
            m    == MinOf(n, b.n)
        IN /\ hand' = hand
           /\ \A i \in 1..k : q[i].n = 0
           /\ \/ /\ rest = <<>>
                 /\ Unqueue(q, <<>>)
                 /\ got' = got /\ lost' = lost /\ live' = live
              \/ /\ rest # <<>>
                 /\ Unqueue(SubSeq(q, 1, k + 1), Tail(rest))
                 /\ Deliver(<<FirstBytes(b, m)>>)
                 /\ lost' = (lost \/ m < b.n)
                 /\ live' = live - k - 1
              \/ /\ rest # <<>> /\ m < b.n
                 /\ q' = <<OtherBytes(b, m)>> \o Tail(rest)
                 /\ len' = len - Alloc(SubSeq(q, 1, k))
                 /\ dlen' = dlen - m
                 /\ Deliver(<<FirstBytes(b, m)>>)
                 /\ live' = live - k /\ lost' = lost
  <2>1. hand' = hand
    BY DEF qconsume, control
  <2> QED BY <2>1, Zenon DEF qconsume
<1>2. /\ q \in Seq(FitBlock) /\ q \in Seq(Block) /\ len = Alloc(q) /\ dlen = Bytes(q)
      /\ use \in Uses /\ lost \in BOOLEAN /\ got \in Nat
  BY FitFacts DEF Contents, Control, Shapes
<1>3. n \in Nat /\ Len(q) \in Nat /\ k \in Nat /\ k <= Len(q)
  <2>1. n \in Nat
    BY <1>2, UseFacts
  <2>2. Len(q) \in Nat
    BY <1>2, LenProperties
  <2> QED BY <2>1, <2>2
<1> DEFINE rest == SubSeq(q, k + 1, Len(q))
           b == q[k + 1]
           m == MinOf(n, b.n)
<1>4. /\ rest = <<>> <=> k = Len(q)
      /\ SubSeq(q, 1, k) \in Seq(Block) /\ Len(SubSeq(q, 1, k)) = k
      /\ \A i \in 1..k : SubSeq(q, 1, k)[i] = q[i]
  BY <1>2, Cut
<1>5. Bytes(SubSeq(q, 1, k)) = 0
  <2>1. \A i \in 1..Len(SubSeq(q, 1, k)) : SubSeq(q, 1, k)[i].n = 0
    BY <1>1, <1>4
  <2> QED BY <1>4, <2>1, BytesZero
<1>6. Bytes(q) \in Nat /\ Alloc(q) \in Nat /\ Bytes(<<>>) = 0 /\ Alloc(<<>>) = 0
  BY <1>2, Counted, BytesFew
<1>7. CASE /\ rest = <<>>
           /\ Unqueue(q, <<>>)
           /\ got' = got /\ lost' = lost /\ live' = live
  <2>1. q' = <<>> /\ len' = len - Alloc(q) /\ dlen' = dlen - Bytes(q)
    BY <1>7 DEF Unqueue
  <2>2. len' = Alloc(q') /\ dlen' = Bytes(q')
    BY <1>2, <1>6, <2>1
  <2>3. k = Len(q)
    BY <1>4, <1>7
  <2> QED BY <1>1, <1>5, <1>7, <2>1, <2>2, <2>3
<1>8. ASSUME rest # <<>>
      PROVE  /\ k < Len(q) /\ rest[1] = b /\ b \in FitBlock /\ Tail(rest) \in Seq(FitBlock)
             /\ Bytes(q) = Bytes(SubSeq(q, 1, k)) + b.n + Bytes(Tail(rest))
             /\ Alloc(q) = Alloc(SubSeq(q, 1, k)) + b.alloc + Alloc(Tail(rest))
             /\ Bytes(SubSeq(q, 1, k)) \in Nat /\ Alloc(SubSeq(q, 1, k)) \in Nat
             /\ Bytes(Tail(rest)) \in Nat /\ Alloc(Tail(rest)) \in Nat
             /\ b.n \in Nat /\ b.alloc \in Nat /\ m \in Nat /\ m <= b.n
  <2>1. k \in 0..Len(q) - 1 /\ k < Len(q)
    BY <1>3, <1>4, <1>8
  <2>2. /\ rest[1] = b /\ b \in FitBlock /\ Tail(rest) \in Seq(FitBlock)
        /\ Bytes(q) = Bytes(SubSeq(q, 1, k)) + b.n + Bytes(Tail(rest))
        /\ Alloc(q) = Alloc(SubSeq(q, 1, k)) + b.alloc + Alloc(Tail(rest))
        /\ Bytes(SubSeq(q, 1, k)) \in Nat /\ Alloc(SubSeq(q, 1, k)) \in Nat
        /\ Bytes(Tail(rest)) \in Nat /\ Alloc(Tail(rest)) \in Nat
        /\ b.n \in Nat /\ b.alloc \in Nat
    BY <1>2, <2>1, CutAt
  <2>3. m \in Nat /\ m <= b.n
    <3>1. \A x \in Nat : MinOf(n, x) \in Nat /\ MinOf(n, x) <= x
      <4>1. n \in Nat
        BY <1>3
      <4> QED BY <4>1 DEF MinOf
    <3>2. b.n \in Nat
      BY <2>2
    <3> HIDE DEF b
    <3> QED BY <3>1, <3>2
  <2> QED BY <2>1, <2>2, <2>3
<1>9. CASE /\ rest # <<>>
           /\ Unqueue(SubSeq(q, 1, k + 1), Tail(rest))
           /\ Deliver(<<FirstBytes(b, m)>>)
           /\ lost' = (lost \/ m < b.n)
           /\ live' = live - k - 1
  <2>1. k + 1 \in 0..Len(q) /\ k + 1 \in Int
    <3>1. k < Len(q)
      BY <1>8, <1>9
    <3> QED BY <1>3, <3>1
  <2>2. Tail(rest) = SubSeq(q, k + 1 + 1, Len(q))
    <3>0. k < Len(q)
      BY <1>8, <1>9
    <3>1. k + 1 \in 1..Len(q) /\ Len(q) \in k + 1..Len(q)
      BY <1>3, <3>0
    <3> QED BY <1>2, <3>1, HeadTailOfSubSeq
  <2>3. /\ Bytes(q) = Bytes(SubSeq(q, 1, k + 1)) + Bytes(SubSeq(q, k + 1 + 1, Len(q)))
        /\ Alloc(q) = Alloc(SubSeq(q, 1, k + 1)) + Alloc(SubSeq(q, k + 1 + 1, Len(q)))
        /\ SubSeq(q, 1, k + 1) \in Seq(Block)
    BY <1>2, <2>1, Cut
  <2>4. Bytes(SubSeq(q, 1, k + 1)) \in Nat /\ Alloc(SubSeq(q, 1, k + 1)) \in Nat
    BY <2>3, Counted
  <2>5. /\ q' = Tail(rest) /\ len' = len - Alloc(SubSeq(q, 1, k + 1))
        /\ dlen' = dlen - Bytes(SubSeq(q, 1, k + 1))
    BY <1>9 DEF Unqueue
  <2>6. len' = Alloc(q') /\ dlen' = Bytes(q')
    <3>1. Bytes(Tail(rest)) \in Nat /\ Alloc(Tail(rest)) \in Nat
      BY <1>8, <1>9
    <3>2. /\ len' = Alloc(q) - Alloc(SubSeq(q, 1, k + 1)) /\ dlen' = Bytes(q) - Bytes(SubSeq(q, 1, k + 1))
          /\ Bytes(q) = Bytes(SubSeq(q, 1, k + 1)) + Bytes(Tail(rest))
          /\ Alloc(q) = Alloc(SubSeq(q, 1, k + 1)) + Alloc(Tail(rest))
      BY <1>2, <2>2, <2>3, <2>5
    <3>3. len' = Alloc(Tail(rest)) /\ dlen' = Bytes(Tail(rest))
      BY <2>4, <3>1, <3>2
    <3> QED BY <2>5, <3>3
  <2>7. \/ Deliver(<<FirstBytes(b, b.n)>>) /\ lost' = lost
        \/ m < b.n /\ lost' = TRUE
    <3>1. CASE m = b.n
      <4>1. ~(m < b.n)
        BY <1>8, <1>9, <3>1
      <4>2. Deliver(<<FirstBytes(b, b.n)>>)
        BY <1>9, <3>1
      <4> QED BY <1>2, <1>9, <4>1, <4>2
    <3>2. CASE m # b.n
      <4>1. m < b.n
        <5> DEFINE z == b.n
        <5>1. m \in Nat /\ z \in Nat /\ m <= z /\ m # z
          BY <1>8, <1>9, <3>2
        <5> HIDE DEF m, z
        <5>2. m < z
          BY <5>1
        <5> QED BY <5>2 DEF z
      <4> QED BY <1>9, <4>1
    <3> QED BY <3>1, <3>2
  <2> QED BY <1>1, <1>5, <1>8, <1>9, <2>5, <2>6, <2>7
<1>10. CASE /\ rest # <<>> /\ m < b.n
            /\ q' = <<OtherBytes(b, m)>> \o Tail(rest)
            /\ len' = len - Alloc(SubSeq(q, 1, k))
            /\ dlen' = dlen - m
            /\ Deliver(<<FirstBytes(b, m)>>)
            /\ live' = live - k /\ lost' = lost
  <2> DEFINE t == Tail(rest)
             c == OtherBytes(b, m)
  <2>1. c \in FitBlock /\ c.n = b.n - m /\ c.alloc = b.alloc
    BY <1>2, <1>8, <1>10, RestFits
  <2>2. q' = <<c>> \o t /\ t \in Seq(FitBlock)
    BY <1>8, <1>10
  <2> HIDE DEF c, t
  <2>3. Bytes(<<c>> \o t) = c.n + Bytes(t) /\ Alloc(<<c>> \o t) = c.alloc + Alloc(t)
    BY <2>1, <2>2, Fronted, FitFacts
  <2>4. len' = Alloc(q') /\ dlen' = Bytes(q')
    <3>1. /\ Bytes(q) = 0 + b.n + Bytes(t)
          /\ Alloc(q) = Alloc(SubSeq(q, 1, k)) + b.alloc + Alloc(t)
          /\ Alloc(SubSeq(q, 1, k)) \in Nat
          /\ Bytes(t) \in Nat /\ Alloc(t) \in Nat
          /\ b.n \in Nat /\ b.alloc \in Nat /\ m \in Nat
      BY <1>5, <1>8, <1>10 DEF t
    <3>2. Bytes(q') = b.n - m + Bytes(t) /\ Alloc(q') = b.alloc + Alloc(t)
      BY <2>1, <2>2, <2>3
    <3>3. len' = Alloc(q) - Alloc(SubSeq(q, 1, k)) /\ dlen' = Bytes(q) - m
      BY <1>2, <1>10
    <3>4. len' = Alloc(q')
      <4> DEFINE x == Alloc(SubSeq(q, 1, k))
                 y == b.alloc
                 z == Alloc(t)
      <4>1. /\ len' = Alloc(q) - x /\ Alloc(q) = x + y + z /\ Alloc(q') = y + z
            /\ x \in Nat /\ y \in Nat /\ z \in Nat
        BY <3>1, <3>2, <3>3
      <4> HIDE DEF x, y, z
      <4> QED BY <4>1
    <3>5. dlen' = Bytes(q')
      <4> DEFINE y == b.n
                 z == Bytes(t)
      <4>1. /\ dlen' = Bytes(q) - m /\ Bytes(q) = 0 + y + z /\ Bytes(q') = y - m + z
            /\ m \in Nat /\ y \in Nat /\ z \in Nat
        BY <3>1, <3>2, <3>3
      <4> HIDE DEF y, z, m
      <4> QED BY <4>1
    <3> QED BY <3>4, <3>5
  <2> QED BY <1>1, <1>5, <1>8, <1>10, <2>1, <2>2, <2>4 DEF c, t
<1>11. \/ /\ rest = <<>>
          /\ Unqueue(q, <<>>)
          /\ got' = got /\ lost' = lost /\ live' = live
       \/ /\ rest # <<>>
          /\ Unqueue(SubSeq(q, 1, k + 1), Tail(rest))
          /\ Deliver(<<FirstBytes(b, m)>>)
          /\ lost' = (lost \/ m < b.n)
          /\ live' = live - k - 1
       \/ /\ rest # <<>> /\ m < b.n
          /\ q' = <<OtherBytes(b, m)>> \o Tail(rest)
          /\ len' = len - Alloc(SubSeq(q, 1, k))
          /\ dlen' = dlen - m
          /\ Deliver(<<FirstBytes(b, m)>>)
          /\ live' = live - k /\ lost' = lost
  <2>1. rest # <<>> => rest[1] = b
    BY <1>8
  <2> QED BY <1>1, <2>1
<1> QED BY <1>7, <1>9, <1>10, <1>11

(* A writer makes its next block.                                          *)
LEMMA PieceInHand ==
  ASSUME Control, NEW p \in Writer, NEW n \in Nat, Within(n, use.wlen),
         0 \notin use.wlen => n > 0,
         NextPiece(p, n)
  PROVE  \E b \in FitBlock : hand' = [hand EXCEPT ![p] = <<b>>] /\ live' = live + 1
<1> DEFINE k == MinOf(n, Maxatomic)
<1>1. hand' = [hand EXCEPT ![p] = <<NewBlock(k, 0)>>] /\ live' = live + 1
  BY DEF NextPiece, Hold
<1>2. k \in Nat /\ k <= n /\ k <= Maxatomic /\ (n > 0 => k > 0)
  BY PieceFacts
<1> HIDE DEF k
<1>3. PICK m \in use.wlen : n <= m
  BY DEF Within
<1>4. m \in Nat
  BY UseFacts DEF Control, Shapes
<1>5. k <= m
  BY <1>2, <1>3, <1>4
<1>6. Within(k, use.wlen)
  BY <1>3, <1>5 DEF Within
<1>7. NewBlock(k, 0) \in FitBlock
  BY <1>2, <1>6, NewFits
<1> QED BY <1>1, <1>7

LEMMA CallPiece ==
  ASSUME Control, NEW p \in Writer, CallWrite(p) \/ WriteNext(p)
  PROVE  \/ hand' = hand /\ live' = live /\ pc' = [pc EXCEPT ![p] = "idle"] /\ pc[p] = "wnext"
         \/ \E b \in FitBlock : /\ hand' = [hand EXCEPT ![p] = <<b>>] /\ live' = live + 1
                                /\ pc' = [pc EXCEPT ![p] = "wqlock"]
                                /\ pc[p] \in {"idle", "wnext"}
<1>1. use \in Uses /\ p \in Actor /\ p \in Proc /\ arg[p] \in Nat
  BY DEF Control, Shapes, Actor, Proc
<1>2. CASE CallWrite(p)
  <2>1. PICK n \in use.wlen : NextPiece(p, n)
    BY <1>2 DEF CallWrite
  <2>2. n \in Nat /\ Within(n, use.wlen) /\ (0 \notin use.wlen => n > 0)
    <3>1. n \in Nat
      BY <1>1, UseFacts
    <3> QED BY <3>1 DEF Within
  <2>3. \E b \in FitBlock : hand' = [hand EXCEPT ![p] = <<b>>] /\ live' = live + 1
    BY <2>1, <2>2, PieceInHand
  <2> QED BY <1>2, <2>3 DEF CallWrite, Goto
<1>3. CASE /\ Goto(p, "wnext", "wqlock")
           /\ arg[p] > 0
           /\ NextPiece(p, arg[p])
  <2>1. pc[p] = "wnext" /\ pc' = [pc EXCEPT ![p] = "wqlock"]
    BY <1>3 DEF Goto
  <2>2. Within(arg[p], use.wlen)
    BY <1>1, <2>1 DEF Control, Args, Writes
  <2>3. \E b \in FitBlock : hand' = [hand EXCEPT ![p] = <<b>>] /\ live' = live + 1
    BY <1>1, <1>3, <2>2, PieceInHand
  <2> QED BY <2>1, <2>3
<1>4. CASE Goto(p, "wnext", "idle") /\ UNCHANGED <<arg, hand, live>>
  BY <1>4 DEF Goto
<1>5. CASE WriteNext(p)
  BY <1>3, <1>4, <1>5 DEF WriteNext
<1> QED BY <1>2, <1>5

(* The queue holds blocks, and its two counts agree with it.              *)
LEMMA QueueStep ==
  ASSUME Control, Contents, Next
  PROVE  /\ q' \in Seq(FitBlock) /\ len' = Alloc(q') /\ dlen' = Bytes(q')
         /\ sent' \in Nat /\ got' \in Nat
<1> USE DEF queue, modes, flags, aux
<1>0. /\ q \in Seq(FitBlock) /\ len = Alloc(q) /\ dlen = Bytes(q)
      /\ sent \in Nat /\ got \in Nat
  BY DEF Contents
<1>1. ASSUME NEW p \in Reader, CallRead(p) PROVE /\ q' \in Seq(FitBlock) /\ len' = Alloc(q') /\ dlen' = Bytes(q')
         /\ sent' \in Nat /\ got' \in Nat
  BY <1>1, <1>0 DEF CallRead
<1>2. ASSUME NEW p \in Reader, RLock(p) PROVE /\ q' \in Seq(FitBlock) /\ len' = Alloc(q') /\ dlen' = Bytes(q')
         /\ sent' \in Nat /\ got' \in Nat
  BY <1>2, <1>0 DEF RLock
<1>3. ASSUME NEW p \in Reader, ReadEof(p) PROVE /\ q' \in Seq(FitBlock) /\ len' = Alloc(q') /\ dlen' = Bytes(q')
         /\ sent' \in Nat /\ got' \in Nat
  <2>1. q' = <<>> /\ len' = 0 /\ dlen' = 0
    BY <1>3, DropFacts
  <2>2. sent' = sent /\ got' = got
    BY <1>3 DEF ReadEof
  <2> QED BY <1>0, <2>1, <2>2, FitFacts, BytesFew
<1>4. ASSUME NEW p \in Reader, ReadStarve(p) PROVE /\ q' \in Seq(FitBlock) /\ len' = Alloc(q') /\ dlen' = Bytes(q')
         /\ sent' \in Nat /\ got' \in Nat
  <2>1. q' = <<>> /\ len' = 0 /\ dlen' = 0
    BY <1>4, DropFacts
  <2>2. sent' = sent /\ got' = got
    BY <1>4 DEF ReadStarve
  <2> QED BY <1>0, <2>1, <2>2, FitFacts, BytesFew
<1>5. ASSUME NEW p \in Reader, ReadSleep(p) PROVE /\ q' \in Seq(FitBlock) /\ len' = Alloc(q') /\ dlen' = Bytes(q')
         /\ sent' \in Nat /\ got' \in Nat
  BY <1>5, <1>0 DEF ReadSleep
<1>6. ASSUME NEW p \in Reader, ReadTake(p) PROVE /\ q' \in Seq(FitBlock) /\ len' = Alloc(q') /\ dlen' = Bytes(q')
         /\ sent' \in Nat /\ got' \in Nat
  <2>1. q' \in Seq(FitBlock) /\ len' = Alloc(q') /\ dlen' = Bytes(q')
    BY <1>6, TookFacts
  <2>2. sent' = sent /\ got' = got
    BY <1>6 DEF ReadTake
  <2> QED BY <1>0, <2>1, <2>2
<1>7. ASSUME NEW p \in Reader, ReadDone(p) PROVE /\ q' \in Seq(FitBlock) /\ len' = Alloc(q') /\ dlen' = Bytes(q')
         /\ sent' \in Nat /\ got' \in Nat
  <2>1. /\ hand[p] \in Seq(FitBlock)
        /\ \/ q' = q /\ len' = len /\ dlen' = dlen /\ Deliver(hand[p])
           \/ /\ q' = q /\ len' = len /\ dlen' = dlen /\ hand[p][1] \in FitBlock
              /\ Deliver(<<FirstBytes(hand[p][1], arg[p])>>)
           \/ /\ hand[p][1] \in FitBlock /\ OtherBytes(hand[p][1], arg[p]) \in FitBlock
              /\ Deliver(<<FirstBytes(hand[p][1], arg[p])>>)
              /\ q' = <<OtherBytes(hand[p][1], arg[p])>> \o q
              /\ len' = Alloc(q') /\ dlen' = Bytes(q')
    BY <1>7, DoneFacts
  <2>2. sent' = sent
    BY <1>7 DEF ReadDone
  <2>3. q' \in Seq(FitBlock) /\ len' = Alloc(q') /\ dlen' = Bytes(q')
    <3> DEFINE b == OtherBytes(hand[p][1], arg[p])
    <3>1. FitBlock \in SUBSET Block /\ q \in Seq(FitBlock)
      BY <1>0, FitFacts
    <3>2. \/ q' = q /\ len' = len /\ dlen' = dlen
          \/ b \in FitBlock /\ q' = <<b>> \o q /\ len' = Alloc(q') /\ dlen' = Bytes(q')
      BY <2>1
    <3> HIDE DEF b
    <3>3. b \in FitBlock => <<b>> \o q \in Seq(FitBlock)
      BY <3>1, Fronted
    <3> QED BY <1>0, <3>2, <3>3
  <2>4. arg[p] \in Nat
    BY DEF Control, Shapes, Actor, Proc
  <2>5. got' \in Nat
    BY <1>0, <2>1, <2>4, DeliverAll, DeliverOne
  <2> QED BY <1>0, <2>2, <2>3, <2>5
<1>8. ASSUME NEW p \in Reader, BlockRead(p) PROVE /\ q' \in Seq(FitBlock) /\ len' = Alloc(q') /\ dlen' = Bytes(q')
         /\ sent' \in Nat /\ got' \in Nat
  <2>1. /\ len' = Alloc(q') /\ dlen' = Bytes(q') /\ Tail(q) \in Seq(FitBlock) /\ q[1] \in FitBlock
        /\ \/ q' = Tail(q) /\ Deliver(<<q[1]>>)
           \/ q' = Tail(q) /\ Deliver(<<FirstBytes(q[1], arg[p])>>)
           \/ /\ Deliver(<<FirstBytes(q[1], arg[p])>>)
              /\ [OtherBytes(q[1], arg[p]) EXCEPT !.alloc = q[1].n - arg[p]] \in FitBlock
              /\ q' = <<[OtherBytes(q[1], arg[p]) EXCEPT !.alloc = q[1].n - arg[p]]>> \o Tail(q)
    BY <1>8, BlockFacts
  <2>2. sent' = sent
    BY <1>8 DEF BlockRead
  <2>3. q' \in Seq(FitBlock)
    <3> DEFINE c == [OtherBytes(q[1], arg[p]) EXCEPT !.alloc = q[1].n - arg[p]]
    <3>1. \/ q' = Tail(q)
          \/ c \in FitBlock /\ q' = <<c>> \o Tail(q)
      BY <2>1
    <3> HIDE DEF c
    <3>2. FitBlock \in SUBSET Block /\ Tail(q) \in Seq(FitBlock)
      BY <2>1, FitFacts
    <3>3. c \in FitBlock => <<c>> \o Tail(q) \in Seq(FitBlock)
      BY <3>2, Fronted
    <3> QED BY <3>1, <3>2, <3>3
  <2>4. arg[p] \in Nat
    BY DEF Control, Shapes, Actor, Proc
  <2>5. <<q[1]>> \in Seq(FitBlock)
    BY <2>1
  <2>6. got' \in Nat
    BY <1>0, <2>1, <2>4, <2>5, DeliverAll, DeliverOne
  <2> QED BY <1>0, <2>1, <2>2, <2>3, <2>6
<1>9. ASSUME NEW p \in Reader, ReadReturn(p) PROVE /\ q' \in Seq(FitBlock) /\ len' = Alloc(q') /\ dlen' = Bytes(q')
         /\ sent' \in Nat /\ got' \in Nat
  BY <1>9, <1>0 DEF ReadReturn
<1>10. ASSUME NEW p \in Reader, ReadEintr(p) PROVE /\ q' \in Seq(FitBlock) /\ len' = Alloc(q') /\ dlen' = Bytes(q')
         /\ sent' \in Nat /\ got' \in Nat
  BY <1>10, <1>0 DEF ReadEintr
<1>11. ASSUME NEW p \in Writer, CallWrite(p) PROVE /\ q' \in Seq(FitBlock) /\ len' = Alloc(q') /\ dlen' = Bytes(q')
         /\ sent' \in Nat /\ got' \in Nat
  BY <1>11, <1>0 DEF CallWrite
<1>12. ASSUME NEW p \in Writer, WLock(p) PROVE /\ q' \in Seq(FitBlock) /\ len' = Alloc(q') /\ dlen' = Bytes(q')
         /\ sent' \in Nat /\ got' \in Nat
  BY <1>12, <1>0 DEF WLock
<1>13. ASSUME NEW p \in Writer, WriteClosed(p) PROVE /\ q' \in Seq(FitBlock) /\ len' = Alloc(q') /\ dlen' = Bytes(q')
         /\ sent' \in Nat /\ got' \in Nat
  BY <1>13, <1>0 DEF WriteClosed
<1>14. ASSUME NEW p \in Writer, WriteDropped(p) PROVE /\ q' \in Seq(FitBlock) /\ len' = Alloc(q') /\ dlen' = Bytes(q')
         /\ sent' \in Nat /\ got' \in Nat
  BY <1>14, <1>0 DEF WriteDropped
<1>15. ASSUME NEW p \in Writer, WritePut(p) PROVE /\ q' \in Seq(FitBlock) /\ len' = Alloc(q') /\ dlen' = Bytes(q')
         /\ sent' \in Nat /\ got' \in Nat
  <2>1. Added(<<NewBlock(hand[p][1].n, sent)>>) /\ sent' \in Nat
    BY <1>15, WritePutFacts
  <2>2. got' = got
    BY <1>15 DEF WritePut
  <2> QED BY <1>0, <2>1, <2>2, Behind, FitFacts DEF Added
<1>16. ASSUME NEW p \in Writer, WriteCheck(p) PROVE /\ q' \in Seq(FitBlock) /\ len' = Alloc(q') /\ dlen' = Bytes(q')
         /\ sent' \in Nat /\ got' \in Nat
  BY <1>16, <1>0 DEF WriteCheck
<1>17. ASSUME NEW p \in Writer, WriteFlow(p) PROVE /\ q' \in Seq(FitBlock) /\ len' = Alloc(q') /\ dlen' = Bytes(q')
         /\ sent' \in Nat /\ got' \in Nat
  BY <1>17, <1>0 DEF WriteFlow
<1>18. ASSUME NEW p \in Writer, WriteSleep(p) PROVE /\ q' \in Seq(FitBlock) /\ len' = Alloc(q') /\ dlen' = Bytes(q')
         /\ sent' \in Nat /\ got' \in Nat
  BY <1>18, <1>0 DEF WriteSleep
<1>19. ASSUME NEW p \in Writer, WriteNext(p) PROVE /\ q' \in Seq(FitBlock) /\ len' = Alloc(q') /\ dlen' = Bytes(q')
         /\ sent' \in Nat /\ got' \in Nat
  BY <1>19, <1>0 DEF WriteNext
<1>20. ASSUME NEW p \in Writer, WriteEintr(p) PROVE /\ q' \in Seq(FitBlock) /\ len' = Alloc(q') /\ dlen' = Bytes(q')
         /\ sent' \in Nat /\ got' \in Nat
  BY <1>20, <1>0 DEF WriteEintr
<1>21. ASSUME NEW d \in Dev, qproduce(d) PROVE /\ q' \in Seq(FitBlock) /\ len' = Alloc(q') /\ dlen' = Bytes(q')
         /\ sent' \in Nat /\ got' \in Nat
  <2>1. \/ q' = q /\ len' = len /\ dlen' = dlen /\ sent' = sent
        \/ \E s : Added(s) /\ sent' \in Nat
    BY <1>21, ProduceFacts
  <2>2. got' = got
    BY <1>21 DEF qproduce
  <2>3. ASSUME NEW s, Added(s)
        PROVE  q' \in Seq(FitBlock) /\ len' = Alloc(q') /\ dlen' = Bytes(q')
    BY <1>0, <2>3, Behind, FitFacts DEF Added
  <2> QED BY <1>0, <2>1, <2>2, <2>3
<1>22. ASSUME NEW d \in Dev, qpass(d) PROVE /\ q' \in Seq(FitBlock) /\ len' = Alloc(q') /\ dlen' = Bytes(q')
         /\ sent' \in Nat /\ got' \in Nat
  <2>1. \/ q' = q /\ len' = len /\ dlen' = dlen /\ sent' = sent
        \/ \E s : Added(s) /\ sent' \in Nat
    BY <1>22, ProduceFacts
  <2>2. got' = got
    BY <1>22 DEF qpass
  <2>3. ASSUME NEW s, Added(s)
        PROVE  q' \in Seq(FitBlock) /\ len' = Alloc(q') /\ dlen' = Bytes(q')
    BY <1>0, <2>3, Behind, FitFacts DEF Added
  <2> QED BY <1>0, <2>1, <2>2, <2>3
<1>23. ASSUME NEW d \in Dev, CallIwrite(d) PROVE /\ q' \in Seq(FitBlock) /\ len' = Alloc(q') /\ dlen' = Bytes(q')
         /\ sent' \in Nat /\ got' \in Nat
  BY <1>23, <1>0 DEF CallIwrite
<1>24. ASSUME NEW d \in Dev, Iwrite(d) PROVE /\ q' \in Seq(FitBlock) /\ len' = Alloc(q') /\ dlen' = Bytes(q')
         /\ sent' \in Nat /\ got' \in Nat
  <2>1. Added(<<NewBlock(MinOf(arg[d], Maxatomic), sent)>>) /\ sent' \in Nat
    BY <1>24, IwriteFacts
  <2>2. got' = got
    BY <1>24 DEF Iwrite
  <2> QED BY <1>0, <2>1, <2>2, Behind, FitFacts DEF Added
<1>25. ASSUME NEW d \in Dev, qget(d) PROVE /\ q' \in Seq(FitBlock) /\ len' = Alloc(q') /\ dlen' = Bytes(q')
         /\ sent' \in Nat /\ got' \in Nat
  <2>1. \/ q' = q /\ len' = len /\ dlen' = dlen /\ got' = got
        \/ /\ q[1] \in FitBlock /\ Tail(q) \in Seq(FitBlock) /\ Deliver(<<q[1]>>)
           /\ q' = Tail(q) /\ len' = Alloc(q') /\ dlen' = Bytes(q')
    BY <1>25, GetFacts
  <2>2. sent' = sent
    BY <1>25 DEF qget
  <2>3. q[1] \in FitBlock => <<q[1]>> \in Seq(FitBlock)
    OBVIOUS
  <2> QED BY <1>0, <2>1, <2>2, <2>3, DeliverAll
<1>26. ASSUME NEW d \in Dev, qdiscard(d) PROVE /\ q' \in Seq(FitBlock) /\ len' = Alloc(q') /\ dlen' = Bytes(q')
         /\ sent' \in Nat /\ got' \in Nat
  <2>1. /\ len' = Alloc(q') /\ dlen' = Bytes(q')
        /\ \E k \in 0..Len(q) :
              \/ q' = SubSeq(q, k + 1, Len(q)) /\ Deliver(SubSeq(q, 1, k))
              \/ /\ k < Len(q)
                 /\ \E n \in Nat :
                      /\ OtherBytes(q[k + 1], n) \in FitBlock
                      /\ q' = <<OtherBytes(q[k + 1], n)>> \o Tail(SubSeq(q, k + 1, Len(q)))
                      /\ Deliver(<<FirstBytes(q[k + 1], n)>>)
    BY <1>26, DiscardFacts
  <2>2. PICK k \in 0..Len(q) :
              \/ q' = SubSeq(q, k + 1, Len(q)) /\ Deliver(SubSeq(q, 1, k))
              \/ /\ k < Len(q)
                 /\ \E n \in Nat :
                      /\ OtherBytes(q[k + 1], n) \in FitBlock
                      /\ q' = <<OtherBytes(q[k + 1], n)>> \o Tail(SubSeq(q, k + 1, Len(q)))
                      /\ Deliver(<<FirstBytes(q[k + 1], n)>>)
    BY <2>1
  <2>3. sent' = sent
    BY <1>26 DEF qdiscard
  <2>4. CASE q' = SubSeq(q, k + 1, Len(q)) /\ Deliver(SubSeq(q, 1, k))
    <3>1. SubSeq(q, 1, k) \in Seq(FitBlock) /\ SubSeq(q, k + 1, Len(q)) \in Seq(FitBlock)
      <4>1. Len(q) \in k..Len(q)
        BY <1>0, LenProperties
      <4> QED BY <1>0, <4>1, CutIn
    <3> QED BY <1>0, <2>1, <2>3, <2>4, <3>1, DeliverAll
  <2>5. ASSUME k < Len(q), NEW n \in Nat,
               OtherBytes(q[k + 1], n) \in FitBlock,
               q' = <<OtherBytes(q[k + 1], n)>> \o Tail(SubSeq(q, k + 1, Len(q))),
               Deliver(<<FirstBytes(q[k + 1], n)>>)
        PROVE  q' \in Seq(FitBlock) /\ got' \in Nat
    <3>1. k \in 0..Len(q) - 1
      <4>1. Len(q) \in Nat
        BY <1>0, LenProperties
      <4> QED BY <2>5, <4>1
    <3>2. Tail(SubSeq(q, k + 1, Len(q))) \in Seq(FitBlock) /\ q[k + 1] \in FitBlock
      BY <1>0, <3>1, CutAt
    <3>3. q' \in Seq(FitBlock)
      BY <2>5, <3>2, Fronted, FitFacts
    <3> QED BY <1>0, <2>5, <3>2, <3>3, DeliverOne
  <2> QED BY <1>0, <2>1, <2>2, <2>3, <2>4, <2>5
<1>27. ASSUME NEW d \in Dev, qconsume(d) PROVE /\ q' \in Seq(FitBlock) /\ len' = Alloc(q') /\ dlen' = Bytes(q')
         /\ sent' \in Nat /\ got' \in Nat
  <2>1. /\ len' = Alloc(q') /\ dlen' = Bytes(q')
        /\ \E k \in 0..Len(q) :
              \/ q' = <<>> /\ got' = got
              \/ /\ k < Len(q)
                 /\ q' = Tail(SubSeq(q, k + 1, Len(q)))
                 /\ \/ Deliver(<<FirstBytes(q[k + 1], q[k + 1].n)>>)
                    \/ \E n \in Nat : Deliver(<<FirstBytes(q[k + 1], n)>>)
              \/ /\ k < Len(q)
                 /\ \E n \in Nat :
                      /\ OtherBytes(q[k + 1], n) \in FitBlock
                      /\ q' = <<OtherBytes(q[k + 1], n)>> \o Tail(SubSeq(q, k + 1, Len(q)))
                      /\ Deliver(<<FirstBytes(q[k + 1], n)>>)
    BY <1>27, ConsumeFacts
  <2>2. PICK k \in 0..Len(q) :
              \/ q' = <<>> /\ got' = got
              \/ /\ k < Len(q)
                 /\ q' = Tail(SubSeq(q, k + 1, Len(q)))
                 /\ \/ Deliver(<<FirstBytes(q[k + 1], q[k + 1].n)>>)
                    \/ \E n \in Nat : Deliver(<<FirstBytes(q[k + 1], n)>>)
              \/ /\ k < Len(q)
                 /\ \E n \in Nat :
                      /\ OtherBytes(q[k + 1], n) \in FitBlock
                      /\ q' = <<OtherBytes(q[k + 1], n)>> \o Tail(SubSeq(q, k + 1, Len(q)))
                      /\ Deliver(<<FirstBytes(q[k + 1], n)>>)
    BY <2>1
  <2>3. sent' = sent
    BY <1>27 DEF qconsume
  <2>4. CASE q' = <<>> /\ got' = got
    BY <1>0, <2>1, <2>3, <2>4, FitFacts
  <2>5. ASSUME k < Len(q)
        PROVE  /\ Tail(SubSeq(q, k + 1, Len(q))) \in Seq(FitBlock) /\ q[k + 1] \in FitBlock
               /\ q[k + 1].n \in Nat
    <3>1. k \in 0..Len(q) - 1
      <4>1. Len(q) \in Nat
        BY <1>0, LenProperties
      <4> QED BY <2>5, <4>1
    <3> QED BY <1>0, <3>1, CutAt
  <2>6. ASSUME k < Len(q), NEW n \in Nat, Deliver(<<FirstBytes(q[k + 1], n)>>)
        PROVE  got' \in Nat
    BY <1>0, <2>5, <2>6, DeliverOne
  <2>7. ASSUME k < Len(q), NEW n \in Nat, OtherBytes(q[k + 1], n) \in FitBlock,
               q' = <<OtherBytes(q[k + 1], n)>> \o Tail(SubSeq(q, k + 1, Len(q)))
        PROVE  q' \in Seq(FitBlock)
    BY <2>5, <2>7, Fronted, FitFacts
  <2> QED BY <1>0, <2>1, <2>2, <2>3, <2>4, <2>5, <2>6, <2>7
<1>28. ASSUME NEW d \in Dev, qflush(d) PROVE /\ q' \in Seq(FitBlock) /\ len' = Alloc(q') /\ dlen' = Bytes(q')
         /\ sent' \in Nat /\ got' \in Nat
  <2>1. q' = <<>> /\ len' = 0 /\ dlen' = 0 /\ sent' = sent /\ got' = got
    BY <1>28 DEF qflush, Empty
  <2> QED BY <1>0, <2>1, FitFacts, BytesFew
<1>29. ASSUME NEW d \in Dev, qclose(d) PROVE /\ q' \in Seq(FitBlock) /\ len' = Alloc(q') /\ dlen' = Bytes(q')
         /\ sent' \in Nat /\ got' \in Nat
  <2>1. q' = <<>> /\ len' = 0 /\ dlen' = 0 /\ sent' = sent /\ got' = got
    BY <1>29 DEF qclose, Empty
  <2> QED BY <1>0, <2>1, FitFacts, BytesFew
<1>30. ASSUME NEW d \in Dev, qhangup(d) PROVE /\ q' \in Seq(FitBlock) /\ len' = Alloc(q') /\ dlen' = Bytes(q')
         /\ sent' \in Nat /\ got' \in Nat
  BY <1>30, <1>0 DEF qhangup
<1>31. ASSUME NEW d \in Dev, qreopen(d) PROVE /\ q' \in Seq(FitBlock) /\ len' = Alloc(q') /\ dlen' = Bytes(q')
         /\ sent' \in Nat /\ got' \in Nat
  BY <1>31, <1>0 DEF qreopen
<1>32. ASSUME NEW d \in Dev, qnoblock(d) PROVE /\ q' \in Seq(FitBlock) /\ len' = Alloc(q') /\ dlen' = Bytes(q')
         /\ sent' \in Nat /\ got' \in Nat
  BY <1>32, <1>0 DEF qnoblock
<1>33. ASSUME NEW a \in Actor, Wakeup(a) PROVE /\ q' \in Seq(FitBlock) /\ len' = Alloc(q') /\ dlen' = Bytes(q')
         /\ sent' \in Nat /\ got' \in Nat
  BY <1>33, <1>0 DEF Wakeup
<1> QED BY <1>1, <1>2, <1>3, <1>4, <1>5, <1>6, <1>7, <1>8, <1>9, <1>10, <1>11, <1>12,
   <1>13, <1>14, <1>15, <1>16, <1>17, <1>18, <1>19, <1>20, <1>21, <1>22, <1>23, <1>24,
   <1>25, <1>26, <1>27, <1>28, <1>29, <1>30, <1>31, <1>32, <1>33 DEF Next, Reading,
   Writing, Device

(* Who has blocks in hand.                                                *)
LEMMA HandsStep ==
  ASSUME Control, Contents, Next
  PROVE  hand' \in [Proc -> Seq(FitBlock)] /\ Hands'
<1> USE DEF Hands, control
<1>0. /\ hand \in [Proc -> Seq(FitBlock)] /\ Hands
      /\ pc \in [Actor -> PC] /\ arg \in [Actor -> Nat] /\ Proc \subseteq Actor /\ Proc \cap Dev = {}
  BY ActorAssumption DEF Contents, Control, Shapes, Actor
<1>1. ASSUME NEW p \in Reader, CallRead(p) PROVE hand' \in [Proc -> Seq(FitBlock)] /\ Hands'
  BY <1>1, <1>0 DEF CallRead, Goto, Proc
<1>2. ASSUME NEW p \in Reader, RLock(p) PROVE hand' \in [Proc -> Seq(FitBlock)] /\ Hands'
  BY <1>2, <1>0 DEF RLock, Goto, Proc
<1>3. ASSUME NEW p \in Reader, ReadEof(p) PROVE hand' \in [Proc -> Seq(FitBlock)] /\ Hands'
  BY <1>3, <1>0 DEF ReadEof, Goto, Proc
<1>4. ASSUME NEW p \in Reader, ReadStarve(p) PROVE hand' \in [Proc -> Seq(FitBlock)] /\ Hands'
  BY <1>4, <1>0 DEF ReadStarve, Goto, Proc
<1>5. ASSUME NEW p \in Reader, ReadSleep(p) PROVE hand' \in [Proc -> Seq(FitBlock)] /\ Hands'
  BY <1>5, <1>0 DEF ReadSleep, Goto, Proc
<1>6. ASSUME NEW p \in Reader, ReadTake(p) PROVE hand' \in [Proc -> Seq(FitBlock)] /\ Hands'
  <2>1. PICK h \in Seq(FitBlock) :
          hand' = [hand EXCEPT ![p] = h] /\ h # <<>> /\ (Bytes(h) > arg[p] => Len(h) = 1)
    <3>1. PICK k \in 0..Len(q) : \E m \in k + 1..Len(q) :
             /\ hand' = [hand EXCEPT ![p] = SubSeq(q, k + 1, m)]
             /\ SubSeq(q, k + 1, m) \in Seq(FitBlock) /\ Len(SubSeq(q, k + 1, m)) = m - k
             /\ SubSeq(q, k + 1, m) # <<>>
             /\ Bytes(SubSeq(q, k + 1, m)) > arg[p] => m = k + 1
      BY <1>6, TookFacts
    <3>2. PICK m \in k + 1..Len(q) :
             /\ hand' = [hand EXCEPT ![p] = SubSeq(q, k + 1, m)]
             /\ SubSeq(q, k + 1, m) \in Seq(FitBlock) /\ Len(SubSeq(q, k + 1, m)) = m - k
             /\ SubSeq(q, k + 1, m) # <<>>
             /\ Bytes(SubSeq(q, k + 1, m)) > arg[p] => m = k + 1
      BY <3>1
    <3>3. Bytes(SubSeq(q, k + 1, m)) > arg[p] => Len(SubSeq(q, k + 1, m)) = 1
      BY <3>2
    <3> QED BY <3>2, <3>3
  <2>2. pc' = [pc EXCEPT ![p] = "copy"] /\ arg' = arg
    BY <1>6 DEF ReadTake, Goto
  <2> HIDE DEF Hands
  <2>3. hand' \in [Proc -> Seq(FitBlock)] /\ p \in Proc
    BY <1>0, <2>1 DEF Proc
  <2>4. ASSUME NEW r \in Proc
        PROVE  /\ pc'[r] \in {"wqlock", "wput"} => Len(hand'[r]) = 1
               /\ pc'[r] = "copy" => hand'[r] # <<>> /\ (Bytes(hand'[r]) > arg'[r] => Len(hand'[r]) = 1)
               /\ pc'[r] \notin {"wqlock", "wput", "copy"} => hand'[r] = <<>>
    <3>1. CASE r = p
      BY <1>0, <2>1, <2>2, <3>1
    <3>2. CASE r # p
      <4>1. pc'[r] = pc[r] /\ hand'[r] = hand[r] /\ arg'[r] = arg[r]
        BY <1>0, <2>1, <2>2, <3>2
      <4> QED BY <1>0, <4>1 DEF Hands
    <3> QED BY <3>1, <3>2
  <2> QED BY <2>3, <2>4 DEF Hands
<1>7. ASSUME NEW p \in Reader, ReadDone(p) PROVE hand' \in [Proc -> Seq(FitBlock)] /\ Hands'
  <2>1. hand' = [hand EXCEPT ![p] = <<>>] /\ pc' = [pc EXCEPT ![p] = "rdone"] /\ arg' = arg
    BY <1>7 DEF ReadDone, Goto, Hold
  <2> QED BY <1>0, <2>1, FitFacts DEF Proc
<1>8. ASSUME NEW p \in Reader, BlockRead(p) PROVE hand' \in [Proc -> Seq(FitBlock)] /\ Hands'
  <2>1. hand' = hand /\ pc' = [pc EXCEPT ![p] = "rdone"] /\ pc[p] = "rwait" /\ arg' = arg
    BY <1>8 DEF BlockRead, Goto
  <2> QED BY <1>0, <2>1
<1>9. ASSUME NEW p \in Reader, ReadReturn(p) PROVE hand' \in [Proc -> Seq(FitBlock)] /\ Hands'
  BY <1>9, <1>0 DEF ReadReturn, Goto, Proc
<1>10. ASSUME NEW p \in Reader, ReadEintr(p) PROVE hand' \in [Proc -> Seq(FitBlock)] /\ Hands'
  BY <1>10, <1>0 DEF ReadEintr, Goto, Proc
<1>11. ASSUME NEW p \in Writer, CallWrite(p) PROVE hand' \in [Proc -> Seq(FitBlock)] /\ Hands'
  <2>1. /\ \A r \in Actor \ {p} : arg'[r] = arg[r]
        /\ p \in Proc
    BY <1>11, <1>0 DEF CallWrite, WriteNext, NextPiece, Proc, Actor
  <2>2. \/ hand' = hand /\ pc' = [pc EXCEPT ![p] = "idle"] /\ pc[p] = "wnext"
        \/ \E b \in FitBlock : /\ hand' = [hand EXCEPT ![p] = <<b>>]
                               /\ pc' = [pc EXCEPT ![p] = "wqlock"]
                               /\ pc[p] \in {"idle", "wnext"}
    BY <1>11, CallPiece
  <2>3. CASE hand' = hand /\ pc' = [pc EXCEPT ![p] = "idle"] /\ pc[p] = "wnext"
    BY <1>0, <2>1, <2>3 DEF Proc, Actor
  <2>4. ASSUME NEW b \in FitBlock, hand' = [hand EXCEPT ![p] = <<b>>],
               pc' = [pc EXCEPT ![p] = "wqlock"]
        PROVE  hand' \in [Proc -> Seq(FitBlock)] /\ Hands'
    <3>1. <<b>> \in Seq(FitBlock) /\ Len(<<b>>) = 1
      OBVIOUS
    <3> QED BY <1>0, <2>1, <2>4, <3>1 DEF Proc, Actor
  <2> QED BY <2>2, <2>3, <2>4
<1>12. ASSUME NEW p \in Writer, WLock(p) PROVE hand' \in [Proc -> Seq(FitBlock)] /\ Hands'
  BY <1>12, <1>0 DEF WLock, Goto, Proc
<1>13. ASSUME NEW p \in Writer, WriteClosed(p) PROVE hand' \in [Proc -> Seq(FitBlock)] /\ Hands'
  <2>1. hand' = [hand EXCEPT ![p] = <<>>] /\ pc' = [pc EXCEPT ![p] = "idle"] /\ arg' = arg
    BY <1>13 DEF WriteClosed, Goto, Hold
  <2> QED BY <1>0, <2>1, FitFacts DEF Proc
<1>14. ASSUME NEW p \in Writer, WriteDropped(p) PROVE hand' \in [Proc -> Seq(FitBlock)] /\ Hands'
  <2>1. hand' = [hand EXCEPT ![p] = <<>>] /\ pc' = [pc EXCEPT ![p] = "wnext"] /\ arg' = arg
    BY <1>14 DEF WriteDropped, Goto, Hold
  <2> QED BY <1>0, <2>1, FitFacts DEF Proc
<1>15. ASSUME NEW p \in Writer, WritePut(p) PROVE hand' \in [Proc -> Seq(FitBlock)] /\ Hands'
  <2>1. hand' = [hand EXCEPT ![p] = <<>>] /\ pc' = [pc EXCEPT ![p] = "wcheck"] /\ arg' = arg
    BY <1>15 DEF WritePut, Goto, Hold
  <2> QED BY <1>0, <2>1, FitFacts DEF Proc
<1>16. ASSUME NEW p \in Writer, WriteCheck(p) PROVE hand' \in [Proc -> Seq(FitBlock)] /\ Hands'
  BY <1>16, <1>0 DEF WriteCheck, Goto, Proc
<1>17. ASSUME NEW p \in Writer, WriteFlow(p) PROVE hand' \in [Proc -> Seq(FitBlock)] /\ Hands'
  BY <1>17, <1>0 DEF WriteFlow, Goto, Proc
<1>18. ASSUME NEW p \in Writer, WriteSleep(p) PROVE hand' \in [Proc -> Seq(FitBlock)] /\ Hands'
  BY <1>18, <1>0 DEF WriteSleep, Goto, Proc
<1>19. ASSUME NEW p \in Writer, WriteNext(p) PROVE hand' \in [Proc -> Seq(FitBlock)] /\ Hands'
  <2>1. /\ \A r \in Actor \ {p} : arg'[r] = arg[r]
        /\ p \in Proc
    BY <1>19, <1>0 DEF CallWrite, WriteNext, NextPiece, Proc, Actor
  <2>2. \/ hand' = hand /\ pc' = [pc EXCEPT ![p] = "idle"] /\ pc[p] = "wnext"
        \/ \E b \in FitBlock : /\ hand' = [hand EXCEPT ![p] = <<b>>]
                               /\ pc' = [pc EXCEPT ![p] = "wqlock"]
                               /\ pc[p] \in {"idle", "wnext"}
    BY <1>19, CallPiece
  <2>3. CASE hand' = hand /\ pc' = [pc EXCEPT ![p] = "idle"] /\ pc[p] = "wnext"
    BY <1>0, <2>1, <2>3 DEF Proc, Actor
  <2>4. ASSUME NEW b \in FitBlock, hand' = [hand EXCEPT ![p] = <<b>>],
               pc' = [pc EXCEPT ![p] = "wqlock"]
        PROVE  hand' \in [Proc -> Seq(FitBlock)] /\ Hands'
    <3>1. <<b>> \in Seq(FitBlock) /\ Len(<<b>>) = 1
      OBVIOUS
    <3> QED BY <1>0, <2>1, <2>4, <3>1 DEF Proc, Actor
  <2> QED BY <2>2, <2>3, <2>4
<1>20. ASSUME NEW p \in Writer, WriteEintr(p) PROVE hand' \in [Proc -> Seq(FitBlock)] /\ Hands'
  BY <1>20, <1>0 DEF WriteEintr, Goto, Proc
<1>21. ASSUME NEW d \in Dev, qproduce(d) PROVE hand' \in [Proc -> Seq(FitBlock)] /\ Hands'
  BY <1>21, <1>0 DEF qproduce
<1>22. ASSUME NEW d \in Dev, qpass(d) PROVE hand' \in [Proc -> Seq(FitBlock)] /\ Hands'
  BY <1>22, <1>0 DEF qpass
<1>23. ASSUME NEW d \in Dev, CallIwrite(d) PROVE hand' \in [Proc -> Seq(FitBlock)] /\ Hands'
  <2>1. /\ hand' = hand
        /\ \A r \in Actor \ {d} : pc'[r] = pc[r] /\ arg'[r] = arg[r]
    BY <1>23, <1>0 DEF CallIwrite
  <2> QED BY <1>0, <2>1 DEF Actor
<1>24. ASSUME NEW d \in Dev, Iwrite(d) PROVE hand' \in [Proc -> Seq(FitBlock)] /\ Hands'
  <2>1. /\ hand' = hand
        /\ \A r \in Actor \ {d} : pc'[r] = pc[r] /\ arg'[r] = arg[r]
    BY <1>24, <1>0 DEF Iwrite
  <2> QED BY <1>0, <2>1 DEF Actor
<1>25. ASSUME NEW d \in Dev, qget(d) PROVE hand' \in [Proc -> Seq(FitBlock)] /\ Hands'
  BY <1>25, <1>0 DEF qget
<1>26. ASSUME NEW d \in Dev, qdiscard(d) PROVE hand' \in [Proc -> Seq(FitBlock)] /\ Hands'
  BY <1>26, <1>0 DEF qdiscard
<1>27. ASSUME NEW d \in Dev, qconsume(d) PROVE hand' \in [Proc -> Seq(FitBlock)] /\ Hands'
  BY <1>27, <1>0 DEF qconsume
<1>28. ASSUME NEW d \in Dev, qflush(d) PROVE hand' \in [Proc -> Seq(FitBlock)] /\ Hands'
  BY <1>28, <1>0 DEF qflush
<1>29. ASSUME NEW d \in Dev, qclose(d) PROVE hand' \in [Proc -> Seq(FitBlock)] /\ Hands'
  BY <1>29, <1>0 DEF qclose
<1>30. ASSUME NEW d \in Dev, qhangup(d) PROVE hand' \in [Proc -> Seq(FitBlock)] /\ Hands'
  BY <1>30, <1>0 DEF qhangup
<1>31. ASSUME NEW d \in Dev, qreopen(d) PROVE hand' \in [Proc -> Seq(FitBlock)] /\ Hands'
  BY <1>31, <1>0 DEF qreopen
<1>32. ASSUME NEW d \in Dev, qnoblock(d) PROVE hand' \in [Proc -> Seq(FitBlock)] /\ Hands'
  BY <1>32, <1>0 DEF qnoblock
<1>33. ASSUME NEW a \in Actor, Wakeup(a) PROVE hand' \in [Proc -> Seq(FitBlock)] /\ Hands'
  BY <1>33, <1>0 DEF Wakeup
<1> QED BY <1>1, <1>2, <1>3, <1>4, <1>5, <1>6, <1>7, <1>8, <1>9, <1>10, <1>11, <1>12,
   <1>13, <1>14, <1>15, <1>16, <1>17, <1>18, <1>19, <1>20, <1>21, <1>22, <1>23, <1>24,
   <1>25, <1>26, <1>27, <1>28, <1>29, <1>30, <1>31, <1>32, <1>33 DEF Next, Reading,
   Writing, Device

LEMMA ContentsStep ==
  ASSUME Control, Contents, Next
  PROVE  Contents'
<1>1. FitBlock' = FitBlock
  BY UseKept, FitKept
<1> QED BY <1>1, QueueStep, HandsStep DEF Contents

LEMMA ContentsInit == Init => Contents
<1> SUFFICES ASSUME Init PROVE Contents
  OBVIOUS
<1>1. /\ q = <<>> /\ len = 0 /\ dlen = 0 /\ sent = 0 /\ got = 0
      /\ hand = [p \in Proc |-> <<>>] /\ pc = [a \in Actor |-> "idle"]
  BY DEF Init
<1>2. Hands
  BY <1>1 DEF Hands, Actor
<1> QED BY <1>1, <1>2, FitFacts, BytesFew DEF Contents

-----------------------------------------------------------------------------
(* What is allocated is what is held.                                      *)

(* The sums this takes.                                                    *)
LEMMA Moved ==
  ASSUME NEW t \in Nat, NEW u \in Nat, NEW a \in Nat, NEW b \in Nat, NEW c \in Nat, NEW e \in Nat,
         u = t - c + e
  PROVE  b + u = (a + t) - a + b - c + e
OBVIOUS

LEMMA Shifted ==
  ASSUME NEW h \in Nat, NEW a \in Nat, NEW m \in Int, NEW k \in Int, NEW l \in Int
  PROVE  /\ h - a + (a - m) - 0 + (m - k) = h - k
         /\ l - k \in Int
         /\ (l - k) - (h - k) = l - h
         /\ (l - k) - (h - k) >= l - h
OBVIOUS

LEMMA Level ==
  ASSUME NEW a \in Nat, NEW b \in Nat, NEW c \in Int, NEW d \in Int
  PROVE  /\ c - b >= d - a /\ d >= a => c >= b
         /\ c - b = d - a /\ d = a => c = b
OBVIOUS

LEMMA HeldKept ==
  ASSUME Contents, q' \in Seq(Block), hand' = hand
  PROVE  /\ Held \in Nat /\ Held' \in Nat /\ Len(q) \in Nat /\ Len(q') \in Nat
         /\ Held' = Held - Len(q) + Len(q')
<1> DEFINE f == [p \in Proc |-> Len(hand[p])]
<1>1. Len(q) \in Nat /\ Len(q') \in Nat /\ \A p \in Proc : Len(hand[p]) \in Nat
  BY LenProperties DEF Contents
<1>2. f \in [Proc -> Nat]
  BY <1>1
<1>3. Total(f) \in Nat
  BY <1>2, ActorAssumption, TotalType
<1> HIDE DEF f
<1>4. f' = f
  BY DEF f
<1>5. Held = Len(q) + Total(f) /\ Held' = Len(q') + Total(f)
  BY <1>4 DEF Held, f
<1> QED BY <1>1, <1>3, <1>5

LEMMA HeldMoved ==
  ASSUME Contents, q' \in Seq(Block), NEW p \in Proc, NEW h \in Seq(FitBlock),
         hand' = [hand EXCEPT ![p] = h]
  PROVE  /\ Held \in Nat /\ Held' \in Nat /\ Len(q) \in Nat /\ Len(q') \in Nat
         /\ Len(h) \in Nat /\ Len(hand[p]) \in Nat
         /\ Held' = Held - Len(q) + Len(q') - Len(hand[p]) + Len(h)
<1> DEFINE f == [r \in Proc |-> Len(hand[r])]
           g == [r \in Proc |-> Len(hand'[r])]
<1>1. hand \in [Proc -> Seq(FitBlock)]
  BY DEF Contents
<1>2. hand' \in [Proc -> Seq(FitBlock)] /\ hand'[p] = h /\ \A r \in Proc \ {p} : hand'[r] = hand[r]
  BY <1>1
<1>3. /\ Len(q) \in Nat /\ Len(q') \in Nat /\ Len(h) \in Nat
      /\ \A r \in Proc : Len(hand[r]) \in Nat /\ Len(hand'[r]) \in Nat
  BY <1>1, <1>2, LenProperties DEF Contents
<1>4. /\ f \in [Proc -> Nat] /\ g \in [Proc -> Nat] /\ \A r \in Proc \ {p} : g[r] = f[r]
      /\ f[p] = Len(hand[p]) /\ g[p] = Len(h)
  BY <1>2, <1>3
<1>5. Total(f) \in Nat /\ Total(g) \in Nat
  BY <1>4, ActorAssumption, TotalType
<1>6. Held = Len(q) + Total(f) /\ Held' = Len(q') + Total(g)
  BY DEF Held
<1> HIDE DEF f, g
<1>7. Total(g) = Total(f) - f[p] + g[p]
  <2>1. IsFiniteSet(Proc)
    BY ActorAssumption
  <2>2. f \in [Proc -> Nat] /\ g \in [Proc -> Nat] /\ \A r \in Proc \ {p} : g[r] = f[r]
    BY <1>4
  <2> QED BY <2>1, <2>2, TotalExcept
<1>8. f[p] = Len(hand[p]) /\ g[p] = Len(h)
  BY <1>4
<1>9. Len(hand[p]) \in Nat /\ Len(q) \in Nat /\ Len(q') \in Nat /\ Len(h) \in Nat
  BY <1>3
<1>10. Held' = Held - Len(q) + Len(q') - Len(hand[p]) + Len(h)
  <2>1. Total(g) = Total(f) - Len(hand[p]) + Len(h)
    BY <1>7, <1>8
  <2>2. Len(q') + Total(g) = (Len(q) + Total(f)) - Len(q) + Len(q') - Len(hand[p]) + Len(h)
    BY <1>5, <1>9, <2>1, Moved
  <2> QED BY <1>6, <2>2, Zenon
<1>11. Held \in Nat /\ Held' \in Nat
  BY <1>5, <1>6, <1>9
<1> QED BY <1>9, <1>10, <1>11

LEMMA Untouched ==
  ASSUME Contents, Balance, q' = q, hand' = hand, live' = live
  PROVE  /\ Held \in Nat /\ Held' \in Nat /\ live' \in Int
         /\ Held' = Held /\ live' - Held' = live - Held /\ live' - Held' >= live - Held
<1>1. q' \in Seq(Block) /\ live \in Int
  BY FitFacts DEF Contents, Balance
<1>2. Held \in Nat /\ Held' \in Nat /\ Len(q) \in Nat /\ Held' = Held - Len(q) + Len(q)
  BY <1>1, HeldKept
<1> QED BY <1>1, <1>2

NoneLost == /\ Held \in Nat /\ Held' \in Nat /\ live' \in Int
            /\ live' - Held' >= live - Held
            /\ Whole(use) => live' - Held' = live - Held

(* No step loses a block, but for qconsume where it finds only empty ones, *)
(* and none makes up one.                                                  *)
LEMMA HeldStep ==
  ASSUME Control, Contents, Balance, Next
  PROVE  NoneLost
<1> USE DEF queue, aux, control, NoneLost
<1>0. q \in Seq(FitBlock) /\ live \in Int /\ q' \in Seq(Block) /\ q' \in Seq(FitBlock)
  <2>1. q \in Seq(FitBlock) /\ live \in Int
    BY DEF Contents, Balance
  <2>2. q' \in Seq(FitBlock)
    BY QueueStep
  <2> QED BY <2>1, <2>2, FitFacts
<1>1. ASSUME NEW p \in Reader, CallRead(p) PROVE NoneLost
  <2>1. q' = q /\ hand' = hand /\ live' = live
    BY <1>1 DEF CallRead
  <2> QED BY <2>1, Untouched
<1>2. ASSUME NEW p \in Reader, RLock(p) PROVE NoneLost
  <2>1. q' = q /\ hand' = hand /\ live' = live
    BY <1>2 DEF RLock
  <2> QED BY <2>1, Untouched
<1>3. ASSUME NEW p \in Reader, ReadEof(p) PROVE NoneLost
  <2>1. q' = <<>> /\ live' = live - Len(q) /\ hand' = hand
    BY <1>3, DropFacts
  <2>9. Held \in Nat /\ Held' \in Nat /\ Len(q) \in Nat /\ Len(q') \in Nat /\ Held' = Held - Len(q) + Len(q')
    BY <1>0, <2>1, EmptySeq, HeldKept
  <2>2. Len(q') = 0
    BY <2>1, EmptySeq
  <2> QED BY <1>0, <2>1, <2>2, <2>9
<1>4. ASSUME NEW p \in Reader, ReadStarve(p) PROVE NoneLost
  <2>1. q' = <<>> /\ live' = live - Len(q) /\ hand' = hand
    BY <1>4, DropFacts
  <2>9. Held \in Nat /\ Held' \in Nat /\ Len(q) \in Nat /\ Len(q') \in Nat /\ Held' = Held - Len(q) + Len(q')
    BY <1>0, <2>1, EmptySeq, HeldKept
  <2>2. Len(q') = 0
    BY <2>1, EmptySeq
  <2> QED BY <1>0, <2>1, <2>2, <2>9
<1>5. ASSUME NEW p \in Reader, ReadSleep(p) PROVE NoneLost
  <2>1. q' = q /\ hand' = hand /\ live' = live
    BY <1>5 DEF ReadSleep
  <2> QED BY <2>1, Untouched
<1>6. ASSUME NEW p \in Reader, ReadTake(p) PROVE NoneLost
  <2>1. PICK k \in 0..Len(q) : \E m \in k + 1..Len(q) :
           /\ hand' = [hand EXCEPT ![p] = SubSeq(q, k + 1, m)]
           /\ SubSeq(q, k + 1, m) \in Seq(FitBlock) /\ Len(SubSeq(q, k + 1, m)) = m - k
           /\ Len(q') = Len(q) - m /\ live' = live - k
    BY <1>6, TookFacts
  <2>2. PICK m \in k + 1..Len(q) :
           /\ hand' = [hand EXCEPT ![p] = SubSeq(q, k + 1, m)]
           /\ SubSeq(q, k + 1, m) \in Seq(FitBlock) /\ Len(SubSeq(q, k + 1, m)) = m - k
           /\ Len(q') = Len(q) - m /\ live' = live - k
    BY <2>1
  <2>3. p \in Proc /\ hand[p] = <<>>
    BY <1>6 DEF Contents, Hands, ReadTake, Goto, Proc
  <2>4. Len(hand[p]) = 0
    BY <2>3, EmptySeq
  <2>5. /\ Held \in Nat /\ Held' \in Nat /\ Len(q) \in Nat
        /\ Held' = Held - Len(q) + Len(q') - Len(hand[p]) + Len(SubSeq(q, k + 1, m))
    BY <1>0, <2>2, <2>3, HeldMoved
  <2>6. Held' = Held - Len(q) + (Len(q) - m) - 0 + (m - k) /\ live' = live - k
    BY <2>2, <2>4, <2>5
  <2>7. k \in Int /\ m \in Int
    BY <2>1, <2>2
  <2>8. live \in Int
    BY <1>0
  <2>9. Held' = Held - k
    <3>1. Held - Len(q) + (Len(q) - m) - 0 + (m - k) = Held - k
      BY <2>5, <2>7, <2>8, Shifted
    <3> QED BY <2>6, <3>1, Zenon
  <2>10. /\ live - k \in Int
         /\ (live - k) - (Held - k) = live - Held
         /\ (live - k) - (Held - k) >= live - Held
    BY <2>5, <2>7, <2>8, Shifted
  <2> QED BY <2>5, <2>6, <2>9, <2>10, Zenon
<1>7. ASSUME NEW p \in Reader, ReadDone(p) PROVE NoneLost
  <2>1. hand' = [hand EXCEPT ![p] = <<>>] /\ p \in Proc
    BY <1>7, DoneFacts DEF Proc
  <2>2. /\ Held \in Nat /\ Held' \in Nat /\ Len(q) \in Nat /\ Len(q') \in Nat
        /\ Len(hand[p]) \in Nat
        /\ Held' = Held - Len(q) + Len(q') - Len(hand[p]) + 0
    BY <1>0, <2>1, HeldMoved, FitFacts, EmptySeq
  <2>3. \/ q' = q /\ live' = live - Len(hand[p])
        \/ q' = q /\ live' = live - 1 /\ Len(hand[p]) = 1
        \/ /\ q' = <<OtherBytes(hand[p][1], arg[p])>> \o q /\ live' = live /\ Len(hand[p]) = 1
           /\ OtherBytes(hand[p][1], arg[p]) \in FitBlock
    BY <1>7, DoneFacts
  <2>4. CASE q' = q /\ live' = live - Len(hand[p])
    BY <1>0, <2>2, <2>4
  <2>5. CASE q' = q /\ live' = live - 1 /\ Len(hand[p]) = 1
    BY <1>0, <2>2, <2>5
  <2>6. CASE /\ q' = <<OtherBytes(hand[p][1], arg[p])>> \o q /\ live' = live /\ Len(hand[p]) = 1
             /\ OtherBytes(hand[p][1], arg[p]) \in FitBlock
    <3>1. Len(q') = Len(q) + 1
      BY <1>0, <2>6, Fronted, FitFacts
    <3> QED BY <1>0, <2>2, <2>6, <3>1
  <2> QED BY <2>3, <2>4, <2>5, <2>6
<1>8. ASSUME NEW p \in Reader, BlockRead(p) PROVE NoneLost
  <2> DEFINE c == [OtherBytes(q[1], arg[p]) EXCEPT !.alloc = q[1].n - arg[p]]
  <2>1. /\ hand' = hand /\ q[1] \in FitBlock /\ q = <<q[1]>> \o Tail(q) /\ Tail(q) \in Seq(FitBlock)
        /\ \/ q' = Tail(q) /\ live' = live - 1
           \/ c \in FitBlock /\ q' = <<c>> \o Tail(q) /\ live' = live
    BY <1>8, BlockFacts
  <2>9. Held \in Nat /\ Held' \in Nat /\ Len(q) \in Nat /\ Len(q') \in Nat /\ Held' = Held - Len(q) + Len(q')
    BY <1>0, <2>1, HeldKept
  <2> HIDE DEF c
  <2>2. FitBlock \in SUBSET Block
    BY FitFacts
  <2>3. Len(q) = Len(Tail(q)) + 1 /\ Len(Tail(q)) \in Nat
    <3>1. \A b \in FitBlock : Len(<<b>> \o Tail(q)) = Len(Tail(q)) + 1
      BY <2>1, <2>2, Fronted
    <3>2. Len(Tail(q)) \in Nat
      BY <2>1, LenProperties
    <3> QED BY <2>1, <3>1, <3>2
  <2>4. CASE q' = Tail(q) /\ live' = live - 1
    BY <1>0, <2>3, <2>4, <2>9
  <2>5. CASE c \in FitBlock /\ q' = <<c>> \o Tail(q) /\ live' = live
    <3>1. Len(q') = Len(Tail(q)) + 1
      BY <2>1, <2>2, <2>5, Fronted
    <3> QED BY <1>0, <2>3, <2>5, <2>9, <3>1
  <2> QED BY <2>1, <2>4, <2>5
<1>9. ASSUME NEW p \in Reader, ReadReturn(p) PROVE NoneLost
  <2>1. q' = q /\ hand' = hand /\ live' = live
    BY <1>9 DEF ReadReturn
  <2> QED BY <2>1, Untouched
<1>10. ASSUME NEW p \in Reader, ReadEintr(p) PROVE NoneLost
  <2>1. q' = q /\ hand' = hand /\ live' = live
    BY <1>10 DEF ReadEintr
  <2> QED BY <2>1, Untouched
<1>11. ASSUME NEW p \in Writer, CallWrite(p) PROVE NoneLost
  <2>1. q' = q /\ p \in Proc
    BY <1>11 DEF CallWrite, Proc
  <2>2. \/ hand' = hand /\ live' = live
        \/ \E b \in FitBlock : /\ hand' = [hand EXCEPT ![p] = <<b>>] /\ live' = live + 1
                               /\ pc[p] \in {"idle", "wnext"}
    BY <1>11, CallPiece
  <2>3. CASE hand' = hand /\ live' = live
    BY <1>0, <2>1, <2>3, HeldKept
  <2>4. ASSUME NEW b \in FitBlock, hand' = [hand EXCEPT ![p] = <<b>>], live' = live + 1,
               pc[p] \in {"idle", "wnext"}
        PROVE  NoneLost
    <3>1. hand[p] = <<>>
      BY <2>1, <2>4 DEF Contents, Hands
    <3>2. <<b>> \in Seq(FitBlock) /\ Len(<<b>>) = 1 /\ Len(hand[p]) = 0
      BY <3>1, EmptySeq
    <3>3. /\ Held \in Nat /\ Held' \in Nat /\ Len(q) \in Nat
          /\ Held' = Held - Len(q) + Len(q') - Len(hand[p]) + Len(<<b>>)
      BY <1>0, <2>1, <2>4, <3>2, HeldMoved
    <3> QED BY <1>0, <2>1, <2>4, <3>2, <3>3
  <2> QED BY <2>2, <2>3, <2>4
<1>12. ASSUME NEW p \in Writer, WLock(p) PROVE NoneLost
  <2>1. q' = q /\ hand' = hand /\ live' = live
    BY <1>12 DEF WLock
  <2> QED BY <2>1, Untouched
<1>13. ASSUME NEW p \in Writer, WriteClosed(p) PROVE NoneLost
  <2>1. q' = q /\ p \in Proc /\ hand' = [hand EXCEPT ![p] = <<>>] /\ live' = live - 1
    BY <1>13 DEF WriteClosed, Proc, Hold
  <2>2. Len(hand[p]) = 1
    BY <1>13, <2>1 DEF Contents, Hands, WriteClosed, Goto
  <2>3. /\ Held \in Nat /\ Held' \in Nat /\ Len(q) \in Nat
        /\ Held' = Held - Len(q) + Len(q') - Len(hand[p]) + 0
    BY <1>0, <2>1, HeldMoved, FitFacts, EmptySeq
  <2> QED BY <1>0, <2>1, <2>2, <2>3
<1>14. ASSUME NEW p \in Writer, WriteDropped(p) PROVE NoneLost
  <2>1. q' = q /\ p \in Proc /\ hand' = [hand EXCEPT ![p] = <<>>] /\ live' = live - 1
    BY <1>14 DEF WriteDropped, Proc, Hold
  <2>2. Len(hand[p]) = 1
    BY <1>14, <2>1 DEF Contents, Hands, WriteDropped, Goto
  <2>3. /\ Held \in Nat /\ Held' \in Nat /\ Len(q) \in Nat
        /\ Held' = Held - Len(q) + Len(q') - Len(hand[p]) + 0
    BY <1>0, <2>1, HeldMoved, FitFacts, EmptySeq
  <2> QED BY <1>0, <2>1, <2>2, <2>3
<1>15. ASSUME NEW p \in Writer, WritePut(p) PROVE NoneLost
  <2>1. /\ p \in Proc /\ hand' = [hand EXCEPT ![p] = <<>>] /\ live' = live /\ Len(hand[p]) = 1
        /\ Added(<<NewBlock(hand[p][1].n, sent)>>)
    BY <1>15, WritePutFacts DEF Proc
  <2>2. /\ Held \in Nat /\ Held' \in Nat /\ Len(q) \in Nat
        /\ Held' = Held - Len(q) + Len(q') - Len(hand[p]) + 0
    BY <1>0, <2>1, HeldMoved, FitFacts, EmptySeq
  <2>3. Len(q') = Len(q) + Len(<<NewBlock(hand[p][1].n, sent)>>)
    BY <1>0, <2>1, Behind, FitFacts DEF Added
  <2>4. Len(<<NewBlock(hand[p][1].n, sent)>>) = 1
    OBVIOUS
  <2> QED BY <1>0, <2>1, <2>2, <2>3, <2>4
<1>16. ASSUME NEW p \in Writer, WriteCheck(p) PROVE NoneLost
  <2>1. q' = q /\ hand' = hand /\ live' = live
    BY <1>16 DEF WriteCheck
  <2> QED BY <2>1, Untouched
<1>17. ASSUME NEW p \in Writer, WriteFlow(p) PROVE NoneLost
  <2>1. q' = q /\ hand' = hand /\ live' = live
    BY <1>17 DEF WriteFlow
  <2> QED BY <2>1, Untouched
<1>18. ASSUME NEW p \in Writer, WriteSleep(p) PROVE NoneLost
  <2>1. q' = q /\ hand' = hand /\ live' = live
    BY <1>18 DEF WriteSleep
  <2> QED BY <2>1, Untouched
<1>19. ASSUME NEW p \in Writer, WriteNext(p) PROVE NoneLost
  <2>1. q' = q /\ p \in Proc
    BY <1>19 DEF WriteNext, Proc
  <2>2. \/ hand' = hand /\ live' = live
        \/ \E b \in FitBlock : /\ hand' = [hand EXCEPT ![p] = <<b>>] /\ live' = live + 1
                               /\ pc[p] \in {"idle", "wnext"}
    BY <1>19, CallPiece
  <2>3. CASE hand' = hand /\ live' = live
    BY <1>0, <2>1, <2>3, HeldKept
  <2>4. ASSUME NEW b \in FitBlock, hand' = [hand EXCEPT ![p] = <<b>>], live' = live + 1,
               pc[p] \in {"idle", "wnext"}
        PROVE  NoneLost
    <3>1. hand[p] = <<>>
      BY <2>1, <2>4 DEF Contents, Hands
    <3>2. <<b>> \in Seq(FitBlock) /\ Len(<<b>>) = 1 /\ Len(hand[p]) = 0
      BY <3>1, EmptySeq
    <3>3. /\ Held \in Nat /\ Held' \in Nat /\ Len(q) \in Nat
          /\ Held' = Held - Len(q) + Len(q') - Len(hand[p]) + Len(<<b>>)
      BY <1>0, <2>1, <2>4, <3>2, HeldMoved
    <3> QED BY <1>0, <2>1, <2>4, <3>2, <3>3
  <2> QED BY <2>2, <2>3, <2>4
<1>20. ASSUME NEW p \in Writer, WriteEintr(p) PROVE NoneLost
  <2>1. q' = q /\ hand' = hand /\ live' = live
    BY <1>20 DEF WriteEintr
  <2> QED BY <2>1, Untouched
<1>21. ASSUME NEW d \in Dev, qproduce(d) PROVE NoneLost
  <2>1. /\ hand' = hand
        /\ \/ q' = q /\ live' = live
           \/ \E s : Added(s) /\ live' = live + Len(s)
    BY <1>21, ProduceFacts
  <2>9. Held \in Nat /\ Held' \in Nat /\ Len(q) \in Nat /\ Len(q') \in Nat /\ Held' = Held - Len(q) + Len(q')
    BY <1>0, <2>1, HeldKept
  <2>2. CASE q' = q /\ live' = live
    BY <1>0, <2>2, <2>9
  <2>3. ASSUME NEW s, Added(s), live' = live + Len(s)
        PROVE  NoneLost
    <3>1. Len(q') = Len(q) + Len(s) /\ Len(s) \in Nat
      BY <1>0, <2>3, Behind, FitFacts, LenProperties DEF Added
    <3> QED BY <1>0, <2>3, <2>9, <3>1
  <2> QED BY <2>1, <2>2, <2>3
<1>22. ASSUME NEW d \in Dev, qpass(d) PROVE NoneLost
  <2>1. /\ hand' = hand
        /\ \/ q' = q /\ live' = live
           \/ \E s : Added(s) /\ live' = live + Len(s)
    BY <1>22, ProduceFacts
  <2>9. Held \in Nat /\ Held' \in Nat /\ Len(q) \in Nat /\ Len(q') \in Nat /\ Held' = Held - Len(q) + Len(q')
    BY <1>0, <2>1, HeldKept
  <2>2. CASE q' = q /\ live' = live
    BY <1>0, <2>2, <2>9
  <2>3. ASSUME NEW s, Added(s), live' = live + Len(s)
        PROVE  NoneLost
    <3>1. Len(q') = Len(q) + Len(s) /\ Len(s) \in Nat
      BY <1>0, <2>3, Behind, FitFacts, LenProperties DEF Added
    <3> QED BY <1>0, <2>3, <2>9, <3>1
  <2> QED BY <2>1, <2>2, <2>3
<1>23. ASSUME NEW d \in Dev, CallIwrite(d) PROVE NoneLost
  <2>1. q' = q /\ hand' = hand /\ live' = live
    BY <1>23 DEF CallIwrite
  <2> QED BY <2>1, Untouched
<1>24. ASSUME NEW d \in Dev, Iwrite(d) PROVE NoneLost
  <2>1. /\ hand' = hand /\ live' = live + 1
        /\ Added(<<NewBlock(MinOf(arg[d], Maxatomic), sent)>>)
    BY <1>24, IwriteFacts
  <2>9. Held \in Nat /\ Held' \in Nat /\ Len(q) \in Nat /\ Len(q') \in Nat /\ Held' = Held - Len(q) + Len(q')
    BY <1>0, <2>1, HeldKept
  <2>2. Len(q') = Len(q) + Len(<<NewBlock(MinOf(arg[d], Maxatomic), sent)>>)
    BY <1>0, <2>1, Behind, FitFacts DEF Added
  <2>3. Len(<<NewBlock(MinOf(arg[d], Maxatomic), sent)>>) = 1
    OBVIOUS
  <2> QED BY <1>0, <2>1, <2>2, <2>3, <2>9
<1>25. ASSUME NEW d \in Dev, qget(d) PROVE NoneLost
  <2>1. /\ hand' = hand
        /\ \/ q' = q /\ live' = live
           \/ /\ q[1] \in FitBlock /\ q = <<q[1]>> \o Tail(q) /\ Tail(q) \in Seq(FitBlock)
              /\ q' = Tail(q) /\ live' = live - 1
    BY <1>25, GetFacts
  <2>9. Held \in Nat /\ Held' \in Nat /\ Len(q) \in Nat /\ Len(q') \in Nat /\ Held' = Held - Len(q) + Len(q')
    BY <1>0, <2>1, HeldKept
  <2>2. CASE q' = q /\ live' = live
    BY <1>0, <2>2, <2>9
  <2>3. CASE /\ q[1] \in FitBlock /\ q = <<q[1]>> \o Tail(q) /\ Tail(q) \in Seq(FitBlock)
             /\ q' = Tail(q) /\ live' = live - 1
    <3>1. \A b \in FitBlock : Len(<<b>> \o Tail(q)) = Len(Tail(q)) + 1
      BY <2>3, Fronted, FitFacts
    <3>2. Len(q) = Len(q') + 1
      BY <2>3, <3>1
    <3> QED BY <1>0, <2>3, <2>9, <3>2
  <2> QED BY <2>1, <2>2, <2>3
<1>26. ASSUME NEW d \in Dev, qdiscard(d) PROVE NoneLost
  <2>1. hand' = hand
    BY <1>26, DiscardFacts
  <2>2. PICK k \in 0..Len(q) :
              /\ live' = live - k
              /\ \/ q' = SubSeq(q, k + 1, Len(q))
                 \/ /\ k < Len(q)
                    /\ \E b \in FitBlock : q' = <<b>> \o Tail(SubSeq(q, k + 1, Len(q)))
    BY <1>26, DiscardFacts
  <2>9. Held \in Nat /\ Held' \in Nat /\ Len(q) \in Nat /\ Len(q') \in Nat /\ Held' = Held - Len(q) + Len(q')
    BY <1>0, <2>1, HeldKept
  <2>4. ASSUME k < Len(q), NEW b \in FitBlock, q' = <<b>> \o Tail(SubSeq(q, k + 1, Len(q)))
        PROVE  Len(q') = Len(q) - k
    <3>1. k \in 0..Len(q) - 1
      BY <2>4, <2>9
    <3>2. /\ Tail(SubSeq(q, k + 1, Len(q))) \in Seq(FitBlock)
          /\ Len(Tail(SubSeq(q, k + 1, Len(q)))) = Len(q) - k - 1
      BY <1>0, <3>1, CutAt
    <3>3. Len(q') = Len(q) - k - 1 + 1
      BY <2>4, <3>2, Fronted, FitFacts
    <3> QED BY <2>9, <3>1, <3>3
  <2>5. k \in Int /\ live' = live - k
    BY <2>2
  <2>6. Held' = Held - k
    <3>1. CASE q' = SubSeq(q, k + 1, Len(q))
      <4>1. Len(q') = Len(q) - k
        BY <1>0, <3>1, Cut
      <4> QED BY <2>5, <2>9, <4>1
    <3>2. CASE /\ k < Len(q)
               /\ \E b \in FitBlock : q' = <<b>> \o Tail(SubSeq(q, k + 1, Len(q)))
      <4>1. Len(q') = Len(q) - k
        BY <2>4, <3>2
      <4> QED BY <2>5, <2>9, <4>1
    <3> QED BY <2>2, <3>1, <3>2
  <2> QED BY <1>0, <2>5, <2>6, <2>9
<1>27. ASSUME NEW d \in Dev, qconsume(d) PROVE NoneLost
  <2>1. hand' = hand /\ "qconsume" \in use.ops
    BY <1>27, ConsumeFacts DEF qconsume, Call
  <2>2. PICK k \in 0..Len(q) :
              /\ \A i \in 1..k : q[i].n = 0
              /\ \/ k = Len(q) /\ q' = <<>> /\ live' = live
                 \/ /\ k < Len(q) /\ live' = live - k - 1
                    /\ q' = Tail(SubSeq(q, k + 1, Len(q)))
                 \/ /\ k < Len(q) /\ live' = live - k
                    /\ \E b \in FitBlock : q' = <<b>> \o Tail(SubSeq(q, k + 1, Len(q)))
    BY <1>27, ConsumeFacts
  <2>9. Held \in Nat /\ Held' \in Nat /\ Len(q) \in Nat /\ Len(q') \in Nat /\ Held' = Held - Len(q) + Len(q')
    BY <1>0, <2>1, HeldKept
  <2>3. CASE k = Len(q) /\ q' = <<>> /\ live' = live
    <3>1. Len(q') = 0
      BY <2>3, EmptySeq
    <3>2. ASSUME Whole(use) PROVE Len(q) = 0
      <4>1. 0 \notin use.wlen
        BY <2>1, <3>2 DEF Whole
      <4>2. \A i \in 1..Len(q) : q[i].n > 0 /\ q[i].n = 0
        <5>1. \A i \in 1..Len(q) : q[i] \in FitBlock
          BY <1>0, ElementOfSeq
        <5> QED BY <2>2, <2>3, <4>1, <5>1 DEF FitBlock
      <4>3. \A i \in 1..Len(q) : FALSE
        BY <4>2
      <4> QED BY <2>9, <4>3
    <3> QED BY <1>0, <2>3, <2>9, <3>1, <3>2
  <2>4. ASSUME k < Len(q)
        PROVE  /\ Tail(SubSeq(q, k + 1, Len(q))) \in Seq(FitBlock)
               /\ Len(Tail(SubSeq(q, k + 1, Len(q)))) = Len(q) - k - 1
    <3>1. k \in 0..Len(q) - 1
      BY <2>4, <2>9
    <3> QED BY <1>0, <3>1, CutAt
  <2>5. CASE k < Len(q) /\ live' = live - k - 1 /\ q' = Tail(SubSeq(q, k + 1, Len(q)))
    BY <1>0, <2>4, <2>5, <2>9
  <2>6. ASSUME k < Len(q), live' = live - k,
               NEW b \in FitBlock, q' = <<b>> \o Tail(SubSeq(q, k + 1, Len(q)))
        PROVE  live' \in Int /\ live' - Held' = live - Held
    <3>1. Len(q') = Len(q) - k - 1 + 1
      BY <2>4, <2>6, Fronted, FitFacts
    <3> QED BY <1>0, <2>6, <2>9, <3>1
  <2>7. ASSUME live' \in Int /\ live' - Held' = live - Held
        PROVE  live' - Held' >= live - Held
    BY <1>0, <2>7, <2>9
  <2> QED BY <2>2, <2>3, <2>5, <2>6, <2>7, <2>9
<1>28. ASSUME NEW d \in Dev, qflush(d) PROVE NoneLost
  <2>1. q' = <<>> /\ live' = live - Len(q) /\ hand' = hand
    BY <1>28 DEF qflush, Empty, control
  <2>9. Held \in Nat /\ Held' \in Nat /\ Len(q) \in Nat /\ Len(q') \in Nat /\ Held' = Held - Len(q) + Len(q')
    BY <1>0, <2>1, EmptySeq, HeldKept
  <2>2. Len(q') = 0
    BY <2>1, EmptySeq
  <2> QED BY <1>0, <2>1, <2>2, <2>9
<1>29. ASSUME NEW d \in Dev, qclose(d) PROVE NoneLost
  <2>1. q' = <<>> /\ live' = live - Len(q) /\ hand' = hand
    BY <1>29 DEF qclose, Empty, control
  <2>9. Held \in Nat /\ Held' \in Nat /\ Len(q) \in Nat /\ Len(q') \in Nat /\ Held' = Held - Len(q) + Len(q')
    BY <1>0, <2>1, EmptySeq, HeldKept
  <2>2. Len(q') = 0
    BY <2>1, EmptySeq
  <2> QED BY <1>0, <2>1, <2>2, <2>9
<1>30. ASSUME NEW d \in Dev, qhangup(d) PROVE NoneLost
  <2>1. q' = q /\ hand' = hand /\ live' = live
    BY <1>30 DEF qhangup
  <2> QED BY <2>1, Untouched
<1>31. ASSUME NEW d \in Dev, qreopen(d) PROVE NoneLost
  <2>1. q' = q /\ hand' = hand /\ live' = live
    BY <1>31 DEF qreopen
  <2> QED BY <2>1, Untouched
<1>32. ASSUME NEW d \in Dev, qnoblock(d) PROVE NoneLost
  <2>1. q' = q /\ hand' = hand /\ live' = live
    BY <1>32 DEF qnoblock
  <2> QED BY <2>1, Untouched
<1>33. ASSUME NEW a \in Actor, Wakeup(a) PROVE NoneLost
  <2>1. q' = q /\ hand' = hand /\ live' = live
    BY <1>33 DEF Wakeup
  <2> QED BY <2>1, Untouched
<1> HIDE DEF NoneLost
<1> QED BY <1>1, <1>2, <1>3, <1>4, <1>5, <1>6, <1>7, <1>8, <1>9, <1>10, <1>11, <1>12,
   <1>13, <1>14, <1>15, <1>16, <1>17, <1>18, <1>19, <1>20, <1>21, <1>22, <1>23, <1>24,
   <1>25, <1>26, <1>27, <1>28, <1>29, <1>30, <1>31, <1>32, <1>33 DEF Next, Reading,
   Writing, Device

LEMMA BalanceStep ==
  ASSUME Control, Contents, Balance, Next
  PROVE  Balance'
<1>1. /\ Held \in Nat /\ Held' \in Nat /\ live' \in Int
      /\ live' - Held' >= live - Held
      /\ Whole(use) => live' - Held' = live - Held
  BY HeldStep DEF NoneLost
<1>2. use' = use
  BY UseKept
<1>3. Whole(use)' = Whole(use)
  BY <1>2 DEF Whole
<1>4. live \in Int /\ live >= Held /\ (Whole(use) => live = Held)
  BY DEF Balance
<1>5. live' >= Held'
  <2>1. Held \in Nat /\ Held' \in Nat /\ live' \in Int /\ live' - Held' >= live - Held
    BY <1>1
  <2>2. live \in Int /\ live >= Held
    BY <1>4
  <2> QED BY <2>1, <2>2, Level, Zenon
<1>6. ASSUME Whole(use) PROVE live' = Held'
  <2>1. Held \in Nat /\ Held' \in Nat /\ live' \in Int /\ live' - Held' = live - Held
    BY <1>1, <1>6
  <2>2. live \in Int /\ live = Held
    BY <1>4, <1>6
  <2> QED BY <2>1, <2>2, Level, Zenon
<1> QED BY <1>1, <1>3, <1>5, <1>6 DEF Balance

LEMMA BalanceInit == Init => Balance
<1> SUFFICES ASSUME Init PROVE Balance
  OBVIOUS
<1>1. q = <<>> /\ live = 0 /\ hand = [p \in Proc |-> <<>>]
  BY DEF Init
<1> DEFINE f == [p \in Proc |-> Len(hand[p])]
<1>2. Len(<<>>) = 0
  BY EmptySeq
<1>3. f \in [Proc -> Nat] /\ \A p \in Proc : f[p] = 0
  BY <1>1, <1>2
<1> HIDE DEF f
<1>4. Total(f) = 0
  BY <1>3, ActorAssumption, TotalZero
<1>5. Held = 0
  BY <1>1, <1>2, <1>4 DEF Held, f
<1> QED BY <1>1, <1>5 DEF Balance

-----------------------------------------------------------------------------
(* Wakeups on their way.                                                   *)

LEMMA ComingKept ==
  ASSUME wake \in [Actor -> Seq({"rr", "wr"})], NEW a \in Actor, NEW w,
         wake[a] = <<>>, wake' = [wake EXCEPT ![a] = w], NEW x, Coming(x)
  PROVE  Coming(x)'
<1>0. PICK b \in Actor : \E i \in 1..Len(wake[b]) : wake[b][i] = x
  BY DEF Coming
<1>1. PICK i \in 1..Len(wake[b]) : wake[b][i] = x
  BY <1>0
<1>2. b # a
  <2>1. Len(<<>>) = 0
    BY EmptySeq
  <2>2. 1..0 = {}
    OBVIOUS
  <2> QED BY <1>1, <2>1, <2>2
<1>3. wake'[b] = wake[b]
  BY <1>2
<1> QED BY <1>1, <1>3 DEF Coming

LEMMA ComingNew ==
  ASSUME wake \in [Actor -> Seq({"rr", "wr"})], NEW a \in Actor, NEW w,
         wake' = [wake EXCEPT ![a] = w]
  PROVE  /\ w = <<"rr">> \/ w = <<"rr", "wr">> => Coming("rr")'
         /\ w = <<"wr">> \/ w = <<"rr", "wr">> => Coming("wr")'
<1>1. wake'[a] = w
  OBVIOUS
<1>2. ASSUME w = <<"rr">> \/ w = <<"rr", "wr">> PROVE Coming("rr")'
  <2>1. 1 \in 1..Len(wake'[a]) /\ wake'[a][1] = "rr"
    BY <1>1, <1>2
  <2> QED BY <2>1 DEF Coming
<1>3. ASSUME w = <<"wr">> PROVE Coming("wr")'
  <2>1. 1 \in 1..Len(wake'[a]) /\ wake'[a][1] = "wr"
    BY <1>1, <1>3
  <2> QED BY <2>1 DEF Coming
<1>4. ASSUME w = <<"rr", "wr">> PROVE Coming("wr")'
  <2>1. 2 \in 1..Len(wake'[a]) /\ wake'[a][2] = "wr"
    BY <1>1, <1>4
  <2> QED BY <2>1 DEF Coming
<1> QED BY <1>2, <1>3, <1>4

(* What clearing Qstarve and Qflow comes to.                               *)
LEMMA StarveFacts ==
  ASSUME wake \in [Actor -> Seq({"rr", "wr"})], NEW a \in Actor, wake[a] = <<>>, StarveWake(a)
  PROVE  /\ starve' = FALSE
         /\ starve => Coming("rr")'
         /\ \A x : Coming(x) => Coming(x)'
<1>1. starve' = FALSE /\ wake' = [wake EXCEPT ![a] = IF starve THEN <<"rr">> ELSE <<>>]
  BY DEF StarveWake
<1>2. ASSUME starve PROVE Coming("rr")'
  <2>1. wake' = [wake EXCEPT ![a] = <<"rr">>]
    BY <1>1, <1>2
  <2> QED BY <2>1, ComingNew
<1>3. \A x : Coming(x) => Coming(x)'
  BY <1>1, ComingKept
<1> QED BY <1>1, <1>2, <1>3

LEMMA FlowFacts ==
  ASSUME wake \in [Actor -> Seq({"rr", "wr"})], NEW a \in Actor, wake[a] = <<>>,
         NEW mark, FlowWake(a, mark)
  PROVE  /\ flow' => flow
         /\ flow /\ ~flow' => len' < mark /\ Coming("wr")'
         /\ flow /\ len' < mark => Coming("wr")'
         /\ \A x : Coming(x) => Coming(x)'
<1>1. /\ flow' = (flow /\ ~(flow /\ len' < mark))
      /\ wake' = [wake EXCEPT ![a] = IF flow /\ len' < mark THEN <<"wr">> ELSE <<>>]
  BY DEF FlowWake
<1>2. ASSUME flow /\ len' < mark PROVE Coming("wr")'
  <2>1. wake' = [wake EXCEPT ![a] = <<"wr">>]
    BY <1>1, <1>2
  <2> QED BY <2>1, ComingNew
<1>3. \A x : Coming(x) => Coming(x)'
  BY <1>1, ComingKept
<1>4. (flow' => flow) /\ (flow /\ ~flow' => len' < mark)
  BY <1>1, Zenon
<1> QED BY <1>2, <1>3, <1>4

Awaited == /\ Coming("rr") => Coming("rr")' \/ rr' = Nil
           /\ Coming("wr") => Coming("wr")' \/ wr' = Nil

(* A Wakeup on its way stays so until it is done.                          *)
LEMMA ComingStep ==
  ASSUME Control, Next
  PROVE  Awaited
<1> USE DEF queue, flags, modes, aux, control, Awaited
<1>a. wake \in [Actor -> Seq({"rr", "wr"})] /\ Wakes
  BY DEF Control, Shapes
<1>b. wake' = wake => \A x : Coming(x)' = Coming(x)
  BY DEF Coming
<1>1. ASSUME NEW p \in Reader, CallRead(p) PROVE Awaited
  <2>1. wake' = wake
    BY <1>1 DEF CallRead
  <2> QED BY <1>b, <2>1
<1>2. ASSUME NEW p \in Reader, RLock(p) PROVE Awaited
  <2>1. wake' = wake
    BY <1>2 DEF RLock
  <2> QED BY <1>b, <2>1
<1>3. ASSUME NEW p \in Reader, ReadEof(p) PROVE Awaited
  <2>1. wake' = wake
    BY <1>3 DEF ReadEof
  <2> QED BY <1>b, <2>1
<1>4. ASSUME NEW p \in Reader, ReadStarve(p) PROVE Awaited
  <2>1. wake' = wake
    BY <1>4 DEF ReadStarve
  <2> QED BY <1>b, <2>1
<1>5. ASSUME NEW p \in Reader, ReadSleep(p) PROVE Awaited
  <2>1. wake' = wake
    BY <1>5 DEF ReadSleep
  <2> QED BY <1>b, <2>1
<1>6. ASSUME NEW p \in Reader, ReadTake(p) PROVE Awaited
  <2>1. wake' = wake
    BY <1>6 DEF ReadTake
  <2> QED BY <1>b, <2>1
<1>7. ASSUME NEW p \in Reader, ReadDone(p) PROVE Awaited
  <2>1. FlowWake(p, Limit \div 2) /\ p \in Actor /\ wake[p] = <<>>
    BY <1>7, <1>a, ActorAssumption DEF ReadDone, Goto, Wakes, Proc, Actor
  <2> QED BY <1>a, <2>1, FlowFacts
<1>8. ASSUME NEW p \in Reader, BlockRead(p) PROVE Awaited
  <2>1. FlowWake(p, Limit \div 2) /\ p \in Actor /\ wake[p] = <<>>
    BY <1>8, <1>a, ActorAssumption DEF BlockRead, Goto, Wakes, Proc, Actor
  <2> QED BY <1>a, <2>1, FlowFacts
<1>9. ASSUME NEW p \in Reader, ReadReturn(p) PROVE Awaited
  <2>1. wake' = wake
    BY <1>9 DEF ReadReturn
  <2> QED BY <1>b, <2>1
<1>10. ASSUME NEW p \in Reader, ReadEintr(p) PROVE Awaited
  <2>1. wake' = wake
    BY <1>10 DEF ReadEintr
  <2> QED BY <1>b, <2>1
<1>11. ASSUME NEW p \in Writer, CallWrite(p) PROVE Awaited
  <2>1. wake' = wake
    BY <1>11 DEF CallWrite
  <2> QED BY <1>b, <2>1
<1>12. ASSUME NEW p \in Writer, WLock(p) PROVE Awaited
  <2>1. wake' = wake
    BY <1>12 DEF WLock
  <2> QED BY <1>b, <2>1
<1>13. ASSUME NEW p \in Writer, WriteClosed(p) PROVE Awaited
  <2>1. wake' = wake
    BY <1>13 DEF WriteClosed
  <2> QED BY <1>b, <2>1
<1>14. ASSUME NEW p \in Writer, WriteDropped(p) PROVE Awaited
  <2>1. wake' = wake
    BY <1>14 DEF WriteDropped
  <2> QED BY <1>b, <2>1
<1>15. ASSUME NEW p \in Writer, WritePut(p) PROVE Awaited
  <2>1. StarveWake(p) /\ p \in Actor /\ wake[p] = <<>>
    BY <1>15, <1>a, ActorAssumption DEF WritePut, Goto, Wakes, Proc, Actor
  <2> QED BY <1>a, <2>1, StarveFacts
<1>16. ASSUME NEW p \in Writer, WriteCheck(p) PROVE Awaited
  <2>1. wake' = wake
    BY <1>16 DEF WriteCheck
  <2> QED BY <1>b, <2>1
<1>17. ASSUME NEW p \in Writer, WriteFlow(p) PROVE Awaited
  <2>1. wake' = wake
    BY <1>17 DEF WriteFlow
  <2> QED BY <1>b, <2>1
<1>18. ASSUME NEW p \in Writer, WriteSleep(p) PROVE Awaited
  <2>1. wake' = wake
    BY <1>18 DEF WriteSleep
  <2> QED BY <1>b, <2>1
<1>19. ASSUME NEW p \in Writer, WriteNext(p) PROVE Awaited
  <2>1. wake' = wake
    BY <1>19 DEF WriteNext
  <2> QED BY <1>b, <2>1
<1>20. ASSUME NEW p \in Writer, WriteEintr(p) PROVE Awaited
  <2>1. wake' = wake
    BY <1>20 DEF WriteEintr
  <2> QED BY <1>b, <2>1
<1>21. ASSUME NEW d \in Dev, qproduce(d) PROVE Awaited
  <2>1. d \in Actor /\ wake[d] = <<>> /\ (StarveWake(d) \/ wake' = wake)
    BY <1>21 DEF qproduce, Call, Awake, Put, Actor
  <2> QED BY <1>a, <1>b, <2>1, StarveFacts
<1>22. ASSUME NEW d \in Dev, qpass(d) PROVE Awaited
  <2>1. d \in Actor /\ wake[d] = <<>> /\ (StarveWake(d) \/ wake' = wake)
    BY <1>22 DEF qpass, Call, Awake, Put, Actor
  <2> QED BY <1>a, <1>b, <2>1, StarveFacts
<1>23. ASSUME NEW d \in Dev, CallIwrite(d) PROVE Awaited
  <2>1. wake' = wake
    BY <1>23 DEF CallIwrite
  <2> QED BY <1>b, <2>1
<1>24. ASSUME NEW d \in Dev, Iwrite(d) PROVE Awaited
  <2>1. /\ d \in Actor /\ wake[d] = <<>>
        /\ wake' = [wake EXCEPT ![d] = wake'[d]]
    BY <1>24, <1>a DEF Iwrite, Awake, Actor
  <2> QED BY <1>a, <2>1, ComingKept
<1>25. ASSUME NEW d \in Dev, qget(d) PROVE Awaited
  <2>1. d \in Actor /\ wake[d] = <<>> /\ (FlowWake(d, Limit \div 2) \/ wake' = wake)
    BY <1>25 DEF qget, Call, Awake, Actor
  <2> QED BY <1>a, <1>b, <2>1, FlowFacts
<1>26. ASSUME NEW d \in Dev, qdiscard(d) PROVE Awaited
  <2>1. d \in Actor /\ wake[d] = <<>> /\ FlowWake(d, Limit)
    BY <1>26 DEF qdiscard, Call, Awake, Actor
  <2> QED BY <1>a, <2>1, FlowFacts
<1>27. ASSUME NEW d \in Dev, qconsume(d) PROVE Awaited
  <2>1. d \in Actor /\ wake[d] = <<>> /\ (FlowWake(d, Limit \div 2) \/ wake' = wake)
    BY <1>27 DEF qconsume, Call, Awake, Actor
  <2> QED BY <1>a, <1>b, <2>1, FlowFacts
<1>28. ASSUME NEW d \in Dev, qflush(d) PROVE Awaited
  <2>1. /\ d \in Actor /\ wake[d] = <<>>
        /\ \E w : wake' = [wake EXCEPT ![d] = w]
    BY <1>28 DEF qflush, Call, Awake, Actor, WakeBoth
  <2> QED BY <1>a, <2>1, ComingKept
<1>29. ASSUME NEW d \in Dev, qclose(d) PROVE Awaited
  <2>1. /\ d \in Actor /\ wake[d] = <<>>
        /\ \E w : wake' = [wake EXCEPT ![d] = w]
    BY <1>29 DEF qclose, Call, Awake, Actor, WakeBoth
  <2> QED BY <1>a, <2>1, ComingKept
<1>30. ASSUME NEW d \in Dev, qhangup(d) PROVE Awaited
  <2>1. /\ d \in Actor /\ wake[d] = <<>>
        /\ \E w : wake' = [wake EXCEPT ![d] = w]
    BY <1>30 DEF qhangup, Call, Awake, Actor, WakeBoth
  <2> QED BY <1>a, <2>1, ComingKept
<1>31. ASSUME NEW d \in Dev, qreopen(d) PROVE Awaited
  <2>1. wake' = wake
    BY <1>31 DEF qreopen
  <2> QED BY <1>b, <2>1
<1>32. ASSUME NEW d \in Dev, qnoblock(d) PROVE Awaited
  <2>1. wake' = wake
    BY <1>32 DEF qnoblock
  <2> QED BY <1>b, <2>1
<1>33. ASSUME NEW a \in Actor, Wakeup(a) PROVE Awaited
  <2>1. CASE Head(wake[a]) = "rr" /\ rr' = Nil
    <3>1. ASSUME Coming("wr") PROVE Coming("wr")'
      <4>0. PICK b \in Actor : \E i \in 1..Len(wake[b]) : wake[b][i] = "wr"
        BY <3>1 DEF Coming
      <4>1. PICK i \in 1..Len(wake[b]) : wake[b][i] = "wr"
        BY <4>0
      <4>2. CASE b # a
        <5>1. wake'[b] = wake[b]
          BY <1>33, <1>a, <4>2 DEF Wakeup
        <5> QED BY <4>1, <5>1 DEF Coming
      <4>3. CASE b = a
        <5>1. wake'[a] = Tail(wake[a]) /\ wake[a] \in Seq({"rr", "wr"}) /\ wake[a] # <<>>
          BY <1>33, <1>a DEF Wakeup
        <5>2. /\ Head(wake[a]) = wake[a][1] /\ Len(wake[a]) \in Nat \ {0}
              /\ Len(Tail(wake[a])) = Len(wake[a]) - 1
              /\ \A j \in 1..Len(Tail(wake[a])) : Tail(wake[a])[j] = wake[a][j + 1]
          BY <5>1, HeadTailProperties, EmptySeq
        <5>3. i # 1 /\ i \in Int
          BY <2>1, <4>1, <4>3, <5>2
        <5>4. i - 1 \in 1..Len(wake'[a]) /\ i - 1 + 1 = i
          BY <4>3, <5>1, <5>2, <5>3
        <5>5. wake'[a][i - 1] = "wr"
          BY <4>1, <4>3, <5>1, <5>2, <5>4
        <5> QED BY <5>4, <5>5 DEF Coming
      <4> QED BY <4>2, <4>3
    <3> QED BY <2>1, <3>1
  <2>2. CASE Head(wake[a]) = "wr" /\ wr' = Nil
    <3>1. ASSUME Coming("rr") PROVE Coming("rr")'
      <4>0. PICK b \in Actor : \E i \in 1..Len(wake[b]) : wake[b][i] = "rr"
        BY <3>1 DEF Coming
      <4>1. PICK i \in 1..Len(wake[b]) : wake[b][i] = "rr"
        BY <4>0
      <4>2. CASE b # a
        <5>1. wake'[b] = wake[b]
          BY <1>33, <1>a, <4>2 DEF Wakeup
        <5> QED BY <4>1, <5>1 DEF Coming
      <4>3. CASE b = a
        <5>1. wake'[a] = Tail(wake[a]) /\ wake[a] \in Seq({"rr", "wr"}) /\ wake[a] # <<>>
          BY <1>33, <1>a DEF Wakeup
        <5>2. /\ Head(wake[a]) = wake[a][1] /\ Len(wake[a]) \in Nat \ {0}
              /\ Len(Tail(wake[a])) = Len(wake[a]) - 1
              /\ \A j \in 1..Len(Tail(wake[a])) : Tail(wake[a])[j] = wake[a][j + 1]
          BY <5>1, HeadTailProperties, EmptySeq
        <5>3. i # 1 /\ i \in Int
          BY <2>2, <4>1, <4>3, <5>2
        <5>4. i - 1 \in 1..Len(wake'[a]) /\ i - 1 + 1 = i
          BY <4>3, <5>1, <5>2, <5>3
        <5>5. wake'[a][i - 1] = "rr"
          BY <4>1, <4>3, <5>1, <5>2, <5>4
        <5> QED BY <5>4, <5>5 DEF Coming
      <4> QED BY <4>2, <4>3
    <3> QED BY <2>2, <3>1
  <2> QED BY <1>33, <2>1, <2>2 DEF Wakeup
<1> HIDE DEF Awaited
<1> QED BY <1>1, <1>2, <1>3, <1>4, <1>5, <1>6, <1>7, <1>8, <1>9, <1>10, <1>11, <1>12,
   <1>13, <1>14, <1>15, <1>16, <1>17, <1>18, <1>19, <1>20, <1>21, <1>22, <1>23, <1>24,
   <1>25, <1>26, <1>27, <1>28, <1>29, <1>30, <1>31, <1>32, <1>33 DEF Next, Reading,
   Writing, Device

-----------------------------------------------------------------------------
(* No reader is left behind.                                               *)

(* A posted reader has either asked to be woken, of an empty queue that is *)
(* open, or will be; one on the way to Sleep finds its condition true or   *)
(* has its request still standing.                                         *)
ReaderPosted == rr # Nil => Coming("rr") \/ (starve /\ q = <<>> /\ ~closed)
ReaderSleeps == \A p \in Actor : pc[p] = "rsleep" => starve \/ notempty

(* Only the holder of q->rlock sleeps, and a queue that is read by         *)
(* processes is not drained by a driver.                                   *)
LEMMA ReaderFacts ==
  ASSUME Control
  PROVE  /\ rr # Nil => pc[rr] = "rblock" /\ rlock = rr /\ rr \in Actor /\ use.reader # {}
         /\ \A p \in Actor : pc[p] = "rsleep" => rlock = p /\ use.reader # {}
         /\ \A p \in Actor : pc[p] \in RHolds => rlock = p
         /\ Nil \notin Actor /\ pc \in [Actor -> PC]
         /\ use.reader # {} =>
              /\ "qget" \notin use.ops /\ "qconsume" \notin use.ops
              /\ "qdiscard" \notin use.ops /\ "qflush" \notin use.ops
<1>1. use \in Uses /\ rr \in Reader \cup {Nil} /\ pc \in [Actor -> PC]
  BY DEF Control, Shapes
<1>2. AsUsed(use)
  BY <1>1, UseFacts
<1>3. use.reader # {} => /\ "qget" \notin use.ops /\ "qconsume" \notin use.ops
                         /\ "qdiscard" \notin use.ops /\ "qflush" \notin use.ops
  BY <1>2 DEF AsUsed
<1>4. \A p \in Actor : pc[p] \in RHolds => rlock = p /\ use.reader # {}
  BY DEF Control, Locks, Roles, RHolds, Reads
<1>5. rr # Nil => pc[rr] = "rblock" /\ rr \in Actor
  BY <1>1 DEF Control, Locks, Actor, Proc
<1> QED BY <1>1, <1>3, <1>4, <1>5, ActorAssumption DEF RHolds

(* What is added is something.                                             *)
LEMMA NotEmptied ==
  ASSUME Contents, NEW s, Added(s)
  PROVE  q' # <<>>
<1>1. q \in Seq(FitBlock) /\ s \in Seq(FitBlock) /\ s # <<>> /\ q' = q \o s
  BY DEF Contents, Added
<1> QED BY <1>1, Behind, FitFacts

(* A posted reader is still going to be woken.                             *)
LEMMA PostedStep ==
  ASSUME Control, Contents, ReaderPosted, ReaderSleeps, Next
  PROVE  ReaderPosted'
<1> USE DEF queue, flags, modes, locks, aux, control, ReaderPosted, RUnlock
<1>a. /\ ReaderPosted /\ ReaderSleeps
      /\ Coming("rr") => Coming("rr")' \/ rr' = Nil
      /\ rr # Nil => pc[rr] = "rblock" /\ rlock = rr /\ rr \in Actor /\ use.reader # {}
      /\ \A p \in Actor : pc[p] \in RHolds => rlock = p
      /\ use.reader # {} => /\ "qget" \notin use.ops /\ "qconsume" \notin use.ops
                            /\ "qdiscard" \notin use.ops /\ "qflush" \notin use.ops
  BY ComingStep, ReaderFacts DEF Awaited
<1>1. ASSUME NEW p \in Reader, CallRead(p) PROVE ReaderPosted'
  <2>1. UNCHANGED <<starve, q, closed, rr>>
    BY <1>1 DEF CallRead
  <2> QED BY <1>a, <2>1
<1>2. ASSUME NEW p \in Reader, RLock(p) PROVE ReaderPosted'
  <2>1. UNCHANGED <<starve, q, closed, rr>>
    BY <1>2 DEF RLock
  <2> QED BY <1>a, <2>1
<1>3. ASSUME NEW p \in Reader, ReadEof(p) PROVE ReaderPosted'
  <2>1. p \in Actor /\ pc[p] \in {"rwait", "copy"} /\ rr' = rr
    BY <1>3 DEF ReadEof, Goto, Actor, Proc
  <2>2. rr = Nil
    BY <1>a, <2>1 DEF RHolds
  <2> QED BY <2>1, <2>2
<1>4. ASSUME NEW p \in Reader, ReadStarve(p) PROVE ReaderPosted'
  <2>1. p \in Actor /\ pc[p] \in {"rwait", "copy"} /\ rr' = rr
    BY <1>4 DEF ReadStarve, Goto, Actor, Proc
  <2>2. rr = Nil
    BY <1>a, <2>1 DEF RHolds
  <2> QED BY <2>1, <2>2
<1>5. ASSUME NEW p \in Reader, ReadSleep(p) PROVE ReaderPosted'
  <2>1. CASE rr' = p /\ pc[p] = "rsleep" /\ ~notempty
    <3>1. starve /\ p \in Actor
      BY <1>a, <2>1 DEF ReaderSleeps, Actor, Proc
    <3>2. q = <<>> /\ ~closed /\ UNCHANGED <<starve, q, closed>>
      BY <1>5, <2>1 DEF ReadSleep, notempty
    <3> QED BY <3>1, <3>2
  <2>2. CASE rr' = rr
    <3>1. UNCHANGED <<starve, q, closed>>
      BY <1>5 DEF ReadSleep
    <3> QED BY <1>a, <2>2, <3>1
  <2> QED BY <1>5, <2>1, <2>2 DEF ReadSleep, Goto
<1>6. ASSUME NEW p \in Reader, ReadTake(p) PROVE ReaderPosted'
  <2>1. p \in Actor /\ pc[p] \in {"rwait", "copy"} /\ rr' = rr
    BY <1>6 DEF ReadTake, Goto, Actor, Proc
  <2>2. rr = Nil
    BY <1>a, <2>1 DEF RHolds
  <2> QED BY <2>1, <2>2
<1>7. ASSUME NEW p \in Reader, ReadDone(p) PROVE ReaderPosted'
  <2>1. p \in Actor /\ pc[p] \in {"rwait", "copy"} /\ rr' = rr
    BY <1>7 DEF ReadDone, Goto, Actor, Proc
  <2>2. rr = Nil
    BY <1>a, <2>1 DEF RHolds
  <2> QED BY <2>1, <2>2
<1>8. ASSUME NEW p \in Reader, BlockRead(p) PROVE ReaderPosted'
  <2>1. p \in Actor /\ pc[p] \in {"rwait", "copy"} /\ rr' = rr
    BY <1>8 DEF BlockRead, Goto, Actor, Proc
  <2>2. rr = Nil
    BY <1>a, <2>1 DEF RHolds
  <2> QED BY <2>1, <2>2
<1>9. ASSUME NEW p \in Reader, ReadReturn(p) PROVE ReaderPosted'
  <2>1. UNCHANGED <<starve, q, closed, rr>>
    BY <1>9 DEF ReadReturn, RUnlock
  <2> QED BY <1>a, <2>1
<1>10. ASSUME NEW p \in Reader, ReadEintr(p) PROVE ReaderPosted'
  <2>1. UNCHANGED <<starve, q, closed>> /\ (rr' = rr \/ rr' = Nil)
    BY <1>10 DEF ReadEintr
  <2> QED BY <1>a, <2>1
<1>11. ASSUME NEW p \in Writer, CallWrite(p) PROVE ReaderPosted'
  <2>1. UNCHANGED <<starve, q, closed, rr>>
    BY <1>11 DEF CallWrite
  <2> QED BY <1>a, <2>1
<1>12. ASSUME NEW p \in Writer, WLock(p) PROVE ReaderPosted'
  <2>1. UNCHANGED <<starve, q, closed, rr>>
    BY <1>12 DEF WLock
  <2> QED BY <1>a, <2>1
<1>13. ASSUME NEW p \in Writer, WriteClosed(p) PROVE ReaderPosted'
  <2>1. UNCHANGED <<starve, q, closed, rr>>
    BY <1>13 DEF WriteClosed, WUnlock
  <2> QED BY <1>a, <2>1
<1>14. ASSUME NEW p \in Writer, WriteDropped(p) PROVE ReaderPosted'
  <2>1. UNCHANGED <<starve, q, closed, rr>>
    BY <1>14 DEF WriteDropped, WUnlock
  <2> QED BY <1>a, <2>1
<1>15. ASSUME NEW p \in Writer, WritePut(p) PROVE ReaderPosted'
  <2>1. /\ StarveWake(p) /\ p \in Actor /\ wake[p] = <<>> /\ rr' = rr
    BY <1>15, ActorAssumption DEF WritePut, Goto, Wakes, Proc, Actor, Control
  <2>2. wake \in [Actor -> Seq({"rr", "wr"})]
    BY DEF Control, Shapes
  <2> QED BY <1>a, <2>1, <2>2, StarveFacts
<1>16. ASSUME NEW p \in Writer, WriteCheck(p) PROVE ReaderPosted'
  <2>1. UNCHANGED <<starve, q, closed, rr>>
    BY <1>16 DEF WriteCheck, WUnlock
  <2> QED BY <1>a, <2>1
<1>17. ASSUME NEW p \in Writer, WriteFlow(p) PROVE ReaderPosted'
  <2>1. UNCHANGED <<starve, q, closed, rr>>
    BY <1>17 DEF WriteFlow
  <2> QED BY <1>a, <2>1
<1>18. ASSUME NEW p \in Writer, WriteSleep(p) PROVE ReaderPosted'
  <2>1. UNCHANGED <<starve, q, closed, rr>>
    BY <1>18 DEF WriteSleep
  <2> QED BY <1>a, <2>1
<1>19. ASSUME NEW p \in Writer, WriteNext(p) PROVE ReaderPosted'
  <2>1. UNCHANGED <<starve, q, closed, rr>>
    BY <1>19 DEF WriteNext
  <2> QED BY <1>a, <2>1
<1>20. ASSUME NEW p \in Writer, WriteEintr(p) PROVE ReaderPosted'
  <2>1. UNCHANGED <<starve, q, closed, rr>>
    BY <1>20 DEF WriteEintr
  <2> QED BY <1>a, <2>1
<1>21. ASSUME NEW d \in Dev, qproduce(d) PROVE ReaderPosted'
  <2>1. /\ d \in Actor /\ wake[d] = <<>> /\ rr' = rr /\ closed' = closed
    BY <1>21 DEF qproduce, Call, Awake, Actor
  <2>2. wake \in [Actor -> Seq({"rr", "wr"})]
    BY DEF Control, Shapes
  <2>3. CASE q' = q /\ starve' = starve
    BY <1>a, <2>1, <2>3
  <2>4. CASE StarveWake(d)
    <3>1. (starve => Coming("rr")') /\ (Coming("rr") => Coming("rr")')
      BY <2>1, <2>2, <2>4, StarveFacts
    <3> QED BY <1>a, <2>1, <3>1
  <2> QED BY <1>21, <2>3, <2>4, ProduceFacts
<1>22. ASSUME NEW d \in Dev, qpass(d) PROVE ReaderPosted'
  <2>1. /\ d \in Actor /\ wake[d] = <<>> /\ rr' = rr /\ closed' = closed
    BY <1>22 DEF qpass, Call, Awake, Actor
  <2>2. wake \in [Actor -> Seq({"rr", "wr"})]
    BY DEF Control, Shapes
  <2>3. CASE q' = q /\ starve' = starve
    BY <1>a, <2>1, <2>3
  <2>4. CASE StarveWake(d)
    <3>1. (starve => Coming("rr")') /\ (Coming("rr") => Coming("rr")')
      BY <2>1, <2>2, <2>4, StarveFacts
    <3> QED BY <1>a, <2>1, <3>1
  <2> QED BY <1>22, <2>3, <2>4, ProduceFacts
<1>23. ASSUME NEW d \in Dev, CallIwrite(d) PROVE ReaderPosted'
  <2>1. UNCHANGED <<starve, q, closed, rr>>
    BY <1>23 DEF CallIwrite
  <2> QED BY <1>a, <2>1
<1>24. ASSUME NEW d \in Dev, Iwrite(d) PROVE ReaderPosted'
  <2>1. /\ d \in Actor /\ rr' = rr
        /\ starve => wake' = [wake EXCEPT ![d] = <<"rr">>]
    BY <1>24 DEF Iwrite, Actor
  <2>2. wake \in [Actor -> Seq({"rr", "wr"})]
    BY DEF Control, Shapes
  <2> QED BY <1>a, <2>1, <2>2, ComingNew
<1>25. ASSUME NEW d \in Dev, qget(d) PROVE ReaderPosted'
  <2>1. "qget" \in use.ops /\ rr' = rr
    BY <1>25 DEF qget, Call
  <2> QED BY <1>a, <2>1
<1>26. ASSUME NEW d \in Dev, qdiscard(d) PROVE ReaderPosted'
  <2>1. "qdiscard" \in use.ops /\ rr' = rr
    BY <1>26 DEF qdiscard, Call
  <2> QED BY <1>a, <2>1
<1>27. ASSUME NEW d \in Dev, qconsume(d) PROVE ReaderPosted'
  <2>1. "qconsume" \in use.ops /\ rr' = rr
    BY <1>27 DEF qconsume, Call
  <2> QED BY <1>a, <2>1
<1>28. ASSUME NEW d \in Dev, qflush(d) PROVE ReaderPosted'
  <2>1. "qflush" \in use.ops /\ rr' = rr
    BY <1>28 DEF qflush, Call
  <2> QED BY <1>a, <2>1
<1>29. ASSUME NEW d \in Dev, qclose(d) PROVE ReaderPosted'
  <2>1. d \in Actor /\ wake' = [wake EXCEPT ![d] = <<"rr", "wr">>]
    BY <1>29 DEF qclose, WakeBoth, Actor
  <2>2. wake \in [Actor -> Seq({"rr", "wr"})]
    BY DEF Control, Shapes
  <2> QED BY <2>1, <2>2, ComingNew
<1>30. ASSUME NEW d \in Dev, qhangup(d) PROVE ReaderPosted'
  <2>1. d \in Actor /\ wake' = [wake EXCEPT ![d] = <<"rr", "wr">>]
    BY <1>30 DEF qhangup, WakeBoth, Actor
  <2>2. wake \in [Actor -> Seq({"rr", "wr"})]
    BY DEF Control, Shapes
  <2> QED BY <2>1, <2>2, ComingNew
<1>31. ASSUME NEW d \in Dev, qreopen(d) PROVE ReaderPosted'
  <2>1. rr' = rr /\ starve' = TRUE /\ closed' = FALSE /\ q' = q
    BY <1>31 DEF qreopen
  <2>2. use.owned /\ \A p \in Proc : pc[p] = "idle"
    <3>1. AsUsed(use) /\ "qreopen" \in use.ops
      BY <1>31, UseFacts DEF qreopen, Call, Control, Shapes
    <3>2. use.owned
      BY <3>1 DEF AsUsed
    <3> QED BY <1>31, <3>2 DEF qreopen, NoCall
  <2>3. rr \in Reader \cup {Nil}
    BY DEF Control, Shapes
  <2>4. rr = Nil
    BY <1>a, <2>2, <2>3 DEF Proc
  <2> QED BY <2>1, <2>4
<1>32. ASSUME NEW d \in Dev, qnoblock(d) PROVE ReaderPosted'
  <2>1. UNCHANGED <<starve, q, closed, rr>>
    BY <1>32 DEF qnoblock
  <2> QED BY <1>a, <2>1
<1>33. ASSUME NEW a \in Actor, Wakeup(a) PROVE ReaderPosted'
  <2>1. UNCHANGED <<starve, q, closed>> /\ (rr' = rr \/ rr' = Nil)
    BY <1>33 DEF Wakeup
  <2> QED BY <1>a, <2>1
<1> QED BY <1>1, <1>2, <1>3, <1>4, <1>5, <1>6, <1>7, <1>8, <1>9, <1>10, <1>11, <1>12,
   <1>13, <1>14, <1>15, <1>16, <1>17, <1>18, <1>19, <1>20, <1>21, <1>22, <1>23, <1>24,
   <1>25, <1>26, <1>27, <1>28, <1>29, <1>30, <1>31, <1>32, <1>33 DEF Next, Reading,
   Writing, Device

(* A reader on its way to sleep is still to be told.                       *)
LEMMA SleepsStep ==
  ASSUME Control, Contents, ReaderSleeps, Next
  PROVE  ReaderSleeps'
<1> USE DEF queue, flags, modes, locks, aux, control, ReaderSleeps, notempty
<1>a. /\ ReaderSleeps /\ pc \in [Actor -> PC]
      /\ \A p \in Actor : pc[p] = "rsleep" => rlock = p /\ use.reader # {}
      /\ \A p \in Actor : pc[p] \in RHolds => rlock = p
      /\ use.reader # {} => /\ "qget" \notin use.ops /\ "qconsume" \notin use.ops
                            /\ "qdiscard" \notin use.ops /\ "qflush" \notin use.ops
  BY ReaderFacts
<1>1. ASSUME NEW p \in Reader, CallRead(p) PROVE ReaderSleeps'
  <2>1. UNCHANGED <<starve, q, closed>>
    BY <1>1 DEF CallRead
  <2>2. \A r \in Actor : pc'[r] = "rsleep" => pc[r] = "rsleep"
    BY <1>1, <1>a DEF CallRead, Goto
  <2> QED BY <1>a, <2>1, <2>2
<1>2. ASSUME NEW p \in Reader, RLock(p) PROVE ReaderSleeps'
  <2>1. UNCHANGED <<starve, q, closed>>
    BY <1>2 DEF RLock
  <2>2. \A r \in Actor : pc'[r] = "rsleep" => pc[r] = "rsleep"
    BY <1>2, <1>a DEF RLock, Goto
  <2> QED BY <1>a, <2>1, <2>2
<1>3. ASSUME NEW p \in Reader, ReadEof(p) PROVE ReaderSleeps'
  <2>1. /\ p \in Actor /\ pc[p] \in RHolds /\ pc' = [pc EXCEPT ![p] = "idle"]
    BY <1>3 DEF ReadEof, Goto, Actor, Proc, RHolds
  <2>2. \A r \in Actor : pc'[r] # "rsleep"
    BY <1>a, <2>1
  <2> QED BY <2>2
<1>4. ASSUME NEW p \in Reader, ReadStarve(p) PROVE ReaderSleeps'
  <2>1. starve' = TRUE
    BY <1>4 DEF ReadStarve
  <2> QED BY <2>1
<1>5. ASSUME NEW p \in Reader, ReadSleep(p) PROVE ReaderSleeps'
  <2>1. UNCHANGED <<starve, q, closed>>
    BY <1>5 DEF ReadSleep
  <2>2. \A r \in Actor : pc'[r] = "rsleep" => pc[r] = "rsleep"
    BY <1>5, <1>a DEF ReadSleep, Goto
  <2> QED BY <1>a, <2>1, <2>2
<1>6. ASSUME NEW p \in Reader, ReadTake(p) PROVE ReaderSleeps'
  <2>1. /\ p \in Actor /\ pc[p] \in RHolds /\ pc' = [pc EXCEPT ![p] = "copy"]
    BY <1>6 DEF ReadTake, Goto, Actor, Proc, RHolds
  <2>2. \A r \in Actor : pc'[r] # "rsleep"
    BY <1>a, <2>1
  <2> QED BY <2>2
<1>7. ASSUME NEW p \in Reader, ReadDone(p) PROVE ReaderSleeps'
  <2>1. /\ p \in Actor /\ pc[p] \in RHolds /\ pc' = [pc EXCEPT ![p] = "rdone"]
    BY <1>7 DEF ReadDone, Goto, Actor, Proc, RHolds
  <2>2. \A r \in Actor : pc'[r] # "rsleep"
    BY <1>a, <2>1
  <2> QED BY <2>2
<1>8. ASSUME NEW p \in Reader, BlockRead(p) PROVE ReaderSleeps'
  <2>1. /\ p \in Actor /\ pc[p] \in RHolds /\ pc' = [pc EXCEPT ![p] = "rdone"]
    BY <1>8 DEF BlockRead, Goto, Actor, Proc, RHolds
  <2>2. \A r \in Actor : pc'[r] # "rsleep"
    BY <1>a, <2>1
  <2> QED BY <2>2
<1>9. ASSUME NEW p \in Reader, ReadReturn(p) PROVE ReaderSleeps'
  <2>1. UNCHANGED <<starve, q, closed>>
    BY <1>9 DEF ReadReturn
  <2>2. \A r \in Actor : pc'[r] = "rsleep" => pc[r] = "rsleep"
    BY <1>9, <1>a DEF ReadReturn, Goto
  <2> QED BY <1>a, <2>1, <2>2
<1>10. ASSUME NEW p \in Reader, ReadEintr(p) PROVE ReaderSleeps'
  <2>1. UNCHANGED <<starve, q, closed>>
    BY <1>10 DEF ReadEintr
  <2>2. \A r \in Actor : pc'[r] = "rsleep" => pc[r] = "rsleep"
    BY <1>10, <1>a DEF ReadEintr, Goto
  <2> QED BY <1>a, <2>1, <2>2
<1>11. ASSUME NEW p \in Writer, CallWrite(p) PROVE ReaderSleeps'
  <2>1. UNCHANGED <<starve, q, closed>>
    BY <1>11 DEF CallWrite
  <2>2. \A r \in Actor : pc'[r] = "rsleep" => pc[r] = "rsleep"
    BY <1>11, <1>a DEF CallWrite, Goto
  <2> QED BY <1>a, <2>1, <2>2
<1>12. ASSUME NEW p \in Writer, WLock(p) PROVE ReaderSleeps'
  <2>1. UNCHANGED <<starve, q, closed>>
    BY <1>12 DEF WLock
  <2>2. \A r \in Actor : pc'[r] = "rsleep" => pc[r] = "rsleep"
    BY <1>12, <1>a DEF WLock, Goto
  <2> QED BY <1>a, <2>1, <2>2
<1>13. ASSUME NEW p \in Writer, WriteClosed(p) PROVE ReaderSleeps'
  <2>1. UNCHANGED <<starve, q, closed>>
    BY <1>13 DEF WriteClosed
  <2>2. \A r \in Actor : pc'[r] = "rsleep" => pc[r] = "rsleep"
    BY <1>13, <1>a DEF WriteClosed, Goto
  <2> QED BY <1>a, <2>1, <2>2
<1>14. ASSUME NEW p \in Writer, WriteDropped(p) PROVE ReaderSleeps'
  <2>1. UNCHANGED <<starve, q, closed>>
    BY <1>14 DEF WriteDropped
  <2>2. \A r \in Actor : pc'[r] = "rsleep" => pc[r] = "rsleep"
    BY <1>14, <1>a DEF WriteDropped, Goto
  <2> QED BY <1>a, <2>1, <2>2
<1>15. ASSUME NEW p \in Writer, WritePut(p) PROVE ReaderSleeps'
  <2>1. q' # <<>>
    BY <1>15, WritePutFacts, NotEmptied
  <2> QED BY <2>1
<1>16. ASSUME NEW p \in Writer, WriteCheck(p) PROVE ReaderSleeps'
  <2>1. UNCHANGED <<starve, q, closed>>
    BY <1>16 DEF WriteCheck
  <2>2. \A r \in Actor : pc'[r] = "rsleep" => pc[r] = "rsleep"
    BY <1>16, <1>a DEF WriteCheck, Goto
  <2> QED BY <1>a, <2>1, <2>2
<1>17. ASSUME NEW p \in Writer, WriteFlow(p) PROVE ReaderSleeps'
  <2>1. UNCHANGED <<starve, q, closed>>
    BY <1>17 DEF WriteFlow
  <2>2. \A r \in Actor : pc'[r] = "rsleep" => pc[r] = "rsleep"
    BY <1>17, <1>a DEF WriteFlow, Goto
  <2> QED BY <1>a, <2>1, <2>2
<1>18. ASSUME NEW p \in Writer, WriteSleep(p) PROVE ReaderSleeps'
  <2>1. UNCHANGED <<starve, q, closed>>
    BY <1>18 DEF WriteSleep
  <2>2. \A r \in Actor : pc'[r] = "rsleep" => pc[r] = "rsleep"
    BY <1>18, <1>a DEF WriteSleep, Goto
  <2> QED BY <1>a, <2>1, <2>2
<1>19. ASSUME NEW p \in Writer, WriteNext(p) PROVE ReaderSleeps'
  <2>1. UNCHANGED <<starve, q, closed>>
    BY <1>19 DEF WriteNext
  <2>2. \A r \in Actor : pc'[r] = "rsleep" => pc[r] = "rsleep"
    BY <1>19, <1>a DEF WriteNext, Goto
  <2> QED BY <1>a, <2>1, <2>2
<1>20. ASSUME NEW p \in Writer, WriteEintr(p) PROVE ReaderSleeps'
  <2>1. UNCHANGED <<starve, q, closed>>
    BY <1>20 DEF WriteEintr
  <2>2. \A r \in Actor : pc'[r] = "rsleep" => pc[r] = "rsleep"
    BY <1>20, <1>a DEF WriteEintr, Goto
  <2> QED BY <1>a, <2>1, <2>2
<1>21. ASSUME NEW d \in Dev, qproduce(d) PROVE ReaderSleeps'
  <2>1. pc' = pc /\ closed' = closed
    BY <1>21 DEF qproduce
  <2>2. q' # <<>> \/ (q' = q /\ starve' = starve)
    BY <1>21, ProduceFacts, NotEmptied
  <2> QED BY <1>a, <2>1, <2>2
<1>22. ASSUME NEW d \in Dev, qpass(d) PROVE ReaderSleeps'
  <2>1. pc' = pc /\ closed' = closed
    BY <1>22 DEF qpass
  <2>2. q' # <<>> \/ (q' = q /\ starve' = starve)
    BY <1>22, ProduceFacts, NotEmptied
  <2> QED BY <1>a, <2>1, <2>2
<1>23. ASSUME NEW d \in Dev, CallIwrite(d) PROVE ReaderSleeps'
  <2>1. UNCHANGED <<starve, q, closed>>
    BY <1>23 DEF CallIwrite
  <2>2. \A r \in Actor : pc'[r] = "rsleep" => pc[r] = "rsleep"
    BY <1>23, <1>a DEF CallIwrite
  <2> QED BY <1>a, <2>1, <2>2
<1>24. ASSUME NEW d \in Dev, Iwrite(d) PROVE ReaderSleeps'
  <2>1. q' # <<>>
    BY <1>24, IwriteFacts, NotEmptied
  <2> QED BY <2>1
<1>25. ASSUME NEW d \in Dev, qget(d) PROVE ReaderSleeps'
  <2>1. "qget" \in use.ops /\ pc' = pc
    BY <1>25 DEF qget, Call
  <2> QED BY <1>a, <2>1
<1>26. ASSUME NEW d \in Dev, qdiscard(d) PROVE ReaderSleeps'
  <2>1. "qdiscard" \in use.ops /\ pc' = pc
    BY <1>26 DEF qdiscard, Call
  <2> QED BY <1>a, <2>1
<1>27. ASSUME NEW d \in Dev, qconsume(d) PROVE ReaderSleeps'
  <2>1. "qconsume" \in use.ops /\ pc' = pc
    BY <1>27 DEF qconsume, Call
  <2> QED BY <1>a, <2>1
<1>28. ASSUME NEW d \in Dev, qflush(d) PROVE ReaderSleeps'
  <2>1. "qflush" \in use.ops /\ pc' = pc
    BY <1>28 DEF qflush, Call
  <2> QED BY <1>a, <2>1
<1>29. ASSUME NEW d \in Dev, qclose(d) PROVE ReaderSleeps'
  <2>1. closed' = TRUE
    BY <1>29 DEF qclose
  <2> QED BY <2>1
<1>30. ASSUME NEW d \in Dev, qhangup(d) PROVE ReaderSleeps'
  <2>1. closed' = TRUE
    BY <1>30 DEF qhangup
  <2> QED BY <2>1
<1>31. ASSUME NEW d \in Dev, qreopen(d) PROVE ReaderSleeps'
  <2>1. starve' = TRUE
    BY <1>31 DEF qreopen
  <2> QED BY <2>1
<1>32. ASSUME NEW d \in Dev, qnoblock(d) PROVE ReaderSleeps'
  <2>1. UNCHANGED <<starve, q, closed>>
    BY <1>32 DEF qnoblock
  <2>2. \A r \in Actor : pc'[r] = "rsleep" => pc[r] = "rsleep"
    BY <1>32, <1>a DEF qnoblock
  <2> QED BY <1>a, <2>1, <2>2
<1>33. ASSUME NEW a \in Actor, Wakeup(a) PROVE ReaderSleeps'
  <2>1. UNCHANGED <<starve, q, closed>>
    BY <1>33 DEF Wakeup
  <2>2. \A r \in Actor : pc'[r] = "rsleep" => pc[r] = "rsleep"
    BY <1>33, <1>a DEF Wakeup
  <2> QED BY <1>a, <2>1, <2>2
<1> QED BY <1>1, <1>2, <1>3, <1>4, <1>5, <1>6, <1>7, <1>8, <1>9, <1>10, <1>11, <1>12,
   <1>13, <1>14, <1>15, <1>16, <1>17, <1>18, <1>19, <1>20, <1>21, <1>22, <1>23, <1>24,
   <1>25, <1>26, <1>27, <1>28, <1>29, <1>30, <1>31, <1>32, <1>33 DEF Next, Reading,
   Writing, Device

(* The property follows.                                                   *)
LEMMA ReaderSafe == ReaderPosted => NoStrandedReader
BY DEF ReaderPosted, NoStrandedReader, notempty

-----------------------------------------------------------------------------
(* No writer is left behind.                                               *)

(* What a reader may put back on the queue of what it has in hand.         *)
Back(r) == IF Bytes(hand[r]) > arg[r] THEN hand[r][1].alloc ELSE 0

(* A posted writer will be woken, or has asked to be by those who make     *)
(* room: the queue is half full, or a reader is going to look at it.       *)
WriterPosted ==
  wr # Nil => \/ Coming("wr")
              \/ flow /\ ~closed /\ (len >= Limit \div 2 \/ Copying # {})

(* One on the way to Sleep has its request standing, or will find room     *)
(* there, whatever a reader puts back.                                     *)
Roomy == len < Limit /\ \A r \in Copying : len + Back(r) < Limit
WriterSleeps == \A p \in Actor : pc[p] = "wsleep" => flow \/ closed \/ Roomy

LEMMA LimitFacts ==
  ASSUME use \in Uses
  PROVE  /\ Limit \in Nat \ {0, 1} /\ Limit \div 2 \in Nat
         /\ 0 < Limit \div 2 /\ Limit \div 2 <= Limit
<1>1. Limit \in Nat \ {0, 1}
  BY UseFacts DEF Limit
<1> HIDE DEF Limit
<1> QED BY <1>1

(* Who is copying.                                                         *)
LEMMA CopyMoves ==
  ASSUME pc \in [Actor -> PC], NEW p \in Actor, NEW to, pc' = [pc EXCEPT ![p] = to]
  PROVE  /\ to # "copy" => Copying' = Copying \ {p}
         /\ to # "copy" /\ pc[p] # "copy" => Copying' = Copying
         /\ to = "copy" /\ p \in Reader => Copying' = Copying \cup {p}
<1>1. \A r \in Reader : r \in Actor
  BY DEF Actor, Proc
<1> QED BY <1>1 DEF Copying

(* The facts about writers, like those about readers.                      *)
LEMMA WriterFacts ==
  ASSUME Control
  PROVE  /\ wr # Nil => pc[wr] = "wblock" /\ wlock = wr /\ wr \in Actor /\ use.writer # {}
         /\ \A p \in Actor : pc[p] = "wsleep" => wlock = p /\ p \in Proc /\ use.writer # {}
         /\ \A p \in Actor : pc[p] \in WHolds => wlock = p
         /\ use.writer # {} => "qiwrite" \notin use.ops
         /\ "qreopen" \in use.ops => use.owned
<1>1. use \in Uses /\ wr \in Writer \cup {Nil} /\ pc \in [Actor -> PC]
  BY DEF Control, Shapes
<1>2. AsUsed(use) /\ use.writer \subseteq Writer
  BY <1>1, UseFacts
<1>3. /\ use.writer # {} => "qiwrite" \notin use.ops
      /\ "qreopen" \in use.ops => use.owned
  BY <1>2 DEF AsUsed
<1>4. \A p \in Actor : pc[p] \in WHolds => wlock = p /\ p \in use.writer
  BY DEF Control, Locks, Roles, WHolds, Writes
<1>5. wr # Nil => pc[wr] = "wblock" /\ wr \in Actor
  BY <1>1 DEF Control, Locks, Actor, Proc
<1>6. use.writer \subseteq Proc
  BY <1>2 DEF Proc
<1> QED BY <1>1, <1>3, <1>4, <1>5, <1>6 DEF WHolds

(* Who copies holds q->rlock, and there is no such process where a driver  *)
(* takes what is on the queue.                                             *)
LEMMA CopyFacts ==
  ASSUME Control
  PROVE  /\ \A p \in Actor : pc[p] \in RHolds /\ pc[p] # "copy" => Copying = {}
         /\ \A p \in Copying : p \in Actor /\ rlock = p /\ Copying = {p} /\ p \in use.reader
         /\ use.reader = {} => Copying = {}
         /\ \A x \in {"qget", "qconsume", "qdiscard", "qflush"} : x \in use.ops => Copying = {}
<1>1. \A p \in Actor : pc[p] \in RHolds => rlock = p /\ p \in use.reader
  BY DEF Control, Locks, Roles, RHolds, Reads
<1>2. \A p \in Copying : p \in Actor /\ pc[p] = "copy"
  BY DEF Copying, Actor, Proc
<1>3. use.reader # {} => /\ "qget" \notin use.ops /\ "qconsume" \notin use.ops
                         /\ "qdiscard" \notin use.ops /\ "qflush" \notin use.ops
  BY ReaderFacts
<1>4. "copy" \in RHolds
  BY DEF RHolds
<1>5. \A p \in Copying : rlock = p /\ p \in use.reader
  BY <1>1, <1>2, <1>4
<1>6. \A p \in Copying : Copying = {p}
  BY <1>5
<1>7. ASSUME NEW p \in Actor, pc[p] \in RHolds, pc[p] # "copy" PROVE Copying = {}
  BY <1>1, <1>2, <1>5, <1>7
<1>8. Copying # {} => use.reader # {}
  BY <1>5
<1> QED BY <1>2, <1>3, <1>5, <1>6, <1>7, <1>8

(* A queue that a driver feeds and processes write has only blocks that    *)
(* are read whole.                                                         *)
LEMMA NoneBack ==
  ASSUME Control, Contents, use.writer # {},
         use.ops \cap {"qproduce", "qpass", "qpassnolim"} # {}, NEW r \in Copying
  PROVE  Back(r) = 0
<1>1. r \in Actor /\ r \in use.reader /\ r \in Reader /\ pc[r] = "copy" /\ r \in Proc
  BY CopyFacts DEF Copying, Proc
<1>2. AsUsed(use) /\ use.rlen \subseteq Nat /\ use.wlen \subseteq Nat
  BY UseFacts DEF Control, Shapes
<1>3. \A n \in use.rlen, m \in use.wlen : m <= n
  BY <1>1, <1>2 DEF AsUsed
<1>4. arg[r] \in use.rlen
  BY <1>1 DEF Control, Args, Reads
<1>5. hand[r] \in Seq(FitBlock) /\ hand[r] # <<>> /\ (Bytes(hand[r]) > arg[r] => Len(hand[r]) = 1)
  BY <1>1 DEF Contents, Hands
<1>6. ASSUME Bytes(hand[r]) > arg[r] PROVE FALSE
  <2>1. hand[r][1] \in FitBlock /\ hand[r] = <<hand[r][1]>>
    <3>1. Len(hand[r]) = 1
      BY <1>5, <1>6
    <3>2. hand[r][1] \in FitBlock
      BY <1>5, <3>1
    <3>3. <<hand[r][1]>> \in Seq(FitBlock) /\ Len(<<hand[r][1]>>) = 1 /\ <<hand[r][1]>>[1] = hand[r][1]
      BY <3>2
    <3>4. \A i \in 1..1 : i = 1
      OBVIOUS
    <3> QED BY <1>5, <3>1, <3>2, <3>3, <3>4, SeqEqual
  <2>2. Bytes(hand[r]) = hand[r][1].n /\ hand[r][1].n \in Nat
    BY <2>1, BytesFew, FitFacts
  <2>3. PICK m \in use.wlen : hand[r][1].n <= m
    BY <2>1 DEF FitBlock, Within
  <2>4. m <= arg[r] /\ m \in Nat /\ arg[r] \in Nat
    BY <1>2, <1>3, <1>4
  <2> QED BY <1>6, <2>2, <2>3, <2>4
<1> QED BY <1>6 DEF Back

(* Nothing on the queue is less than nothing.                              *)
LEMMA LenFacts ==
  ASSUME Contents, q' \in Seq(FitBlock), len' = Alloc(q')
  PROVE  len \in Nat /\ len' \in Nat
BY Counted, FitFacts DEF Contents

(* A posted writer remains so, if nothing changes for the worse ...        *)
LEMMA StillPosted ==
  ASSUME WriterPosted, Coming("wr") => Coming("wr")' \/ wr' = Nil,
         len \in Nat, len' \in Nat, Limit \div 2 \in Nat, use' = use,
         wr' = wr, flow => flow', closed' = closed, len' >= len, Copying # {} => Copying' # {}
  PROVE  WriterPosted'
<1>1. Limit' = Limit
  BY DEF Limit
<1> HIDE DEF Limit
<1> QED BY <1>1 DEF WriterPosted

(* ... or those who make room look at what they have made.                 *)
LEMMA StillTold ==
  ASSUME WriterPosted, Control, NEW a \in Actor, wake[a] = <<>>, NEW mark, FlowWake(a, mark),
         mark \in Nat, mark >= Limit \div 2,
         len' \in Nat, Limit \div 2 \in Nat, use' = use, wr' = wr, closed' = closed
  PROVE  WriterPosted'
<1>1. wake \in [Actor -> Seq({"rr", "wr"})] /\ Limit' = Limit
  BY DEF Control, Shapes, Limit
<1> HIDE DEF Limit
<1>2. /\ flow /\ len' < mark => Coming("wr")'
      /\ Coming("wr") => Coming("wr")'
      /\ flow /\ ~flow' => Coming("wr")'
  BY <1>1, FlowFacts
<1>3. ~(len' < mark) => len' >= Limit \div 2
  OBVIOUS
<1> QED BY <1>1, <1>2, <1>3 DEF WriterPosted

LEMMA AddedLen ==
  ASSUME Contents, NEW s, Added(s)
  PROVE  len' >= len
<1>1. s \in Seq(Block) /\ len' = len + Alloc(s) /\ len \in Nat
  BY FitFacts, Counted DEF Added, Contents
<1>2. Alloc(s) \in Nat
  BY <1>1, Counted
<1> QED BY <1>1, <1>2

(* A posted writer is still going to be woken.                             *)
LEMMA WPostedStep ==
  ASSUME Control, Contents, WriterPosted, WriterSleeps, Next
  PROVE  WriterPosted'
<1> USE DEF queue, flags, modes, locks, aux, control
<1>a. /\ WriterPosted /\ WriterSleeps /\ pc \in [Actor -> PC] /\ wake \in [Actor -> Seq({"rr", "wr"})]
      /\ flow \in BOOLEAN /\ Wakes
      /\ Coming("wr") => Coming("wr")' \/ wr' = Nil
      /\ wr # Nil => pc[wr] = "wblock" /\ wlock = wr /\ wr \in Actor /\ use.writer # {}
      /\ \A p \in Actor : pc[p] = "wsleep" => wlock = p /\ p \in Proc /\ use.writer # {}
      /\ \A p \in Actor : pc[p] \in WHolds => wlock = p
      /\ use.writer # {} => "qiwrite" \notin use.ops
      /\ "qreopen" \in use.ops => use.owned
  <2>1. Awaited
    BY ComingStep
  <2>2. wake \in [Actor -> Seq({"rr", "wr"})] /\ pc \in [Actor -> PC] /\ flow \in BOOLEAN /\ Wakes
    BY DEF Control, Shapes
  <2> QED BY <2>1, <2>2, WriterFacts DEF Awaited
<1>b. /\ use' = use /\ len \in Nat /\ len' \in Nat
      /\ Limit \in Nat \ {0, 1} /\ Limit \div 2 \in Nat
      /\ 0 < Limit \div 2 /\ Limit \div 2 <= Limit /\ Limit \div 2 >= Limit \div 2
  <2>1. use \in Uses
    BY DEF Control, Shapes
  <2>2. len \in Nat /\ len' \in Nat
    BY QueueStep, LenFacts
  <2>3. Limit \div 2 \in Nat /\ Limit \in Nat \ {0, 1} /\ 0 < Limit \div 2 /\ Limit \div 2 <= Limit
    BY <2>1, LimitFacts
  <2> QED BY <2>2, <2>3, UseKept
<1>e. pc \in [Actor -> PC]
  BY <1>a
<1>c. wr' = Nil \/ wr' # Nil
  OBVIOUS
<1>d. Limit' = Limit
  BY <1>b DEF Limit
<1>1. ASSUME NEW p \in Reader, CallRead(p) PROVE WriterPosted'
  <2>1. /\ p \in Actor /\ UNCHANGED <<closed, len, wr>> /\ (flow => flow')
        /\ pc' = [pc EXCEPT ![p] = pc'[p]] /\ pc'[p] # "copy" /\ pc[p] # "copy"
    BY <1>1, <1>a DEF CallRead, Goto, Actor, Proc
  <2>2. Copying' = Copying
    BY <1>e, <2>1, CopyMoves
  <2> QED BY <1>a, <1>b, <2>1, <2>2, StillPosted
<1>2. ASSUME NEW p \in Reader, RLock(p) PROVE WriterPosted'
  <2>1. /\ p \in Actor /\ UNCHANGED <<closed, len, wr>> /\ (flow => flow')
        /\ pc' = [pc EXCEPT ![p] = pc'[p]] /\ pc'[p] # "copy" /\ pc[p] # "copy"
    BY <1>2, <1>a DEF RLock, Goto, Actor, Proc
  <2>2. Copying' = Copying
    BY <1>e, <2>1, CopyMoves
  <2> QED BY <1>a, <1>b, <2>1, <2>2, StillPosted
<1>3. ASSUME NEW p \in Reader, ReadEof(p) PROVE WriterPosted'
  <2>1. /\ p \in Actor /\ pc[p] = "rwait" /\ wr' = wr /\ UNCHANGED <<flow, closed>>
    BY <1>3 DEF ReadEof, Goto, Actor, Proc, RUnlock
  <2>2. Copying = {}
    BY <2>1, CopyFacts DEF RHolds
  <2>3. len = 0 /\ len' = 0
    BY <1>3, DropFacts
  <2> QED BY <1>a, <1>b, <2>1, <2>2, <2>3, StillPosted
<1>4. ASSUME NEW p \in Reader, ReadStarve(p) PROVE WriterPosted'
  <2>1. /\ p \in Actor /\ pc[p] = "rwait" /\ wr' = wr /\ UNCHANGED <<flow, closed>>
    BY <1>4 DEF ReadStarve, Goto, Actor, Proc, RUnlock
  <2>2. Copying = {}
    BY <2>1, CopyFacts DEF RHolds
  <2>3. len = 0 /\ len' = 0
    BY <1>4, DropFacts
  <2> QED BY <1>a, <1>b, <2>1, <2>2, <2>3, StillPosted
<1>5. ASSUME NEW p \in Reader, ReadSleep(p) PROVE WriterPosted'
  <2>1. /\ p \in Actor /\ UNCHANGED <<closed, len, wr>> /\ (flow => flow')
        /\ pc' = [pc EXCEPT ![p] = pc'[p]] /\ pc'[p] # "copy" /\ pc[p] # "copy"
    BY <1>5, <1>a DEF ReadSleep, Goto, Actor, Proc
  <2>2. Copying' = Copying
    BY <1>e, <2>1, CopyMoves
  <2> QED BY <1>a, <1>b, <2>1, <2>2, StillPosted
<1>6. ASSUME NEW p \in Reader, ReadTake(p) PROVE WriterPosted'
  <2>1. /\ p \in Actor /\ wr' = wr /\ UNCHANGED <<flow, closed>>
        /\ pc' = [pc EXCEPT ![p] = "copy"]
    BY <1>6 DEF ReadTake, Goto, Actor, Proc
  <2>2. Copying' # {}
    BY <1>e, <2>1, CopyMoves
  <2> QED BY <1>a, <1>c, <2>1, <2>2 DEF WriterPosted
<1>7. ASSUME NEW p \in Reader, ReadDone(p) PROVE WriterPosted'
  <2>1. p \in Actor /\ wake[p] = <<>> /\ wr' = wr /\ closed' = closed /\ FlowWake(p, Limit \div 2)
    BY <1>7, <1>a, ActorAssumption DEF ReadDone, Goto, Actor, Proc, Wakes
  <2> QED BY <1>a, <1>b, <2>1, StillTold
<1>8. ASSUME NEW p \in Reader, BlockRead(p) PROVE WriterPosted'
  <2>1. p \in Actor /\ wake[p] = <<>> /\ wr' = wr /\ closed' = closed /\ FlowWake(p, Limit \div 2)
    BY <1>8, <1>a, ActorAssumption DEF BlockRead, Goto, Actor, Proc, Wakes
  <2> QED BY <1>a, <1>b, <2>1, StillTold
<1>9. ASSUME NEW p \in Reader, ReadReturn(p) PROVE WriterPosted'
  <2>1. /\ p \in Actor /\ UNCHANGED <<closed, len, wr>> /\ (flow => flow')
        /\ pc' = [pc EXCEPT ![p] = pc'[p]] /\ pc'[p] # "copy" /\ pc[p] # "copy"
    BY <1>9, <1>a DEF ReadReturn, Goto, Actor, Proc, RUnlock
  <2>2. Copying' = Copying
    BY <1>e, <2>1, CopyMoves
  <2> QED BY <1>a, <1>b, <2>1, <2>2, StillPosted
<1>10. ASSUME NEW p \in Reader, ReadEintr(p) PROVE WriterPosted'
  <2>1. /\ p \in Actor /\ UNCHANGED <<flow, closed, len, wr>>
        /\ pc' = [pc EXCEPT ![p] = "idle"] /\ pc[p] # "copy"
    BY <1>10 DEF ReadEintr, Goto, Actor, Proc
  <2>2. Copying' = Copying
    BY <1>e, <2>1, CopyMoves
  <2> QED BY <1>a, <1>b, <2>1, <2>2, StillPosted
<1>11. ASSUME NEW p \in Writer, CallWrite(p) PROVE WriterPosted'
  <2>1. /\ p \in Actor /\ UNCHANGED <<closed, len, wr>> /\ (flow => flow')
        /\ pc' = [pc EXCEPT ![p] = pc'[p]] /\ pc'[p] # "copy" /\ pc[p] # "copy"
    BY <1>11, <1>a DEF CallWrite, Goto, Actor, Proc
  <2>2. Copying' = Copying
    BY <1>e, <2>1, CopyMoves
  <2> QED BY <1>a, <1>b, <2>1, <2>2, StillPosted
<1>12. ASSUME NEW p \in Writer, WLock(p) PROVE WriterPosted'
  <2>1. /\ p \in Actor /\ UNCHANGED <<closed, len, wr>> /\ (flow => flow')
        /\ pc' = [pc EXCEPT ![p] = pc'[p]] /\ pc'[p] # "copy" /\ pc[p] # "copy"
    BY <1>12, <1>a DEF WLock, Goto, Actor, Proc
  <2>2. Copying' = Copying
    BY <1>e, <2>1, CopyMoves
  <2> QED BY <1>a, <1>b, <2>1, <2>2, StillPosted
<1>13. ASSUME NEW p \in Writer, WriteClosed(p) PROVE WriterPosted'
  <2>1. /\ p \in Actor /\ UNCHANGED <<closed, len, wr>> /\ (flow => flow')
        /\ pc' = [pc EXCEPT ![p] = pc'[p]] /\ pc'[p] # "copy" /\ pc[p] # "copy"
    BY <1>13, <1>a DEF WriteClosed, Goto, Actor, Proc, WUnlock
  <2>2. Copying' = Copying
    BY <1>e, <2>1, CopyMoves
  <2> QED BY <1>a, <1>b, <2>1, <2>2, StillPosted
<1>14. ASSUME NEW p \in Writer, WriteDropped(p) PROVE WriterPosted'
  <2>1. /\ p \in Actor /\ UNCHANGED <<closed, len, wr>> /\ (flow => flow')
        /\ pc' = [pc EXCEPT ![p] = pc'[p]] /\ pc'[p] # "copy" /\ pc[p] # "copy"
    BY <1>14, <1>a DEF WriteDropped, Goto, Actor, Proc, WUnlock
  <2>2. Copying' = Copying
    BY <1>e, <2>1, CopyMoves
  <2> QED BY <1>a, <1>b, <2>1, <2>2, StillPosted
<1>15. ASSUME NEW p \in Writer, WritePut(p) PROVE WriterPosted'
  <2>1. /\ p \in Actor /\ pc[p] \in WHolds /\ wr' = wr /\ pc[p] = "wput"
    BY <1>15 DEF WritePut, Goto, Actor, Proc, WHolds
  <2>2. wr = Nil
    BY <1>a, <2>1
  <2> QED BY <2>1, <2>2 DEF WriterPosted
<1>16. ASSUME NEW p \in Writer, WriteCheck(p) PROVE WriterPosted'
  <2>1. /\ p \in Actor /\ UNCHANGED <<closed, len, wr>> /\ (flow => flow')
        /\ pc' = [pc EXCEPT ![p] = pc'[p]] /\ pc'[p] # "copy" /\ pc[p] # "copy"
    BY <1>16, <1>a DEF WriteCheck, Goto, Actor, Proc, WUnlock
  <2>2. Copying' = Copying
    BY <1>e, <2>1, CopyMoves
  <2> QED BY <1>a, <1>b, <2>1, <2>2, StillPosted
<1>17. ASSUME NEW p \in Writer, WriteFlow(p) PROVE WriterPosted'
  <2>1. /\ p \in Actor /\ UNCHANGED <<closed, len, wr>> /\ (flow => flow')
        /\ pc' = [pc EXCEPT ![p] = pc'[p]] /\ pc'[p] # "copy" /\ pc[p] # "copy"
    BY <1>17, <1>a DEF WriteFlow, Goto, Actor, Proc
  <2>2. Copying' = Copying
    BY <1>e, <2>1, CopyMoves
  <2> QED BY <1>a, <1>b, <2>1, <2>2, StillPosted
<1>18. ASSUME NEW p \in Writer, WriteSleep(p) PROVE WriterPosted'
  <2>1. /\ p \in Actor /\ UNCHANGED <<flow, closed, len>>
        /\ pc' = [pc EXCEPT ![p] = pc'[p]] /\ pc'[p] # "copy" /\ pc[p] # "copy"
    BY <1>18, <1>a DEF WriteSleep, Goto, Actor, Proc
  <2>2. Copying' = Copying
    BY <1>e, <2>1, CopyMoves
  <2>3. CASE pc[p] = "wsleep" /\ ~qnotfull
    <3>1. ~closed /\ ~(len < Limit)
      BY <2>3 DEF qnotfull
    <3>2. flow
      BY <1>a, <2>1, <2>3, <3>1 DEF WriterSleeps, Roomy
    <3>3. len' >= Limit' \div 2
      BY <1>b, <1>d, <2>1, <3>1
    <3> QED BY <2>1, <3>1, <3>2, <3>3 DEF WriterPosted
  <2>4. CASE wr' = wr
    BY <1>a, <1>b, <2>1, <2>2, <2>4, StillPosted
  <2> QED BY <1>18, <2>3, <2>4 DEF WriteSleep, Goto
<1>19. ASSUME NEW p \in Writer, WriteNext(p) PROVE WriterPosted'
  <2>1. /\ p \in Actor /\ UNCHANGED <<closed, len, wr>> /\ (flow => flow')
        /\ pc' = [pc EXCEPT ![p] = pc'[p]] /\ pc'[p] # "copy" /\ pc[p] # "copy"
    BY <1>19, <1>a DEF WriteNext, Goto, Actor, Proc
  <2>2. Copying' = Copying
    BY <1>e, <2>1, CopyMoves
  <2> QED BY <1>a, <1>b, <2>1, <2>2, StillPosted
<1>20. ASSUME NEW p \in Writer, WriteEintr(p) PROVE WriterPosted'
  <2>1. UNCHANGED <<flow, closed, len>> /\ (wr' = wr \/ wr' = Nil)
    BY <1>20 DEF WriteEintr
  <2>5. /\ p \in Actor /\ pc' = [pc EXCEPT ![p] = pc'[p]]
        /\ pc'[p] # "copy" /\ pc[p] # "copy"
    BY <1>20, <1>e DEF WriteEintr, Goto, Actor, Proc
  <2>2. Copying' = Copying
    BY <1>e, <2>5, CopyMoves
  <2>3. CASE wr' = Nil
    BY <2>3 DEF WriterPosted
  <2>4. CASE wr' = wr
    BY <1>a, <1>b, <2>1, <2>2, <2>4, StillPosted
  <2> QED BY <2>1, <2>3, <2>4
<1>21. ASSUME NEW d \in Dev, qproduce(d) PROVE WriterPosted'
  <2>1. d \in Actor /\ wr' = wr /\ UNCHANGED <<closed, pc>> /\ (flow => flow')
    BY <1>21, <1>a, Zenon DEF qproduce, Actor
  <2>2. len' >= len
    BY <1>21, <1>b, ProduceFacts, AddedLen
  <2>3. Copying' = Copying
    BY <2>1 DEF Copying
  <2> QED BY <1>a, <1>b, <2>1, <2>2, <2>3, StillPosted
<1>22. ASSUME NEW d \in Dev, qpass(d) PROVE WriterPosted'
  <2>1. d \in Actor /\ wr' = wr /\ UNCHANGED <<closed, pc>> /\ (flow => flow')
    BY <1>22, <1>a, Zenon DEF qpass, Actor
  <2>2. len' >= len
    BY <1>22, <1>b, ProduceFacts, AddedLen
  <2>3. Copying' = Copying
    BY <2>1 DEF Copying
  <2> QED BY <1>a, <1>b, <2>1, <2>2, <2>3, StillPosted
<1>23. ASSUME NEW d \in Dev, CallIwrite(d) PROVE WriterPosted'
  <2>1. wr' = wr /\ "qiwrite" \in use.ops
    BY <1>23 DEF CallIwrite, Call
  <2> QED BY <1>a, <2>1 DEF WriterPosted
<1>24. ASSUME NEW d \in Dev, Iwrite(d) PROVE WriterPosted'
  <2>1. wr' = wr /\ d \in Actor /\ pc[d] \in Pieces
    BY <1>24 DEF Iwrite, Actor, Pieces
  <2>2. "qiwrite" \in use.ops
    BY <2>1 DEF Control, Roles
  <2> QED BY <1>a, <2>1, <2>2 DEF WriterPosted
<1>25. ASSUME NEW d \in Dev, qget(d) PROVE WriterPosted'
  <2>1. d \in Actor /\ wake[d] = <<>> /\ wr' = wr /\ UNCHANGED <<closed, pc>>
    BY <1>25 DEF qget, Call, Awake, Actor
  <2>2. CASE FlowWake(d, Limit \div 2)
    BY <1>a, <1>b, <2>1, <2>2, StillTold
  <2>3. CASE UNCHANGED <<flow, len>>
    <3>1. Copying' = Copying
      BY <2>1 DEF Copying
    <3> QED BY <1>a, <1>b, <2>1, <2>3, <3>1, StillPosted
  <2> QED BY <1>25, <2>2, <2>3 DEF qget
<1>26. ASSUME NEW d \in Dev, qdiscard(d) PROVE WriterPosted'
  <2>1. d \in Actor /\ wake[d] = <<>> /\ wr' = wr /\ closed' = closed /\ FlowWake(d, Limit)
    BY <1>26 DEF qdiscard, Call, Awake, Actor
  <2>2. Limit \in Nat /\ Limit >= Limit \div 2
    BY <1>b
  <2> QED BY <1>a, <1>b, <2>1, <2>2, StillTold
<1>27. ASSUME NEW d \in Dev, qconsume(d) PROVE WriterPosted'
  <2>1. d \in Actor /\ wake[d] = <<>> /\ wr' = wr /\ UNCHANGED <<closed, pc>>
        /\ "qconsume" \in use.ops
    BY <1>27 DEF qconsume, Call, Awake, Actor
  <2>2. CASE FlowWake(d, Limit \div 2)
    BY <1>a, <1>b, <2>1, <2>2, StillTold
  <2>3. ASSUME NEW k \in 0..Len(q), SubSeq(q, k + 1, Len(q)) = <<>>,
               \A i \in 1..k : q[i].n = 0, flow' = flow, len' = len - Alloc(q)
        PROVE  WriterPosted'
    <3>1. q \in Seq(FitBlock) /\ q \in Seq(Block)
      BY FitFacts DEF Contents
    <3>2. k = Len(q)
      BY <2>3, <3>1, Cut
    <3>3. \A i \in 1..Len(q) : q[i].alloc = 0
      BY <2>3, <3>1, <3>2 DEF FitBlock
    <3>4. Alloc(q) = 0
      BY <3>1, <3>3, BytesZero
    <3>5. Copying = {} /\ Copying' = {}
      BY <2>1, CopyFacts DEF Copying
    <3> QED BY <1>a, <1>b, <2>1, <2>3, <3>4, <3>5, StillPosted
  <2> QED BY <1>27, <2>2, <2>3 DEF qconsume, Unqueue
<1>28. ASSUME NEW d \in Dev, qflush(d) PROVE WriterPosted'
  <2>1. d \in Actor /\ wake' = [wake EXCEPT ![d] = <<"wr">>]
    BY <1>28 DEF qflush, WakeBoth, Actor
  <2> QED BY <1>a, <2>1, ComingNew DEF WriterPosted
<1>29. ASSUME NEW d \in Dev, qclose(d) PROVE WriterPosted'
  <2>1. d \in Actor /\ wake' = [wake EXCEPT ![d] = <<"rr", "wr">>]
    BY <1>29 DEF qclose, WakeBoth, Actor
  <2> QED BY <1>a, <2>1, ComingNew DEF WriterPosted
<1>30. ASSUME NEW d \in Dev, qhangup(d) PROVE WriterPosted'
  <2>1. d \in Actor /\ wake' = [wake EXCEPT ![d] = <<"rr", "wr">>]
    BY <1>30 DEF qhangup, WakeBoth, Actor
  <2> QED BY <1>a, <2>1, ComingNew DEF WriterPosted
<1>31. ASSUME NEW d \in Dev, qreopen(d) PROVE WriterPosted'
  <2>1. wr' = wr /\ "qreopen" \in use.ops
    BY <1>31 DEF qreopen, Call
  <2>2. \A p \in Proc : pc[p] = "idle"
    BY <1>31, <1>a, <2>1 DEF qreopen, NoCall
  <2>3. wr \in Writer \cup {Nil}
    BY DEF Control, Shapes
  <2>4. wr = Nil
    BY <1>a, <2>2, <2>3 DEF Proc
  <2> QED BY <2>1, <2>4 DEF WriterPosted
<1>32. ASSUME NEW d \in Dev, qnoblock(d) PROVE WriterPosted'
  <2>1. UNCHANGED <<flow, closed, len, wr, pc>>
    BY <1>32 DEF qnoblock
  <2>2. Copying' = Copying
    BY <2>1 DEF Copying
  <2> QED BY <1>a, <1>b, <2>1, <2>2, StillPosted
<1>33. ASSUME NEW a \in Actor, Wakeup(a) PROVE WriterPosted'
  <2>1. UNCHANGED <<flow, closed, len, pc>> /\ (wr' = wr \/ wr' = Nil)
    BY <1>33 DEF Wakeup
  <2>2. Copying' = Copying
    BY <2>1 DEF Copying
  <2>3. CASE wr' = Nil
    BY <2>3 DEF WriterPosted
  <2>4. CASE wr' = wr
    BY <1>a, <1>b, <2>1, <2>2, <2>4, StillPosted
  <2> QED BY <2>1, <2>3, <2>4
<1> QED BY <1>1, <1>2, <1>3, <1>4, <1>5, <1>6, <1>7, <1>8, <1>9, <1>10, <1>11, <1>12,
   <1>13, <1>14, <1>15, <1>16, <1>17, <1>18, <1>19, <1>20, <1>21, <1>22, <1>23, <1>24,
   <1>25, <1>26, <1>27, <1>28, <1>29, <1>30, <1>31, <1>32, <1>33 DEF Next, Reading,
   Writing, Device

(* A writer on the way to Sleep still has what it relied on, if nothing    *)
(* changes for the worse ...                                               *)
LEMMA StillSleeps ==
  ASSUME WriterSleeps, use' = use, len \in Nat, len' \in Nat, Limit \in Nat,
         flow => flow', closed => closed', len' <= len, Copying' \subseteq Copying,
         \A r \in Copying' : hand'[r] = hand[r] /\ arg'[r] = arg[r] /\ Back(r) \in Nat,
         \A p \in Actor : pc'[p] = "wsleep" => pc[p] = "wsleep"
  PROVE  WriterSleeps'
<1>1. Limit' = Limit
  BY DEF Limit
<1>2. \A r \in Copying' : Back(r)' = Back(r)
  BY DEF Back
<1> HIDE DEF Limit
<1>3. ASSUME Roomy PROVE Roomy'
  <2>1. len' < Limit
    BY <1>3 DEF Roomy
  <2>2. ASSUME NEW r \in Copying' PROVE len' + Back(r)' < Limit
    <3>1. len + Back(r) < Limit /\ Back(r)' = Back(r) /\ Back(r) \in Nat
      BY <1>2, <1>3, <2>2 DEF Roomy
    <3> QED BY <3>1
  <2> QED BY <1>1, <2>1, <2>2 DEF Roomy
<1> QED BY <1>3 DEF WriterSleeps

(* ... or those who make room look at what they have made.                 *)
LEMMA StillHeard ==
  ASSUME WriterSleeps, Control, NEW a \in Actor, wake[a] = <<>>, NEW mark, FlowWake(a, mark),
         mark \in Nat, Limit \in Nat, mark <= Limit, len' \in Nat,
         use' = use, closed' = closed, Copying' = {}, Roomy => len' < Limit,
         \A p \in Actor : pc'[p] = "wsleep" => pc[p] = "wsleep"
  PROVE  WriterSleeps'
<1>1. wake \in [Actor -> Seq({"rr", "wr"})] /\ Limit' = Limit
  BY DEF Control, Shapes, Limit
<1> HIDE DEF Limit
<1>2. flow /\ ~flow' => len' < mark
  BY <1>1, FlowFacts
<1>3. len' < mark => len' < Limit
  OBVIOUS
<1>4. len' < Limit => Roomy'
  BY <1>1 DEF Roomy
<1> QED BY <1>2, <1>3, <1>4 DEF WriterSleeps

LEMMA BackNat ==
  ASSUME Control, Contents, NEW r \in Copying
  PROVE  Back(r) \in Nat
<1>1. r \in Proc /\ pc[r] = "copy"
  BY DEF Copying, Proc
<1>2. hand[r] \in Seq(FitBlock) /\ hand[r] # <<>>
  BY <1>1 DEF Contents, Hands
<1>3. hand[r][1] \in FitBlock
  BY <1>2, Parted, FitFacts
<1>4. hand[r][1].alloc \in Nat
  BY <1>3, FitFacts
<1> QED BY <1>4 DEF Back

(* Taking blocks off the list makes it no longer.                          *)
LEMMA LessLen ==
  ASSUME Contents, NEW k \in 0..Len(q), len' = len - Alloc(SubSeq(q, 1, k))
  PROVE  len' <= len
<1>1. q \in Seq(Block) /\ len \in Nat
  BY FitFacts, Counted DEF Contents
<1>2. SubSeq(q, 1, k) \in Seq(Block)
  BY <1>1, Cut
<1>3. Alloc(SubSeq(q, 1, k)) \in Nat
  BY <1>2, Counted
<1> QED BY <1>1, <1>3

(* The types these lemmas need.                                            *)
LEMMA LenTypes ==
  ASSUME Control, Contents, Next
  PROVE  /\ len \in Nat /\ len' \in Nat /\ use' = use /\ Limit' = Limit
         /\ pc \in [Actor -> PC] /\ arg \in [Actor -> Nat] /\ hand \in [Proc -> Seq(FitBlock)]
<1>1. len \in Nat /\ len' \in Nat
  BY QueueStep, LenFacts
<1>2. use' = use
  BY UseKept
<1>3. pc \in [Actor -> PC] /\ arg \in [Actor -> Nat]
  BY DEF Control, Shapes
<1>4. hand \in [Proc -> Seq(FitBlock)]
  BY DEF Contents
<1> QED BY <1>1, <1>2, <1>3, <1>4 DEF Limit

(* What a reader takes it can put back.                                    *)
LEMMA TakeLen ==
  ASSUME Control, Contents, Next, NEW p \in Reader, ReadTake(p)
  PROVE  Copying' = {p} /\ len' + Back(p)' <= len /\ len' <= len /\ Back(p)' \in Nat
<1>0. /\ len \in Nat /\ len' \in Nat
      /\ pc \in [Actor -> PC] /\ hand \in [Proc -> Seq(FitBlock)]
  BY LenTypes
<1>1. /\ p \in Actor /\ p \in Proc /\ pc[p] = "rwait"
      /\ pc' = [pc EXCEPT ![p] = "copy"]
  BY DEF ReadTake, Goto, Actor, Proc
<1>2. Copying' = {p}
  <2>1. Copying = {}
    BY <1>1, CopyFacts DEF RHolds
  <2>2. Copying' = Copying \cup {p}
    BY <1>0, <1>1, CopyMoves
  <2> QED BY <2>1, <2>2
<1>3. PICK k \in 0..Len(q) : \E m \in k + 1..Len(q) :
        /\ hand' = [hand EXCEPT ![p] = SubSeq(q, k + 1, m)]
        /\ SubSeq(q, k + 1, m) \in Seq(FitBlock) /\ SubSeq(q, k + 1, m) # <<>>
        /\ Alloc(q) = Alloc(SubSeq(q, k + 1, m)) + Alloc(q')
        /\ len' = Alloc(q')
  BY TookFacts
<1>4. PICK m \in k + 1..Len(q) :
        /\ hand' = [hand EXCEPT ![p] = SubSeq(q, k + 1, m)]
        /\ SubSeq(q, k + 1, m) \in Seq(FitBlock) /\ SubSeq(q, k + 1, m) # <<>>
        /\ Alloc(q) = Alloc(SubSeq(q, k + 1, m)) + Alloc(q')
        /\ len' = Alloc(q')
  BY <1>3
<1> DEFINE h == SubSeq(q, k + 1, m)
<1>5. hand'[p] = h /\ h \in Seq(FitBlock) /\ h # <<>> /\ len = Alloc(h) + len'
  BY <1>0, <1>1, <1>4 DEF Contents
<1> HIDE DEF h
<1>6. h[1].alloc \in Nat /\ Alloc(h) \in Nat /\ h[1].alloc <= Alloc(h)
  <2>1. h \in Seq(Block) /\ 1 \in 1..Len(h)
    BY <1>5, FitFacts, Parted
  <2>2. h[1] \in Block
    BY <2>1
  <2> QED BY <2>1, <2>2, BytesZero, Counted DEF Block
<1>7. Back(p)' \in {0, h[1].alloc}
  BY <1>5 DEF Back
<1> QED BY <1>0, <1>2, <1>5, <1>6, <1>7

(* One that is through has put back no more than that.                     *)
LEMMA DoneLen ==
  ASSUME Control, Contents, Next, NEW p \in Reader, ReadDone(p)
  PROVE  p \in Copying /\ Copying' = {} /\ (len' = len \/ len' = len + Back(p))
<1>0. pc \in [Actor -> PC]
  BY LenTypes
<1>1. /\ p \in Actor /\ pc[p] = "copy" /\ pc' = [pc EXCEPT ![p] = "rdone"]
  BY DEF ReadDone, Goto, Actor, Proc
<1>2. p \in Copying /\ Copying' = {}
  <2>1. p \in Copying
    BY <1>1 DEF Copying
  <2>2. Copying = {p}
    BY <2>1, CopyFacts
  <2>3. Copying' = Copying \ {p}
    <3>1. p \in Actor /\ pc' = [pc EXCEPT ![p] = "rdone"] /\ "rdone" # "copy"
      BY <1>1
    <3> QED BY <1>0, <3>1, CopyMoves
  <2> QED BY <2>1, <2>2, <2>3
<1>3. \/ len' = len
      \/ /\ hand[p][1] \in FitBlock /\ hand[p][1].n > arg[p] /\ hand[p] = <<hand[p][1]>>
         /\ len' = len + hand[p][1].alloc
  BY DoneFacts
<1>4. hand[p][1] \in FitBlock => Bytes(<<hand[p][1]>>) = hand[p][1].n
  BY BytesFew, FitFacts
<1> QED BY <1>2, <1>3, <1>4 DEF Back

(* What qbread puts back is no more than the block it was part of.         *)
LEMMA BlockLen ==
  ASSUME Control, Contents, Next, NEW p \in Reader, BlockRead(p)
  PROVE  Copying = {} /\ Copying' = {} /\ len' <= len
<1>0. pc \in [Actor -> PC] /\ arg \in [Actor -> Nat]
  BY LenTypes
<1>1. p \in Actor /\ pc[p] = "rwait" /\ pc' = [pc EXCEPT ![p] = "rdone"]
  BY DEF BlockRead, Goto, Actor, Proc
<1>2. Copying = {} /\ Copying' = {}
  <2>1. Copying = {}
    BY <1>1, CopyFacts DEF RHolds
  <2>2. Copying' = Copying
    <3>1. p \in Actor /\ pc' = [pc EXCEPT ![p] = "rdone"] /\ pc[p] # "copy" /\ "rdone" # "copy"
      BY <1>1
    <3> QED BY <1>0, <3>1, CopyMoves
  <2> QED BY <2>1, <2>2
<1> DEFINE b == [OtherBytes(q[1], arg[p]) EXCEPT !.alloc = q[1].n - arg[p]]
<1>3. /\ q[1] \in FitBlock /\ Tail(q) \in Seq(FitBlock)
      /\ len = q[1].alloc + Alloc(Tail(q)) /\ len' = Alloc(q')
      /\ q' = Tail(q) \/ (q[1].n > arg[p] /\ b \in FitBlock /\ q' = <<b>> \o Tail(q))
  BY BlockFacts
<1>4. Alloc(Tail(q)) \in Nat
  <2>1. Tail(q) \in Seq(Block)
    BY <1>3, FitFacts
  <2> QED BY <2>1, Counted
<1>5. q[1].alloc \in Nat /\ q[1].n \in Nat /\ q[1].n <= q[1].alloc
  BY <1>3, FitFacts DEF FitBlock
<1>6. arg[p] \in Nat
  BY <1>0, <1>1
<1>7. b.alloc = q[1].n - arg[p]
  BY <1>3 DEF OtherBytes, FitBlock, Block
<1>8. b \in FitBlock /\ q' = <<b>> \o Tail(q) => len' = b.alloc + Alloc(Tail(q))
  <2>1. FitBlock \in SUBSET Block /\ Tail(q) \in Seq(FitBlock) /\ len' = Alloc(q')
    BY <1>3, FitFacts
  <2> HIDE DEF b
  <2>2. ASSUME b \in FitBlock PROVE Alloc(<<b>> \o Tail(q)) = b.alloc + Alloc(Tail(q))
    BY <2>1, <2>2, Fronted
  <2> QED BY <2>1, <2>2
<1> HIDE DEF b
<1>9. CASE q' = Tail(q)
  <2>1. len = q[1].alloc + Alloc(Tail(q)) /\ len' = Alloc(Tail(q))
    BY <1>3, <1>9
  <2> QED BY <1>2, <1>4, <1>5, <2>1
<1>10. CASE q[1].n > arg[p] /\ b \in FitBlock /\ q' = <<b>> \o Tail(q)
  <2>1. /\ len = q[1].alloc + Alloc(Tail(q))
        /\ len' = (q[1].n - arg[p]) + Alloc(Tail(q))
    BY <1>3, <1>7, <1>8, <1>10
  <2> QED BY <1>2, <1>4, <1>5, <1>6, <2>1
<1> QED BY <1>3, <1>9, <1>10

(* A driver taking what it wants leaves no more than there was.            *)
LEMMA DrainLen ==
  ASSUME Contents, NEW d \in Dev, qget(d) \/ qdiscard(d) \/ qconsume(d)
  PROVE  len' <= len
<1>0. q \in Seq(Block) /\ q \in Seq(FitBlock) /\ Len(q) \in Nat
  BY FitFacts, LenProperties DEF Contents
<1>1. q = SubSeq(q, 1, Len(q)) /\ Len(q) \in 0..Len(q) /\ 0 \in 0..Len(q)
  BY <1>0, SubSeqFull
<1>2. CASE qget(d)
  <2>1. CASE len' = len
    BY <1>0, <2>1, Counted DEF Contents
  <2>2. CASE q # <<>> /\ len' = len - Alloc(<<Head(q)>>)
    <3>1. Head(q) \in Block
      BY <1>0, <2>2, Parted, FitFacts
    <3>2. Alloc(<<Head(q)>>) = Head(q).alloc /\ Head(q).alloc \in Nat
      BY <3>1, BytesFew DEF Block
    <3>3. len \in Nat
      BY <1>0, Counted DEF Contents
    <3> QED BY <2>2, <3>2, <3>3
  <2> QED BY <1>2, <2>1, <2>2 DEF qget, Unqueue, queue
<1>3. CASE qdiscard(d)
  <2>1. \E k \in 0..Len(q) : len' = len - Alloc(SubSeq(q, 1, k))
    BY <1>3 DEF qdiscard
  <2> QED BY <2>1, LessLen
<1>4. CASE qconsume(d)
  <2>1. PICK n \in use.rlen : \E k \in 0..Len(q) :
          \/ len' = len - Alloc(q)
          \/ SubSeq(q, k + 1, Len(q)) # <<>> /\ len' = len - Alloc(SubSeq(q, 1, k + 1))
          \/ len' = len - Alloc(SubSeq(q, 1, k))
    BY <1>4 DEF qconsume, Unqueue
  <2>2. ASSUME NEW k \in 0..Len(q), SubSeq(q, k + 1, Len(q)) # <<>>
        PROVE  k + 1 \in 0..Len(q)
    <3>1. k # Len(q)
      BY <1>0, <2>2, Cut
    <3> QED BY <1>0, <3>1
  <2>3. \E k \in 0..Len(q) : len' = len - Alloc(SubSeq(q, 1, k))
    BY <1>1, <2>1, <2>2
  <2> QED BY <2>3, LessLen
<1> QED BY <1>2, <1>3, <1>4

(* A writer on its way to sleep still has what it relies on.              *)
LEMMA WSleepsStep ==
  ASSUME Control, Contents, WriterSleeps, Next
  PROVE  WriterSleeps'
<1> USE DEF queue, flags, modes, locks, aux, control
<1>a. /\ WriterSleeps /\ pc \in [Actor -> PC] /\ wake \in [Actor -> Seq({"rr", "wr"})]
      /\ flow \in BOOLEAN /\ Wakes
      /\ wr # Nil => pc[wr] = "wblock" /\ wlock = wr /\ wr \in Actor /\ use.writer # {}
      /\ \A p \in Actor : pc[p] = "wsleep" => wlock = p /\ p \in Proc /\ use.writer # {}
      /\ \A p \in Actor : pc[p] \in WHolds => wlock = p
      /\ use.writer # {} => "qiwrite" \notin use.ops
      /\ "qreopen" \in use.ops => use.owned
  <2>2. wake \in [Actor -> Seq({"rr", "wr"})] /\ pc \in [Actor -> PC] /\ flow \in BOOLEAN /\ Wakes
    BY DEF Control, Shapes
  <2> QED BY <2>2, WriterFacts
<1>b. /\ use' = use /\ len \in Nat /\ len' \in Nat
      /\ Limit \in Nat \ {0, 1} /\ Limit \div 2 \in Nat
      /\ 0 < Limit \div 2 /\ Limit \div 2 <= Limit /\ Limit \div 2 >= Limit \div 2
  <2>1. use \in Uses
    BY DEF Control, Shapes
  <2>2. len \in Nat /\ len' \in Nat
    BY QueueStep, LenFacts
  <2>3. Limit \div 2 \in Nat /\ Limit \in Nat \ {0, 1} /\ 0 < Limit \div 2 /\ Limit \div 2 <= Limit
    BY <2>1, LimitFacts
  <2> QED BY <2>2, <2>3, UseKept
<1>e. pc \in [Actor -> PC]
  BY <1>a
<1>d. Limit' = Limit
  BY <1>b DEF Limit
<1>f. hand \in [Proc -> Seq(FitBlock)] /\ arg \in [Actor -> Nat]
  BY DEF Control, Shapes, Contents
<1>1. ASSUME NEW p \in Reader, CallRead(p) PROVE WriterSleeps'
  <2>1. /\ p \in Actor /\ UNCHANGED <<flow, closed, len>>
        /\ pc' = [pc EXCEPT ![p] = pc'[p]] /\ pc'[p] # "copy" /\ pc[p] # "copy" /\ pc'[p] # "wsleep"
    BY <1>1, <1>e DEF CallRead, Goto, Actor, Proc
  <2>2. Copying' = Copying
    BY <1>e, <2>1, CopyMoves
  <2>3. \A r \in Actor : pc'[r] = "wsleep" => pc[r] = "wsleep"
    BY <1>e, <2>1
  <2>4. \A r \in Actor \ {p} : arg'[r] = arg[r]
    BY <1>1, <1>f DEF CallRead
  <2>5. \A r \in Proc \ {p} : hand'[r] = hand[r]
    BY <1>1, <1>f DEF CallRead
  <2>6. \A r \in Copying' : r \in Actor \ {p} /\ r \in Proc \ {p} /\ Back(r) \in Nat
    BY <2>1, <2>2, BackNat DEF Copying, Actor, Proc
  <2> QED BY <1>a, <1>b, <2>1, <2>2, <2>3, <2>4, <2>5, <2>6, StillSleeps
<1>2. ASSUME NEW p \in Reader, RLock(p) PROVE WriterSleeps'
  <2>1. /\ p \in Actor /\ UNCHANGED <<flow, closed, len>>
        /\ pc' = [pc EXCEPT ![p] = pc'[p]] /\ pc'[p] # "copy" /\ pc[p] # "copy" /\ pc'[p] # "wsleep"
    BY <1>2, <1>e DEF RLock, Goto, Actor, Proc
  <2>2. Copying' = Copying
    BY <1>e, <2>1, CopyMoves
  <2>3. \A r \in Actor : pc'[r] = "wsleep" => pc[r] = "wsleep"
    BY <1>e, <2>1
  <2>4. \A r \in Actor \ {p} : arg'[r] = arg[r]
    BY <1>2, <1>f DEF RLock
  <2>5. \A r \in Proc \ {p} : hand'[r] = hand[r]
    BY <1>2, <1>f DEF RLock
  <2>6. \A r \in Copying' : r \in Actor \ {p} /\ r \in Proc \ {p} /\ Back(r) \in Nat
    BY <2>1, <2>2, BackNat DEF Copying, Actor, Proc
  <2> QED BY <1>a, <1>b, <2>1, <2>2, <2>3, <2>4, <2>5, <2>6, StillSleeps
<1>3. ASSUME NEW p \in Reader, ReadEof(p) PROVE WriterSleeps'
  <2>1. /\ p \in Actor /\ pc[p] = "rwait" /\ UNCHANGED <<flow, closed>>
        /\ pc' = [pc EXCEPT ![p] = "idle"]
    BY <1>3 DEF ReadEof, Goto, Actor, Proc, RUnlock
  <2>2. Copying = {} /\ Copying' = {}
    <3>1. Copying = {}
      BY <2>1, CopyFacts DEF RHolds
    <3>2. Copying' = Copying
      <4>1. p \in Actor /\ pc' = [pc EXCEPT ![p] = "idle"] /\ pc[p] # "copy" /\ "idle" # "copy"
        BY <2>1
      <4> QED BY <1>e, <4>1, CopyMoves
    <3> QED BY <3>1, <3>2
  <2>3. len = 0 /\ len' = 0
    BY <1>3, DropFacts
  <2>4. \A r \in Actor : pc'[r] = "wsleep" => pc[r] = "wsleep"
    BY <1>e, <2>1
  <2> QED BY <1>a, <1>b, <2>1, <2>2, <2>3, <2>4, StillSleeps
<1>4. ASSUME NEW p \in Reader, ReadStarve(p) PROVE WriterSleeps'
  <2>1. /\ p \in Actor /\ pc[p] = "rwait" /\ UNCHANGED <<flow, closed>>
        /\ pc' = [pc EXCEPT ![p] = "rsleep"]
    BY <1>4 DEF ReadStarve, Goto, Actor, Proc, RUnlock
  <2>2. Copying = {} /\ Copying' = {}
    <3>1. Copying = {}
      BY <2>1, CopyFacts DEF RHolds
    <3>2. Copying' = Copying
      <4>1. p \in Actor /\ pc' = [pc EXCEPT ![p] = "rsleep"] /\ pc[p] # "copy" /\ "rsleep" # "copy"
        BY <2>1
      <4> QED BY <1>e, <4>1, CopyMoves
    <3> QED BY <3>1, <3>2
  <2>3. len = 0 /\ len' = 0
    BY <1>4, DropFacts
  <2>4. \A r \in Actor : pc'[r] = "wsleep" => pc[r] = "wsleep"
    BY <1>e, <2>1
  <2> QED BY <1>a, <1>b, <2>1, <2>2, <2>3, <2>4, StillSleeps
<1>5. ASSUME NEW p \in Reader, ReadSleep(p) PROVE WriterSleeps'
  <2>1. /\ p \in Actor /\ UNCHANGED <<flow, closed, len>>
        /\ pc' = [pc EXCEPT ![p] = pc'[p]] /\ pc'[p] # "copy" /\ pc[p] # "copy" /\ pc'[p] # "wsleep"
    BY <1>5, <1>e DEF ReadSleep, Goto, Actor, Proc
  <2>2. Copying' = Copying
    BY <1>e, <2>1, CopyMoves
  <2>3. \A r \in Actor : pc'[r] = "wsleep" => pc[r] = "wsleep"
    BY <1>e, <2>1
  <2>4. \A r \in Actor \ {p} : arg'[r] = arg[r]
    BY <1>5, <1>f DEF ReadSleep
  <2>5. \A r \in Proc \ {p} : hand'[r] = hand[r]
    BY <1>5, <1>f DEF ReadSleep
  <2>6. \A r \in Copying' : r \in Actor \ {p} /\ r \in Proc \ {p} /\ Back(r) \in Nat
    BY <2>1, <2>2, BackNat DEF Copying, Actor, Proc
  <2> QED BY <1>a, <1>b, <2>1, <2>2, <2>3, <2>4, <2>5, <2>6, StillSleeps
<1>6. ASSUME NEW p \in Reader, ReadTake(p) PROVE WriterSleeps'
  <2>1. /\ p \in Actor /\ UNCHANGED <<flow, closed>> /\ pc' = [pc EXCEPT ![p] = "copy"]
    BY <1>6 DEF ReadTake, Goto, Actor, Proc
  <2>2. Copying' = {p} /\ len' + Back(p)' <= len /\ len' <= len /\ Back(p)' \in Nat
    BY <1>6, TakeLen
  <2>3. \A r \in Actor : pc'[r] = "wsleep" => pc[r] = "wsleep"
    BY <1>e, <2>1
  <2>4. Roomy => Roomy'
    BY <1>b, <1>d, <2>2 DEF Roomy
  <2> QED BY <1>a, <2>1, <2>3, <2>4 DEF WriterSleeps
<1>7. ASSUME NEW p \in Reader, ReadDone(p) PROVE WriterSleeps'
  <2>1. /\ p \in Actor /\ pc[p] = "copy" /\ closed' = closed /\ FlowWake(p, Limit \div 2)
        /\ pc' = [pc EXCEPT ![p] = "rdone"]
    BY <1>7 DEF ReadDone, Goto, Actor, Proc
  <2>2. Copying' = {} /\ (Roomy => len' < Limit)
    BY <1>b, <1>7, DoneLen DEF Roomy
  <2>3. \A r \in Actor : pc'[r] = "wsleep" => pc[r] = "wsleep"
    BY <1>e, <2>1
  <2>4. wake[p] = <<>>
    BY <1>a, <2>1, ActorAssumption DEF Wakes, Actor, Proc
  <2> QED BY <1>a, <1>b, <2>1, <2>2, <2>3, <2>4, StillHeard
<1>8. ASSUME NEW p \in Reader, BlockRead(p) PROVE WriterSleeps'
  <2>1. /\ p \in Actor /\ pc[p] = "rwait" /\ closed' = closed /\ FlowWake(p, Limit \div 2)
        /\ pc' = [pc EXCEPT ![p] = "rdone"]
    BY <1>8 DEF BlockRead, Goto, Actor, Proc
  <2>2. Copying' = {} /\ (Roomy => len' < Limit)
    BY <1>b, <1>8, BlockLen DEF Roomy
  <2>3. \A r \in Actor : pc'[r] = "wsleep" => pc[r] = "wsleep"
    BY <1>e, <2>1
  <2>4. wake[p] = <<>>
    BY <1>a, <2>1, ActorAssumption DEF Wakes, Actor, Proc
  <2> QED BY <1>a, <1>b, <2>1, <2>2, <2>3, <2>4, StillHeard
<1>9. ASSUME NEW p \in Reader, ReadReturn(p) PROVE WriterSleeps'
  <2>1. /\ p \in Actor /\ UNCHANGED <<flow, closed, len>>
        /\ pc' = [pc EXCEPT ![p] = pc'[p]] /\ pc'[p] # "copy" /\ pc[p] # "copy" /\ pc'[p] # "wsleep"
    BY <1>9, <1>e DEF ReadReturn, Goto, Actor, Proc, RUnlock
  <2>2. Copying' = Copying
    BY <1>e, <2>1, CopyMoves
  <2>3. \A r \in Actor : pc'[r] = "wsleep" => pc[r] = "wsleep"
    BY <1>e, <2>1
  <2>4. \A r \in Actor \ {p} : arg'[r] = arg[r]
    BY <1>9, <1>f DEF ReadReturn, RUnlock
  <2>5. \A r \in Proc \ {p} : hand'[r] = hand[r]
    BY <1>9, <1>f DEF ReadReturn, RUnlock
  <2>6. \A r \in Copying' : r \in Actor \ {p} /\ r \in Proc \ {p} /\ Back(r) \in Nat
    BY <2>1, <2>2, BackNat DEF Copying, Actor, Proc
  <2> QED BY <1>a, <1>b, <2>1, <2>2, <2>3, <2>4, <2>5, <2>6, StillSleeps
<1>10. ASSUME NEW p \in Reader, ReadEintr(p) PROVE WriterSleeps'
  <2>1. /\ p \in Actor /\ UNCHANGED <<flow, closed, len>>
        /\ pc' = [pc EXCEPT ![p] = pc'[p]] /\ pc'[p] # "copy" /\ pc[p] # "copy" /\ pc'[p] # "wsleep"
    BY <1>10, <1>e DEF ReadEintr, Goto, Actor, Proc
  <2>2. Copying' = Copying
    BY <1>e, <2>1, CopyMoves
  <2>3. \A r \in Actor : pc'[r] = "wsleep" => pc[r] = "wsleep"
    BY <1>e, <2>1
  <2>4. \A r \in Actor \ {p} : arg'[r] = arg[r]
    BY <1>10, <1>f DEF ReadEintr
  <2>5. \A r \in Proc \ {p} : hand'[r] = hand[r]
    BY <1>10, <1>f DEF ReadEintr
  <2>6. \A r \in Copying' : r \in Actor \ {p} /\ r \in Proc \ {p} /\ Back(r) \in Nat
    BY <2>1, <2>2, BackNat DEF Copying, Actor, Proc
  <2> QED BY <1>a, <1>b, <2>1, <2>2, <2>3, <2>4, <2>5, <2>6, StillSleeps
<1>11. ASSUME NEW p \in Writer, CallWrite(p) PROVE WriterSleeps'
  <2>1. /\ p \in Actor /\ UNCHANGED <<flow, closed, len>>
        /\ pc' = [pc EXCEPT ![p] = pc'[p]] /\ pc'[p] # "copy" /\ pc[p] # "copy" /\ pc'[p] # "wsleep"
    BY <1>11, <1>e DEF CallWrite, Goto, Actor, Proc, NextPiece, Hold
  <2>2. Copying' = Copying
    BY <1>e, <2>1, CopyMoves
  <2>3. \A r \in Actor : pc'[r] = "wsleep" => pc[r] = "wsleep"
    BY <1>e, <2>1
  <2>4. \A r \in Actor \ {p} : arg'[r] = arg[r]
    BY <1>11, <1>f DEF CallWrite, NextPiece, Hold
  <2>5. \A r \in Proc \ {p} : hand'[r] = hand[r]
    BY <1>11, <1>f DEF CallWrite, NextPiece, Hold
  <2>6. \A r \in Copying' : r \in Actor \ {p} /\ r \in Proc \ {p} /\ Back(r) \in Nat
    BY <2>1, <2>2, BackNat DEF Copying, Actor, Proc
  <2> QED BY <1>a, <1>b, <2>1, <2>2, <2>3, <2>4, <2>5, <2>6, StillSleeps
<1>12. ASSUME NEW p \in Writer, WLock(p) PROVE WriterSleeps'
  <2>1. /\ p \in Actor /\ UNCHANGED <<flow, closed, len>>
        /\ pc' = [pc EXCEPT ![p] = pc'[p]] /\ pc'[p] # "copy" /\ pc[p] # "copy" /\ pc'[p] # "wsleep"
    BY <1>12, <1>e DEF WLock, Goto, Actor, Proc
  <2>2. Copying' = Copying
    BY <1>e, <2>1, CopyMoves
  <2>3. \A r \in Actor : pc'[r] = "wsleep" => pc[r] = "wsleep"
    BY <1>e, <2>1
  <2>4. \A r \in Actor \ {p} : arg'[r] = arg[r]
    BY <1>12, <1>f DEF WLock
  <2>5. \A r \in Proc \ {p} : hand'[r] = hand[r]
    BY <1>12, <1>f DEF WLock
  <2>6. \A r \in Copying' : r \in Actor \ {p} /\ r \in Proc \ {p} /\ Back(r) \in Nat
    BY <2>1, <2>2, BackNat DEF Copying, Actor, Proc
  <2> QED BY <1>a, <1>b, <2>1, <2>2, <2>3, <2>4, <2>5, <2>6, StillSleeps
<1>13. ASSUME NEW p \in Writer, WriteClosed(p) PROVE WriterSleeps'
  <2>1. /\ p \in Actor /\ UNCHANGED <<flow, closed, len>>
        /\ pc' = [pc EXCEPT ![p] = pc'[p]] /\ pc'[p] # "copy" /\ pc[p] # "copy" /\ pc'[p] # "wsleep"
    BY <1>13, <1>e DEF WriteClosed, Goto, Actor, Proc, WUnlock, Hold
  <2>2. Copying' = Copying
    BY <1>e, <2>1, CopyMoves
  <2>3. \A r \in Actor : pc'[r] = "wsleep" => pc[r] = "wsleep"
    BY <1>e, <2>1
  <2>4. \A r \in Actor \ {p} : arg'[r] = arg[r]
    BY <1>13, <1>f DEF WriteClosed, WUnlock, Hold
  <2>5. \A r \in Proc \ {p} : hand'[r] = hand[r]
    BY <1>13, <1>f DEF WriteClosed, WUnlock, Hold
  <2>6. \A r \in Copying' : r \in Actor \ {p} /\ r \in Proc \ {p} /\ Back(r) \in Nat
    BY <2>1, <2>2, BackNat DEF Copying, Actor, Proc
  <2> QED BY <1>a, <1>b, <2>1, <2>2, <2>3, <2>4, <2>5, <2>6, StillSleeps
<1>14. ASSUME NEW p \in Writer, WriteDropped(p) PROVE WriterSleeps'
  <2>1. /\ p \in Actor /\ UNCHANGED <<flow, closed, len>>
        /\ pc' = [pc EXCEPT ![p] = pc'[p]] /\ pc'[p] # "copy" /\ pc[p] # "copy" /\ pc'[p] # "wsleep"
    BY <1>14, <1>e DEF WriteDropped, Goto, Actor, Proc, WUnlock, Hold
  <2>2. Copying' = Copying
    BY <1>e, <2>1, CopyMoves
  <2>3. \A r \in Actor : pc'[r] = "wsleep" => pc[r] = "wsleep"
    BY <1>e, <2>1
  <2>4. \A r \in Actor \ {p} : arg'[r] = arg[r]
    BY <1>14, <1>f DEF WriteDropped, WUnlock, Hold
  <2>5. \A r \in Proc \ {p} : hand'[r] = hand[r]
    BY <1>14, <1>f DEF WriteDropped, WUnlock, Hold
  <2>6. \A r \in Copying' : r \in Actor \ {p} /\ r \in Proc \ {p} /\ Back(r) \in Nat
    BY <2>1, <2>2, BackNat DEF Copying, Actor, Proc
  <2> QED BY <1>a, <1>b, <2>1, <2>2, <2>3, <2>4, <2>5, <2>6, StillSleeps
<1>15. ASSUME NEW p \in Writer, WritePut(p) PROVE WriterSleeps'
  <2>1. /\ p \in Actor /\ pc[p] \in WHolds /\ pc' = [pc EXCEPT ![p] = "wcheck"]
    BY <1>15 DEF WritePut, Goto, Actor, Proc, WHolds
  <2>2. \A r \in Actor : pc'[r] # "wsleep"
    BY <1>a, <2>1
  <2> QED BY <2>2 DEF WriterSleeps
<1>16. ASSUME NEW p \in Writer, WriteCheck(p) PROVE WriterSleeps'
  <2>1. /\ p \in Actor /\ UNCHANGED <<flow, closed, len>>
        /\ pc' = [pc EXCEPT ![p] = pc'[p]] /\ pc'[p] # "copy" /\ pc[p] # "copy" /\ pc'[p] # "wsleep"
    BY <1>16, <1>e DEF WriteCheck, Goto, Actor, Proc, WUnlock, Hold
  <2>2. Copying' = Copying
    BY <1>e, <2>1, CopyMoves
  <2>3. \A r \in Actor : pc'[r] = "wsleep" => pc[r] = "wsleep"
    BY <1>e, <2>1
  <2>4. \A r \in Actor \ {p} : arg'[r] = arg[r]
    BY <1>16, <1>f DEF WriteCheck, WUnlock, Hold
  <2>5. \A r \in Proc \ {p} : hand'[r] = hand[r]
    BY <1>16, <1>f DEF WriteCheck, WUnlock, Hold
  <2>6. \A r \in Copying' : r \in Actor \ {p} /\ r \in Proc \ {p} /\ Back(r) \in Nat
    BY <2>1, <2>2, BackNat DEF Copying, Actor, Proc
  <2> QED BY <1>a, <1>b, <2>1, <2>2, <2>3, <2>4, <2>5, <2>6, StillSleeps
<1>17. ASSUME NEW p \in Writer, WriteFlow(p) PROVE WriterSleeps'
  <2>1. flow' = TRUE
    BY <1>17 DEF WriteFlow
  <2> QED BY <2>1 DEF WriterSleeps
<1>18. ASSUME NEW p \in Writer, WriteSleep(p) PROVE WriterSleeps'
  <2>1. /\ p \in Actor /\ UNCHANGED <<flow, closed, len>>
        /\ pc' = [pc EXCEPT ![p] = pc'[p]] /\ pc'[p] # "copy" /\ pc[p] # "copy" /\ pc'[p] # "wsleep"
    BY <1>18, <1>e DEF WriteSleep, Goto, Actor, Proc
  <2>2. Copying' = Copying
    BY <1>e, <2>1, CopyMoves
  <2>3. \A r \in Actor : pc'[r] = "wsleep" => pc[r] = "wsleep"
    BY <1>e, <2>1
  <2>4. \A r \in Actor \ {p} : arg'[r] = arg[r]
    BY <1>18, <1>f DEF WriteSleep
  <2>5. \A r \in Proc \ {p} : hand'[r] = hand[r]
    BY <1>18, <1>f DEF WriteSleep
  <2>6. \A r \in Copying' : r \in Actor \ {p} /\ r \in Proc \ {p} /\ Back(r) \in Nat
    BY <2>1, <2>2, BackNat DEF Copying, Actor, Proc
  <2> QED BY <1>a, <1>b, <2>1, <2>2, <2>3, <2>4, <2>5, <2>6, StillSleeps
<1>19. ASSUME NEW p \in Writer, WriteNext(p) PROVE WriterSleeps'
  <2>1. /\ p \in Actor /\ UNCHANGED <<flow, closed, len>>
        /\ pc' = [pc EXCEPT ![p] = pc'[p]] /\ pc'[p] # "copy" /\ pc[p] # "copy" /\ pc'[p] # "wsleep"
    BY <1>19, <1>e DEF WriteNext, Goto, Actor, Proc, NextPiece, Hold
  <2>2. Copying' = Copying
    BY <1>e, <2>1, CopyMoves
  <2>3. \A r \in Actor : pc'[r] = "wsleep" => pc[r] = "wsleep"
    BY <1>e, <2>1
  <2>4. \A r \in Actor \ {p} : arg'[r] = arg[r]
    BY <1>19, <1>f DEF WriteNext, NextPiece, Hold
  <2>5. \A r \in Proc \ {p} : hand'[r] = hand[r]
    BY <1>19, <1>f DEF WriteNext, NextPiece, Hold
  <2>6. \A r \in Copying' : r \in Actor \ {p} /\ r \in Proc \ {p} /\ Back(r) \in Nat
    BY <2>1, <2>2, BackNat DEF Copying, Actor, Proc
  <2> QED BY <1>a, <1>b, <2>1, <2>2, <2>3, <2>4, <2>5, <2>6, StillSleeps
<1>20. ASSUME NEW p \in Writer, WriteEintr(p) PROVE WriterSleeps'
  <2>1. /\ p \in Actor /\ UNCHANGED <<flow, closed, len>>
        /\ pc' = [pc EXCEPT ![p] = pc'[p]] /\ pc'[p] # "copy" /\ pc[p] # "copy" /\ pc'[p] # "wsleep"
    BY <1>20, <1>e DEF WriteEintr, Goto, Actor, Proc
  <2>2. Copying' = Copying
    BY <1>e, <2>1, CopyMoves
  <2>3. \A r \in Actor : pc'[r] = "wsleep" => pc[r] = "wsleep"
    BY <1>e, <2>1
  <2>4. \A r \in Actor \ {p} : arg'[r] = arg[r]
    BY <1>20, <1>f DEF WriteEintr
  <2>5. \A r \in Proc \ {p} : hand'[r] = hand[r]
    BY <1>20, <1>f DEF WriteEintr
  <2>6. \A r \in Copying' : r \in Actor \ {p} /\ r \in Proc \ {p} /\ Back(r) \in Nat
    BY <2>1, <2>2, BackNat DEF Copying, Actor, Proc
  <2> QED BY <1>a, <1>b, <2>1, <2>2, <2>3, <2>4, <2>5, <2>6, StillSleeps
<1>21. ASSUME NEW d \in Dev, qproduce(d) PROVE WriterSleeps'
  <2>1. UNCHANGED <<closed, pc, hand, arg>>
    BY <1>21 DEF qproduce
  <2>2. use.ops \cap {"qproduce", "qpass", "qpassnolim"} # {}
    BY <1>21 DEF qproduce, Call
  <2>3. flow' \/ len' < Limit
    <3>1. flow' \/ ~(len' >= Limit)
      BY <1>21, Zenon DEF qproduce
    <3> QED BY <1>b, <3>1
  <2>4. Copying' = Copying
    BY <2>1 DEF Copying
  <2>5. ASSUME use.writer # {}, len' < Limit PROVE Roomy'
    <3>1. \A r \in Copying : Back(r) = 0
      BY <2>2, <2>5, NoneBack
    <3>2. \A r \in Copying' : Back(r)' = 0
      BY <2>1, <2>4, <3>1 DEF Back
    <3>3. \A r \in Copying' : len' + Back(r)' < Limit
      BY <1>b, <2>5, <3>2
    <3> QED BY <1>d, <2>5, <3>3 DEF Roomy
  <2> QED BY <1>a, <2>1, <2>3, <2>5 DEF WriterSleeps
<1>22. ASSUME NEW d \in Dev, qpass(d) PROVE WriterSleeps'
  <2>1. UNCHANGED <<closed, pc, hand, arg>>
    BY <1>22 DEF qpass
  <2>2. use.ops \cap {"qproduce", "qpass", "qpassnolim"} # {}
    BY <1>22 DEF qpass, Call
  <2>3. flow' \/ len' < Limit
    <3>1. flow' \/ ~(len' >= Limit \div 2)
      BY <1>22, Zenon DEF qpass
    <3> QED BY <1>b, <3>1
  <2>4. Copying' = Copying
    BY <2>1 DEF Copying
  <2>5. ASSUME use.writer # {}, len' < Limit PROVE Roomy'
    <3>1. \A r \in Copying : Back(r) = 0
      BY <2>2, <2>5, NoneBack
    <3>2. \A r \in Copying' : Back(r)' = 0
      BY <2>1, <2>4, <3>1 DEF Back
    <3>3. \A r \in Copying' : len' + Back(r)' < Limit
      BY <1>b, <2>5, <3>2
    <3> QED BY <1>d, <2>5, <3>3 DEF Roomy
  <2> QED BY <1>a, <2>1, <2>3, <2>5 DEF WriterSleeps
<1>23. ASSUME NEW d \in Dev, CallIwrite(d) PROVE WriterSleeps'
  <2>1. /\ "qiwrite" \in use.ops
        /\ \A r \in Actor : pc'[r] = "wsleep" => pc[r] = "wsleep"
    BY <1>23, <1>e DEF CallIwrite, Call
  <2> QED BY <1>a, <2>1 DEF WriterSleeps
<1>24. ASSUME NEW d \in Dev, Iwrite(d) PROVE WriterSleeps'
  <2>1. /\ d \in Actor /\ pc[d] \in Pieces
        /\ \A r \in Actor : pc'[r] = "wsleep" => pc[r] = "wsleep"
    BY <1>24, <1>e DEF Iwrite, Actor, Pieces
  <2>2. "qiwrite" \in use.ops
    BY <2>1 DEF Control, Roles
  <2> QED BY <1>a, <2>1, <2>2 DEF WriterSleeps
<1>25. ASSUME NEW d \in Dev, qget(d) PROVE WriterSleeps'
  <2>1. /\ d \in Actor /\ wake[d] = <<>> /\ UNCHANGED <<closed, pc>>
        /\ "qget" \in use.ops
    BY <1>25 DEF qget, Call, Awake, Actor
  <2>2. Copying = {} /\ Copying' = {}
    BY <2>1, CopyFacts DEF Copying
  <2>3. (FlowWake(d, Limit \div 2) \/ flow' = flow) /\ Limit \div 2 \in Nat /\ Limit \div 2 <= Limit
    BY <1>25, <1>b DEF qget
  <2>4. len' <= len
    BY <1>25, DrainLen
  <2>5. Roomy => len' < Limit
    BY <1>b, <2>4 DEF Roomy
  <2>6. CASE FlowWake(d, Limit \div 2)
    BY <1>a, <1>b, <2>1, <2>2, <2>3, <2>5, <2>6, StillHeard
  <2>7. CASE flow' = flow
    BY <1>a, <1>b, <2>1, <2>2, <2>4, <2>7, StillSleeps
  <2> QED BY <2>3, <2>6, <2>7
<1>26. ASSUME NEW d \in Dev, qdiscard(d) PROVE WriterSleeps'
  <2>1. /\ d \in Actor /\ wake[d] = <<>> /\ UNCHANGED <<closed, pc>>
        /\ "qdiscard" \in use.ops
    BY <1>26 DEF qdiscard, Call, Awake, Actor
  <2>2. Copying = {} /\ Copying' = {}
    BY <2>1, CopyFacts DEF Copying
  <2>3. (FlowWake(d, Limit) \/ flow' = flow) /\ Limit \in Nat /\ Limit <= Limit
    BY <1>26, <1>b DEF qdiscard
  <2>4. len' <= len
    BY <1>26, DrainLen
  <2>5. Roomy => len' < Limit
    BY <1>b, <2>4 DEF Roomy
  <2>6. CASE FlowWake(d, Limit)
    BY <1>a, <1>b, <2>1, <2>2, <2>3, <2>5, <2>6, StillHeard
  <2>7. CASE flow' = flow
    BY <1>a, <1>b, <2>1, <2>2, <2>4, <2>7, StillSleeps
  <2> QED BY <2>3, <2>6, <2>7
<1>27. ASSUME NEW d \in Dev, qconsume(d) PROVE WriterSleeps'
  <2>1. /\ d \in Actor /\ wake[d] = <<>> /\ UNCHANGED <<closed, pc>>
        /\ "qconsume" \in use.ops
    BY <1>27 DEF qconsume, Call, Awake, Actor
  <2>2. Copying = {} /\ Copying' = {}
    BY <2>1, CopyFacts DEF Copying
  <2>3. (FlowWake(d, Limit \div 2) \/ flow' = flow) /\ Limit \div 2 \in Nat /\ Limit \div 2 <= Limit
    BY <1>27, <1>b DEF qconsume
  <2>4. len' <= len
    BY <1>27, DrainLen
  <2>5. Roomy => len' < Limit
    BY <1>b, <2>4 DEF Roomy
  <2>6. CASE FlowWake(d, Limit \div 2)
    BY <1>a, <1>b, <2>1, <2>2, <2>3, <2>5, <2>6, StillHeard
  <2>7. CASE flow' = flow
    BY <1>a, <1>b, <2>1, <2>2, <2>4, <2>7, StillSleeps
  <2> QED BY <2>3, <2>6, <2>7
<1>28. ASSUME NEW d \in Dev, qflush(d) PROVE WriterSleeps'
  <2>1. /\ d \in Actor /\ wake[d] = <<>> /\ UNCHANGED <<closed, pc>>
        /\ "qflush" \in use.ops
    BY <1>28 DEF qflush, Call, Awake, Actor
  <2>2. Copying = {} /\ Copying' = {}
    BY <2>1, CopyFacts DEF Copying
  <2>3. len' = 0 /\ flow' = flow
    BY <1>28 DEF qflush, Empty
  <2>4. len' <= len
    BY <1>b, <2>3
  <2> QED BY <1>a, <1>b, <2>1, <2>2, <2>3, <2>4, StillSleeps
<1>29. ASSUME NEW d \in Dev, qclose(d) PROVE WriterSleeps'
  <2>1. closed' = TRUE
    BY <1>29 DEF qclose
  <2> QED BY <2>1 DEF WriterSleeps
<1>30. ASSUME NEW d \in Dev, qhangup(d) PROVE WriterSleeps'
  <2>1. closed' = TRUE
    BY <1>30 DEF qhangup
  <2> QED BY <2>1 DEF WriterSleeps
<1>31. ASSUME NEW d \in Dev, qreopen(d) PROVE WriterSleeps'
  <2>1. pc' = pc /\ "qreopen" \in use.ops
    BY <1>31 DEF qreopen, Call
  <2>2. \A p \in Proc : pc[p] = "idle"
    BY <1>31, <1>a, <2>1 DEF qreopen, NoCall
  <2> QED BY <1>a, <2>1, <2>2 DEF WriterSleeps
<1>32. ASSUME NEW d \in Dev, qnoblock(d) PROVE WriterSleeps'
  <2>1. UNCHANGED <<flow, closed, len, pc, hand, arg>>
    BY <1>32 DEF qnoblock
  <2>2. Copying' = Copying
    BY <2>1 DEF Copying
  <2>3. \A r \in Copying : Back(r) \in Nat
    BY BackNat
  <2> QED BY <1>a, <1>b, <2>1, <2>2, <2>3, StillSleeps
<1>33. ASSUME NEW a \in Actor, Wakeup(a) PROVE WriterSleeps'
  <2>1. UNCHANGED <<flow, closed, len, pc, hand, arg>>
    BY <1>33 DEF Wakeup
  <2>2. Copying' = Copying
    BY <2>1 DEF Copying
  <2>3. \A r \in Copying : Back(r) \in Nat
    BY BackNat
  <2> QED BY <1>a, <1>b, <2>1, <2>2, <2>3, StillSleeps
<1> QED BY <1>1, <1>2, <1>3, <1>4, <1>5, <1>6, <1>7, <1>8, <1>9, <1>10, <1>11, <1>12,
   <1>13, <1>14, <1>15, <1>16, <1>17, <1>18, <1>19, <1>20, <1>21, <1>22, <1>23, <1>24,
   <1>25, <1>26, <1>27, <1>28, <1>29, <1>30, <1>31, <1>32, <1>33 DEF Next, Reading,
   Writing, Device

(* The property follows.                                                   *)
LEMMA WriterSafe ==
  ASSUME Control, Contents, WriterPosted
  PROVE  NoStrandedWriter
<1>1. len \in Nat /\ Limit \div 2 \in Nat
  <2>1. len \in Nat
    BY FitFacts, Counted DEF Contents
  <2>2. Limit \div 2 \in Nat
    BY LimitFacts DEF Control, Shapes
  <2> QED BY <2>1, <2>2
<1>2. Copying # {} => \E p \in Reader : pc[p] = "copy"
  BY DEF Copying
<1> HIDE DEF Limit
<1> QED BY <1>1, <1>2 DEF WriterPosted, NoStrandedWriter

-----------------------------------------------------------------------------
(* The limit of a queue that only processes write, uninterrupted.          *)

Feeds == {"qproduce", "qpass", "qpassnolim", "qiwrite", "qnoblock", "qreopen"}
Plain == Intr = FALSE /\ \A u \in Uses : u.ops \cap Feeds = {}

(* The queue is no longer than x, whatever a reader puts back.             *)
Under(x) == len <= x /\ \A r \in Copying : len + Back(r) <= x

(* A writer adds a block only when the one before it has brought the queue *)
(* below the limit: between the two it is at one of these places.          *)
Slow == {"wcheck", "wflow", "wsleep", "wblock"}
Bounded == /\ ~noblock
           /\ Under(Limit - 1 + 2 * Maxatomic)
           /\ closed \/ (\E a \in Actor : pc[a] \in Slow) \/ Under(Limit - 1 + Maxatomic)

LEMMA PlainFacts ==
  ASSUME Plain, Control
  PROVE  Intr = FALSE /\ \A x \in Feeds : x \notin use.ops
<1>1. use \in Uses
  BY DEF Control, Shapes
<1> QED BY <1>1 DEF Plain

(* A block put back is one of a writer's.                                  *)
LEMMA BackSmall ==
  ASSUME Control, Contents, Plain, NEW r \in Copying
  PROVE  Back(r) \in Nat /\ Back(r) <= Maxatomic
<1>1. r \in Proc /\ pc[r] = "copy"
  BY DEF Copying, Proc
<1>2. hand[r] \in Seq(FitBlock) /\ hand[r] # <<>>
  BY <1>1 DEF Contents, Hands
<1>3. hand[r][1] \in FitBlock
  BY <1>2, Parted, FitFacts
<1>4. use.ops \cap {"qproduce", "qpass", "qpassnolim"} = {}
  BY PlainFacts DEF Feeds
<1>5. hand[r][1].alloc <= Maxatomic
  BY <1>3, <1>4 DEF FitBlock
<1>6. Back(r) \in Nat
  BY BackNat
<1>7. 0 <= Maxatomic
  BY MaxatomicAssumption
<1> QED BY <1>5, <1>6, <1>7 DEF Back

LEMMA StillUnder ==
  ASSUME len \in Nat, len' \in Nat, len' <= len, Copying' \subseteq Copying,
         \A r \in Copying' : hand'[r] = hand[r] /\ arg'[r] = arg[r] /\ Back(r) \in Nat
  PROVE  \A x \in Int : Under(x) => Under(x)'
<1>1. \A r \in Copying' : Back(r)' = Back(r)
  BY DEF Back
<1>2. ASSUME NEW x \in Int, Under(x), NEW r \in Copying' PROVE len' + Back(r)' <= x
  <2>1. len + Back(r) <= x /\ Back(r)' = Back(r) /\ Back(r) \in Nat
    BY <1>1, <1>2 DEF Under
  <2> QED BY <2>1
<1>3. ASSUME NEW x \in Int, Under(x) PROVE len' <= x
  BY <1>3 DEF Under
<1> QED BY <1>2, <1>3 DEF Under

(* Only a writer makes the queue longer.                                   *)
LEMMA UnderStep ==
  ASSUME Control, Contents, Plain, Next
  PROVE  (\E w \in Writer : WritePut(w)) \/ \A x \in Int : Under(x) => Under(x)'
<1> USE DEF queue, flags, modes, locks, aux, control
<1>a. /\ len \in Nat /\ len' \in Nat
      /\ pc \in [Actor -> PC] /\ arg \in [Actor -> Nat] /\ hand \in [Proc -> Seq(FitBlock)]
  BY LenTypes
<1>b. \A r \in Copying : Back(r) \in Nat
  BY BackNat
<1>c. \A x \in Feeds : x \notin use.ops
  BY PlainFacts
<1>1. ASSUME NEW p \in Reader, CallRead(p) PROVE (\E w \in Writer : WritePut(w)) \/ \A x \in Int : Under(x) => Under(x)'
  <2>1. /\ p \in Actor /\ UNCHANGED len
        /\ pc' = [pc EXCEPT ![p] = pc'[p]] /\ pc'[p] # "copy" /\ pc[p] # "copy"
    BY <1>1, <1>a DEF CallRead, Goto, Actor, Proc
  <2>2. Copying' = Copying
    BY <1>a, <2>1, CopyMoves
  <2>4. \A r \in Actor \ {p} : arg'[r] = arg[r]
    BY <1>1, <1>a DEF CallRead
  <2>5. \A r \in Proc \ {p} : hand'[r] = hand[r]
    BY <1>1, <1>a DEF CallRead
  <2>6. \A r \in Copying' : r \in Actor \ {p} /\ r \in Proc \ {p} /\ Back(r) \in Nat
    BY <1>b, <2>1, <2>2 DEF Copying, Actor, Proc
  <2>7. len' <= len
    BY <1>a, <2>1
  <2> QED BY <1>a, <2>2, <2>4, <2>5, <2>6, <2>7, StillUnder
<1>2. ASSUME NEW p \in Reader, RLock(p) PROVE (\E w \in Writer : WritePut(w)) \/ \A x \in Int : Under(x) => Under(x)'
  <2>1. /\ p \in Actor /\ UNCHANGED len
        /\ pc' = [pc EXCEPT ![p] = pc'[p]] /\ pc'[p] # "copy" /\ pc[p] # "copy"
    BY <1>2, <1>a DEF RLock, Goto, Actor, Proc
  <2>2. Copying' = Copying
    BY <1>a, <2>1, CopyMoves
  <2>4. \A r \in Actor \ {p} : arg'[r] = arg[r]
    BY <1>2, <1>a DEF RLock
  <2>5. \A r \in Proc \ {p} : hand'[r] = hand[r]
    BY <1>2, <1>a DEF RLock
  <2>6. \A r \in Copying' : r \in Actor \ {p} /\ r \in Proc \ {p} /\ Back(r) \in Nat
    BY <1>b, <2>1, <2>2 DEF Copying, Actor, Proc
  <2>7. len' <= len
    BY <1>a, <2>1
  <2> QED BY <1>a, <2>2, <2>4, <2>5, <2>6, <2>7, StillUnder
<1>3. ASSUME NEW p \in Reader, ReadEof(p) PROVE (\E w \in Writer : WritePut(w)) \/ \A x \in Int : Under(x) => Under(x)'
  <2>1. /\ p \in Actor /\ pc[p] = "rwait" /\ pc' = [pc EXCEPT ![p] = "idle"]
    BY <1>3 DEF ReadEof, Goto, Actor, Proc
  <2>2. Copying' = {}
    <3>1. Copying = {}
      BY <2>1, CopyFacts DEF RHolds
    <3>2. Copying' = Copying
      <4>1. p \in Actor /\ pc' = [pc EXCEPT ![p] = "idle"] /\ pc[p] # "copy" /\ "idle" # "copy"
        BY <2>1
      <4> QED BY <1>a, <4>1, CopyMoves
    <3> QED BY <3>1, <3>2
  <2>3. len' <= len
    BY <1>3, <1>a, DropFacts
  <2> QED BY <1>a, <2>2, <2>3, StillUnder
<1>4. ASSUME NEW p \in Reader, ReadStarve(p) PROVE (\E w \in Writer : WritePut(w)) \/ \A x \in Int : Under(x) => Under(x)'
  <2>1. /\ p \in Actor /\ pc[p] = "rwait" /\ pc' = [pc EXCEPT ![p] = "rsleep"]
    BY <1>4 DEF ReadStarve, Goto, Actor, Proc
  <2>2. Copying' = {}
    <3>1. Copying = {}
      BY <2>1, CopyFacts DEF RHolds
    <3>2. Copying' = Copying
      <4>1. p \in Actor /\ pc' = [pc EXCEPT ![p] = "rsleep"] /\ pc[p] # "copy" /\ "rsleep" # "copy"
        BY <2>1
      <4> QED BY <1>a, <4>1, CopyMoves
    <3> QED BY <3>1, <3>2
  <2>3. len' <= len
    BY <1>4, <1>a, DropFacts
  <2> QED BY <1>a, <2>2, <2>3, StillUnder
<1>5. ASSUME NEW p \in Reader, ReadSleep(p) PROVE (\E w \in Writer : WritePut(w)) \/ \A x \in Int : Under(x) => Under(x)'
  <2>1. /\ p \in Actor /\ UNCHANGED len
        /\ pc' = [pc EXCEPT ![p] = pc'[p]] /\ pc'[p] # "copy" /\ pc[p] # "copy"
    BY <1>5, <1>a DEF ReadSleep, Goto, Actor, Proc
  <2>2. Copying' = Copying
    BY <1>a, <2>1, CopyMoves
  <2>4. \A r \in Actor \ {p} : arg'[r] = arg[r]
    BY <1>5, <1>a DEF ReadSleep
  <2>5. \A r \in Proc \ {p} : hand'[r] = hand[r]
    BY <1>5, <1>a DEF ReadSleep
  <2>6. \A r \in Copying' : r \in Actor \ {p} /\ r \in Proc \ {p} /\ Back(r) \in Nat
    BY <1>b, <2>1, <2>2 DEF Copying, Actor, Proc
  <2>7. len' <= len
    BY <1>a, <2>1
  <2> QED BY <1>a, <2>2, <2>4, <2>5, <2>6, <2>7, StillUnder
<1>6. ASSUME NEW p \in Reader, ReadTake(p) PROVE (\E w \in Writer : WritePut(w)) \/ \A x \in Int : Under(x) => Under(x)'
  <2>1. Copying' = {p} /\ len' + Back(p)' <= len /\ len' <= len /\ Back(p)' \in Nat
    BY <1>6, TakeLen
  <2>2. ASSUME NEW x \in Int, Under(x) PROVE Under(x)'
    BY <1>a, <2>1, <2>2 DEF Under
  <2> QED BY <2>2
<1>7. ASSUME NEW p \in Reader, ReadDone(p) PROVE (\E w \in Writer : WritePut(w)) \/ \A x \in Int : Under(x) => Under(x)'
  <2>1. p \in Copying /\ Copying' = {} /\ (len' = len \/ len' = len + Back(p))
    BY <1>7, DoneLen
  <2>2. ASSUME NEW x \in Int, Under(x) PROVE Under(x)'
    BY <1>a, <2>1, <2>2 DEF Under
  <2> QED BY <2>2
<1>8. ASSUME NEW p \in Reader, BlockRead(p) PROVE (\E w \in Writer : WritePut(w)) \/ \A x \in Int : Under(x) => Under(x)'
  <2>1. Copying' = {} /\ len' <= len
    BY <1>8, BlockLen
  <2> QED BY <1>a, <2>1, StillUnder
<1>9. ASSUME NEW p \in Reader, ReadReturn(p) PROVE (\E w \in Writer : WritePut(w)) \/ \A x \in Int : Under(x) => Under(x)'
  <2>1. /\ p \in Actor /\ UNCHANGED len
        /\ pc' = [pc EXCEPT ![p] = pc'[p]] /\ pc'[p] # "copy" /\ pc[p] # "copy"
    BY <1>9, <1>a DEF ReadReturn, Goto, Actor, Proc, RUnlock
  <2>2. Copying' = Copying
    BY <1>a, <2>1, CopyMoves
  <2>4. \A r \in Actor \ {p} : arg'[r] = arg[r]
    BY <1>9, <1>a DEF ReadReturn, RUnlock
  <2>5. \A r \in Proc \ {p} : hand'[r] = hand[r]
    BY <1>9, <1>a DEF ReadReturn, RUnlock
  <2>6. \A r \in Copying' : r \in Actor \ {p} /\ r \in Proc \ {p} /\ Back(r) \in Nat
    BY <1>b, <2>1, <2>2 DEF Copying, Actor, Proc
  <2>7. len' <= len
    BY <1>a, <2>1
  <2> QED BY <1>a, <2>2, <2>4, <2>5, <2>6, <2>7, StillUnder
<1>10. ASSUME NEW p \in Reader, ReadEintr(p) PROVE (\E w \in Writer : WritePut(w)) \/ \A x \in Int : Under(x) => Under(x)'
  <2>1. /\ p \in Actor /\ UNCHANGED len
        /\ pc' = [pc EXCEPT ![p] = pc'[p]] /\ pc'[p] # "copy" /\ pc[p] # "copy"
    BY <1>10, <1>a DEF ReadEintr, Goto, Actor, Proc
  <2>2. Copying' = Copying
    BY <1>a, <2>1, CopyMoves
  <2>4. \A r \in Actor \ {p} : arg'[r] = arg[r]
    BY <1>10, <1>a DEF ReadEintr
  <2>5. \A r \in Proc \ {p} : hand'[r] = hand[r]
    BY <1>10, <1>a DEF ReadEintr
  <2>6. \A r \in Copying' : r \in Actor \ {p} /\ r \in Proc \ {p} /\ Back(r) \in Nat
    BY <1>b, <2>1, <2>2 DEF Copying, Actor, Proc
  <2>7. len' <= len
    BY <1>a, <2>1
  <2> QED BY <1>a, <2>2, <2>4, <2>5, <2>6, <2>7, StillUnder
<1>11. ASSUME NEW p \in Writer, CallWrite(p) PROVE (\E w \in Writer : WritePut(w)) \/ \A x \in Int : Under(x) => Under(x)'
  <2>1. /\ p \in Actor /\ UNCHANGED len
        /\ pc' = [pc EXCEPT ![p] = pc'[p]] /\ pc'[p] # "copy" /\ pc[p] # "copy"
    BY <1>11, <1>a DEF CallWrite, Goto, Actor, Proc, NextPiece, Hold
  <2>2. Copying' = Copying
    BY <1>a, <2>1, CopyMoves
  <2>4. \A r \in Actor \ {p} : arg'[r] = arg[r]
    BY <1>11, <1>a DEF CallWrite, NextPiece, Hold
  <2>5. \A r \in Proc \ {p} : hand'[r] = hand[r]
    BY <1>11, <1>a DEF CallWrite, NextPiece, Hold
  <2>6. \A r \in Copying' : r \in Actor \ {p} /\ r \in Proc \ {p} /\ Back(r) \in Nat
    BY <1>b, <2>1, <2>2 DEF Copying, Actor, Proc
  <2>7. len' <= len
    BY <1>a, <2>1
  <2> QED BY <1>a, <2>2, <2>4, <2>5, <2>6, <2>7, StillUnder
<1>12. ASSUME NEW p \in Writer, WLock(p) PROVE (\E w \in Writer : WritePut(w)) \/ \A x \in Int : Under(x) => Under(x)'
  <2>1. /\ p \in Actor /\ UNCHANGED len
        /\ pc' = [pc EXCEPT ![p] = pc'[p]] /\ pc'[p] # "copy" /\ pc[p] # "copy"
    BY <1>12, <1>a DEF WLock, Goto, Actor, Proc
  <2>2. Copying' = Copying
    BY <1>a, <2>1, CopyMoves
  <2>4. \A r \in Actor \ {p} : arg'[r] = arg[r]
    BY <1>12, <1>a DEF WLock
  <2>5. \A r \in Proc \ {p} : hand'[r] = hand[r]
    BY <1>12, <1>a DEF WLock
  <2>6. \A r \in Copying' : r \in Actor \ {p} /\ r \in Proc \ {p} /\ Back(r) \in Nat
    BY <1>b, <2>1, <2>2 DEF Copying, Actor, Proc
  <2>7. len' <= len
    BY <1>a, <2>1
  <2> QED BY <1>a, <2>2, <2>4, <2>5, <2>6, <2>7, StillUnder
<1>13. ASSUME NEW p \in Writer, WriteClosed(p) PROVE (\E w \in Writer : WritePut(w)) \/ \A x \in Int : Under(x) => Under(x)'
  <2>1. /\ p \in Actor /\ UNCHANGED len
        /\ pc' = [pc EXCEPT ![p] = pc'[p]] /\ pc'[p] # "copy" /\ pc[p] # "copy"
    BY <1>13, <1>a DEF WriteClosed, Goto, Actor, Proc, WUnlock, Hold
  <2>2. Copying' = Copying
    BY <1>a, <2>1, CopyMoves
  <2>4. \A r \in Actor \ {p} : arg'[r] = arg[r]
    BY <1>13, <1>a DEF WriteClosed, WUnlock, Hold
  <2>5. \A r \in Proc \ {p} : hand'[r] = hand[r]
    BY <1>13, <1>a DEF WriteClosed, WUnlock, Hold
  <2>6. \A r \in Copying' : r \in Actor \ {p} /\ r \in Proc \ {p} /\ Back(r) \in Nat
    BY <1>b, <2>1, <2>2 DEF Copying, Actor, Proc
  <2>7. len' <= len
    BY <1>a, <2>1
  <2> QED BY <1>a, <2>2, <2>4, <2>5, <2>6, <2>7, StillUnder
<1>14. ASSUME NEW p \in Writer, WriteDropped(p) PROVE (\E w \in Writer : WritePut(w)) \/ \A x \in Int : Under(x) => Under(x)'
  <2>1. /\ p \in Actor /\ UNCHANGED len
        /\ pc' = [pc EXCEPT ![p] = pc'[p]] /\ pc'[p] # "copy" /\ pc[p] # "copy"
    BY <1>14, <1>a DEF WriteDropped, Goto, Actor, Proc, WUnlock, Hold
  <2>2. Copying' = Copying
    BY <1>a, <2>1, CopyMoves
  <2>4. \A r \in Actor \ {p} : arg'[r] = arg[r]
    BY <1>14, <1>a DEF WriteDropped, WUnlock, Hold
  <2>5. \A r \in Proc \ {p} : hand'[r] = hand[r]
    BY <1>14, <1>a DEF WriteDropped, WUnlock, Hold
  <2>6. \A r \in Copying' : r \in Actor \ {p} /\ r \in Proc \ {p} /\ Back(r) \in Nat
    BY <1>b, <2>1, <2>2 DEF Copying, Actor, Proc
  <2>7. len' <= len
    BY <1>a, <2>1
  <2> QED BY <1>a, <2>2, <2>4, <2>5, <2>6, <2>7, StillUnder
<1>15. ASSUME NEW p \in Writer, WritePut(p) PROVE (\E w \in Writer : WritePut(w)) \/ \A x \in Int : Under(x) => Under(x)'
  <2> QED BY <1>15
<1>16. ASSUME NEW p \in Writer, WriteCheck(p) PROVE (\E w \in Writer : WritePut(w)) \/ \A x \in Int : Under(x) => Under(x)'
  <2>1. /\ p \in Actor /\ UNCHANGED len
        /\ pc' = [pc EXCEPT ![p] = pc'[p]] /\ pc'[p] # "copy" /\ pc[p] # "copy"
    BY <1>16, <1>a DEF WriteCheck, Goto, Actor, Proc, WUnlock, Hold
  <2>2. Copying' = Copying
    BY <1>a, <2>1, CopyMoves
  <2>4. \A r \in Actor \ {p} : arg'[r] = arg[r]
    BY <1>16, <1>a DEF WriteCheck, WUnlock, Hold
  <2>5. \A r \in Proc \ {p} : hand'[r] = hand[r]
    BY <1>16, <1>a DEF WriteCheck, WUnlock, Hold
  <2>6. \A r \in Copying' : r \in Actor \ {p} /\ r \in Proc \ {p} /\ Back(r) \in Nat
    BY <1>b, <2>1, <2>2 DEF Copying, Actor, Proc
  <2>7. len' <= len
    BY <1>a, <2>1
  <2> QED BY <1>a, <2>2, <2>4, <2>5, <2>6, <2>7, StillUnder
<1>17. ASSUME NEW p \in Writer, WriteFlow(p) PROVE (\E w \in Writer : WritePut(w)) \/ \A x \in Int : Under(x) => Under(x)'
  <2>1. /\ p \in Actor /\ UNCHANGED len
        /\ pc' = [pc EXCEPT ![p] = pc'[p]] /\ pc'[p] # "copy" /\ pc[p] # "copy"
    BY <1>17, <1>a DEF WriteFlow, Goto, Actor, Proc
  <2>2. Copying' = Copying
    BY <1>a, <2>1, CopyMoves
  <2>4. \A r \in Actor \ {p} : arg'[r] = arg[r]
    BY <1>17, <1>a DEF WriteFlow
  <2>5. \A r \in Proc \ {p} : hand'[r] = hand[r]
    BY <1>17, <1>a DEF WriteFlow
  <2>6. \A r \in Copying' : r \in Actor \ {p} /\ r \in Proc \ {p} /\ Back(r) \in Nat
    BY <1>b, <2>1, <2>2 DEF Copying, Actor, Proc
  <2>7. len' <= len
    BY <1>a, <2>1
  <2> QED BY <1>a, <2>2, <2>4, <2>5, <2>6, <2>7, StillUnder
<1>18. ASSUME NEW p \in Writer, WriteSleep(p) PROVE (\E w \in Writer : WritePut(w)) \/ \A x \in Int : Under(x) => Under(x)'
  <2>1. /\ p \in Actor /\ UNCHANGED len
        /\ pc' = [pc EXCEPT ![p] = pc'[p]] /\ pc'[p] # "copy" /\ pc[p] # "copy"
    BY <1>18, <1>a DEF WriteSleep, Goto, Actor, Proc
  <2>2. Copying' = Copying
    BY <1>a, <2>1, CopyMoves
  <2>4. \A r \in Actor \ {p} : arg'[r] = arg[r]
    BY <1>18, <1>a DEF WriteSleep
  <2>5. \A r \in Proc \ {p} : hand'[r] = hand[r]
    BY <1>18, <1>a DEF WriteSleep
  <2>6. \A r \in Copying' : r \in Actor \ {p} /\ r \in Proc \ {p} /\ Back(r) \in Nat
    BY <1>b, <2>1, <2>2 DEF Copying, Actor, Proc
  <2>7. len' <= len
    BY <1>a, <2>1
  <2> QED BY <1>a, <2>2, <2>4, <2>5, <2>6, <2>7, StillUnder
<1>19. ASSUME NEW p \in Writer, WriteNext(p) PROVE (\E w \in Writer : WritePut(w)) \/ \A x \in Int : Under(x) => Under(x)'
  <2>1. /\ p \in Actor /\ UNCHANGED len
        /\ pc' = [pc EXCEPT ![p] = pc'[p]] /\ pc'[p] # "copy" /\ pc[p] # "copy"
    BY <1>19, <1>a DEF WriteNext, Goto, Actor, Proc, NextPiece, Hold
  <2>2. Copying' = Copying
    BY <1>a, <2>1, CopyMoves
  <2>4. \A r \in Actor \ {p} : arg'[r] = arg[r]
    BY <1>19, <1>a DEF WriteNext, NextPiece, Hold
  <2>5. \A r \in Proc \ {p} : hand'[r] = hand[r]
    BY <1>19, <1>a DEF WriteNext, NextPiece, Hold
  <2>6. \A r \in Copying' : r \in Actor \ {p} /\ r \in Proc \ {p} /\ Back(r) \in Nat
    BY <1>b, <2>1, <2>2 DEF Copying, Actor, Proc
  <2>7. len' <= len
    BY <1>a, <2>1
  <2> QED BY <1>a, <2>2, <2>4, <2>5, <2>6, <2>7, StillUnder
<1>20. ASSUME NEW p \in Writer, WriteEintr(p) PROVE (\E w \in Writer : WritePut(w)) \/ \A x \in Int : Under(x) => Under(x)'
  <2>1. /\ p \in Actor /\ UNCHANGED len
        /\ pc' = [pc EXCEPT ![p] = pc'[p]] /\ pc'[p] # "copy" /\ pc[p] # "copy"
    BY <1>20, <1>a DEF WriteEintr, Goto, Actor, Proc
  <2>2. Copying' = Copying
    BY <1>a, <2>1, CopyMoves
  <2>4. \A r \in Actor \ {p} : arg'[r] = arg[r]
    BY <1>20, <1>a DEF WriteEintr
  <2>5. \A r \in Proc \ {p} : hand'[r] = hand[r]
    BY <1>20, <1>a DEF WriteEintr
  <2>6. \A r \in Copying' : r \in Actor \ {p} /\ r \in Proc \ {p} /\ Back(r) \in Nat
    BY <1>b, <2>1, <2>2 DEF Copying, Actor, Proc
  <2>7. len' <= len
    BY <1>a, <2>1
  <2> QED BY <1>a, <2>2, <2>4, <2>5, <2>6, <2>7, StillUnder
<1>21. ASSUME NEW d \in Dev, qproduce(d) PROVE (\E w \in Writer : WritePut(w)) \/ \A x \in Int : Under(x) => Under(x)'
  <2>1. use.ops \cap Feeds # {}
    BY <1>21 DEF qproduce, Call, Feeds
  <2> QED BY <1>c, <2>1
<1>22. ASSUME NEW d \in Dev, qpass(d) PROVE (\E w \in Writer : WritePut(w)) \/ \A x \in Int : Under(x) => Under(x)'
  <2>1. use.ops \cap Feeds # {}
    BY <1>22 DEF qpass, Call, Feeds
  <2> QED BY <1>c, <2>1
<1>23. ASSUME NEW d \in Dev, CallIwrite(d) PROVE (\E w \in Writer : WritePut(w)) \/ \A x \in Int : Under(x) => Under(x)'
  <2>1. "qiwrite" \in use.ops /\ "qiwrite" \in Feeds
    BY <1>23 DEF CallIwrite, Call, Feeds
  <2> QED BY <1>c, <2>1
<1>24. ASSUME NEW d \in Dev, Iwrite(d) PROVE (\E w \in Writer : WritePut(w)) \/ \A x \in Int : Under(x) => Under(x)'
  <2>1. pc[d] \in Pieces /\ d \in Actor
    BY <1>24 DEF Iwrite, Actor, Pieces
  <2>2. "qiwrite" \in use.ops /\ "qiwrite" \in Feeds
    BY <2>1 DEF Control, Roles, Feeds
  <2> QED BY <1>c, <2>2
<1>25. ASSUME NEW d \in Dev, qget(d) PROVE (\E w \in Writer : WritePut(w)) \/ \A x \in Int : Under(x) => Under(x)'
  <2>1. len' <= len
    BY <1>25, DrainLen
  <2>2. UNCHANGED <<pc, hand, arg>>
    BY <1>25 DEF qget
  <2>3. Copying' = Copying
    BY <2>2 DEF Copying
  <2> QED BY <1>a, <1>b, <2>1, <2>2, <2>3, StillUnder
<1>26. ASSUME NEW d \in Dev, qdiscard(d) PROVE (\E w \in Writer : WritePut(w)) \/ \A x \in Int : Under(x) => Under(x)'
  <2>1. len' <= len
    BY <1>26, DrainLen
  <2>2. UNCHANGED <<pc, hand, arg>>
    BY <1>26 DEF qdiscard
  <2>3. Copying' = Copying
    BY <2>2 DEF Copying
  <2> QED BY <1>a, <1>b, <2>1, <2>2, <2>3, StillUnder
<1>27. ASSUME NEW d \in Dev, qconsume(d) PROVE (\E w \in Writer : WritePut(w)) \/ \A x \in Int : Under(x) => Under(x)'
  <2>1. len' <= len
    BY <1>27, DrainLen
  <2>2. UNCHANGED <<pc, hand, arg>>
    BY <1>27 DEF qconsume
  <2>3. Copying' = Copying
    BY <2>2 DEF Copying
  <2> QED BY <1>a, <1>b, <2>1, <2>2, <2>3, StillUnder
<1>28. ASSUME NEW d \in Dev, qflush(d) PROVE (\E w \in Writer : WritePut(w)) \/ \A x \in Int : Under(x) => Under(x)'
  <2>1. len' = 0 /\ UNCHANGED <<pc, hand, arg>>
    BY <1>28 DEF qflush, Empty
  <2>2. len' <= len
    BY <1>a, <2>1
  <2>3. Copying' = Copying
    BY <2>1 DEF Copying
  <2> QED BY <1>a, <1>b, <2>1, <2>2, <2>3, StillUnder
<1>29. ASSUME NEW d \in Dev, qclose(d) PROVE (\E w \in Writer : WritePut(w)) \/ \A x \in Int : Under(x) => Under(x)'
  <2>1. len' = 0 /\ UNCHANGED <<pc, hand, arg>>
    BY <1>29 DEF qclose, Empty
  <2>2. len' <= len
    BY <1>a, <2>1
  <2>3. Copying' = Copying
    BY <2>1 DEF Copying
  <2> QED BY <1>a, <1>b, <2>1, <2>2, <2>3, StillUnder
<1>30. ASSUME NEW d \in Dev, qhangup(d) PROVE (\E w \in Writer : WritePut(w)) \/ \A x \in Int : Under(x) => Under(x)'
  <2>1. UNCHANGED <<len, hand, pc>> /\ \A r \in Proc : arg'[r] = arg[r]
    BY <1>30, <1>a, ActorAssumption DEF qhangup, Actor
  <2>2. Copying' = Copying /\ len' <= len /\ Copying \subseteq Proc
    BY <1>a, <2>1 DEF Copying, Proc
  <2> QED BY <1>a, <1>b, <2>1, <2>2, StillUnder
<1>31. ASSUME NEW d \in Dev, qreopen(d) PROVE (\E w \in Writer : WritePut(w)) \/ \A x \in Int : Under(x) => Under(x)'
  <2>1. UNCHANGED <<len, hand, pc>> /\ \A r \in Proc : arg'[r] = arg[r]
    BY <1>31, <1>a, ActorAssumption DEF qreopen, Actor
  <2>2. Copying' = Copying /\ len' <= len /\ Copying \subseteq Proc
    BY <1>a, <2>1 DEF Copying, Proc
  <2> QED BY <1>a, <1>b, <2>1, <2>2, StillUnder
<1>32. ASSUME NEW d \in Dev, qnoblock(d) PROVE (\E w \in Writer : WritePut(w)) \/ \A x \in Int : Under(x) => Under(x)'
  <2>1. UNCHANGED <<len, hand, pc>> /\ \A r \in Proc : arg'[r] = arg[r]
    BY <1>32, <1>a, ActorAssumption DEF qnoblock, Actor
  <2>2. Copying' = Copying /\ len' <= len /\ Copying \subseteq Proc
    BY <1>a, <2>1 DEF Copying, Proc
  <2> QED BY <1>a, <1>b, <2>1, <2>2, StillUnder
<1>33. ASSUME NEW a \in Actor, Wakeup(a) PROVE (\E w \in Writer : WritePut(w)) \/ \A x \in Int : Under(x) => Under(x)'
  <2>1. UNCHANGED <<len, hand, pc>> /\ \A r \in Proc : arg'[r] = arg[r]
    BY <1>33, <1>a, ActorAssumption DEF Wakeup, Actor
  <2>2. Copying' = Copying /\ len' <= len /\ Copying \subseteq Proc
    BY <1>a, <2>1 DEF Copying, Proc
  <2> QED BY <1>a, <1>b, <2>1, <2>2, StillUnder
<1> QED BY <1>1, <1>2, <1>3, <1>4, <1>5, <1>6, <1>7, <1>8, <1>9, <1>10, <1>11, <1>12,
   <1>13, <1>14, <1>15, <1>16, <1>17, <1>18, <1>19, <1>20, <1>21, <1>22, <1>23, <1>24,
   <1>25, <1>26, <1>27, <1>28, <1>29, <1>30, <1>31, <1>32, <1>33 DEF Next, Reading,
   Writing, Device

(* No writer goes on to its next block unless there is room for it.        *)
Calmed == /\ ~noblock'
          /\ closed => closed'
          /\ (\E a \in Actor : pc[a] \in Slow) =>
               (\E a \in Actor : pc'[a] \in Slow) \/ closed \/ len < Limit

(* A writer stays where it is until there is room.                         *)
LEMMA SlowStep ==
  ASSUME Control, Contents, Plain, ~noblock, Next
  PROVE  Calmed
<1> USE DEF queue, flags, modes, locks, aux, control
<1>a. pc \in [Actor -> PC]
  BY LenTypes
<1>b. ~noblock
  OBVIOUS
<1>c. \A x \in Feeds : x \notin use.ops
  BY PlainFacts
<1>d. Intr = FALSE
  BY PlainFacts
<1>1. ASSUME NEW p \in Reader, CallRead(p) PROVE Calmed
  <2>1. UNCHANGED <<closed, noblock>> /\ p \in Actor
    BY <1>1 DEF CallRead, Actor, Proc
  <2>2. pc' = [pc EXCEPT ![p] = pc'[p]] /\ pc[p] \notin Slow
    BY <1>1, <1>a DEF CallRead, Goto, Slow
  <2>3. \A a \in Actor : pc[a] \in Slow => pc'[a] \in Slow
    BY <1>a, <2>1, <2>2
  <2> QED BY <1>b, <2>1, <2>3 DEF Calmed
<1>2. ASSUME NEW p \in Reader, RLock(p) PROVE Calmed
  <2>1. UNCHANGED <<closed, noblock>> /\ p \in Actor
    BY <1>2 DEF RLock, Actor, Proc
  <2>2. pc' = [pc EXCEPT ![p] = pc'[p]] /\ pc[p] \notin Slow
    BY <1>2, <1>a DEF RLock, Goto, Slow
  <2>3. \A a \in Actor : pc[a] \in Slow => pc'[a] \in Slow
    BY <1>a, <2>1, <2>2
  <2> QED BY <1>b, <2>1, <2>3 DEF Calmed
<1>3. ASSUME NEW p \in Reader, ReadEof(p) PROVE Calmed
  <2>1. UNCHANGED <<closed, noblock>> /\ p \in Actor
    BY <1>3 DEF ReadEof, Actor, Proc
  <2>2. pc' = [pc EXCEPT ![p] = pc'[p]] /\ pc[p] \notin Slow
    BY <1>3, <1>a DEF ReadEof, Goto, Slow
  <2>3. \A a \in Actor : pc[a] \in Slow => pc'[a] \in Slow
    BY <1>a, <2>1, <2>2
  <2> QED BY <1>b, <2>1, <2>3 DEF Calmed
<1>4. ASSUME NEW p \in Reader, ReadStarve(p) PROVE Calmed
  <2>1. UNCHANGED <<closed, noblock>> /\ p \in Actor
    BY <1>4 DEF ReadStarve, Actor, Proc
  <2>2. pc' = [pc EXCEPT ![p] = pc'[p]] /\ pc[p] \notin Slow
    BY <1>4, <1>a DEF ReadStarve, Goto, Slow
  <2>3. \A a \in Actor : pc[a] \in Slow => pc'[a] \in Slow
    BY <1>a, <2>1, <2>2
  <2> QED BY <1>b, <2>1, <2>3 DEF Calmed
<1>5. ASSUME NEW p \in Reader, ReadSleep(p) PROVE Calmed
  <2>1. UNCHANGED <<closed, noblock>> /\ p \in Actor
    BY <1>5 DEF ReadSleep, Actor, Proc
  <2>2. pc' = [pc EXCEPT ![p] = pc'[p]] /\ pc[p] \notin Slow
    BY <1>5, <1>a DEF ReadSleep, Goto, Slow
  <2>3. \A a \in Actor : pc[a] \in Slow => pc'[a] \in Slow
    BY <1>a, <2>1, <2>2
  <2> QED BY <1>b, <2>1, <2>3 DEF Calmed
<1>6. ASSUME NEW p \in Reader, ReadTake(p) PROVE Calmed
  <2>1. UNCHANGED <<closed, noblock>> /\ p \in Actor
    BY <1>6 DEF ReadTake, Actor, Proc
  <2>2. pc' = [pc EXCEPT ![p] = pc'[p]] /\ pc[p] \notin Slow
    BY <1>6, <1>a DEF ReadTake, Goto, Slow
  <2>3. \A a \in Actor : pc[a] \in Slow => pc'[a] \in Slow
    BY <1>a, <2>1, <2>2
  <2> QED BY <1>b, <2>1, <2>3 DEF Calmed
<1>7. ASSUME NEW p \in Reader, ReadDone(p) PROVE Calmed
  <2>1. UNCHANGED <<closed, noblock>> /\ p \in Actor
    BY <1>7 DEF ReadDone, Actor, Proc
  <2>2. pc' = [pc EXCEPT ![p] = pc'[p]] /\ pc[p] \notin Slow
    BY <1>7, <1>a DEF ReadDone, Goto, Slow
  <2>3. \A a \in Actor : pc[a] \in Slow => pc'[a] \in Slow
    BY <1>a, <2>1, <2>2
  <2> QED BY <1>b, <2>1, <2>3 DEF Calmed
<1>8. ASSUME NEW p \in Reader, BlockRead(p) PROVE Calmed
  <2>1. UNCHANGED <<closed, noblock>> /\ p \in Actor
    BY <1>8 DEF BlockRead, Actor, Proc
  <2>2. pc' = [pc EXCEPT ![p] = pc'[p]] /\ pc[p] \notin Slow
    BY <1>8, <1>a DEF BlockRead, Goto, Slow
  <2>3. \A a \in Actor : pc[a] \in Slow => pc'[a] \in Slow
    BY <1>a, <2>1, <2>2
  <2> QED BY <1>b, <2>1, <2>3 DEF Calmed
<1>9. ASSUME NEW p \in Reader, ReadReturn(p) PROVE Calmed
  <2>1. UNCHANGED <<closed, noblock>> /\ p \in Actor
    BY <1>9 DEF ReadReturn, Actor, Proc, RUnlock
  <2>2. pc' = [pc EXCEPT ![p] = pc'[p]] /\ pc[p] \notin Slow
    BY <1>9, <1>a DEF ReadReturn, Goto, Slow
  <2>3. \A a \in Actor : pc[a] \in Slow => pc'[a] \in Slow
    BY <1>a, <2>1, <2>2
  <2> QED BY <1>b, <2>1, <2>3 DEF Calmed
<1>10. ASSUME NEW p \in Reader, ReadEintr(p) PROVE Calmed
  <2>1. UNCHANGED <<closed, noblock>> /\ p \in Actor
    BY <1>10 DEF ReadEintr, Actor, Proc
  <2>2. pc' = [pc EXCEPT ![p] = pc'[p]] /\ pc[p] \notin Slow
    BY <1>10, <1>a DEF ReadEintr, Goto, Slow
  <2>3. \A a \in Actor : pc[a] \in Slow => pc'[a] \in Slow
    BY <1>a, <2>1, <2>2
  <2> QED BY <1>b, <2>1, <2>3 DEF Calmed
<1>11. ASSUME NEW p \in Writer, CallWrite(p) PROVE Calmed
  <2>1. UNCHANGED <<closed, noblock>> /\ p \in Actor
    BY <1>11 DEF CallWrite, Actor, Proc
  <2>2. pc' = [pc EXCEPT ![p] = pc'[p]] /\ pc[p] \notin Slow
    BY <1>11, <1>a DEF CallWrite, Goto, Slow
  <2>3. \A a \in Actor : pc[a] \in Slow => pc'[a] \in Slow
    BY <1>a, <2>1, <2>2
  <2> QED BY <1>b, <2>1, <2>3 DEF Calmed
<1>12. ASSUME NEW p \in Writer, WLock(p) PROVE Calmed
  <2>1. UNCHANGED <<closed, noblock>> /\ p \in Actor
    BY <1>12 DEF WLock, Actor, Proc
  <2>2. pc' = [pc EXCEPT ![p] = pc'[p]] /\ pc[p] \notin Slow
    BY <1>12, <1>a DEF WLock, Goto, Slow
  <2>3. \A a \in Actor : pc[a] \in Slow => pc'[a] \in Slow
    BY <1>a, <2>1, <2>2
  <2> QED BY <1>b, <2>1, <2>3 DEF Calmed
<1>13. ASSUME NEW p \in Writer, WriteClosed(p) PROVE Calmed
  <2>1. UNCHANGED <<closed, noblock>> /\ p \in Actor
    BY <1>13 DEF WriteClosed, Actor, Proc, WUnlock
  <2>2. pc' = [pc EXCEPT ![p] = pc'[p]] /\ pc[p] \notin Slow
    BY <1>13, <1>a DEF WriteClosed, Goto, Slow
  <2>3. \A a \in Actor : pc[a] \in Slow => pc'[a] \in Slow
    BY <1>a, <2>1, <2>2
  <2> QED BY <1>b, <2>1, <2>3 DEF Calmed
<1>14. ASSUME NEW p \in Writer, WriteDropped(p) PROVE Calmed
  <2>1. UNCHANGED <<closed, noblock>> /\ p \in Actor
    BY <1>14 DEF WriteDropped, Actor, Proc, WUnlock
  <2>2. pc' = [pc EXCEPT ![p] = pc'[p]] /\ pc[p] \notin Slow
    BY <1>14, <1>a DEF WriteDropped, Goto, Slow
  <2>3. \A a \in Actor : pc[a] \in Slow => pc'[a] \in Slow
    BY <1>a, <2>1, <2>2
  <2> QED BY <1>b, <2>1, <2>3 DEF Calmed
<1>15. ASSUME NEW p \in Writer, WritePut(p) PROVE Calmed
  <2>1. UNCHANGED <<closed, noblock>> /\ p \in Actor
    BY <1>15 DEF WritePut, Actor, Proc
  <2>2. pc' = [pc EXCEPT ![p] = pc'[p]] /\ pc[p] \notin Slow
    BY <1>15, <1>a DEF WritePut, Goto, Slow
  <2>3. \A a \in Actor : pc[a] \in Slow => pc'[a] \in Slow
    BY <1>a, <2>1, <2>2
  <2> QED BY <1>b, <2>1, <2>3 DEF Calmed
<1>16. ASSUME NEW p \in Writer, WriteCheck(p) PROVE Calmed
  <2>1. UNCHANGED <<closed, noblock>> /\ p \in Actor
    BY <1>16 DEF WriteCheck, Actor, Proc
  <2>2. CASE pc' = [pc EXCEPT ![p] = "wflow"]
    BY <1>a, <1>b, <2>1, <2>2 DEF Calmed, Slow
  <2>3. CASE noblock \/ qnotfull
    BY <1>b, <2>1, <2>3 DEF Calmed, qnotfull
  <2> QED BY <1>16, <2>2, <2>3 DEF WriteCheck, Goto
<1>17. ASSUME NEW p \in Writer, WriteFlow(p) PROVE Calmed
  <2>1. UNCHANGED <<closed, noblock>> /\ p \in Actor
    BY <1>17 DEF WriteFlow, Actor, Proc
  <2>2. pc'[p] \in Slow
    BY <1>17, <1>a, <2>1 DEF WriteFlow, Goto, Slow
  <2> QED BY <1>b, <2>1, <2>2 DEF Calmed
<1>18. ASSUME NEW p \in Writer, WriteSleep(p) PROVE Calmed
  <2>1. UNCHANGED <<closed, noblock>> /\ p \in Actor
    BY <1>18 DEF WriteSleep, Actor, Proc
  <2>2. pc'[p] \in Slow
    BY <1>18, <1>a, <2>1 DEF WriteSleep, Goto, Slow
  <2> QED BY <1>b, <2>1, <2>2 DEF Calmed
<1>19. ASSUME NEW p \in Writer, WriteNext(p) PROVE Calmed
  <2>1. UNCHANGED <<closed, noblock>> /\ p \in Actor
    BY <1>19 DEF WriteNext, Actor, Proc
  <2>2. pc' = [pc EXCEPT ![p] = pc'[p]] /\ pc[p] \notin Slow
    BY <1>19, <1>a DEF WriteNext, Goto, Slow
  <2>3. \A a \in Actor : pc[a] \in Slow => pc'[a] \in Slow
    BY <1>a, <2>1, <2>2
  <2> QED BY <1>b, <2>1, <2>3 DEF Calmed
<1>20. ASSUME NEW p \in Writer, WriteEintr(p) PROVE Calmed
  <2>1. Intr = TRUE
    BY <1>20, UsesAssumption DEF WriteEintr
  <2> QED BY <1>d, <2>1
<1>21. ASSUME NEW d \in Dev, qproduce(d) PROVE Calmed
  <2>1. use.ops \cap Feeds # {}
    BY <1>21 DEF qproduce, Call, Feeds
  <2> QED BY <1>c, <2>1
<1>22. ASSUME NEW d \in Dev, qpass(d) PROVE Calmed
  <2>1. use.ops \cap Feeds # {}
    BY <1>22 DEF qpass, Call, Feeds
  <2> QED BY <1>c, <2>1
<1>23. ASSUME NEW d \in Dev, CallIwrite(d) PROVE Calmed
  <2>1. "qiwrite" \in use.ops /\ "qiwrite" \in Feeds
    BY <1>23 DEF CallIwrite, Call, Feeds
  <2> QED BY <1>c, <2>1
<1>24. ASSUME NEW d \in Dev, Iwrite(d) PROVE Calmed
  <2>1. pc[d] \in Pieces /\ d \in Actor
    BY <1>24 DEF Iwrite, Actor, Pieces
  <2>2. "qiwrite" \in use.ops /\ "qiwrite" \in Feeds
    BY <2>1 DEF Control, Roles, Feeds
  <2> QED BY <1>c, <2>2
<1>25. ASSUME NEW d \in Dev, qget(d) PROVE Calmed
  <2>1. (closed => closed') /\ (noblock' = noblock \/ ~noblock') /\ pc' = pc
    BY <1>25 DEF qget
  <2> QED BY <1>b, <2>1 DEF Calmed
<1>26. ASSUME NEW d \in Dev, qdiscard(d) PROVE Calmed
  <2>1. (closed => closed') /\ (noblock' = noblock \/ ~noblock') /\ pc' = pc
    BY <1>26 DEF qdiscard
  <2> QED BY <1>b, <2>1 DEF Calmed
<1>27. ASSUME NEW d \in Dev, qconsume(d) PROVE Calmed
  <2>1. (closed => closed') /\ (noblock' = noblock \/ ~noblock') /\ pc' = pc
    BY <1>27 DEF qconsume
  <2> QED BY <1>b, <2>1 DEF Calmed
<1>28. ASSUME NEW d \in Dev, qflush(d) PROVE Calmed
  <2>1. (closed => closed') /\ (noblock' = noblock \/ ~noblock') /\ pc' = pc
    BY <1>28 DEF qflush, Empty
  <2> QED BY <1>b, <2>1 DEF Calmed
<1>29. ASSUME NEW d \in Dev, qclose(d) PROVE Calmed
  <2>1. (closed => closed') /\ (noblock' = noblock \/ ~noblock') /\ pc' = pc
    BY <1>29 DEF qclose, Empty
  <2> QED BY <1>b, <2>1 DEF Calmed
<1>30. ASSUME NEW d \in Dev, qhangup(d) PROVE Calmed
  <2>1. (closed => closed') /\ (noblock' = noblock \/ ~noblock') /\ pc' = pc
    BY <1>30 DEF qhangup
  <2> QED BY <1>b, <2>1 DEF Calmed
<1>31. ASSUME NEW d \in Dev, qreopen(d) PROVE Calmed
  <2>1. use.ops \cap Feeds # {}
    BY <1>31 DEF qreopen, Call, Feeds
  <2> QED BY <1>c, <2>1
<1>32. ASSUME NEW d \in Dev, qnoblock(d) PROVE Calmed
  <2>1. use.ops \cap Feeds # {}
    BY <1>32 DEF qnoblock, Call, Feeds
  <2> QED BY <1>c, <2>1
<1>33. ASSUME NEW a \in Actor, Wakeup(a) PROVE Calmed
  <2>1. (closed => closed') /\ (noblock' = noblock \/ ~noblock') /\ pc' = pc
    BY <1>33 DEF Wakeup
  <2> QED BY <1>b, <2>1 DEF Calmed
<1> QED BY <1>1, <1>2, <1>3, <1>4, <1>5, <1>6, <1>7, <1>8, <1>9, <1>10, <1>11, <1>12,
   <1>13, <1>14, <1>15, <1>16, <1>17, <1>18, <1>19, <1>20, <1>21, <1>22, <1>23, <1>24,
   <1>25, <1>26, <1>27, <1>28, <1>29, <1>30, <1>31, <1>32, <1>33 DEF Next, Reading,
   Writing, Device

LEMMA BoundedStep ==
  ASSUME Control, Contents, Plain, Bounded, Next
  PROVE  Bounded'
<1>1. /\ len \in Nat /\ len' \in Nat /\ use' = use /\ Limit' = Limit
      /\ pc \in [Actor -> PC] /\ hand \in [Proc -> Seq(FitBlock)]
  BY LenTypes
<1>2. Limit \in Nat /\ Maxatomic \in Nat
  BY LimitFacts, MaxatomicAssumption DEF Control, Shapes
<1>3. /\ ~noblock' /\ (closed => closed')
      /\ (\E a \in Actor : pc[a] \in Slow) =>
           (\E a \in Actor : pc'[a] \in Slow) \/ closed \/ len < Limit
  BY SlowStep DEF Bounded, Calmed
<1> DEFINE lo == Limit - 1 + Maxatomic
           hi == Limit - 1 + 2 * Maxatomic
<1>4. lo \in Int /\ hi \in Int /\ hi = lo + Maxatomic /\ Limit <= lo + 1 /\ lo' = lo /\ hi' = hi
      /\ Limit - 1 + Maxatomic = lo
  BY <1>1, <1>2
<1>5. Under(hi) /\ (closed \/ (\E a \in Actor : pc[a] \in Slow) \/ Under(lo))
  BY DEF Bounded
<1>6. len < Limit => Under(lo)
  <2>1. ASSUME len < Limit, NEW r \in Copying PROVE len + Back(r) <= lo
    BY <1>1, <1>2, <2>1, BackSmall
  <2>2. len < Limit => len <= lo
    BY <1>1, <1>2
  <2> HIDE DEF lo
  <2> QED BY <2>1, <2>2 DEF Under
<1> HIDE DEF lo, hi
<1>7. CASE \A x \in Int : Under(x) => Under(x)'
  <2>1. Under(hi)' /\ (Under(lo) => Under(lo)')
    BY <1>4, <1>5, <1>7
  <2>2. closed' \/ (\E a \in Actor : pc'[a] \in Slow) \/ Under(lo)'
    BY <1>3, <1>5, <1>6, <2>1
  <2> QED BY <1>3, <2>1, <2>2 DEF Bounded, lo, hi
<1>8. ASSUME NEW p \in Writer, WritePut(p) PROVE Bounded'
  <2>1. /\ p \in Actor /\ pc[p] = "wput" /\ ~closed /\ pc' = [pc EXCEPT ![p] = "wcheck"]
        /\ arg' = arg
    BY <1>8 DEF WritePut, Goto, Actor, Proc
  <2>2. \A a \in Actor : pc[a] \notin Slow
    <3>1. \A a \in Actor : pc[a] \in WHolds => wlock = a
      BY DEF Control, Locks
    <3>2. Slow \subseteq WHolds /\ "wput" \in WHolds /\ "wput" \notin Slow
      BY DEF Slow, WHolds
    <3> QED BY <2>1, <3>1, <3>2
  <2>3. Under(lo)
    BY <1>5, <2>1, <2>2
  <2>4. pc'[p] \in Slow
    BY <1>1, <2>1 DEF Slow
  <2>5. len' <= len + Maxatomic
    <3> DEFINE b == NewBlock(hand[p][1].n, sent)
    <3>1. Added(<<b>>) /\ Legal(hand[p][1].n) /\ sent \in Nat
      BY <1>8, WritePutFacts DEF Contents
    <3>2. b.alloc = hand[p][1].n /\ b.alloc \in Nat /\ b \in Block
      BY <3>1 DEF NewBlock, Legal, Block
    <3>3. hand[p][1].n <= Maxatomic
      <4>1. use.ops \cap {"qproduce", "qpass", "qpassnolim"} = {}
        BY PlainFacts DEF Feeds
      <4> QED BY <3>1, <4>1 DEF Legal
    <3> HIDE DEF b
    <3>4. len' = len + b.alloc
      BY <3>1, <3>2, BytesFew DEF Added
    <3> QED BY <1>1, <1>2, <3>2, <3>3, <3>4
  <2>6. Copying' = Copying
    <3>1. p \in Actor /\ pc' = [pc EXCEPT ![p] = "wcheck"] /\ pc[p] # "copy" /\ "wcheck" # "copy"
      BY <2>1
    <3> QED BY <1>1, <3>1, CopyMoves
  <2>7. \A r \in Copying' : Back(r)' = Back(r)
    <3>1. hand' = [hand EXCEPT ![p] = <<>>]
      BY <1>8, WritePutFacts
    <3>2. \A r \in Copying : r # p /\ r \in Proc
      BY <2>1 DEF Copying, Proc
    <3> QED BY <1>1, <2>1, <2>6, <3>1, <3>2 DEF Back
  <2>8. Under(hi)'
    <3>1. len <= lo /\ \A r \in Copying : len + Back(r) <= lo /\ Back(r) \in Nat
      BY <2>3, BackSmall DEF Under
    <3>2. len' <= hi
      BY <1>1, <1>2, <1>4, <2>5, <3>1
    <3>3. \A r \in Copying' : len' + Back(r)' <= hi
      BY <1>1, <1>2, <1>4, <2>5, <2>6, <2>7, <3>1
    <3> QED BY <1>4, <3>2, <3>3 DEF Under
  <2> QED BY <1>3, <2>1, <2>4, <2>8 DEF Bounded, hi
<1> QED BY <1>7, <1>8, UnderStep

-----------------------------------------------------------------------------
(* The stream.                                                             *)

(* Prefixes of two sequences joined.                                       *)
LEMMA JoinedPrefix ==
  ASSUME NEW s \in Seq(Block), NEW t \in Seq(Block)
  PROVE  /\ \A i \in 0..Len(s) : SubSeq(s \o t, 1, i) = SubSeq(s, 1, i)
         /\ \A j \in 0..Len(t) : SubSeq(s \o t, 1, Len(s) + j) = s \o SubSeq(t, 1, j)
<1> DEFINE u == s \o t
<1>1. /\ u \in Seq(Block) /\ Len(u) = Len(s) + Len(t) /\ Len(s) \in Nat /\ Len(t) \in Nat
      /\ \A i \in 1..Len(s) : u[i] = s[i]
      /\ \A i \in 1..Len(t) : u[Len(s) + i] = t[i]
  BY Behind, LenProperties
<1> HIDE DEF u
<1>2. ASSUME NEW i \in 0..Len(s) PROVE SubSeq(u, 1, i) = SubSeq(s, 1, i)
  <2>1. i \in 0..Len(u)
    BY <1>1
  <2>2. /\ SubSeq(u, 1, i) \in Seq(Block) /\ Len(SubSeq(u, 1, i)) = i
        /\ \A x \in 1..i : SubSeq(u, 1, i)[x] = u[x]
    BY <1>1, <2>1, Cut
  <2>3. /\ SubSeq(s, 1, i) \in Seq(Block) /\ Len(SubSeq(s, 1, i)) = i
        /\ \A x \in 1..i : SubSeq(s, 1, i)[x] = s[x]
    BY Cut
  <2>4. \A x \in 1..i : u[x] = s[x]
    BY <1>1
  <2>5. \A x \in 1..i : SubSeq(u, 1, i)[x] = SubSeq(s, 1, i)[x]
    BY <2>2, <2>3, <2>4
  <2> QED BY <2>2, <2>3, <2>5, SeqEqual
<1>3. ASSUME NEW j \in 0..Len(t) PROVE SubSeq(u, 1, Len(s) + j) = s \o SubSeq(t, 1, j)
  <2>1. Len(s) + j \in 0..Len(u) /\ Len(s) + j \in Nat
    BY <1>1
  <2>2. /\ SubSeq(u, 1, Len(s) + j) \in Seq(Block) /\ Len(SubSeq(u, 1, Len(s) + j)) = Len(s) + j
        /\ \A x \in 1..Len(s) + j : SubSeq(u, 1, Len(s) + j)[x] = u[x]
    BY <1>1, <2>1, Cut
  <2>3. /\ SubSeq(t, 1, j) \in Seq(Block) /\ Len(SubSeq(t, 1, j)) = j
        /\ \A x \in 1..j : SubSeq(t, 1, j)[x] = t[x]
    BY Cut
  <2>4. /\ s \o SubSeq(t, 1, j) \in Seq(Block) /\ Len(s \o SubSeq(t, 1, j)) = Len(s) + j
        /\ \A x \in 1..Len(s) : (s \o SubSeq(t, 1, j))[x] = s[x]
        /\ \A x \in 1..j : (s \o SubSeq(t, 1, j))[Len(s) + x] = SubSeq(t, 1, j)[x]
    BY <2>3, Behind
  <2>5. ASSUME NEW x \in 1..Len(s) + j
        PROVE  SubSeq(u, 1, Len(s) + j)[x] = (s \o SubSeq(t, 1, j))[x]
    <3>1. CASE x \in 1..Len(s)
      BY <1>1, <2>2, <2>4, <3>1
    <3>2. CASE x - Len(s) \in 1..j
      <4>1. x - Len(s) \in 1..Len(t) /\ Len(s) + (x - Len(s)) = x
        BY <1>1, <3>2
      <4>2. u[x] = t[x - Len(s)]
        BY <1>1, <4>1
      <4>3. (s \o SubSeq(t, 1, j))[x] = t[x - Len(s)]
        BY <2>3, <2>4, <3>2, <4>1
      <4> QED BY <2>2, <4>2, <4>3
    <3> QED BY <1>1, <3>1, <3>2
  <2> QED BY <2>2, <2>4, <2>5, SeqEqual
<1> QED BY <1>2, <1>3 DEF u

(* Blocks that follow each other without a gap, from byte a on.            *)
Run(s, a) == \A i \in 1..Len(s) : s[i].at = a + Bytes(SubSeq(s, 1, i - 1))

LEMMA RunFew ==
  ASSUME NEW a \in Nat
  PROVE  /\ Run(<<>>, a)
         /\ \A b \in Block : Run(<<b>>, a) <=> b.at = a
<1>1. Run(<<>>, a)
  <2>1. Len(<<>>) = 0 /\ 1..0 = {}
    BY EmptySeq
  <2> QED BY <2>1 DEF Run
<1>2. ASSUME NEW b \in Block PROVE Run(<<b>>, a) <=> b.at = a
  <2>1. SubSeq(<<b>>, 1, 1 - 1) = <<>>
    <3>1. <<b>> \in Seq(Block) /\ Len(<<b>>) = 1 /\ 0 \in 0..1
      OBVIOUS
    <3>2. SubSeq(<<b>>, 1, 0) = <<>>
      BY <3>1, Cut
    <3> QED BY <3>2
  <2>2. Bytes(SubSeq(<<b>>, 1, 1 - 1)) = 0
    BY <2>1, BytesFew
  <2>3. Len(<<b>>) = 1 /\ <<b>>[1] = b /\ \A i \in 1..1 : i = 1
    OBVIOUS
  <2>4. Run(<<b>>, a) <=> <<b>>[1].at = a + Bytes(SubSeq(<<b>>, 1, 1 - 1))
    BY <2>3 DEF Run
  <2> QED BY <2>2, <2>3, <2>4
<1> QED BY <1>1, <1>2

LEMMA RunConcat ==
  ASSUME NEW s \in Seq(Block), NEW t \in Seq(Block), NEW a \in Nat
  PROVE  Run(s \o t, a) <=> Run(s, a) /\ Run(t, a + Bytes(s))
<1>a. /\ \A k \in 0..Len(s) : SubSeq(s \o t, 1, k) = SubSeq(s, 1, k)
      /\ \A k \in 0..Len(t) : SubSeq(s \o t, 1, Len(s) + k) = s \o SubSeq(t, 1, k)
  BY JoinedPrefix
<1> DEFINE u == s \o t
<1>b. /\ \A k \in 0..Len(s) : SubSeq(u, 1, k) = SubSeq(s, 1, k)
      /\ \A k \in 0..Len(t) : SubSeq(u, 1, Len(s) + k) = s \o SubSeq(t, 1, k)
  BY <1>a
<1>1. /\ u \in Seq(Block) /\ Len(u) = Len(s) + Len(t) /\ Len(s) \in Nat /\ Len(t) \in Nat
      /\ \A i \in 1..Len(s) : u[i] = s[i]
      /\ \A i \in 1..Len(t) : u[Len(s) + i] = t[i]
      /\ Bytes(s) \in Nat
  BY Behind, LenProperties, Counted
<1>2. ASSUME NEW i \in 1..Len(s)
      PROVE  Bytes(SubSeq(u, 1, i - 1)) = Bytes(SubSeq(s, 1, i - 1))
  <2>1. i - 1 \in 0..Len(s)
    BY <1>1
  <2>2. SubSeq(u, 1, i - 1) = SubSeq(s, 1, i - 1)
    BY <1>b, <2>1
  <2> QED BY <2>2
<1>3. ASSUME NEW i \in 1..Len(t)
      PROVE  a + Bytes(SubSeq(u, 1, Len(s) + i - 1)) = a + Bytes(s) + Bytes(SubSeq(t, 1, i - 1))
  <2>1. i - 1 \in 0..Len(t) /\ Len(s) + i - 1 = Len(s) + (i - 1)
    BY <1>1
  <2>2. SubSeq(u, 1, Len(s) + (i - 1)) = s \o SubSeq(t, 1, i - 1)
    BY <1>b, <2>1
  <2>3. SubSeq(t, 1, i - 1) \in Seq(Block)
    BY <2>1, Cut
  <2>4. /\ Bytes(s \o SubSeq(t, 1, i - 1)) = Bytes(s) + Bytes(SubSeq(t, 1, i - 1))
        /\ Bytes(SubSeq(t, 1, i - 1)) \in Nat
    BY <2>3, BytesConcat, Counted
  <2>5. Bytes(SubSeq(u, 1, Len(s) + i - 1)) = Bytes(s) + Bytes(SubSeq(t, 1, i - 1))
    BY <2>1, <2>2, <2>4
  <2> QED BY <1>1, <2>4, <2>5
<1> HIDE DEF u
<1>4. Run(u, a) => Run(s, a)
  <2>1. ASSUME Run(u, a), NEW i \in 1..Len(s) PROVE s[i].at = a + Bytes(SubSeq(s, 1, i - 1))
    <3>1. i \in 1..Len(u)
      BY <1>1
    <3> QED BY <1>1, <1>2, <2>1, <3>1 DEF Run
  <2> QED BY <2>1 DEF Run
<1>5. Run(u, a) => Run(t, a + Bytes(s))
  <2>1. ASSUME Run(u, a), NEW i \in 1..Len(t)
        PROVE  t[i].at = a + Bytes(s) + Bytes(SubSeq(t, 1, i - 1))
    <3>1. Len(s) + i \in 1..Len(u)
      BY <1>1
    <3>2. u[Len(s) + i].at = a + Bytes(SubSeq(u, 1, Len(s) + i - 1))
      BY <2>1, <3>1 DEF Run
    <3> QED BY <1>1, <1>3, <3>2
  <2> QED BY <2>1 DEF Run
<1>6. ASSUME Run(s, a), Run(t, a + Bytes(s)), NEW i \in 1..Len(u)
      PROVE  u[i].at = a + Bytes(SubSeq(u, 1, i - 1))
  <2>1. CASE i \in 1..Len(s)
    BY <1>1, <1>2, <1>6, <2>1 DEF Run
  <2>2. CASE i - Len(s) \in 1..Len(t)
    <3> DEFINE j == i - Len(s)
    <3>1. j \in 1..Len(t) /\ Len(s) + j = i /\ Len(s) + j - 1 = i - 1
      BY <1>1, <2>2
    <3>2. t[j].at = a + Bytes(s) + Bytes(SubSeq(t, 1, j - 1))
      BY <1>6, <3>1 DEF Run
    <3>3. u[Len(s) + j] = t[j] /\ a + Bytes(SubSeq(u, 1, Len(s) + j - 1)) = a + Bytes(s) + Bytes(SubSeq(t, 1, j - 1))
      BY <1>1, <1>3, <3>1
    <3> HIDE DEF j
    <3> QED BY <3>1, <3>2, <3>3
  <2> QED BY <1>1, <2>1, <2>2
<1> QED BY <1>4, <1>5, <1>6 DEF Run, u

(* The last of them ends where they all do.                                *)
LEMMA RunLast ==
  ASSUME NEW s \in Seq(Block), s # <<>>, NEW a \in Nat, Run(s, a)
  PROVE  s[Len(s)].at + s[Len(s)].n = a + Bytes(s)
<1> DEFINE k == Len(s) - 1
<1>1. Len(s) \in Nat \ {0} /\ k \in 0..Len(s) /\ Len(s) \in 1..Len(s) /\ k + 1 = Len(s)
  BY EmptySeq, LenProperties
<1>2. s[Len(s)].at = a + Bytes(SubSeq(s, 1, k))
  BY <1>1 DEF Run
<1>3. /\ Bytes(s) = Bytes(SubSeq(s, 1, k)) + Bytes(SubSeq(s, k + 1, Len(s)))
      /\ SubSeq(s, 1, k) \in Seq(Block)
  BY <1>1, Cut
<1>4. s[Len(s)] \in Block /\ s[Len(s)].n \in Nat
  <2>1. s[Len(s)] \in Block
    BY <1>1, ElementOfSeq
  <2> QED BY <2>1 DEF Block
<1>5. SubSeq(s, k + 1, Len(s)) = <<s[Len(s)]>>
  <2>1. /\ SubSeq(s, k + 1, Len(s)) \in Seq(Block) /\ Len(SubSeq(s, k + 1, Len(s))) = Len(s) - k
        /\ \A i \in 1..Len(s) - k : SubSeq(s, k + 1, Len(s))[i] = s[k + i]
    BY <1>1, Cut
  <2>2. Len(s) - k = 1 /\ 1 \in 1..1 /\ \A i \in 1..1 : i = 1
    BY <1>1
  <2>3. SubSeq(s, k + 1, Len(s))[1] = s[Len(s)]
    BY <1>1, <2>1, <2>2
  <2>4. <<s[Len(s)]>> \in Seq(Block) /\ Len(<<s[Len(s)]>>) = 1 /\ <<s[Len(s)]>>[1] = s[Len(s)]
    BY <1>4
  <2> DEFINE x == SubSeq(s, k + 1, Len(s))
             y == <<s[Len(s)]>>
  <2>5. /\ x \in Seq(Block) /\ y \in Seq(Block) /\ Len(x) = 1 /\ Len(y) = 1
        /\ \A i \in 1..Len(x) : x[i] = y[i]
    BY <2>1, <2>2, <2>3, <2>4
  <2> HIDE DEF x, y
  <2>6. x = y
    BY <2>5, SeqEqual
  <2> QED BY <2>6 DEF x, y
<1>6. Bytes(SubSeq(s, 1, k)) \in Nat
  BY <1>3, Counted
<1>7. Bytes(s) = Bytes(SubSeq(s, 1, k)) + s[Len(s)].n
  BY <1>3, <1>4, <1>5, BytesFew
<1> HIDE DEF k
<1> QED BY <1>2, <1>4, <1>6, <1>7

(* Blocks in the order of their bytes, from lo up to hi.                   *)
Spaced(s, lo, hi) ==
  /\ lo <= hi
  /\ \A i \in 1..Len(s) : lo <= s[i].at /\ s[i].at + s[i].n <= hi
  /\ \A i, j \in 1..Len(s) : i < j => s[i].at + s[i].n <= s[j].at

LEMMA SpacedFew ==
  ASSUME NEW lo \in Int, NEW hi \in Int
  PROVE  /\ Spaced(<<>>, lo, hi) <=> lo <= hi
         /\ \A b \in Block : Spaced(<<b>>, lo, hi) <=> lo <= b.at /\ b.at + b.n <= hi
<1>1. Spaced(<<>>, lo, hi) <=> lo <= hi
  <2>1. Len(<<>>) = 0 /\ 1..0 = {}
    BY EmptySeq
  <2> QED BY <2>1 DEF Spaced
<1>2. ASSUME NEW b \in Block PROVE Spaced(<<b>>, lo, hi) <=> lo <= b.at /\ b.at + b.n <= hi
  <2>1. Len(<<b>>) = 1 /\ <<b>>[1] = b /\ 1 \in 1..1 /\ \A i \in 1..1 : i = 1
    OBVIOUS
  <2>2. b.at \in Nat /\ b.n \in Nat
    BY DEF Block
  <2>3. Spaced(<<b>>, lo, hi) => lo <= b.at /\ b.at + b.n <= hi
    BY <2>1 DEF Spaced
  <2>4. ASSUME lo <= b.at, b.at + b.n <= hi PROVE Spaced(<<b>>, lo, hi)
    <3>1. lo <= hi
      BY <2>2, <2>4
    <3>2. \A i, j \in 1..1 : ~(i < j)
      BY <2>1
    <3> QED BY <2>1, <2>4, <3>1, <3>2 DEF Spaced
  <2> QED BY <2>3, <2>4
<1> QED BY <1>1, <1>2

LEMMA SpacedConcat ==
  ASSUME NEW s \in Seq(Block), NEW t \in Seq(Block), NEW lo \in Int, NEW hi \in Int
  PROVE  Spaced(s \o t, lo, hi) <=> \E mid \in Int : Spaced(s, lo, mid) /\ Spaced(t, mid, hi)
<1> DEFINE u == s \o t
<1>1. /\ u \in Seq(Block) /\ Len(u) = Len(s) + Len(t) /\ Len(s) \in Nat /\ Len(t) \in Nat
      /\ \A i \in 1..Len(s) : u[i] = s[i]
      /\ \A i \in 1..Len(t) : u[Len(s) + i] = t[i]
  BY Behind, LenProperties
<1> HIDE DEF u
<1>2. /\ \A i \in 1..Len(s) : s[i].at \in Int /\ s[i].n \in Nat /\ i \in 1..Len(u)
      /\ \A i \in 1..Len(t) : t[i].at \in Int /\ t[i].n \in Nat /\ Len(s) + i \in 1..Len(u)
  <2>1. \A b \in Block : b.at \in Int /\ b.n \in Nat
    BY DEF Block
  <2>2. (\A i \in 1..Len(s) : s[i] \in Block) /\ (\A i \in 1..Len(t) : t[i] \in Block)
    BY ElementOfSeq
  <2>3. (\A i \in 1..Len(s) : i \in 1..Len(u)) /\ (\A i \in 1..Len(t) : Len(s) + i \in 1..Len(u))
    BY <1>1
  <2> QED BY <2>1, <2>2, <2>3
<1>3. ASSUME Spaced(u, lo, hi)
      PROVE  \E mid \in Int : Spaced(s, lo, mid) /\ Spaced(t, mid, hi)
  <2>1. \A i \in 1..Len(s) : lo <= s[i].at /\ s[i].at + s[i].n <= hi
    BY <1>1, <1>2, <1>3 DEF Spaced
  <2>2. \A i \in 1..Len(t) : lo <= t[i].at /\ t[i].at + t[i].n <= hi
    <3>1. ASSUME NEW i \in 1..Len(t) PROVE lo <= t[i].at /\ t[i].at + t[i].n <= hi
      <4>1. Len(s) + i \in 1..Len(u) /\ u[Len(s) + i] = t[i]
        BY <1>1, <1>2
      <4>2. lo <= u[Len(s) + i].at /\ u[Len(s) + i].at + u[Len(s) + i].n <= hi
        BY <1>3, <4>1 DEF Spaced
      <4> QED BY <4>1, <4>2
    <3> QED BY <3>1
  <2>3. \A i, j \in 1..Len(s) : i < j => s[i].at + s[i].n <= s[j].at
    <3>1. ASSUME NEW i \in 1..Len(s), NEW j \in 1..Len(s), i < j
          PROVE  s[i].at + s[i].n <= s[j].at
      <4>1. i \in 1..Len(u) /\ j \in 1..Len(u) /\ u[i] = s[i] /\ u[j] = s[j]
        BY <1>1, <1>2
      <4>2. u[i].at + u[i].n <= u[j].at
        BY <1>3, <3>1, <4>1 DEF Spaced
      <4> QED BY <4>1, <4>2
    <3> QED BY <3>1
  <2>4. \A i, j \in 1..Len(t) : i < j => t[i].at + t[i].n <= t[j].at
    <3>1. ASSUME NEW i \in 1..Len(t), NEW j \in 1..Len(t), i < j
          PROVE  t[i].at + t[i].n <= t[j].at
      <4>1. /\ Len(s) + i \in 1..Len(u) /\ Len(s) + j \in 1..Len(u)
            /\ u[Len(s) + i] = t[i] /\ u[Len(s) + j] = t[j]
        BY <1>1, <1>2
      <4>2. Len(s) + i < Len(s) + j
        BY <1>1, <3>1
      <4>3. u[Len(s) + i].at + u[Len(s) + i].n <= u[Len(s) + j].at
        BY <1>3, <4>1, <4>2 DEF Spaced
      <4> QED BY <4>1, <4>3
    <3> QED BY <3>1
  <2>5. \A i \in 1..Len(s), j \in 1..Len(t) : s[i].at + s[i].n <= t[j].at
    <3>1. ASSUME NEW i \in 1..Len(s), NEW j \in 1..Len(t)
          PROVE  s[i].at + s[i].n <= t[j].at
      <4>1. /\ i \in 1..Len(u) /\ Len(s) + j \in 1..Len(u)
            /\ u[i] = s[i] /\ u[Len(s) + j] = t[j] /\ i < Len(s) + j
        BY <1>1, <1>2
      <4>2. u[i].at + u[i].n <= u[Len(s) + j].at
        BY <1>3, <4>1 DEF Spaced
      <4> QED BY <4>1, <4>2
    <3> QED BY <3>1
  <2>6. CASE Len(s) = 0
    <3>1. Spaced(s, lo, lo) /\ Spaced(t, lo, hi)
      BY <1>3, <2>2, <2>4, <2>6 DEF Spaced
    <3> QED BY <3>1
  <2>7. CASE Len(s) # 0
    <3> DEFINE k == Len(s)
               mid == s[k].at + s[k].n
    <3>1. k \in 1..Len(s) /\ \A i \in 1..Len(s) : i < k \/ i = k
      BY <1>1, <2>7
    <3>2. s[k].at \in Int /\ s[k].n \in Nat /\ lo <= s[k].at /\ s[k].at + s[k].n <= hi
      BY <1>2, <2>1, <3>1
    <3>3. mid \in Int /\ lo <= mid /\ mid <= hi /\ s[k].at <= mid
      BY <3>2
    <3>4. \A i \in 1..Len(s) : s[i].at + s[i].n <= mid
      <4>1. ASSUME NEW i \in 1..Len(s), i < k PROVE s[i].at + s[i].n <= mid
        <5>1. s[i].at + s[i].n <= s[k].at
          BY <2>3, <3>1, <4>1
        <5>2. s[i].at + s[i].n \in Int
          BY <1>2
        <5> HIDE DEF k, mid
        <5> QED BY <3>2, <3>3, <5>1, <5>2
      <4>2. s[k].at + s[k].n <= mid
        BY <3>3
      <4> QED BY <3>1, <4>1, <4>2
    <3>5. \A i \in 1..Len(t) : mid <= t[i].at
      BY <2>5, <3>1
    <3> HIDE DEF k, mid
    <3>6. Spaced(s, lo, mid)
      BY <2>1, <2>3, <3>3, <3>4 DEF Spaced
    <3>7. Spaced(t, mid, hi)
      BY <2>2, <2>4, <3>3, <3>5 DEF Spaced
    <3> QED BY <3>3, <3>6, <3>7
  <2> QED BY <2>6, <2>7
<1>4. ASSUME NEW mid \in Int, Spaced(s, lo, mid), Spaced(t, mid, hi)
      PROVE  Spaced(u, lo, hi)
  <2>1. lo <= mid /\ mid <= hi /\ lo <= hi
    BY <1>4 DEF Spaced
  <2>2. /\ \A i \in 1..Len(s) : lo <= s[i].at /\ s[i].at + s[i].n <= mid
        /\ \A i, j \in 1..Len(s) : i < j => s[i].at + s[i].n <= s[j].at
        /\ \A i \in 1..Len(t) : mid <= t[i].at /\ t[i].at + t[i].n <= hi
        /\ \A i, j \in 1..Len(t) : i < j => t[i].at + t[i].n <= t[j].at
    BY <1>4 DEF Spaced
  <2>3. \A i \in 1..Len(u) : i \in 1..Len(s) \/ (i - Len(s) \in 1..Len(t) /\ Len(s) + (i - Len(s)) = i)
    BY <1>1
  <2>4. \A i \in 1..Len(s) : lo <= u[i].at /\ u[i].at + u[i].n <= mid
    BY <1>1, <2>2
  <2>5. \A i \in 1..Len(t) : mid <= u[Len(s) + i].at /\ u[Len(s) + i].at + u[Len(s) + i].n <= hi
    BY <1>1, <2>2
  <2>6. \A i \in 1..Len(u) : u[i].at \in Int /\ u[i].n \in Nat
    <3>1. \A b \in Block : b.at \in Int /\ b.n \in Nat
      BY DEF Block
    <3>2. \A i \in 1..Len(u) : u[i] \in Block
      BY <1>1, ElementOfSeq
    <3> QED BY <3>1, <3>2
  <2>7. ASSUME NEW i \in 1..Len(u) PROVE lo <= u[i].at /\ u[i].at + u[i].n <= hi
    <3>1. CASE i \in 1..Len(s)
      BY <2>1, <2>4, <2>6, <3>1
    <3>2. CASE i - Len(s) \in 1..Len(t) /\ Len(s) + (i - Len(s)) = i
      <4>1. mid <= u[i].at /\ u[i].at + u[i].n <= hi
        BY <2>5, <3>2
      <4> QED BY <2>1, <2>6, <4>1
    <3> QED BY <2>3, <3>1, <3>2
  <2>8. ASSUME NEW i \in 1..Len(u), NEW j \in 1..Len(u), i < j
        PROVE  u[i].at + u[i].n <= u[j].at
    <3>1. CASE i \in 1..Len(s) /\ j \in 1..Len(s)
      BY <1>1, <2>2, <2>8, <3>1
    <3>2. CASE i \in 1..Len(s) /\ (j - Len(s) \in 1..Len(t) /\ Len(s) + (j - Len(s)) = j)
      <4>1. u[i].at + u[i].n <= mid /\ mid <= u[j].at
        BY <2>4, <2>5, <3>2
      <4> QED BY <2>6, <4>1
    <3>3. CASE /\ i - Len(s) \in 1..Len(t) /\ Len(s) + (i - Len(s)) = i
               /\ j - Len(s) \in 1..Len(t) /\ Len(s) + (j - Len(s)) = j
      <4>1. u[i] = t[i - Len(s)] /\ u[j] = t[j - Len(s)]
        BY <1>1, <3>3
      <4>2. i - Len(s) < j - Len(s)
        BY <1>1, <2>8
      <4> QED BY <2>2, <3>3, <4>1, <4>2
    <3>4. ~(i - Len(s) \in 1..Len(t) /\ j \in 1..Len(s))
      BY <1>1, <2>8
    <3> QED BY <2>3, <3>1, <3>2, <3>3, <3>4
  <2> QED BY <2>1, <2>7, <2>8 DEF Spaced
<1> QED BY <1>3, <1>4 DEF u
-----------------------------------------------------------------------------
(* Nothing is doubled, out of place or missing.                            *)

(* The bounds of a spaced sequence may be drawn further apart.             *)
LEMMA SpacedWider ==
  ASSUME NEW s \in Seq(Block), NEW lo \in Int, NEW mid \in Int, NEW hi \in Int
  PROVE  /\ Spaced(s, mid, hi) /\ lo <= mid => Spaced(s, lo, hi)
         /\ Spaced(s, lo, mid) /\ mid <= hi => Spaced(s, lo, hi)
<1>1. \A i \in 1..Len(s) : s[i].at \in Int /\ s[i].n \in Int /\ s[i].at + s[i].n \in Int
  <2>1. \A i \in 1..Len(s) : s[i] \in Block
    BY ElementOfSeq
  <2> QED BY <2>1 DEF Block
<1> QED BY <1>1 DEF Spaced

(* The blocks s are what is left of the bytes up to h when g of them have  *)
(* been delivered; l tells that something was thrown away.                 *)
InStream(s, g, h, l) ==
  /\ Spaced(s, g + 1, h + 1)
  /\ ~l => Run(s, g + 1) /\ g + Bytes(s) = h

(* Blocks are delivered from the front.                                    *)
LEMMA StreamTaken ==
  ASSUME NEW e \in Seq(Block), NEW t \in Seq(Block), NEW g \in Nat, NEW h \in Nat,
         NEW k \in Nat, NEW l \in BOOLEAN, InStream(e \o t, g, h, l),
         Bytes(e) = 0 => k = g,
         Bytes(e) # 0 => e # <<>> /\ k = e[Len(e)].at + e[Len(e)].n - 1
  PROVE  InStream(t, k, h, l)
<1>a. g + 1 \in Nat /\ g + 1 \in Int /\ h + 1 \in Int /\ k + 1 \in Int
  OBVIOUS
<1>1. PICK mid \in Int : Spaced(e, g + 1, mid) /\ Spaced(t, mid, h + 1)
  <2>1. Spaced(e \o t, g + 1, h + 1)
    BY DEF InStream
  <2> QED BY <1>a, <2>1, SpacedConcat
<1>2. ~l => Run(e, g + 1) /\ Run(t, g + 1 + Bytes(e)) /\ g + Bytes(e) + Bytes(t) = h
  <2>1. ~l => Run(e, g + 1) /\ Run(t, g + 1 + Bytes(e))
    BY RunConcat DEF InStream
  <2>2. Bytes(e \o t) = Bytes(e) + Bytes(t) /\ Bytes(e) \in Nat /\ Bytes(t) \in Nat
    BY BytesConcat, Counted
  <2> QED BY <2>1, <2>2 DEF InStream
<1>3. Bytes(e) \in Nat /\ Bytes(t) \in Nat /\ g + 1 <= mid
  BY <1>1, Counted DEF Spaced
<1>4. k + 1 <= mid
  <2>1. CASE Bytes(e) = 0
    BY <1>3, <2>1
  <2>2. CASE Bytes(e) # 0
    <3>1. Len(e) \in 1..Len(e)
      BY <2>2, EmptySeq, LenProperties
    <3>2. e[Len(e)].at + e[Len(e)].n <= mid /\ k = e[Len(e)].at + e[Len(e)].n - 1
      BY <1>1, <2>2, <3>1 DEF Spaced
    <3>3. e[Len(e)].at \in Nat /\ e[Len(e)].n \in Nat
      <4>1. e[Len(e)] \in Block
        BY <3>1, ElementOfSeq
      <4> QED BY <4>1 DEF Block
    <3> QED BY <3>2, <3>3
  <2> QED BY <2>1, <2>2
<1>5. Spaced(t, k + 1, h + 1)
  BY <1>a, <1>1, <1>4, SpacedWider
<1>6. ~l => k = g + Bytes(e)
  <2>1. CASE Bytes(e) = 0
    BY <1>3, <2>1
  <2>2. CASE Bytes(e) # 0 /\ ~l
    <3>1. e # <<>> /\ Run(e, g + 1) /\ k = e[Len(e)].at + e[Len(e)].n - 1
      BY <1>2, <2>2
    <3>2. e[Len(e)].at + e[Len(e)].n = g + 1 + Bytes(e)
      BY <1>a, <3>1, RunLast
    <3>a. Len(e) \in 1..Len(e)
      BY <3>1, EmptySeq, LenProperties
    <3>b. e[Len(e)] \in Block
      BY <3>a, ElementOfSeq
    <3>3. /\ k = e[Len(e)].at + e[Len(e)].n - 1 /\ Bytes(e) \in Nat
          /\ e[Len(e)].at \in Nat /\ e[Len(e)].n \in Nat
      BY <1>3, <3>1, <3>b DEF Block
    <3>4. k = (g + 1 + Bytes(e)) - 1
      <4> DEFINE u == e[Len(e)].at
                 v == e[Len(e)].n
                 w == Bytes(e)
      <4>1. /\ u + v = g + 1 + w /\ k = u + v - 1
            /\ u \in Nat /\ v \in Nat /\ w \in Nat
        BY <3>2, <3>3
      <4> HIDE DEF u, v, w
      <4>2. k = (g + 1 + w) - 1
        BY <4>1
      <4> QED BY <4>2 DEF w
    <3> QED BY <1>3, <3>4
  <2> QED BY <2>1, <2>2
<1>7. ~l => Run(t, k + 1) /\ k + Bytes(t) = h
  <2>1. ASSUME ~l PROVE k + 1 = g + 1 + Bytes(e) /\ k + Bytes(t) = h
    BY <1>2, <1>3, <1>6, <2>1
  <2> QED BY <1>2, <2>1
<1> QED BY <1>5, <1>7 DEF InStream

(* Of block b n bytes have been delivered, and c is what is left of it;    *)
(* the last byte delivered was g and is k.                                 *)
PartOf(b, n, c)  == c.at = b.at + n /\ c.n = b.n - n
Told(b, n, g, k) == n < b.n /\ (n = 0 => k = g) /\ (n > 0 => k + 1 = b.at + n)

(* Where the rest of a block begins and ends.                              *)
LEMMA RestAt ==
  ASSUME NEW b \in Block, NEW c \in Block, NEW g \in Nat, NEW n \in Nat, NEW k \in Nat,
         Told(b, n, g, k), NEW mid \in Int, g + 1 <= b.at, b.at + b.n <= mid
  PROVE  /\ k + 1 <= mid
         /\ PartOf(b, n, c) => k + 1 <= c.at /\ c.at + c.n <= mid
         /\ PartOf(b, n, c) /\ b.at = g + 1 =>
              c.at = k + 1 /\ k + 1 + c.n = g + 1 + b.n /\ k + c.n = g + b.n
<1>1. b.n \in Nat /\ c.n \in Nat /\ b.at \in Nat /\ c.at \in Nat
  BY DEF Block
<1> DEFINE x == b.at
           y == b.n
           u == c.at
           v == c.n
<1>2. /\ x \in Nat /\ y \in Nat /\ u \in Nat /\ v \in Nat
      /\ g + 1 <= x /\ x + y <= mid
      /\ n < y /\ (n = 0 => k = g) /\ (n > 0 => k + 1 = x + n)
      /\ PartOf(b, n, c) => u = x + n /\ v = y - n
  BY <1>1 DEF Told, PartOf
<1> HIDE DEF x, y, u, v
<1>3. k + 1 <= mid
  BY <1>2
<1>4. PartOf(b, n, c) => k + 1 <= u /\ u + v <= mid
  BY <1>2
<1>5. PartOf(b, n, c) /\ x = g + 1 => u = k + 1 /\ k + 1 + v = g + 1 + y /\ k + v = g + y
  BY <1>2
<1> QED BY <1>3, <1>4, <1>5 DEF x, y, u, v

(* Of one block only a part is; the rest is kept, or thrown away.          *)
LEMMA StreamParted ==
  ASSUME NEW b \in Block, NEW t \in Seq(Block), NEW g \in Nat, NEW h \in Nat, NEW l \in BOOLEAN,
         InStream(<<b>> \o t, g, h, l)
  PROVE  \A c \in Block, n \in Nat, k \in Nat :
            Told(b, n, g, k) => /\ PartOf(b, n, c) => InStream(<<c>> \o t, k, h, l)
                                /\ InStream(t, k, h, TRUE)
<1> SUFFICES ASSUME NEW c \in Block, NEW n \in Nat, NEW k \in Nat, Told(b, n, g, k)
             PROVE  /\ PartOf(b, n, c) => InStream(<<c>> \o t, k, h, l)
                    /\ InStream(t, k, h, TRUE)
  OBVIOUS
<1> DEFINE x == <<b>>
           y == <<c>>
<1>1. /\ x \in Seq(Block) /\ y \in Seq(Block)
      /\ b.at \in Nat /\ b.n \in Nat /\ c.at \in Nat /\ c.n \in Nat
  BY DEF Block
<1>a. g + 1 \in Int /\ h + 1 \in Int /\ k + 1 \in Int
  OBVIOUS
<1>b. x \in Seq(Block) /\ y \in Seq(Block) /\ g + 1 \in Nat /\ k + 1 \in Nat
  BY <1>1
<1>2. Bytes(x) = b.n /\ Bytes(y) = c.n
  BY BytesFew
<1>3. /\ \A lo, hi \in Int : Spaced(x, lo, hi) <=> lo <= b.at /\ b.at + b.n <= hi
      /\ \A lo, hi \in Int : Spaced(y, lo, hi) <=> lo <= c.at /\ c.at + c.n <= hi
      /\ \A a \in Nat : (Run(x, a) <=> b.at = a) /\ (Run(y, a) <=> c.at = a)
  BY SpacedFew, RunFew
<1>4. InStream(x \o t, g, h, l)
  OBVIOUS
<1> HIDE DEF x, y
<1>5. PICK mid \in Int : Spaced(x, g + 1, mid) /\ Spaced(t, mid, h + 1)
  <2>1. Spaced(x \o t, g + 1, h + 1)
    BY <1>4 DEF InStream
  <2> QED BY <1>a, <1>b, <2>1, SpacedConcat
<1>6. g + 1 <= b.at /\ b.at + b.n <= mid
  BY <1>a, <1>3, <1>5
<1>7. /\ k + 1 <= mid
      /\ PartOf(b, n, c) => k + 1 <= c.at /\ c.at + c.n <= mid
      /\ PartOf(b, n, c) /\ b.at = g + 1 =>
           c.at = k + 1 /\ k + 1 + c.n = g + 1 + b.n /\ k + c.n = g + b.n
  BY <1>6, RestAt
<1>8. InStream(t, k, h, TRUE)
  <2>1. Spaced(t, k + 1, h + 1)
    BY <1>a, <1>5, <1>7, SpacedWider
  <2> QED BY <2>1 DEF InStream
<1>9. ASSUME PartOf(b, n, c) PROVE InStream(y \o t, k, h, l)
  <2>1. Spaced(y, k + 1, mid)
    BY <1>a, <1>3, <1>7, <1>9
  <2>2. Spaced(y \o t, k + 1, h + 1)
    BY <1>a, <1>b, <1>5, <2>1, SpacedConcat
  <2>3. Bytes(t) \in Nat /\ Bytes(x \o t) = b.n + Bytes(t) /\ Bytes(y \o t) = c.n + Bytes(t)
    <3>1. Bytes(x \o t) = Bytes(x) + Bytes(t) /\ Bytes(y \o t) = Bytes(y) + Bytes(t)
      BY <1>b, BytesConcat
    <3> QED BY <1>2, <3>1, Counted
  <2>4. ASSUME ~l PROVE Run(y \o t, k + 1) /\ k + Bytes(y \o t) = h
    <3>1. Run(x \o t, g + 1) /\ g + Bytes(x \o t) = h
      BY <1>4, <2>4 DEF InStream
    <3>2. Run(x, g + 1) /\ Run(t, g + 1 + b.n)
      BY <1>b, <1>2, <3>1, RunConcat
    <3>3. b.at = g + 1
      BY <1>b, <1>3, <3>2
    <3>4. c.at = k + 1 /\ k + 1 + c.n = g + 1 + b.n /\ k + c.n = g + b.n
      BY <1>7, <1>9, <3>3
    <3>5. Run(y, k + 1) /\ Run(t, k + 1 + Bytes(y))
      BY <1>b, <1>2, <1>3, <3>2, <3>4
    <3>6. k + Bytes(y \o t) = h
      <4>1. k + (c.n + Bytes(t)) = g + (b.n + Bytes(t))
        <5>1. k + c.n = g + b.n /\ Bytes(t) \in Nat /\ c.n \in Nat /\ b.n \in Nat
          BY <1>1, <2>3, <3>4
        <5> DEFINE u == c.n
                   v == b.n
                   w == Bytes(t)
        <5>2. k + u = g + v /\ u \in Nat /\ v \in Nat /\ w \in Nat
          BY <5>1
        <5> HIDE DEF u, v, w
        <5>3. k + (u + w) = g + (v + w)
          BY <5>2
        <5> QED BY <5>3 DEF u, v, w
      <4> QED BY <2>3, <3>1, <4>1
    <3> QED BY <1>b, <3>5, <3>6, RunConcat
  <2> QED BY <2>2, <2>4 DEF InStream
<1> QED BY <1>8, <1>9 DEF y

(* A new block is numbered from the last byte queued on.                   *)
LEMMA StreamAdded ==
  ASSUME NEW s \in Seq(Block), NEW g \in Nat, NEW h \in Nat, NEW l \in BOOLEAN, NEW n \in Nat,
         InStream(s, g, h, l)
  PROVE  InStream(s \o <<NewBlock(n, h)>>, g, h + n, l)
<1> DEFINE b == NewBlock(n, h)
           x == <<b>>
<1>1. b \in Block /\ b.at = h + 1 /\ b.n = n /\ x \in Seq(Block)
  BY DEF NewBlock, Block
<1> HIDE DEF b
<1>2. Bytes(x) = n /\ (\A a \in Nat : Run(x, a) <=> b.at = a)
      /\ (\A lo, hi \in Int : Spaced(x, lo, hi) <=> lo <= b.at /\ b.at + b.n <= hi)
  BY <1>1, BytesFew, RunFew, SpacedFew
<1> HIDE DEF x
<1>3. g + 1 \in Nat /\ h + 1 \in Nat /\ h + n + 1 \in Nat
  OBVIOUS
<1>4. Spaced(s \o x, g + 1, h + n + 1)
  <2>1. Spaced(x, h + 1, h + n + 1)
    BY <1>1, <1>2, <1>3
  <2>2. Spaced(s, g + 1, h + 1)
    BY DEF InStream
  <2>3. g + 1 \in Int /\ h + 1 \in Int /\ h + n + 1 \in Int /\ x \in Seq(Block)
    BY <1>1
  <2> QED BY <2>1, <2>2, <2>3, SpacedConcat
<1>5. Bytes(s) \in Nat /\ Bytes(s \o x) = Bytes(s) + n
  BY <1>1, <1>2, Counted, BytesConcat
<1>6. ASSUME ~l PROVE Run(s \o x, g + 1) /\ g + Bytes(s \o x) = h + n
  <2>1. Run(s, g + 1) /\ g + Bytes(s) = h
    BY <1>6 DEF InStream
  <2>2. b.at = g + 1 + Bytes(s) /\ g + 1 + Bytes(s) \in Nat
    BY <1>1, <1>5, <2>1
  <2>3. Run(x, g + 1 + Bytes(s))
    BY <1>2, <2>2
  <2>4. g + Bytes(s \o x) = h + n
    BY <1>5, <2>1
  <2> QED BY <1>1, <1>3, <2>1, <2>3, <2>4, RunConcat
<1>7. InStream(s \o x, g, h + n, l)
  BY <1>4, <1>6 DEF InStream
<1> QED BY <1>7 DEF x, b

(* What follows some of the blocks may be thrown away.                     *)
LEMMA StreamCut ==
  ASSUME NEW s \in Seq(Block), NEW t \in Seq(Block), NEW g \in Nat, NEW h \in Nat,
         Spaced(s \o t, g + 1, h + 1)
  PROVE  InStream(s, g, h, TRUE)
<1>1. g + 1 \in Int /\ h + 1 \in Int /\ Spaced(s \o t, g + 1, h + 1)
  OBVIOUS
<1>2. PICK mid \in Int : Spaced(s, g + 1, mid) /\ Spaced(t, mid, h + 1)
  BY <1>1, SpacedConcat
<1>3. mid <= h + 1
  BY <1>2 DEF Spaced
<1>4. Spaced(s, g + 1, h + 1)
  BY <1>1, <1>2, <1>3, SpacedWider
<1> QED BY <1>4 DEF InStream

(* The blocks still to be delivered are what is left of the stream.        *)
Ordered == InStream(Pending, got, sent, lost)

(* What there is still to deliver.                                         *)
LEMMA PendingIs ==
  /\ Copying = {} => Pending = q
  /\ \A p : Copying = {p} => Pending = hand[p] \o q
  /\ Copying' = {} => Pending' = q'
  /\ \A p : Copying' = {p} => Pending' = hand'[p] \o q'
<1>1. \A p : (CHOOSE x \in {p} : TRUE) = p
  OBVIOUS
<1>2. (Copying = {} => Pending = q) /\ (Copying' = {} => Pending' = q')
  BY DEF Pending
<1>3. ASSUME NEW p, Copying = {p} PROVE Pending = hand[p] \o q
  BY <1>1, <1>3 DEF Pending
<1>4. ASSUME NEW p, Copying' = {p} PROVE Pending' = hand'[p] \o q'
  BY <1>1, <1>4 DEF Pending
<1> QED BY <1>2, <1>3, <1>4

LEMMA PendingFacts ==
  ASSUME Control, Contents
  PROVE  /\ Pending \in Seq(Block) /\ q \in Seq(Block)
         /\ \A p \in Copying : Copying = {p} /\ hand[p] \in Seq(Block)
         /\ got \in Nat /\ sent \in Nat /\ lost \in BOOLEAN
<1>1. /\ q \in Seq(FitBlock) /\ hand \in [Proc -> Seq(FitBlock)] /\ got \in Nat /\ sent \in Nat
      /\ Seq(FitBlock) \subseteq Seq(Block)
  BY FitFacts DEF Contents
<1>2. \A p \in Copying : Copying = {p} /\ p \in Proc
  BY CopyFacts DEF Copying, Proc
<1>3. q \in Seq(Block) /\ \A p \in Proc : hand[p] \in Seq(Block)
  BY <1>1
<1>4. ASSUME Copying = {} PROVE Pending \in Seq(Block)
  BY <1>3, <1>4, PendingIs
<1>5. ASSUME NEW p \in Copying PROVE Pending \in Seq(Block)
  <2>1. Pending = hand[p] \o q /\ p \in Proc
    BY <1>2, PendingIs
  <2>2. hand[p] \o q \in Seq(Block)
    BY <1>3, <2>1, BytesConcat
  <2> QED BY <2>1, <2>2
<1>6. Pending \in Seq(Block)
  BY <1>4, <1>5
<1>7. lost \in BOOLEAN
  BY DEF Control, Shapes
<1> QED BY <1>1, <1>2, <1>3, <1>6, <1>7

(* Nothing of it has moved.                                                *)
Quiet == /\ Copying' = Copying /\ \A r \in Copying : hand'[r] = hand[r]
         /\ q' = q /\ got' = got /\ sent' = sent /\ lost' = lost

LEMMA StillOrdered ==
  ASSUME Control, Contents, Ordered, Quiet
  PROVE  Ordered'
<1>1. Pending' = Pending
  <2>1. CASE Copying = {}
    BY <2>1, PendingIs DEF Quiet
  <2>2. ASSUME NEW p \in Copying PROVE Pending' = Pending
    <3>1. Copying = {p} /\ Copying' = {p} /\ hand'[p] = hand[p] /\ q' = q
      BY PendingFacts DEF Quiet
    <3> QED BY <3>1, PendingIs
  <2> QED BY <2>1, <2>2
<1> QED BY <1>1 DEF Ordered, Quiet

(* What is queued comes last.                                              *)
LEMMA OrderAdded ==
  ASSUME Control, Contents, Ordered, NEW s, Added(s), Copying' = Copying,
         \A r \in Copying : hand'[r] = hand[r], got' = got, lost' = lost
  PROVE  Ordered'
<1>1. /\ s \in Seq(Block) /\ q' = q \o s /\ q \in Seq(Block) /\ Pending \in Seq(Block)
      /\ got \in Nat /\ sent \in Nat /\ lost \in BOOLEAN
  BY PendingFacts, FitFacts DEF Added
<1>2. Pending' = Pending \o s
  <2>1. CASE Copying = {}
    BY <1>1, <2>1, PendingIs
  <2>2. ASSUME NEW p \in Copying PROVE Pending' = Pending \o s
    <3>1. Copying = {p} /\ Copying' = {p} /\ hand'[p] = hand[p] /\ hand[p] \in Seq(Block)
      BY PendingFacts
    <3>2. Pending = hand[p] \o q /\ Pending' = hand[p] \o (q \o s)
      BY <1>1, <3>1, PendingIs
    <3> DEFINE x == hand[p]
    <3>3. x \in Seq(Block) /\ q \in Seq(Block) /\ s \in Seq(Block)
      BY <1>1, <3>1
    <3> HIDE DEF x
    <3>4. (x \o q) \o s = x \o (q \o s)
      BY <3>3, ConcatAssociative
    <3> QED BY <3>2, <3>4 DEF x
  <2> QED BY <2>1, <2>2
<1>3. InStream(Pending, got, sent, lost)
  BY DEF Ordered
<1>4. ASSUME NEW n \in Nat, s = <<NewBlock(n, sent)>>, sent' = sent + n
      PROVE  Ordered'
  <2>1. InStream(Pending \o s, got, sent + n, lost)
    BY <1>1, <1>3, <1>4, StreamAdded
  <2> QED BY <1>2, <1>4, <2>1 DEF Ordered
<1>5. ASSUME NEW n \in Nat, NEW m \in Nat,
             s = <<NewBlock(n, sent)>> \o <<NewBlock(m, sent + n)>>, sent' = sent + n + m
      PROVE  Ordered'
  <2> DEFINE x == <<NewBlock(n, sent)>>
             y == <<NewBlock(m, sent + n)>>
  <2>1. x \in Seq(Block) /\ y \in Seq(Block) /\ sent + n \in Nat /\ s = x \o y
    BY <1>1, <1>5 DEF NewBlock, Block
  <2>2. InStream(Pending \o x, got, sent + n, lost)
    BY <1>1, <1>3, StreamAdded
  <2>3. Pending \o x \in Seq(Block)
    BY <1>1, <2>1, BytesConcat
  <2>4. InStream((Pending \o x) \o y, got, sent + n + m, lost)
    BY <1>1, <2>1, <2>2, <2>3, StreamAdded
  <2> HIDE DEF x, y
  <2>5. (Pending \o x) \o y = Pending \o (x \o y)
    BY <1>1, <2>1, ConcatAssociative
  <2>6. InStream(Pending \o s, got, sent + n + m, lost)
    BY <2>1, <2>4, <2>5
  <2> QED BY <1>2, <1>5, <2>6 DEF Ordered
<1>6. Fresh(s)
  BY DEF Added
<1> QED BY <1>4, <1>5, <1>6 DEF Fresh

(* Part of a block is delivered, and the rest of it put back or lost.      *)
LEMMA PartTold ==
  ASSUME NEW b \in FitBlock, NEW n \in Nat, n < b.n, Deliver(<<FirstBytes(b, n)>>), got \in Nat
  PROVE  got' \in Nat /\ Told(b, n, got, got')
<1>1. got' \in Nat /\ got' = IF n = 0 THEN got ELSE b.at + n - 1
  BY DeliverOne
<1>2. b.at \in Nat
  BY FitFacts
<1>3. n > 0 => got' + 1 = b.at + n
  BY <1>1, <1>2
<1> QED BY <1>1, <1>3 DEF Told

(* What the stream is told when all of e is delivered after g.             *)
Delivered(e, g, k) ==
  /\ Bytes(e) = 0 => k = g
  /\ Bytes(e) # 0 => e # <<>> /\ k = e[Len(e)].at + e[Len(e)].n - 1

LEMMA Taken ==
  ASSUME NEW e \in Seq(Block), NEW t \in Seq(Block), NEW g \in Nat, NEW h \in Nat,
         NEW l \in BOOLEAN, InStream(e \o t, g, h, l)
  PROVE  \A k \in Nat : Delivered(e, g, k) => InStream(t, k, h, l)
<1>1. ASSUME NEW k \in Nat, Delivered(e, g, k)
      PROVE  InStream(t, k, h, l)
  <2>1. /\ Bytes(e) = 0 => k = g
        /\ Bytes(e) # 0 => e # <<>> /\ k = e[Len(e)].at + e[Len(e)].n - 1
    BY <1>1 DEF Delivered
  <2> QED BY <2>1, StreamTaken
<1> QED BY <1>1

(* Delivery from the front of what is pending, when nobody copies after.   *)
LEMMA FrontTaken ==
  ASSUME Control, Contents, NEW s, InStream(s, got, sent, lost),
         NEW e \in Seq(FitBlock), NEW t \in Seq(FitBlock), s = e \o t, q' = t, Deliver(e),
         Copying' = {}, sent' = sent, lost' = lost
  PROVE  Ordered'
<1>1. /\ e \in Seq(Block) /\ t \in Seq(Block) /\ got \in Nat /\ sent \in Nat /\ lost \in BOOLEAN
  BY PendingFacts, FitFacts
<1>2. got' \in Nat /\ Delivered(e, got, got')
  BY <1>1, DeliverAll DEF Delivered
<1>3. InStream(t, got', sent, lost)
  <2>1. \A k \in Nat : Delivered(e, got, k) => InStream(t, k, sent, lost)
    BY <1>1, Taken
  <2> QED BY <1>2, <2>1, Zenon
<1> QED BY <1>3, PendingIs DEF Ordered

LEMMA FrontParted ==
  ASSUME Control, Contents, NEW s, InStream(s, got, sent, lost),
         NEW a \in Seq(FitBlock), NEW b \in FitBlock, NEW t \in Seq(FitBlock),
         s = a \o (<<b>> \o t),
         NEW n \in Nat, n < b.n, Bytes(a) # 0 => n > 0, Deliver(<<FirstBytes(b, n)>>),
         Copying' = {}, sent' = sent
  PROVE  /\ \A c \in FitBlock :
              PartOf(b, n, c) /\ q' = <<c>> \o t /\ lost' = lost => Ordered'
         /\ q' = t /\ lost' = TRUE => Ordered'
<1>1. /\ a \in Seq(Block) /\ b \in Block /\ t \in Seq(Block) /\ <<b>> \o t \in Seq(Block)
      /\ got \in Nat /\ sent \in Nat /\ lost \in BOOLEAN
  <2>1. a \in Seq(Block) /\ b \in Block /\ t \in Seq(Block)
    BY FitFacts
  <2>2. <<b>> \o t \in Seq(Block)
    BY <2>1, Fronted
  <2> QED BY <2>1, <2>2, PendingFacts
<1> DEFINE g == IF Bytes(a) = 0 THEN got ELSE a[Len(a)].at + a[Len(a)].n - 1
<1>2. g \in Nat /\ (Bytes(a) # 0 => a # <<>>)
  <2>1. Bytes(a) # 0 => a # <<>>
    BY BytesFew
  <2>2. ASSUME Bytes(a) # 0 PROVE g \in Nat
    <3>1. Len(a) \in 1..Len(a)
      BY <1>1, <2>1, <2>2, EmptySeq, LenProperties
    <3>2. a[Len(a)] \in FitBlock
      BY <3>1, ElementOfSeq
    <3>3. a[Len(a)].at \in Nat /\ a[Len(a)].n \in Nat /\ a[Len(a)].at > 0
      BY <3>2, FitFacts DEF FitBlock
    <3>4. g = a[Len(a)].at + a[Len(a)].n - 1
      BY <2>2
    <3> DEFINE u == a[Len(a)].at
               v == a[Len(a)].n
    <3>5. g = u + v - 1 /\ u \in Nat /\ v \in Nat /\ u > 0
      BY <3>3, <3>4
    <3> HIDE DEF g, u, v
    <3> QED BY <3>5
  <2> QED BY <1>1, <2>1, <2>2
<1>3. /\ Bytes(a) = 0 => g = got
      /\ Bytes(a) # 0 => g = a[Len(a)].at + a[Len(a)].n - 1
  OBVIOUS
<1> HIDE DEF g
<1>4. InStream(<<b>> \o t, g, sent, lost)
  <2> DEFINE u == <<b>> \o t
  <2>1. u \in Seq(Block) /\ InStream(a \o u, got, sent, lost)
    BY <1>1
  <2> HIDE DEF u
  <2>2. InStream(u, g, sent, lost)
    BY <1>1, <1>2, <1>3, <2>1, StreamTaken
  <2> QED BY <2>2 DEF u
<1>a. \A c \in Block, m \in Nat, k \in Nat :
         Told(b, m, g, k) => /\ PartOf(b, m, c) => InStream(<<c>> \o t, k, sent, lost)
                             /\ InStream(t, k, sent, TRUE)
  BY <1>1, <1>2, <1>4, StreamParted
<1>5. got' \in Nat /\ Told(b, n, g, got')
  <2>1. got' \in Nat /\ Told(b, n, got, got')
    BY <1>1, PartTold
  <2> QED BY <1>2, <1>3, <2>1 DEF Told
<1>6. ASSUME NEW c \in FitBlock, PartOf(b, n, c), q' = <<c>> \o t, lost' = lost
      PROVE  Ordered'
  <2> DEFINE k == got'
  <2>1. k \in Nat /\ Told(b, n, g, k) /\ c \in Block /\ PartOf(b, n, c)
    BY <1>5, <1>6, FitFacts
  <2> HIDE DEF k
  <2>2. InStream(<<c>> \o t, k, sent, lost)
    BY <1>a, <2>1
  <2> QED BY <1>6, <2>2, PendingIs DEF Ordered, k
<1>7. ASSUME q' = t, lost' = TRUE PROVE Ordered'
  <2> DEFINE k == got'
  <2>1. k \in Nat /\ Told(b, n, g, k)
    BY <1>5
  <2> HIDE DEF k
  <2>2. InStream(t, k, sent, TRUE)
    BY <1>1, <1>a, <2>1
  <2> QED BY <1>7, <2>2, PendingIs DEF Ordered, k
<1> QED BY <1>6, <1>7

(* The steps that move blocks of the stream.                               *)
Touches == \/ \E p \in Reader : \/ ReadEof(p) \/ ReadStarve(p) \/ ReadTake(p)
                               \/ ReadDone(p) \/ BlockRead(p)
           \/ \E p \in Writer : WritePut(p)
           \/ \E d \in Dev : \/ qproduce(d) \/ qpass(d) \/ Iwrite(d) \/ qget(d) \/ qdiscard(d)
                            \/ qconsume(d) \/ qflush(d) \/ qclose(d)

(* All others leave it alone.                                              *)
LEMMA QuietStep ==
  ASSUME Control, Contents, Next
  PROVE  Touches \/ Quiet
<1> USE DEF queue, flags, modes, locks, aux, control
<1>a. pc \in [Actor -> PC] /\ hand \in [Proc -> Seq(FitBlock)]
  BY LenTypes
<1>1. ASSUME NEW p \in Reader, CallRead(p) PROVE Touches \/ Quiet
  <2>1. /\ p \in Actor /\ pc' = [pc EXCEPT ![p] = pc'[p]] /\ pc'[p] # "copy" /\ pc[p] # "copy"
    BY <1>1, <1>a DEF CallRead, Goto, Actor, Proc
  <2>2. Copying' = Copying
    BY <1>a, <2>1, CopyMoves
  <2>3. \A r \in Proc \ {p} : hand'[r] = hand[r]
    BY <1>1, <1>a DEF CallRead
  <2>4. \A r \in Copying : r \in Proc \ {p}
    BY <2>1 DEF Copying, Proc
  <2>5. q' = q /\ got' = got /\ sent' = sent /\ lost' = lost
    BY <1>1 DEF CallRead
  <2> QED BY <2>2, <2>3, <2>4, <2>5 DEF Quiet
<1>2. ASSUME NEW p \in Reader, RLock(p) PROVE Touches \/ Quiet
  <2>1. /\ p \in Actor /\ pc' = [pc EXCEPT ![p] = pc'[p]] /\ pc'[p] # "copy" /\ pc[p] # "copy"
    BY <1>2, <1>a DEF RLock, Goto, Actor, Proc
  <2>2. Copying' = Copying
    BY <1>a, <2>1, CopyMoves
  <2>3. \A r \in Proc \ {p} : hand'[r] = hand[r]
    BY <1>2, <1>a DEF RLock
  <2>4. \A r \in Copying : r \in Proc \ {p}
    BY <2>1 DEF Copying, Proc
  <2>5. q' = q /\ got' = got /\ sent' = sent /\ lost' = lost
    BY <1>2 DEF RLock
  <2> QED BY <2>2, <2>3, <2>4, <2>5 DEF Quiet
<1>3. ASSUME NEW p \in Reader, ReadEof(p) PROVE Touches \/ Quiet
  BY <1>3 DEF Touches
<1>4. ASSUME NEW p \in Reader, ReadStarve(p) PROVE Touches \/ Quiet
  BY <1>4 DEF Touches
<1>5. ASSUME NEW p \in Reader, ReadSleep(p) PROVE Touches \/ Quiet
  <2>1. /\ p \in Actor /\ pc' = [pc EXCEPT ![p] = pc'[p]] /\ pc'[p] # "copy" /\ pc[p] # "copy"
    BY <1>5, <1>a DEF ReadSleep, Goto, Actor, Proc
  <2>2. Copying' = Copying
    BY <1>a, <2>1, CopyMoves
  <2>3. \A r \in Proc \ {p} : hand'[r] = hand[r]
    BY <1>5, <1>a DEF ReadSleep
  <2>4. \A r \in Copying : r \in Proc \ {p}
    BY <2>1 DEF Copying, Proc
  <2>5. q' = q /\ got' = got /\ sent' = sent /\ lost' = lost
    BY <1>5 DEF ReadSleep
  <2> QED BY <2>2, <2>3, <2>4, <2>5 DEF Quiet
<1>6. ASSUME NEW p \in Reader, ReadTake(p) PROVE Touches \/ Quiet
  BY <1>6 DEF Touches
<1>7. ASSUME NEW p \in Reader, ReadDone(p) PROVE Touches \/ Quiet
  BY <1>7 DEF Touches
<1>8. ASSUME NEW p \in Reader, BlockRead(p) PROVE Touches \/ Quiet
  BY <1>8 DEF Touches
<1>9. ASSUME NEW p \in Reader, ReadReturn(p) PROVE Touches \/ Quiet
  <2>1. /\ p \in Actor /\ pc' = [pc EXCEPT ![p] = pc'[p]] /\ pc'[p] # "copy" /\ pc[p] # "copy"
    BY <1>9, <1>a DEF ReadReturn, Goto, Actor, Proc, RUnlock
  <2>2. Copying' = Copying
    BY <1>a, <2>1, CopyMoves
  <2>3. \A r \in Proc \ {p} : hand'[r] = hand[r]
    BY <1>9, <1>a DEF ReadReturn, RUnlock
  <2>4. \A r \in Copying : r \in Proc \ {p}
    BY <2>1 DEF Copying, Proc
  <2>5. q' = q /\ got' = got /\ sent' = sent /\ lost' = lost
    BY <1>9 DEF ReadReturn, RUnlock
  <2> QED BY <2>2, <2>3, <2>4, <2>5 DEF Quiet
<1>10. ASSUME NEW p \in Reader, ReadEintr(p) PROVE Touches \/ Quiet
  <2>1. /\ p \in Actor /\ pc' = [pc EXCEPT ![p] = pc'[p]] /\ pc'[p] # "copy" /\ pc[p] # "copy"
    BY <1>10, <1>a DEF ReadEintr, Goto, Actor, Proc
  <2>2. Copying' = Copying
    BY <1>a, <2>1, CopyMoves
  <2>3. \A r \in Proc \ {p} : hand'[r] = hand[r]
    BY <1>10, <1>a DEF ReadEintr
  <2>4. \A r \in Copying : r \in Proc \ {p}
    BY <2>1 DEF Copying, Proc
  <2>5. q' = q /\ got' = got /\ sent' = sent /\ lost' = lost
    BY <1>10 DEF ReadEintr
  <2> QED BY <2>2, <2>3, <2>4, <2>5 DEF Quiet
<1>11. ASSUME NEW p \in Writer, CallWrite(p) PROVE Touches \/ Quiet
  <2>1. /\ p \in Actor /\ pc' = [pc EXCEPT ![p] = pc'[p]] /\ pc'[p] # "copy" /\ pc[p] # "copy"
    BY <1>11, <1>a DEF CallWrite, Goto, Actor, Proc, NextPiece, Hold
  <2>2. Copying' = Copying
    BY <1>a, <2>1, CopyMoves
  <2>3. \A r \in Proc \ {p} : hand'[r] = hand[r]
    BY <1>11, <1>a DEF CallWrite, NextPiece, Hold
  <2>4. \A r \in Copying : r \in Proc \ {p}
    BY <2>1 DEF Copying, Proc
  <2>5. q' = q /\ got' = got /\ sent' = sent /\ lost' = lost
    BY <1>11 DEF CallWrite, NextPiece, Hold
  <2> QED BY <2>2, <2>3, <2>4, <2>5 DEF Quiet
<1>12. ASSUME NEW p \in Writer, WLock(p) PROVE Touches \/ Quiet
  <2>1. /\ p \in Actor /\ pc' = [pc EXCEPT ![p] = pc'[p]] /\ pc'[p] # "copy" /\ pc[p] # "copy"
    BY <1>12, <1>a DEF WLock, Goto, Actor, Proc
  <2>2. Copying' = Copying
    BY <1>a, <2>1, CopyMoves
  <2>3. \A r \in Proc \ {p} : hand'[r] = hand[r]
    BY <1>12, <1>a DEF WLock
  <2>4. \A r \in Copying : r \in Proc \ {p}
    BY <2>1 DEF Copying, Proc
  <2>5. q' = q /\ got' = got /\ sent' = sent /\ lost' = lost
    BY <1>12 DEF WLock
  <2> QED BY <2>2, <2>3, <2>4, <2>5 DEF Quiet
<1>13. ASSUME NEW p \in Writer, WriteClosed(p) PROVE Touches \/ Quiet
  <2>1. /\ p \in Actor /\ pc' = [pc EXCEPT ![p] = pc'[p]] /\ pc'[p] # "copy" /\ pc[p] # "copy"
    BY <1>13, <1>a DEF WriteClosed, Goto, Actor, Proc, WUnlock, Hold
  <2>2. Copying' = Copying
    BY <1>a, <2>1, CopyMoves
  <2>3. \A r \in Proc \ {p} : hand'[r] = hand[r]
    BY <1>13, <1>a DEF WriteClosed, WUnlock, Hold
  <2>4. \A r \in Copying : r \in Proc \ {p}
    BY <2>1 DEF Copying, Proc
  <2>5. q' = q /\ got' = got /\ sent' = sent /\ lost' = lost
    BY <1>13 DEF WriteClosed, WUnlock, Hold
  <2> QED BY <2>2, <2>3, <2>4, <2>5 DEF Quiet
<1>14. ASSUME NEW p \in Writer, WriteDropped(p) PROVE Touches \/ Quiet
  <2>1. /\ p \in Actor /\ pc' = [pc EXCEPT ![p] = pc'[p]] /\ pc'[p] # "copy" /\ pc[p] # "copy"
    BY <1>14, <1>a DEF WriteDropped, Goto, Actor, Proc, WUnlock, Hold
  <2>2. Copying' = Copying
    BY <1>a, <2>1, CopyMoves
  <2>3. \A r \in Proc \ {p} : hand'[r] = hand[r]
    BY <1>14, <1>a DEF WriteDropped, WUnlock, Hold
  <2>4. \A r \in Copying : r \in Proc \ {p}
    BY <2>1 DEF Copying, Proc
  <2>5. q' = q /\ got' = got /\ sent' = sent /\ lost' = lost
    BY <1>14 DEF WriteDropped, WUnlock, Hold
  <2> QED BY <2>2, <2>3, <2>4, <2>5 DEF Quiet
<1>15. ASSUME NEW p \in Writer, WritePut(p) PROVE Touches \/ Quiet
  BY <1>15 DEF Touches
<1>16. ASSUME NEW p \in Writer, WriteCheck(p) PROVE Touches \/ Quiet
  <2>1. /\ p \in Actor /\ pc' = [pc EXCEPT ![p] = pc'[p]] /\ pc'[p] # "copy" /\ pc[p] # "copy"
    BY <1>16, <1>a DEF WriteCheck, Goto, Actor, Proc, WUnlock, Hold
  <2>2. Copying' = Copying
    BY <1>a, <2>1, CopyMoves
  <2>3. \A r \in Proc \ {p} : hand'[r] = hand[r]
    BY <1>16, <1>a DEF WriteCheck, WUnlock, Hold
  <2>4. \A r \in Copying : r \in Proc \ {p}
    BY <2>1 DEF Copying, Proc
  <2>5. q' = q /\ got' = got /\ sent' = sent /\ lost' = lost
    BY <1>16 DEF WriteCheck, WUnlock, Hold
  <2> QED BY <2>2, <2>3, <2>4, <2>5 DEF Quiet
<1>17. ASSUME NEW p \in Writer, WriteFlow(p) PROVE Touches \/ Quiet
  <2>1. /\ p \in Actor /\ pc' = [pc EXCEPT ![p] = pc'[p]] /\ pc'[p] # "copy" /\ pc[p] # "copy"
    BY <1>17, <1>a DEF WriteFlow, Goto, Actor, Proc
  <2>2. Copying' = Copying
    BY <1>a, <2>1, CopyMoves
  <2>3. \A r \in Proc \ {p} : hand'[r] = hand[r]
    BY <1>17, <1>a DEF WriteFlow
  <2>4. \A r \in Copying : r \in Proc \ {p}
    BY <2>1 DEF Copying, Proc
  <2>5. q' = q /\ got' = got /\ sent' = sent /\ lost' = lost
    BY <1>17 DEF WriteFlow
  <2> QED BY <2>2, <2>3, <2>4, <2>5 DEF Quiet
<1>18. ASSUME NEW p \in Writer, WriteSleep(p) PROVE Touches \/ Quiet
  <2>1. /\ p \in Actor /\ pc' = [pc EXCEPT ![p] = pc'[p]] /\ pc'[p] # "copy" /\ pc[p] # "copy"
    BY <1>18, <1>a DEF WriteSleep, Goto, Actor, Proc
  <2>2. Copying' = Copying
    BY <1>a, <2>1, CopyMoves
  <2>3. \A r \in Proc \ {p} : hand'[r] = hand[r]
    BY <1>18, <1>a DEF WriteSleep
  <2>4. \A r \in Copying : r \in Proc \ {p}
    BY <2>1 DEF Copying, Proc
  <2>5. q' = q /\ got' = got /\ sent' = sent /\ lost' = lost
    BY <1>18 DEF WriteSleep
  <2> QED BY <2>2, <2>3, <2>4, <2>5 DEF Quiet
<1>19. ASSUME NEW p \in Writer, WriteNext(p) PROVE Touches \/ Quiet
  <2>1. /\ p \in Actor /\ pc' = [pc EXCEPT ![p] = pc'[p]] /\ pc'[p] # "copy" /\ pc[p] # "copy"
    BY <1>19, <1>a DEF WriteNext, Goto, Actor, Proc, NextPiece, Hold
  <2>2. Copying' = Copying
    BY <1>a, <2>1, CopyMoves
  <2>3. \A r \in Proc \ {p} : hand'[r] = hand[r]
    BY <1>19, <1>a DEF WriteNext, NextPiece, Hold
  <2>4. \A r \in Copying : r \in Proc \ {p}
    BY <2>1 DEF Copying, Proc
  <2>5. q' = q /\ got' = got /\ sent' = sent /\ lost' = lost
    BY <1>19 DEF WriteNext, NextPiece, Hold
  <2> QED BY <2>2, <2>3, <2>4, <2>5 DEF Quiet
<1>20. ASSUME NEW p \in Writer, WriteEintr(p) PROVE Touches \/ Quiet
  <2>1. /\ p \in Actor /\ pc' = [pc EXCEPT ![p] = pc'[p]] /\ pc'[p] # "copy" /\ pc[p] # "copy"
    BY <1>20, <1>a DEF WriteEintr, Goto, Actor, Proc
  <2>2. Copying' = Copying
    BY <1>a, <2>1, CopyMoves
  <2>3. \A r \in Proc \ {p} : hand'[r] = hand[r]
    BY <1>20, <1>a DEF WriteEintr
  <2>4. \A r \in Copying : r \in Proc \ {p}
    BY <2>1 DEF Copying, Proc
  <2>5. q' = q /\ got' = got /\ sent' = sent /\ lost' = lost
    BY <1>20 DEF WriteEintr
  <2> QED BY <2>2, <2>3, <2>4, <2>5 DEF Quiet
<1>21. ASSUME NEW d \in Dev, qproduce(d) PROVE Touches \/ Quiet
  BY <1>21 DEF Touches
<1>22. ASSUME NEW d \in Dev, qpass(d) PROVE Touches \/ Quiet
  BY <1>22 DEF Touches
<1>23. ASSUME NEW d \in Dev, CallIwrite(d) PROVE Touches \/ Quiet
  <2>1. /\ d \in Actor /\ pc' = [pc EXCEPT ![d] = "iwrite"] /\ "iwrite" # "copy" /\ pc[d] # "copy"
    BY <1>23 DEF CallIwrite, Call, Actor
  <2>2. Copying' = Copying
    BY <1>a, <2>1, CopyMoves
  <2>3. q' = q /\ hand' = hand /\ got' = got /\ sent' = sent /\ lost' = lost
    BY <1>23 DEF CallIwrite
  <2> QED BY <2>2, <2>3 DEF Quiet
<1>24. ASSUME NEW d \in Dev, Iwrite(d) PROVE Touches \/ Quiet
  BY <1>24 DEF Touches
<1>25. ASSUME NEW d \in Dev, qget(d) PROVE Touches \/ Quiet
  BY <1>25 DEF Touches
<1>26. ASSUME NEW d \in Dev, qdiscard(d) PROVE Touches \/ Quiet
  BY <1>26 DEF Touches
<1>27. ASSUME NEW d \in Dev, qconsume(d) PROVE Touches \/ Quiet
  BY <1>27 DEF Touches
<1>28. ASSUME NEW d \in Dev, qflush(d) PROVE Touches \/ Quiet
  BY <1>28 DEF Touches
<1>29. ASSUME NEW d \in Dev, qclose(d) PROVE Touches \/ Quiet
  BY <1>29 DEF Touches
<1>30. ASSUME NEW d \in Dev, qhangup(d) PROVE Touches \/ Quiet
  <2>1. /\ pc' = pc /\ hand' = hand /\ q' = q
        /\ got' = got /\ sent' = sent /\ lost' = lost
    BY <1>30 DEF qhangup
  <2>2. Copying' = Copying
    BY <2>1 DEF Copying
  <2> QED BY <2>1, <2>2 DEF Quiet
<1>31. ASSUME NEW d \in Dev, qreopen(d) PROVE Touches \/ Quiet
  <2>1. /\ pc' = pc /\ hand' = hand /\ q' = q
        /\ got' = got /\ sent' = sent /\ lost' = lost
    BY <1>31 DEF qreopen
  <2>2. Copying' = Copying
    BY <2>1 DEF Copying
  <2> QED BY <2>1, <2>2 DEF Quiet
<1>32. ASSUME NEW d \in Dev, qnoblock(d) PROVE Touches \/ Quiet
  <2>1. /\ pc' = pc /\ hand' = hand /\ q' = q
        /\ got' = got /\ sent' = sent /\ lost' = lost
    BY <1>32 DEF qnoblock
  <2>2. Copying' = Copying
    BY <2>1 DEF Copying
  <2> QED BY <2>1, <2>2 DEF Quiet
<1>33. ASSUME NEW a \in Actor, Wakeup(a) PROVE Touches \/ Quiet
  <2>1. /\ pc' = pc /\ hand' = hand /\ q' = q
        /\ got' = got /\ sent' = sent /\ lost' = lost
    BY <1>33 DEF Wakeup
  <2>2. Copying' = Copying
    BY <2>1 DEF Copying
  <2> QED BY <2>1, <2>2 DEF Quiet
<1> QED BY <1>1, <1>2, <1>3, <1>4, <1>5, <1>6, <1>7, <1>8, <1>9, <1>10, <1>11, <1>12,
   <1>13, <1>14, <1>15, <1>16, <1>17, <1>18, <1>19, <1>20, <1>21, <1>22, <1>23, <1>24,
   <1>25, <1>26, <1>27, <1>28, <1>29, <1>30, <1>31, <1>32, <1>33 DEF Next, Reading,
   Writing, Device
(* What a reader or a driver takes is the first there is.                  *)
LEMMA SkipOrdered ==
  ASSUME Control, Contents, Ordered, NEW p \in Reader, ReadEof(p) \/ ReadStarve(p)
  PROVE  Ordered'
<1>1. q' = <<>> /\ Bytes(q) = 0 /\ q \in Seq(FitBlock) /\ pc \in [Actor -> PC]
  BY DropFacts DEF Contents, Control, Shapes
<1>2. got' = got /\ sent' = sent /\ lost' = lost
  BY DEF ReadEof, ReadStarve
<1>3. p \in Actor /\ pc[p] = "rwait" /\ \E to \in {"idle", "rsleep"} : pc' = [pc EXCEPT ![p] = to]
  BY DEF ReadEof, ReadStarve, Goto, Actor, Proc
<1>4. Copying = {}
  BY <1>3, CopyFacts DEF RHolds
<1>5. Copying' = {}
  <2>1. PICK to \in {"idle", "rsleep"} : pc' = [pc EXCEPT ![p] = to]
    BY <1>3
  <2>2. p \in Actor /\ pc[p] # "copy" /\ to # "copy"
    BY <1>3, <2>1
  <2> QED BY <1>1, <1>4, <2>1, <2>2, CopyMoves
<1>6. InStream(q, got, sent, lost)
  BY <1>4, PendingIs DEF Ordered
<1>7. Deliver(q)
  BY <1>1, <1>2 DEF Deliver
<1>8. q = q \o <<>> /\ <<>> \in Seq(FitBlock)
  BY <1>1, FitFacts, ConcatEmptySeq
<1> QED BY <1>1, <1>2, <1>5, <1>6, <1>7, <1>8, FrontTaken

LEMMA TakeOrdered ==
  ASSUME Control, Contents, Ordered, NEW p \in Reader, ReadTake(p)
  PROVE  Ordered'
<1>1. /\ q \in Seq(FitBlock) /\ hand \in [Proc -> Seq(FitBlock)] /\ pc \in [Actor -> PC]
      /\ q \in Seq(Block) /\ got \in Nat /\ sent \in Nat /\ lost \in BOOLEAN
  BY PendingFacts DEF Contents, Control, Shapes
<1>2. p \in Actor /\ p \in Proc /\ pc[p] = "rwait" /\ pc' = [pc EXCEPT ![p] = "copy"]
  BY DEF ReadTake, Goto, Actor, Proc
<1>3. Copying = {}
  BY <1>2, CopyFacts DEF RHolds
<1>4. Copying' = {p}
  BY <1>1, <1>2, <1>3, CopyMoves
<1>5. got' = got /\ sent' = sent /\ lost' = lost
  BY DEF ReadTake
<1>6. InStream(q, got, sent, lost)
  BY <1>3, PendingIs DEF Ordered
<1>7. PICK k \in 0..Len(q) : \E m \in k + 1..Len(q) :
        /\ hand' = [hand EXCEPT ![p] = SubSeq(q, k + 1, m)]
        /\ \A i \in 1..k : q[i].n = 0
        /\ SubSeq(q, k + 1, Len(q)) = SubSeq(q, k + 1, m) \o q'
  BY TookFacts
<1>8. hand'[p] \o q' = SubSeq(q, k + 1, Len(q))
  BY <1>1, <1>2, <1>7
<1>9. Pending' = SubSeq(q, k + 1, Len(q))
  BY <1>4, <1>8, PendingIs
<1> DEFINE a == SubSeq(q, 1, k)
           c == SubSeq(q, k + 1, Len(q))
<1>10. a \in Seq(Block) /\ c \in Seq(Block) /\ q = a \o c /\ Len(a) = k /\ \A i \in 1..k : a[i] = q[i]
  BY <1>1, Cut
<1>11. Bytes(a) = 0
  <2>1. \A i \in 1..Len(a) : a[i].n = 0
    BY <1>7, <1>10
  <2> QED BY <1>10, <2>1, BytesZero
<1>12. Pending' = c
  BY <1>9
<1> HIDE DEF a, c
<1>13. InStream(c, got, sent, lost)
  <2>1. InStream(a \o c, got, sent, lost)
    BY <1>6, <1>10
  <2> QED BY <1>1, <1>10, <1>11, <2>1, StreamTaken
<1> QED BY <1>5, <1>12, <1>13 DEF Ordered

LEMMA DoneOrdered ==
  ASSUME Control, Contents, Ordered, NEW p \in Reader, ReadDone(p)
  PROVE  Ordered'
<1>1. /\ p \in Actor /\ pc[p] = "copy" /\ pc' = [pc EXCEPT ![p] = "rdone"]
      /\ pc \in [Actor -> PC] /\ arg \in [Actor -> Nat] /\ sent' = sent
  BY DEF ReadDone, Goto, Actor, Proc, Control, Shapes
<1>2. p \in Copying /\ Copying = {p}
  BY <1>1, CopyFacts DEF Copying
<1>3. Copying' = {}
  <2>1. Copying' = Copying \ {p}
    <3>1. p \in Actor /\ pc' = [pc EXCEPT ![p] = "rdone"] /\ "rdone" # "copy" /\ pc \in [Actor -> PC]
      BY <1>1
    <3> QED BY <3>1, CopyMoves
  <2> QED BY <1>2, <2>1
<1> DEFINE s == hand[p]
<1>4. InStream(s \o q, got, sent, lost)
  BY <1>2, PendingIs DEF Ordered
<1>5. q \in Seq(FitBlock) /\ s \in Seq(FitBlock) /\ s # <<>> /\ arg[p] \in Nat
  BY <1>1, DoneFacts DEF Contents
<1>6. \/ Deliver(s) /\ q' = q /\ lost' = lost
      \/ /\ s[1] \in FitBlock /\ s[1].n > arg[p] /\ s = <<s[1]>>
         /\ Deliver(<<FirstBytes(s[1], arg[p])>>) /\ q' = q /\ lost' = TRUE
      \/ /\ s[1] \in FitBlock /\ s[1].n > arg[p] /\ s = <<s[1]>>
         /\ Deliver(<<FirstBytes(s[1], arg[p])>>)
         /\ q' = <<OtherBytes(s[1], arg[p])>> \o q
         /\ OtherBytes(s[1], arg[p]) \in FitBlock /\ lost' = lost
  BY DoneFacts
<1> HIDE DEF s
<1>7. CASE Deliver(s) /\ q' = q /\ lost' = lost
  BY <1>1, <1>3, <1>4, <1>5, <1>7, FrontTaken
<1>8. ASSUME s[1] \in FitBlock, s[1].n > arg[p], s = <<s[1]>>,
             Deliver(<<FirstBytes(s[1], arg[p])>>),
             \/ q' = q /\ lost' = TRUE
             \/ /\ OtherBytes(s[1], arg[p]) \in FitBlock
                /\ q' = <<OtherBytes(s[1], arg[p])>> \o q /\ lost' = lost
      PROVE  Ordered'
  <2> DEFINE b == s[1]
             n == arg[p]
             c == OtherBytes(b, n)
  <2>1. /\ b \in FitBlock /\ n \in Nat /\ n < b.n /\ Deliver(<<FirstBytes(b, n)>>)
        /\ <<>> \in Seq(FitBlock) /\ Bytes(<<>>) = 0
    <3>1. b.n \in Nat
      BY <1>8, FitFacts
    <3> QED BY <1>5, <1>8, <3>1, FitFacts, BytesFew
  <2>2. <<>> \o (<<b>> \o q) = <<b>> \o q
    <3>1. <<b>> \o q \in Seq(FitBlock)
      BY <1>5, <2>1, FitFacts, Fronted
    <3> QED BY <3>1, ConcatEmptySeq
  <2>3. InStream(<<b>> \o q, got, sent, lost)
    BY <1>4, <1>8
  <2>4. c.at = b.at + n /\ c.n = b.n - n
    BY <1>8, <2>1, RestFits DEF Control, Shapes
  <2>5. PartOf(b, n, c)
    BY <2>4 DEF PartOf
  <2>6. (c \in FitBlock /\ q' = <<c>> \o q /\ lost' = lost) \/ (q' = q /\ lost' = TRUE)
    BY <1>8
  <2> HIDE DEF b, n, c
  <2>7. /\ \A x \in FitBlock : PartOf(b, n, x) /\ q' = <<x>> \o q /\ lost' = lost => Ordered'
        /\ q' = q /\ lost' = TRUE => Ordered'
    BY <1>1, <1>3, <1>5, <2>1, <2>2, <2>3, FrontParted
  <2> QED BY <2>5, <2>6, <2>7
<1> QED BY <1>6, <1>7, <1>8

LEMMA BlockOrdered ==
  ASSUME Control, Contents, Ordered, NEW p \in Reader, BlockRead(p)
  PROVE  Ordered'
<1>1. /\ p \in Actor /\ pc[p] = "rwait" /\ pc' = [pc EXCEPT ![p] = "rdone"]
      /\ pc \in [Actor -> PC] /\ arg \in [Actor -> Nat] /\ sent' = sent
  BY DEF BlockRead, Goto, Actor, Proc, Control, Shapes
<1>2. Copying = {} /\ Copying' = {}
  <2>1. /\ p \in Actor /\ pc' = [pc EXCEPT ![p] = "rdone"] /\ pc[p] # "copy" /\ "rdone" # "copy"
        /\ pc \in [Actor -> PC] /\ pc[p] \in RHolds
    BY <1>1 DEF RHolds
  <2>2. Copying = {}
    BY <2>1, CopyFacts
  <2> QED BY <2>1, <2>2, CopyMoves
<1> DEFINE b == q[1]
           t == Tail(q)
           n == arg[p]
           c == [OtherBytes(b, n) EXCEPT !.alloc = b.n - n]
<1>3. /\ b \in FitBlock /\ t \in Seq(FitBlock) /\ q = <<b>> \o t /\ n \in Nat /\ b.n \in Nat
      /\ <<>> \in Seq(FitBlock) /\ Bytes(<<>>) = 0 /\ <<b>> \in Seq(FitBlock)
  BY <1>1, BlockFacts, FitFacts, BytesFew
<1>4. InStream(<<b>> \o t, got, sent, lost)
  BY <1>2, <1>3, PendingIs DEF Ordered
<1>5. \/ Deliver(<<b>>) /\ q' = t /\ lost' = lost
      \/ b.n > n /\ Deliver(<<FirstBytes(b, n)>>) /\ q' = t /\ lost' = TRUE
      \/ /\ b.n > n /\ Deliver(<<FirstBytes(b, n)>>)
         /\ c \in FitBlock /\ q' = <<c>> \o t /\ lost' = lost
  BY BlockFacts
<1>6. n < b.n => PartOf(b, n, c)
  <2>1. OtherBytes(b, n) = [b EXCEPT !.at = b.at + n, !.n = b.n - n]
    BY DEF OtherBytes
  <2>2. b = [at |-> b.at, n |-> b.n, alloc |-> b.alloc]
    BY <1>3 DEF FitBlock, Block
  <2>3. c.at = b.at + n /\ c.n = b.n - n
    BY <2>1, <2>2
  <2> QED BY <2>3 DEF PartOf
<1>7. <<>> \o (<<b>> \o t) = <<b>> \o t
  <2>1. <<b>> \o t \in Seq(FitBlock)
    BY <1>3, FitFacts, Fronted
  <2> QED BY <2>1, ConcatEmptySeq
<1> HIDE DEF b, t, n, c
<1>8. CASE Deliver(<<b>>) /\ q' = t /\ lost' = lost
  BY <1>1, <1>2, <1>3, <1>4, <1>8, FrontTaken
<1>9. ASSUME n < b.n, Deliver(<<FirstBytes(b, n)>>),
             (c \in FitBlock /\ q' = <<c>> \o t /\ lost' = lost) \/ (q' = t /\ lost' = TRUE)
      PROVE  Ordered'
  <2>1. /\ \A x \in FitBlock : PartOf(b, n, x) /\ q' = <<x>> \o t /\ lost' = lost => Ordered'
        /\ q' = t /\ lost' = TRUE => Ordered'
    BY <1>1, <1>2, <1>3, <1>4, <1>7, <1>9, FrontParted
  <2> QED BY <1>6, <1>9, <2>1
<1>10. b.n > n => n < b.n
  BY <1>3
<1> QED BY <1>5, <1>8, <1>9, <1>10

(* The whole of the first block, once the empty ones before it are passed. *)
LEMMA WholeTaken ==
  ASSUME Control, Contents, NEW s, InStream(s, got, sent, lost),
         NEW a \in Seq(FitBlock), NEW b \in FitBlock, NEW t \in Seq(FitBlock),
         s = a \o (<<b>> \o t), Bytes(a) = 0, q' = t, Deliver(<<FirstBytes(b, b.n)>>),
         Copying' = {}, sent' = sent, lost' = lost
  PROVE  Ordered'
<1> DEFINE u == <<b>> \o t
<1>1. a \in Seq(Block) /\ u \in Seq(Block) /\ got \in Nat /\ sent \in Nat /\ lost \in BOOLEAN
  <2>1. u \in Seq(FitBlock)
    BY FitFacts, Fronted
  <2> QED BY <2>1, FitFacts, PendingFacts
<1>2. InStream(a \o u, got, sent, lost)
  OBVIOUS
<1> HIDE DEF u
<1>3. InStream(u, got, sent, lost)
  BY <1>1, <1>2, StreamTaken
<1>4. FirstBytes(b, b.n) = b
  <2>1. b = [at |-> b.at, n |-> b.n, alloc |-> b.alloc]
    BY DEF FitBlock, Block
  <2>2. FirstBytes(b, b.n) = [b EXCEPT !.n = b.n]
    BY DEF FirstBytes
  <2> QED BY <2>1, <2>2
<1>5. <<b>> \in Seq(FitBlock) /\ Deliver(<<b>>) /\ u = <<b>> \o t
  BY <1>4, FitFacts DEF u
<1> QED BY <1>3, <1>5, FrontTaken

(* The driver's own ways of taking blocks; no process copies meanwhile.    *)
LEMMA DrainFacts ==
  ASSUME Control, Contents, Ordered, NEW d \in Dev, qget(d) \/ qdiscard(d) \/ qconsume(d)
  PROVE  /\ Copying' = {} /\ InStream(q, got, sent, lost) /\ sent' = sent
         /\ q \in Seq(FitBlock) /\ q \in Seq(Block) /\ <<>> \in Seq(FitBlock) /\ Bytes(<<>>) = 0
<1>1. pc' = pc /\ sent' = sent
  BY DEF qget, qdiscard, qconsume, control
<1>2. "qget" \in use.ops \/ "qdiscard" \in use.ops \/ "qconsume" \in use.ops
  BY DEF qget, qdiscard, qconsume, Call
<1>3. Copying = {}
  BY <1>2, CopyFacts
<1>4. Copying' = {}
  BY <1>1, <1>3 DEF Copying
<1>5. InStream(q, got, sent, lost)
  BY <1>3, PendingIs DEF Ordered
<1> QED BY <1>1, <1>4, <1>5, FitFacts, PendingFacts, BytesFew DEF Contents

LEMMA GetOrdered ==
  ASSUME Control, Contents, Ordered, NEW d \in Dev, qget(d)
  PROVE  Ordered'
<1>1. /\ Copying' = {} /\ InStream(q, got, sent, lost) /\ sent' = sent
      /\ q \in Seq(FitBlock)
  BY DrainFacts
<1>2. lost' = lost
  BY DEF qget
<1>3. CASE q' = q /\ got' = got
  BY <1>1, <1>2, <1>3, PendingIs DEF Ordered
<1>4. ASSUME q = <<q[1]>> \o Tail(q), Tail(q) \in Seq(FitBlock), q[1] \in FitBlock,
             Deliver(<<q[1]>>), q' = Tail(q)
      PROVE  Ordered'
  <2>1. <<q[1]>> \in Seq(FitBlock)
    BY <1>4, FitFacts
  <2> QED BY <1>1, <1>2, <1>4, <2>1, FrontTaken
<1> QED BY <1>3, <1>4, GetFacts

(* Past the first k blocks of the queue.                                   *)
LEMMA PastFacts ==
  ASSUME q \in Seq(FitBlock), NEW k \in 0..Len(q), k < Len(q)
  PROVE  LET b == q[k + 1]
             a == SubSeq(q, 1, k)
             t == Tail(SubSeq(q, k + 1, Len(q)))
         IN  /\ a \in Seq(FitBlock) /\ b \in FitBlock /\ t \in Seq(FitBlock) /\ b.n \in Nat
             /\ q = a \o (<<b>> \o t)
<1>1. k \in 0..Len(q) - 1
  BY LenProperties
<1> QED BY <1>1, CutAt

LEMMA DiscardOrdered ==
  ASSUME Control, Contents, Ordered, NEW d \in Dev, qdiscard(d)
  PROVE  Ordered'
<1>1. /\ Copying' = {} /\ InStream(q, got, sent, lost) /\ sent' = sent
      /\ q \in Seq(FitBlock) /\ q \in Seq(Block)
  BY DrainFacts
<1>2. lost' = lost
  BY DEF qdiscard
<1>3. PICK k \in 0..Len(q) :
        \/ q' = SubSeq(q, k + 1, Len(q)) /\ Deliver(SubSeq(q, 1, k))
        \/ /\ k < Len(q)
           /\ \E n \in Nat :
                /\ 0 < n /\ n < q[k + 1].n
                /\ OtherBytes(q[k + 1], n) \in FitBlock
                /\ q' = <<OtherBytes(q[k + 1], n)>> \o Tail(SubSeq(q, k + 1, Len(q)))
                /\ Deliver(<<FirstBytes(q[k + 1], n)>>)
  BY DiscardFacts
<1>4. ASSUME q' = SubSeq(q, k + 1, Len(q)), Deliver(SubSeq(q, 1, k)) PROVE Ordered'
  <2> DEFINE a == SubSeq(q, 1, k)
             c == SubSeq(q, k + 1, Len(q))
  <2>1. q = a \o c /\ a \in Seq(FitBlock) /\ c \in Seq(FitBlock)
    <3>1. k \in k..Len(q) /\ Len(q) \in k..Len(q)
      BY <1>1, LenProperties
    <3>2. a \in Seq(FitBlock) /\ c \in Seq(FitBlock)
      BY <1>1, <3>1, CutIn
    <3>3. q = a \o c
      BY <1>1, Cut
    <3> QED BY <3>2, <3>3
  <2>2. q' = c /\ Deliver(a)
    BY <1>4
  <2> HIDE DEF a, c
  <2> QED BY <1>1, <1>2, <2>1, <2>2, FrontTaken
<1>5. ASSUME k < Len(q), NEW n \in Nat, 0 < n, n < q[k + 1].n,
             OtherBytes(q[k + 1], n) \in FitBlock,
             q' = <<OtherBytes(q[k + 1], n)>> \o Tail(SubSeq(q, k + 1, Len(q))),
             Deliver(<<FirstBytes(q[k + 1], n)>>)
      PROVE  Ordered'
  <2> DEFINE b == q[k + 1]
             a == SubSeq(q, 1, k)
             t == Tail(SubSeq(q, k + 1, Len(q)))
             c == OtherBytes(b, n)
  <2>1. /\ a \in Seq(FitBlock) /\ b \in FitBlock /\ t \in Seq(FitBlock)
        /\ q = a \o (<<b>> \o t)
    BY <1>1, <1>5, PastFacts
  <2>2. n < b.n /\ Deliver(<<FirstBytes(b, n)>>) /\ c \in FitBlock /\ q' = <<c>> \o t /\ n > 0
    BY <1>5
  <2>3. PartOf(b, n, c)
    BY <2>1, <2>2, RestFits DEF PartOf, Control, Shapes
  <2> HIDE DEF a, b, t, c
  <2>4. \A x \in FitBlock : PartOf(b, n, x) /\ q' = <<x>> \o t /\ lost' = lost => Ordered'
    BY <1>1, <2>1, <2>2, FrontParted
  <2> QED BY <1>2, <2>2, <2>3, <2>4
<1> QED BY <1>3, <1>4, <1>5

LEMMA ConsumeOrdered ==
  ASSUME Control, Contents, Ordered, NEW d \in Dev, qconsume(d)
  PROVE  Ordered'
<1>1. /\ Copying' = {} /\ InStream(q, got, sent, lost) /\ sent' = sent
      /\ q \in Seq(FitBlock) /\ q \in Seq(Block) /\ <<>> \in Seq(FitBlock)
  BY DrainFacts
<1>2. PICK k \in 0..Len(q) :
        /\ Bytes(SubSeq(q, 1, k)) = 0
        /\ \/ /\ k = Len(q) /\ q' = <<>>
              /\ got' = got /\ lost' = lost
           \/ /\ k < Len(q)
              /\ q' = Tail(SubSeq(q, k + 1, Len(q)))
              /\ \/ Deliver(<<FirstBytes(q[k + 1], q[k + 1].n)>>) /\ lost' = lost
                 \/ /\ \E n \in Nat : n < q[k + 1].n /\ Deliver(<<FirstBytes(q[k + 1], n)>>)
                    /\ lost' = TRUE
           \/ /\ k < Len(q)
              /\ \E n \in Nat :
                   /\ n < q[k + 1].n
                   /\ OtherBytes(q[k + 1], n) \in FitBlock
                   /\ q' = <<OtherBytes(q[k + 1], n)>> \o Tail(SubSeq(q, k + 1, Len(q)))
                   /\ Deliver(<<FirstBytes(q[k + 1], n)>>)
              /\ lost' = lost
  BY ConsumeFacts
<1>3. ASSUME k = Len(q), q' = <<>>, got' = got, lost' = lost PROVE Ordered'
  <2>1. SubSeq(q, 1, Len(q)) = q
    <3>1. Len(q) \in Nat /\ Len(q) \in 0..Len(q)
      BY <1>1, LenProperties
    <3>2. /\ SubSeq(q, 1, Len(q)) \in Seq(Block) /\ Len(SubSeq(q, 1, Len(q))) = Len(q)
          /\ \A i \in 1..Len(q) : SubSeq(q, 1, Len(q))[i] = q[i]
      BY <1>1, <3>1, Cut
    <3> QED BY <1>1, <3>2, SeqEqual
  <2>2. Deliver(q)
    BY <1>2, <1>3, <2>1 DEF Deliver
  <2>3. q = q \o <<>>
    BY <1>1, ConcatEmptySeq
  <2> QED BY <1>1, <1>3, <2>2, <2>3, FrontTaken
<1>4. ASSUME k < Len(q) PROVE Ordered'
  <2> DEFINE b == q[k + 1]
             a == SubSeq(q, 1, k)
             t == Tail(SubSeq(q, k + 1, Len(q)))
  <2>1. /\ a \in Seq(FitBlock) /\ b \in FitBlock /\ t \in Seq(FitBlock) /\ b.n \in Nat
        /\ q = a \o (<<b>> \o t) /\ Bytes(a) = 0
    BY <1>1, <1>2, <1>4, PastFacts
  <2>2. ~(k = Len(q))
    BY <1>1, <1>4, LenProperties
  <2>3. \/ q' = t /\ Deliver(<<FirstBytes(b, b.n)>>) /\ lost' = lost
        \/ q' = t /\ (\E n \in Nat : n < b.n /\ Deliver(<<FirstBytes(b, n)>>)) /\ lost' = TRUE
        \/ /\ \E n \in Nat : /\ n < b.n /\ OtherBytes(b, n) \in FitBlock
                             /\ q' = <<OtherBytes(b, n)>> \o t
                             /\ Deliver(<<FirstBytes(b, n)>>)
           /\ lost' = lost
    BY <1>2, <2>2
  <2> HIDE DEF a, b, t
  <2>4. CASE q' = t /\ Deliver(<<FirstBytes(b, b.n)>>) /\ lost' = lost
    BY <1>1, <2>1, <2>4, WholeTaken
  <2>5. ASSUME NEW n \in Nat, n < b.n, Deliver(<<FirstBytes(b, n)>>)
        PROVE  /\ q' = t /\ lost' = TRUE => Ordered'
               /\ OtherBytes(b, n) \in FitBlock /\ q' = <<OtherBytes(b, n)>> \o t /\ lost' = lost
                    => Ordered'
    <3>1. PartOf(b, n, OtherBytes(b, n))
      BY <2>1, <2>5, RestFits DEF PartOf, Control, Shapes
    <3>2. /\ \A x \in FitBlock : PartOf(b, n, x) /\ q' = <<x>> \o t /\ lost' = lost => Ordered'
          /\ q' = t /\ lost' = TRUE => Ordered'
      BY <1>1, <2>1, <2>5, FrontParted
    <3> QED BY <3>1, <3>2
  <2> QED BY <2>3, <2>4, <2>5
<1> QED BY <1>2, <1>3, <1>4

(* A queue that is emptied loses what it had, and no more.                 *)
LEMMA EmptyOrdered ==
  ASSUME Control, Contents, Ordered, NEW d \in Dev, qflush(d) \/ qclose(d)
  PROVE  Ordered'
<1>1. /\ q' = <<>> /\ lost' = (lost \/ q # <<>>) /\ got' = got /\ sent' = sent
      /\ hand' = hand /\ pc' = pc
  BY DEF qflush, qclose, Empty, control
<1>2. Copying' = Copying
  BY <1>1 DEF Copying
<1>3. CASE q = <<>>
  <2>1. q' = q
    BY <1>1, <1>3
  <2>2. lost' = lost
    <3>1. lost \in BOOLEAN
      BY PendingFacts
    <3> QED BY <1>1, <1>3, <3>1
  <2>3. Quiet
    BY <1>1, <1>2, <2>1, <2>2 DEF Quiet
  <2> QED BY <2>3, StillOrdered
<1>4. CASE q # <<>>
  <2>0. lost' = TRUE
    BY <1>1, <1>4, PendingFacts
  <2>1. q \in Seq(Block) /\ <<>> \in Seq(Block) /\ got \in Nat /\ sent \in Nat /\ lost \in BOOLEAN
    BY PendingFacts
  <2>2. CASE Copying = {}
    <3>1. Pending' = <<>> /\ InStream(q, got, sent, lost)
      BY <1>1, <1>2, <2>2, PendingIs DEF Ordered
    <3>2. <<>> \o q = q
      BY <2>1, ConcatEmptySeq
    <3> DEFINE e == <<>>
    <3>3. InStream(e \o q, got, sent, lost) /\ e \in Seq(Block)
      BY <2>1, <3>1, <3>2
    <3> HIDE DEF e
    <3>4. Spaced(e \o q, got + 1, sent + 1)
      BY <3>3 DEF InStream
    <3>5. InStream(e, got, sent, TRUE)
      BY <2>1, <3>3, <3>4, StreamCut
    <3> QED BY <1>1, <2>0, <3>1, <3>5 DEF Ordered, e
  <2>3. ASSUME NEW p \in Copying PROVE Ordered'
    <3> DEFINE s == hand[p]
    <3>1. Copying = {p} /\ s \in Seq(Block)
      BY PendingFacts
    <3>2. Pending' = s \o <<>> /\ InStream(s \o q, got, sent, lost)
      BY <1>1, <1>2, <3>1, PendingIs DEF Ordered
    <3> HIDE DEF s
    <3>3. s \o <<>> = s
      BY <3>1, ConcatEmptySeq
    <3>4. InStream(s, got, sent, TRUE)
      <4>1. s \in Seq(Block) /\ q \in Seq(Block) /\ Spaced(s \o q, got + 1, sent + 1)
        BY <2>1, <3>1, <3>2 DEF InStream
      <4>2. got \in Nat /\ sent \in Nat
        BY <2>1
      <4> QED BY <4>1, <4>2, StreamCut
    <3> QED BY <1>1, <2>0, <3>2, <3>3, <3>4 DEF Ordered
  <2> QED BY <2>2, <2>3
<1> QED BY <1>3, <1>4

(* What a writer or a driver adds is the last.                             *)
LEMMA PutOrdered ==
  ASSUME Control, Contents, Ordered, NEW p \in Writer, WritePut(p)
  PROVE  Ordered'
<1>1. /\ p \in Actor /\ pc' = [pc EXCEPT ![p] = "wcheck"] /\ pc[p] # "copy" /\ "wcheck" # "copy"
      /\ pc \in [Actor -> PC]
  BY DEF WritePut, Goto, Actor, Proc, Control, Shapes
<1>2. Copying' = Copying
  BY <1>1, CopyMoves
<1>3. Added(<<NewBlock(hand[p][1].n, sent)>>) /\ hand' = [hand EXCEPT ![p] = <<>>]
  BY WritePutFacts
<1>4. \A r \in Copying : hand'[r] = hand[r]
  <2>1. \A r \in Copying : r # p /\ r \in Proc
    BY <1>1 DEF Copying, Proc
  <2>2. hand \in [Proc -> Seq(FitBlock)]
    BY DEF Contents
  <2> QED BY <1>3, <2>1, <2>2
<1>5. got' = got /\ lost' = lost
  BY DEF WritePut
<1> QED BY <1>2, <1>3, <1>4, <1>5, OrderAdded

LEMMA FeedOrdered ==
  ASSUME Control, Contents, Ordered, NEW d \in Dev, qproduce(d) \/ qpass(d) \/ Iwrite(d)
  PROVE  Ordered'
<1>1. got' = got /\ lost' = lost
  BY DEF qproduce, qpass, Iwrite
<1>2. hand' = hand
  BY ProduceFacts, IwriteFacts
<1>3. Copying' = Copying
  <2>1. CASE qproduce(d) \/ qpass(d)
    <3>1. pc' = pc
      BY <2>1 DEF qproduce, qpass, control
    <3> QED BY <3>1 DEF Copying
  <2>2. CASE Iwrite(d)
    <3>1. /\ pc \in [Actor -> PC] /\ d \in Actor /\ pc[d] # "copy"
          /\ \E to \in {"idle", "iwoken", "iwrite"} : pc' = [pc EXCEPT ![d] = to]
      BY <2>2 DEF Iwrite, Actor, Control, Shapes
    <3>2. PICK to \in {"idle", "iwoken", "iwrite"} : pc' = [pc EXCEPT ![d] = to]
      BY <3>1
    <3>3. d \in Actor /\ to # "copy" /\ pc[d] # "copy" /\ pc \in [Actor -> PC]
      BY <3>1, <3>2
    <3> QED BY <3>2, <3>3, CopyMoves
  <2> QED BY <2>1, <2>2
<1>4. (q' = q /\ sent' = sent) \/ \E s : Added(s)
  BY ProduceFacts, IwriteFacts
<1>5. CASE q' = q /\ sent' = sent
  BY <1>1, <1>2, <1>3, <1>5, StillOrdered DEF Quiet
<1>6. ASSUME NEW s, Added(s) PROVE Ordered'
  BY <1>1, <1>2, <1>3, <1>6, OrderAdded
<1> QED BY <1>4, <1>5, <1>6

LEMMA OrderedStep ==
  ASSUME Control, Contents, Ordered, Next
  PROVE  Ordered'
<1>1. CASE Quiet
  BY <1>1, StillOrdered
<1>2. CASE Touches
  BY <1>2, SkipOrdered, TakeOrdered, DoneOrdered, BlockOrdered, PutOrdered, FeedOrdered,
     GetOrdered, DiscardOrdered, ConsumeOrdered, EmptyOrdered DEF Touches
<1> QED BY <1>1, <1>2, QuietStep

(* In terms of the bytes themselves.                                       *)
LEMMA OrderedSafe ==
  ASSUME Control, Contents, Ordered
  PROVE  StreamInOrder
<1> DEFINE s == Pending
<1>1. s \in Seq(Block) /\ got \in Nat /\ sent \in Nat
  BY PendingFacts
<1>2. Spaced(s, got + 1, sent + 1) /\ (~lost => got + Bytes(s) = sent)
  BY DEF Ordered, InStream
<1>3. Bytes(s) \in Nat /\ Len(s) \in Nat
  BY <1>1, Counted
<1>4. \A i \in 1..Len(s) : s[i].at \in Nat /\ s[i].n \in Nat
  <2>1. \A i \in 1..Len(s) : s[i] \in Block
    BY <1>1, ElementOfSeq
  <2> QED BY <2>1 DEF Block
<1> HIDE DEF s
<1>5. \A i \in 1..Len(s) : s[i].at > got
  <2>1. \A i \in 1..Len(s) : got + 1 <= s[i].at
    BY <1>2 DEF Spaced
  <2> QED BY <1>1, <1>4, <2>1
<1>6. \A i, j \in 1..Len(s) : i < j => s[i].at + s[i].n <= s[j].at
  BY <1>2 DEF Spaced
<1>7. ~lost => Bytes(s) = sent - got
  BY <1>1, <1>2, <1>3
<1>8. s = Pending
  BY DEF s
<1> QED BY <1>5, <1>6, <1>7, <1>8 DEF StreamInOrder


-----------------------------------------------------------------------------
(* The theorems.                                                           *)

Inv == Control /\ Contents /\ Balance

LEMMA InvStep ==
  ASSUME Inv, [Next]_vars
  PROVE  Inv'
<1>1. CASE Next
  BY <1>1, ShapesStep, RolesStep, LocksStep, WakesStep, ArgsStep, ContentsStep, BalanceStep
  DEF Inv, Control
<1>2. CASE UNCHANGED vars
  <2>1. UNCHANGED <<use, q, len, dlen, starve, flow, closed, msg, noblock>>
    BY <1>2 DEF vars, queue, flags, modes
  <2>2. UNCHANGED <<rlock, wlock, rr, wr, pc, op, arg, hand, wake, writes>>
    BY <1>2 DEF vars, locks, control
  <2>3. UNCHANGED <<sent, got, lost, live>>
    BY <1>2 DEF vars, aux
  <2>4. Control'
    BY <2>1, <2>2, <2>3 DEF Inv, Control, Shapes, Roles, Locks, Wakes, Args, Within
  <2>5. FitBlock' = FitBlock
    BY <2>1, FitKept
  <2>6. Contents'
    BY <2>1, <2>2, <2>3, <2>5 DEF Inv, Contents, Hands
  <2>7. Balance'
    BY <2>1, <2>2, <2>3 DEF Inv, Balance, Held, Whole
  <2> QED BY <2>4, <2>6, <2>7 DEF Inv
<1> QED BY <1>1, <1>2

LEMMA InvAlways == Spec => []Inv
<1>1. Init => Inv
  BY ControlInit, ContentsInit, BalanceInit DEF Inv
<1>2. Inv /\ [Next]_vars => Inv'
  BY InvStep
<1> QED BY <1>1, <1>2, PTL DEF Spec

LEMMA HeldNat ==
  ASSUME Contents
  PROVE  Held \in Nat
<1> DEFINE f == [p \in Proc |-> Len(hand[p])]
<1>1. Len(q) \in Nat /\ \A p \in Proc : Len(hand[p]) \in Nat
  BY LenProperties DEF Contents
<1>2. f \in [Proc -> Nat]
  BY <1>1
<1>3. Total(f) \in Nat
  BY <1>2, ActorAssumption, TotalType
<1>4. Held = Len(q) + Total(f)
  BY DEF Held
<1> HIDE DEF f
<1> QED BY <1>1, <1>3, <1>4

(* The counts q->len and q->dlen, which every function of qio.c adds to    *)
(* and subtracts from by hand, are those of the blocks on the list, and    *)
(* neither they nor the number of blocks allocated goes below zero.        *)
THEOREM CountsAgree == Spec => []Accounts
<1>1. Inv => Accounts
  <2> SUFFICES ASSUME Inv PROVE Accounts
    OBVIOUS
  <2>1. q \in Seq(Block) /\ hand \in [Proc -> Seq(Block)]
    BY FitFacts DEF Inv, Contents
  <2>2. Held \in Nat
    BY HeldNat DEF Inv
  <2>3. live \in Nat
    BY <2>2 DEF Inv, Balance
  <2>4. len \in Nat /\ dlen \in Nat /\ len = Alloc(q) /\ dlen = Bytes(q)
    BY <2>1, Counted DEF Inv, Contents
  <2>5. TypeOK
    BY <2>1, <2>3, <2>4 DEF Inv, Control, Shapes, Contents, TypeOK
  <2> QED BY <2>4, <2>5 DEF Accounts
<1> QED BY <1>1, InvAlways, PTL

(* Every block allocated is freed, handed out, on the queue or in the      *)
(* hands of a process, unless qconsume is used on a queue that may hold    *)
(* empty blocks.                                                           *)
THEOREM BlocksKept ==
  ASSUME \A u \in Uses : Whole(u)
  PROVE  Spec => []NoLeak
<1>1. Inv => NoLeak
  BY DEF Inv, Control, Shapes, Balance, NoLeak
<1> QED BY <1>1, InvAlways, PTL

LEMMA ReaderAlways == Spec => [](ReaderPosted /\ ReaderSleeps)
<1>1. Init => ReaderPosted /\ ReaderSleeps
  BY DEF Init, ReaderPosted, ReaderSleeps
<1>2. Inv /\ ReaderPosted /\ ReaderSleeps /\ [Next]_vars => (ReaderPosted /\ ReaderSleeps)'
  <2> SUFFICES ASSUME Inv, ReaderPosted, ReaderSleeps, [Next]_vars
               PROVE  (ReaderPosted /\ ReaderSleeps)'
    OBVIOUS
  <2>1. CASE Next
    BY <2>1, PostedStep, SleepsStep DEF Inv
  <2>2. CASE UNCHANGED vars
    <3>1. UNCHANGED <<q, starve, closed, rr, pc, wake>>
      BY <2>2 DEF vars, queue, flags, locks, control
    <3> QED BY <3>1 DEF ReaderPosted, ReaderSleeps, Coming, notempty
  <2> QED BY <2>1, <2>2
<1> QED BY <1>1, <1>2, InvAlways, PTL DEF Spec

(* No reader sleeps beside data, or on a closed queue, unless somebody is  *)
(* about to wake it.                                                       *)
THEOREM ReadersNotStranded == Spec => []NoStrandedReader
<1>1. ReaderPosted => NoStrandedReader
  BY ReaderSafe
<1> QED BY <1>1, ReaderAlways, PTL

LEMMA WriterAlways == Spec => [](WriterPosted /\ WriterSleeps)
<1>1. Init => WriterPosted /\ WriterSleeps
  BY DEF Init, WriterPosted, WriterSleeps
<1>2. Inv /\ WriterPosted /\ WriterSleeps /\ [Next]_vars => (WriterPosted /\ WriterSleeps)'
  <2> SUFFICES ASSUME Inv, WriterPosted, WriterSleeps, [Next]_vars
               PROVE  (WriterPosted /\ WriterSleeps)'
    OBVIOUS
  <2>1. CASE Next
    BY <2>1, WPostedStep, WSleepsStep DEF Inv
  <2>2. CASE UNCHANGED vars
    <3>1. UNCHANGED <<use, len, flow, closed, wr, pc, wake, hand, arg>>
      BY <2>2 DEF vars, queue, flags, modes, locks, control
    <3>2. WriterPosted'
      BY <3>1 DEF WriterPosted, Coming, Copying, Limit
    <3>3. WriterSleeps'
      BY <3>1 DEF WriterSleeps, Roomy, Copying, Back, Limit
    <3> QED BY <3>2, <3>3
  <2> QED BY <2>1, <2>2
<1> QED BY <1>1, <1>2, InvAlways, PTL DEF Spec

(* No writer that flow control has put to sleep stays so beside a queue    *)
(* less than half full, or closed, unless somebody is about to wake it, or *)
(* a reader will look at the length before it returns.                     *)
THEOREM WritersNotStranded == Spec => []NoStrandedWriter
<1>1. Inv /\ WriterPosted => NoStrandedWriter
  BY WriterSafe DEF Inv
<1> QED BY <1>1, InvAlways, WriterAlways, PTL

(* A queue that only processes write, and whose sleeping writers are not   *)
(* interrupted, exceeds its limit by a writer's block, and by what a       *)
(* reader meanwhile put back; a driver, or a write that is interrupted and *)
(* tried again, could exceed it by any amount.                             *)
THEOREM LengthBounded ==
  ASSUME Plain
  PROVE  Spec => []LimitKept
<1>1. Init => Bounded
  <2> SUFFICES ASSUME Init PROVE Bounded
    OBVIOUS
  <2>1. Limit \in Nat \ {0, 1} /\ Maxatomic \in Nat
    BY LimitFacts, MaxatomicAssumption DEF Init
  <2>2. Copying = {}
    BY DEF Init, Copying, Actor, Proc
  <2>3. len = 0 /\ noblock = FALSE
    BY DEF Init
  <2> HIDE DEF Limit
  <2>4. \A x \in Nat : Under(x)
    BY <2>2, <2>3 DEF Under
  <2>5. Limit - 1 + 2 * Maxatomic \in Nat /\ Limit - 1 + Maxatomic \in Nat
    BY <2>1
  <2> QED BY <2>3, <2>4, <2>5 DEF Bounded
<1>2. Inv /\ Bounded /\ [Next]_vars => Bounded'
  <2> SUFFICES ASSUME Inv, Bounded, [Next]_vars PROVE Bounded'
    OBVIOUS
  <2>1. CASE Next
    BY <2>1, BoundedStep DEF Inv
  <2>2. CASE UNCHANGED vars
    <3>1. UNCHANGED <<use, len, closed, noblock, pc, hand, arg>>
      BY <2>2 DEF vars, queue, flags, modes, control
    <3>2. Limit' = Limit /\ Copying' = Copying /\ \A r \in Copying : Back(r)' = Back(r)
      BY <3>1 DEF Limit, Copying, Back
    <3> QED BY <3>1, <3>2 DEF Bounded, Under
  <2> QED BY <2>1, <2>2
<1>3. Bounded => LimitKept
  BY DEF Bounded, Under, LimitKept
<1> QED BY <1>1, <1>2, <1>3, InvAlways, PTL DEF Spec

(* Whatever reads, writes, drains, flushes and closes are going on, the    *)
(* blocks still to be delivered are, in order, what is left of the stream; *)
(* a byte is missing only if some were thrown away.                        *)
THEOREM StreamKept == Spec => []StreamInOrder
<1>1. Init => Ordered
  <2> SUFFICES ASSUME Init PROVE Ordered
    OBVIOUS
  <2>1. Copying = {} /\ q = <<>> /\ got = 0 /\ sent = 0
    BY DEF Init, Copying, Actor, Proc
  <2>2. Pending = <<>>
    BY <2>1, PendingIs
  <2>3. Spaced(<<>>, 0 + 1, 0 + 1) /\ Run(<<>>, 0 + 1) /\ Bytes(<<>>) = 0
    <3>1. 0 + 1 = 1 /\ 1 \in Int /\ 1 \in Nat /\ 1 <= 1
      OBVIOUS
    <3> QED BY <3>1, SpacedFew, RunFew, BytesFew
  <2> QED BY <2>1, <2>2, <2>3 DEF Ordered, InStream
<1>2. Inv /\ Ordered /\ [Next]_vars => Ordered'
  <2> SUFFICES ASSUME Inv, Ordered, [Next]_vars PROVE Ordered'
    OBVIOUS
  <2>1. CASE Next
    BY <2>1, OrderedStep DEF Inv
  <2>2. CASE UNCHANGED vars
    <3>1. UNCHANGED <<q, pc, hand, got, sent, lost>>
      BY <2>2 DEF vars, queue, control, aux
    <3> QED BY <3>1 DEF Ordered, Pending, Copying
  <2> QED BY <2>1, <2>2
<1>3. Inv /\ Ordered => StreamInOrder
  BY OrderedSafe DEF Inv
<1> QED BY <1>1, <1>2, <1>3, InvAlways, PTL DEF Spec

=============================================================================
