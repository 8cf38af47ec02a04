--------------------------- MODULE NamespaceProofs --------------------------
(***************************************************************************)
(* What holds of a mount table (Namespace) for every number of processes,  *)
(* directories and mount heads, every initial table and all calls.         *)
(***************************************************************************)
EXTENDS Namespace, SequenceTheorems, FiniteSetTheorems, TLAPS

-----------------------------------------------------------------------------
(* Sums.                                                                   *)

(* What Total counts.                                                      *)
Cells(f) == UNION {{x} \X (1..f[x]) : x \in DOMAIN f}

(* The sum of finitely many counts is one.                                 *)
LEMMA TotalType ==
  ASSUME NEW D, IsFiniteSet(D), NEW f \in [D -> Nat]
  PROVE  /\ IsFiniteSet(Cells(f))
         /\ Total(f) = Cardinality(Cells(f))
         /\ Total(f) \in Nat
<1> DEFINE g == [x \in D |-> {x} \X (1..f[x])]
           T == {{x} \X (1..f[x]) : x \in D}
<1>1. g \in Surjection(D, T)
  BY DEF Surjection
<1>2. IsFiniteSet(T)
  BY <1>1, FS_Surjection
<1>3. ASSUME NEW t \in T PROVE IsFiniteSet(t)
  <2>1. PICK x \in D : t = {x} \X (1..f[x])
    OBVIOUS
  <2>2. IsFiniteSet(1..f[x])
    BY FS_Interval
  <2>3. IsFiniteSet({x})
    BY FS_Singleton
  <2> QED BY <2>1, <2>2, <2>3, FS_Product
<1>4. Cells(f) = UNION T
  BY DEF Cells
<1>5. IsFiniteSet(Cells(f))
  BY <1>2, <1>3, <1>4, FS_UNION
<1> QED BY <1>5, FS_CardinalityType DEF Total, Cells

(* One element's share of a sum.                                           *)
LEMMA CellsOf ==
  ASSUME NEW x, NEW n \in Nat
  PROVE  /\ IsFiniteSet({x} \X (1..n))
         /\ Cardinality({x} \X (1..n)) = n
<1>1. IsFiniteSet(1..n) /\ Cardinality(1..n) = n
  BY FS_Interval
<1>2. IsFiniteSet({x}) /\ Cardinality({x}) = 1
  BY FS_Singleton
<1>3. IsFiniteSet({x} \X (1..n)) /\ Cardinality({x} \X (1..n)) = 1 * n
  BY <1>1, <1>2, FS_Product
<1> QED BY <1>3

(* What is left when part of a set goes.                                   *)
LEMMA CardLeft ==
  ASSUME NEW S, IsFiniteSet(S), NEW T, T \subseteq S
  PROVE  Cardinality(S \ T) = Cardinality(S) - Cardinality(T)
<1>1. S \cap T = T
  OBVIOUS
<1>2. Cardinality(S \ T) = Cardinality(S) - Cardinality(S \cap T)
  BY FS_Difference
<1> QED BY <1>1, <1>2

(* Changing one count changes the sum by as much.                          *)
LEMMA TotalExcept ==
  ASSUME NEW D, IsFiniteSet(D), NEW f \in [D -> Nat], NEW g \in [D -> Nat],
         NEW d \in D, \A x \in D \ {d} : g[x] = f[x]
  PROVE  Total(g) = Total(f) - f[d] + g[d]
<1> DEFINE F == {d} \X (1..f[d])
           G == {d} \X (1..g[d])
<1>1. Cells(f) \ F = Cells(g) \ G
  BY DEF Cells
<1>2. F \subseteq Cells(f) /\ G \subseteq Cells(g)
  BY DEF Cells
<1>3. Cardinality(F) = f[d] /\ Cardinality(G) = g[d]
  BY CellsOf
<1>4. /\ IsFiniteSet(Cells(f)) /\ Total(f) = Cardinality(Cells(f)) /\ Total(f) \in Nat
      /\ IsFiniteSet(Cells(g)) /\ Total(g) = Cardinality(Cells(g)) /\ Total(g) \in Nat
  BY TotalType
<1> HIDE DEF F, G
<1>5. Cardinality(Cells(f) \ F) = Total(f) - f[d]
  BY <1>2, <1>3, <1>4, CardLeft
<1>6. Cardinality(Cells(g) \ G) = Total(g) - g[d]
  BY <1>2, <1>3, <1>4, CardLeft
<1> QED BY <1>1, <1>4, <1>5, <1>6

(* A sum is at least each of its terms, and 0 only if they all are.        *)
LEMMA TotalTerm ==
  ASSUME NEW D, IsFiniteSet(D), NEW f \in [D -> Nat], NEW d \in D
  PROVE  f[d] <= Total(f)
<1>1. IsFiniteSet(Cells(f)) /\ Total(f) = Cardinality(Cells(f))
  BY TotalType
<1>2. {d} \X (1..f[d]) \in SUBSET Cells(f)
  BY DEF Cells
<1>3. Cardinality({d} \X (1..f[d])) = f[d]
  BY CellsOf
<1>4. Cardinality({d} \X (1..f[d])) <= Cardinality(Cells(f))
  BY <1>1, <1>2, FS_Subset
<1> QED BY <1>1, <1>3, <1>4

LEMMA TotalZero ==
  ASSUME NEW D, IsFiniteSet(D), NEW f \in [D -> Nat]
  PROVE  (\A x \in D : f[x] = 0) <=> Total(f) = 0
<1>1. ASSUME \A x \in D : f[x] = 0 PROVE Total(f) = 0
  <2>1. Cells(f) = {}
    BY <1>1 DEF Cells
  <2> QED BY <2>1, TotalType, FS_EmptySet
<1>2. ASSUME Total(f) = 0 PROVE \A x \in D : f[x] = 0
  BY <1>2, TotalTerm
<1> QED BY <1>1, <1>2

-----------------------------------------------------------------------------
(* How often a directory occurs in a list of mounts.                       *)

Hits(s, d) == {i \in DOMAIN s : s[i].to = d}

LEMMA CountType ==
  ASSUME NEW s \in Seq(Mount), NEW d
  PROVE  /\ IsFiniteSet(Hits(s, d)) /\ Count(s, d) = Cardinality(Hits(s, d))
         /\ Count(s, d) \in Nat
         /\ \A i : i \in Hits(s, d) <=> i \in 1..Len(s) /\ s[i].to = d
<1>1. Len(s) \in Nat /\ DOMAIN s = 1..Len(s)
  BY LenProperties
<1>2. Hits(s, d) \subseteq 1..Len(s) /\ IsFiniteSet(1..Len(s))
  BY <1>1, FS_Interval DEF Hits
<1>3. IsFiniteSet(Hits(s, d))
  BY <1>2, FS_Subset
<1>4. Count(s, d) = Cardinality(Hits(s, d))
  BY DEF Count, Hits
<1>5. Cardinality(Hits(s, d)) \in Nat
  BY <1>3, FS_CardinalityType
<1>6. \A i : i \in Hits(s, d) <=> i \in 1..Len(s) /\ s[i].to = d
  BY <1>1 DEF Hits
<1> QED BY <1>3, <1>4, <1>5, <1>6

(* Lists that mount the same directories in the same places.               *)
LEMMA CountSame ==
  ASSUME NEW s \in Seq(Mount), NEW t \in Seq(Mount), Len(s) = Len(t),
         \A i \in 1..Len(s) : s[i].to = t[i].to, NEW d
  PROVE  Count(s, d) = Count(t, d)
<1>1. \A i : i \in Hits(s, d) <=> i \in Hits(t, d)
  BY CountType
<1>2. Hits(s, d) = Hits(t, d)
  BY <1>1
<1> QED BY <1>2, CountType

LEMMA CountFew ==
  ASSUME NEW d
  PROVE  /\ Count(<<>>, d) = 0
         /\ \A x \in Mount : Count(<<x>>, d) = Is(x.to, d)
<1>1. Count(<<>>, d) = 0
  <2>1. <<>> \in Seq(Mount) /\ Len(<<>>) = 0
    OBVIOUS
  <2>2. Hits(<<>>, d) = {}
    <3>1. \A i : i \in Hits(<<>>, d) <=> i \in 1..0 /\ <<>>[i].to = d
      BY <2>1, CountType
    <3> QED BY <3>1
  <2> QED BY <2>1, <2>2, CountType, FS_EmptySet
<1>2. ASSUME NEW x \in Mount PROVE Count(<<x>>, d) = Is(x.to, d)
  <2>1. <<x>> \in Seq(Mount) /\ Len(<<x>>) = 1 /\ <<x>>[1] = x
    OBVIOUS
  <2>2. \A i : i \in Hits(<<x>>, d) <=> i = 1 /\ x.to = d
    <3> DEFINE s == <<x>>
    <3>1. s \in Seq(Mount) /\ Len(s) = 1 /\ s[1] = x
      BY <2>1
    <3> HIDE DEF s
    <3>2. \A i : i \in Hits(s, d) <=> i \in 1..1 /\ s[i].to = d
      BY <3>1, CountType
    <3>3. \A i : i \in Hits(s, d) <=> i = 1 /\ x.to = d
      BY <3>1, <3>2
    <3> QED BY <3>3 DEF s
  <2>3. CASE x.to = d
    <3>1. Hits(<<x>>, d) = {1}
      BY <2>2, <2>3
    <3> QED BY <2>1, <2>3, <3>1, CountType, FS_Singleton DEF Is
  <2>4. CASE x.to # d
    <3>1. Hits(<<x>>, d) = {}
      BY <2>2, <2>4
    <3> QED BY <2>1, <2>4, <3>1, CountType, FS_EmptySet DEF Is
  <2> QED BY <2>3, <2>4
<1> QED BY <1>1, <1>2

(* Two lists after one another.                                            *)
LEMMA CountConcat ==
  ASSUME NEW s \in Seq(Mount), NEW t \in Seq(Mount), NEW d
  PROVE  /\ s \o t \in Seq(Mount)
         /\ Len(s \o t) = Len(s) + Len(t)
         /\ Count(s \o t, d) = Count(s, d) + Count(t, d)
<1> DEFINE u == s \o t
           m == Len(s)
           n == Len(t)
           A == Hits(s, d)
           B == Hits(t, d)
           C == Hits(u, d)
           f == [i \in B |-> i + m]
<1>1. /\ m \in Nat /\ n \in Nat
      /\ u \in Seq(Mount) /\ Len(u) = m + n
      /\ \A i \in 1..m + n : u[i] = IF i <= m THEN s[i] ELSE t[i - m]
  BY LenProperties, ConcatProperties
<1>2. /\ IsFiniteSet(A) /\ Count(s, d) = Cardinality(A) /\ Count(s, d) \in Nat
      /\ IsFiniteSet(B) /\ Count(t, d) = Cardinality(B) /\ Count(t, d) \in Nat
      /\ IsFiniteSet(C) /\ Count(u, d) = Cardinality(C) /\ Count(u, d) \in Nat
  BY <1>1, CountType
<1>3. /\ \A i : i \in A <=> i \in 1..m /\ s[i].to = d
      /\ \A i : i \in B <=> i \in 1..n /\ t[i].to = d
  BY CountType
<1>c. \A i : i \in C <=> i \in 1..m + n /\ u[i].to = d
  <2> HIDE DEF u
  <2>1. \A i : i \in Hits(u, d) <=> i \in 1..Len(u) /\ u[i].to = d
    BY <1>1, CountType
  <2> QED BY <1>1, <2>1
<1> HIDE DEF u, m, n, A, B, C
<1>4. \A i \in 1..m : i \in 1..m + n /\ u[i] = s[i]
  BY <1>1
<1>5. \A i \in 1..n : i + m \in 1..m + n /\ i + m \notin 1..m /\ u[i + m] = t[i]
  BY <1>1
<1>6. \A i \in 1..m + n : i \in 1..m \/ i - m \in 1..n
  BY <1>1
<1>7. A \subseteq C
  BY <1>3, <1>c, <1>4
<1>8. f \in [B -> C \ A]
  BY <1>3, <1>c, <1>5
<1>9. f \in Injection(B, C \ A)
  <2>1. ASSUME NEW i \in B, NEW j \in B, f[i] = f[j] PROVE i = j
    BY <1>1, <1>3, <2>1
  <2> QED BY <1>8, <2>1 DEF Injection, IsInjective
<1>10. f \in Surjection(B, C \ A)
  <2>1. ASSUME NEW j \in C \ A PROVE \E i \in B : f[i] = j
    <3>1. j \in 1..m + n /\ u[j].to = d /\ j \notin 1..m
      BY <1>3, <1>c, <1>4
    <3>2. j - m \in 1..n /\ j - m + m = j
      BY <1>1, <1>6, <3>1
    <3>3. j - m \in B
      BY <1>3, <1>5, <3>1, <3>2
    <3> QED BY <3>2, <3>3
  <2> QED BY <1>8, <2>1 DEF Surjection
<1>11. ExistsBijection(B, C \ A)
  BY <1>9, <1>10 DEF ExistsBijection, Bijection
<1>12. Cardinality(C \ A) = Count(t, d)
  BY <1>2, <1>11, FS_Bijection
<1>13. Cardinality(C \ A) = Count(u, d) - Count(s, d)
  BY <1>2, <1>7, CardLeft
<1>14. Count(u, d) = Count(s, d) + Count(t, d)
  BY <1>2, <1>12, <1>13
<1> QED BY <1>1, <1>14 DEF u, m, n

(* One mount taken out.                                                    *)
LEMMA CountRemove ==
  ASSUME NEW s \in Seq(Mount), NEW i \in 1..Len(s)
  PROVE  /\ RemoveAt(s, i) \in Seq(Mount)
         /\ Len(RemoveAt(s, i)) = Len(s) - 1
         /\ \A d : Count(RemoveAt(s, i), d) = Count(s, d) - Is(s[i].to, d)
<1> DEFINE a == SubSeq(s, 1, i - 1)
           b == <<s[i]>>
           c == SubSeq(s, i + 1, Len(s))
           r == SubSeq(s, i, Len(s))
<1>1. Len(s) \in Nat /\ i \in Int /\ \A j \in 1..Len(s) : s[j] \in Mount
  BY LenProperties, ElementOfSeq
<1>2. a \in Seq(Mount) /\ Len(a) = i - 1 /\ \A j \in 1..i - 1 : a[j] = s[j]
  <2>1. /\ a \in Seq(Mount) /\ Len(a) = (IF 1 <= i - 1 THEN i - 1 - 1 + 1 ELSE 0)
        /\ \A j \in 1..i - 1 - 1 + 1 : a[j] = s[1 + j - 1]
    BY <1>1, SubSeqProperties
  <2> QED BY <1>1, <2>1
<1>3. c \in Seq(Mount) /\ Len(c) = Len(s) - i /\ \A j \in 1..Len(s) - i : c[j] = s[i + j]
  <2>1. /\ c \in Seq(Mount) /\ Len(c) = (IF i + 1 <= Len(s) THEN Len(s) - (i + 1) + 1 ELSE 0)
        /\ \A j \in 1..Len(s) - (i + 1) + 1 : c[j] = s[i + 1 + j - 1]
    BY <1>1, SubSeqProperties
  <2> QED BY <1>1, <2>1
<1>4. b \in Seq(Mount) /\ Len(b) = 1 /\ b[1] = s[i] /\ s[i] \in Mount
  BY <1>1
<1>5. RemoveAt(s, i) = a \o c
  BY DEF RemoveAt
<1> HIDE DEF a, b, c
<1>6. /\ a \o c \in Seq(Mount) /\ Len(a \o c) = Len(a) + Len(c)
      /\ \A d : Count(a \o c, d) = Count(a, d) + Count(c, d)
  BY <1>2, <1>3, CountConcat
<1>7. /\ b \o c \in Seq(Mount) /\ Len(b \o c) = Len(b) + Len(c)
      /\ \A d : Count(b \o c, d) = Count(b, d) + Count(c, d)
      /\ \A j \in 1..Len(b) + Len(c) : (b \o c)[j] = IF j <= Len(b) THEN b[j] ELSE c[j - Len(b)]
  <2>0. b \in Seq(Mount) /\ c \in Seq(Mount)
    BY <1>3, <1>4
  <2>1. \A d : /\ b \o c \in Seq(Mount) /\ Len(b \o c) = Len(b) + Len(c)
              /\ Count(b \o c, d) = Count(b, d) + Count(c, d)
    BY <2>0, CountConcat
  <2>2. \A j \in 1..Len(b) + Len(c) : (b \o c)[j] = IF j <= Len(b) THEN b[j] ELSE c[j - Len(b)]
    BY <1>3, <1>4, ConcatProperties
  <2> QED BY <2>1, <2>2
<1>8. /\ a \o (b \o c) \in Seq(Mount) /\ Len(a \o (b \o c)) = Len(a) + Len(b \o c)
      /\ \A d : Count(a \o (b \o c), d) = Count(a, d) + Count(b \o c, d)
      /\ \A j \in 1..Len(a) + Len(b \o c) :
           (a \o (b \o c))[j] = IF j <= Len(a) THEN a[j] ELSE (b \o c)[j - Len(a)]
  <2> DEFINE e == b \o c
  <2>1. e \in Seq(Mount)
    BY <1>7
  <2> HIDE DEF e
  <2>2. \A d : /\ a \o e \in Seq(Mount) /\ Len(a \o e) = Len(a) + Len(e)
              /\ Count(a \o e, d) = Count(a, d) + Count(e, d)
    BY <1>2, <2>1, CountConcat
  <2>3. \A j \in 1..Len(a) + Len(e) : (a \o e)[j] = IF j <= Len(a) THEN a[j] ELSE e[j - Len(a)]
    BY <1>2, <2>1, ConcatProperties
  <2> QED BY <2>2, <2>3 DEF e
<1>9. s = a \o (b \o c)
  <2>1. Len(s) = Len(a \o (b \o c))
    BY <1>1, <1>2, <1>3, <1>4, <1>7, <1>8
  <2>2. ASSUME NEW j \in 1..Len(s) PROVE s[j] = (a \o (b \o c))[j]
    <3>1. j \in 1..Len(a) + Len(b \o c)
      BY <1>8, <2>1
    <3>2. CASE j <= i - 1
      BY <1>1, <1>2, <1>8, <3>1, <3>2
    <3>3. CASE j = i
      <4>1. (b \o c)[1] = s[i]
        BY <1>1, <1>3, <1>4, <1>7
      <4>2. ~(j <= Len(a)) /\ j - Len(a) = 1
        BY <1>1, <1>2, <3>3
      <4> QED BY <1>8, <3>1, <3>3, <4>1, <4>2
    <3>4. CASE j > i
      <4> DEFINE k == j - (i - 1)
      <4>1. k \in 1..Len(b) + Len(c) /\ ~(k <= 1) /\ k - 1 \in 1..Len(s) - i /\ i + (k - 1) = j
        BY <1>1, <1>3, <1>4, <3>4
      <4>2. (b \o c)[k] = c[k - 1] /\ c[k - 1] = s[i + (k - 1)]
        <5> HIDE DEF k
        <5> QED BY <1>3, <1>4, <1>7, <4>1
      <4>3. ~(j <= Len(a)) /\ j - Len(a) = k
        BY <1>1, <1>2, <3>4
      <4> HIDE DEF k
      <4>4. (a \o (b \o c))[j] = (b \o c)[k]
        BY <1>8, <3>1, <4>3
      <4>5. (b \o c)[k] = s[j]
        BY <4>1, <4>2, Zenon
      <4> QED BY <4>4, <4>5
    <3>5. j <= i - 1 \/ j = i \/ j > i
      BY <1>1
    <3> QED BY <3>2, <3>3, <3>4, <3>5
  <2> QED BY <1>8, <2>1, <2>2, SeqEqual
<1>10. ASSUME NEW d PROVE Count(a \o c, d) = Count(s, d) - Is(s[i].to, d)
  <2>1. Count(b, d) = Is(s[i].to, d)
    BY <1>4, CountFew DEF b
  <2>2. Count(s, d) = Count(a, d) + (Count(b, d) + Count(c, d))
    BY <1>7, <1>8, <1>9, Zenon
  <2>3. Count(a, d) \in Nat /\ Count(b, d) \in Nat /\ Count(c, d) \in Nat
    BY <1>2, <1>3, <1>4, CountType
  <2>4. Count(a \o c, d) = Count(a, d) + Count(c, d)
    BY <1>6, Zenon
  <2> QED BY <2>1, <2>2, <2>3, <2>4
<1>11. Len(a \o c) = Len(s) - 1
  BY <1>1, <1>2, <1>3, <1>6
<1> QED BY <1>5, <1>6, <1>10, <1>11, Zenon

-----------------------------------------------------------------------------
(* References: what a step changes of them.                                *)

LEMMA Finite == IsFiniteSet(Proc) /\ IsFiniteSet(Dir) /\ IsFiniteSet(Mhead)
BY NameAssumption

LEMMA IsType == \A x, y : Is(x, y) \in Nat /\ (x = y => Is(x, y) = 1) /\ (x # y => Is(x, y) = 0)
BY DEF Is

LEMMA ChanArithmetic ==
  ASSUME NEW f \in [Dir -> Int], NEW x \in Dir \cup {Nil}
  PROVE  /\ cclose(f, x) \in [Dir -> Int] /\ Incref(f, x) \in [Dir -> Int]
         /\ \A d \in Dir : cclose(f, x)[d] = f[d] - Is(x, d)
         /\ \A d \in Dir : Incref(f, x)[d] = f[d] + Is(x, d)
<1>1. CASE x = Nil
  <2>1. cclose(f, x) = f /\ Incref(f, x) = f
    BY <1>1 DEF cclose, Incref
  <2>2. \A d \in Dir : Is(x, d) = 0 /\ f[d] \in Int
    BY <1>1, NameAssumption DEF Is
  <2> QED BY <2>1, <2>2
<1>2. CASE x # Nil
  <2>1. cclose(f, x) = [f EXCEPT ![x] = @ - 1] /\ Incref(f, x) = [f EXCEPT ![x] = @ + 1]
    BY <1>2 DEF cclose, Incref
  <2> QED BY <1>2, <2>1 DEF Is
<1> QED BY <1>1, <1>2

LEMMA HeadArithmetic ==
  ASSUME NEW f \in [Mhead -> Int], NEW x \in Mhead \cup {Nil}
  PROVE  /\ putmhead(f, x) \in [Mhead -> Int]
         /\ \A h \in Mhead : putmhead(f, x)[h] = f[h] - Is(x, h)
<1>1. CASE x = Nil
  <2>1. putmhead(f, x) = f
    BY <1>1 DEF putmhead
  <2>2. \A h \in Mhead : Is(x, h) = 0 /\ f[h] \in Int
    BY <1>1, NameAssumption DEF Is
  <2> QED BY <2>1, <2>2
<1>2. CASE x # Nil
  <2>1. putmhead(f, x) = [f EXCEPT ![x] = @ - 1]
    BY <1>2 DEF putmhead
  <2> QED BY <1>2, <2>1 DEF Is
<1> QED BY <1>1, <1>2

LEMMA ListArithmetic ==
  ASSUME NEW f \in [Dir -> Int], NEW s \in Seq(Mount)
  PROVE  /\ mountfree(f, s) \in [Dir -> Int] /\ Held(f, s) \in [Dir -> Int]
         /\ \A d \in Dir : mountfree(f, s)[d] = f[d] - Count(s, d)
         /\ \A d \in Dir : Held(f, s)[d] = f[d] + Count(s, d)
<1>1. \A d : Count(s, d) \in Nat
  BY CountType
<1> QED BY <1>1 DEF mountfree, Held

(* The table.                                                              *)
LEMMA TableSum ==
  ASSUME table \in [Dir -> Mhead \cup {Nil}], NEW d \in Dir, NEW x,
         table' = [table EXCEPT ![d] = x], NEW h
  PROVE  /\ Cardinality({e \in Dir : table[e] = h}) \in Nat
         /\ Cardinality({e \in Dir : table'[e] = h})
              = Cardinality({e \in Dir : table[e] = h}) - Is(table[d], h) + Is(x, h)
<1> DEFINE S == {e \in Dir : table[e] = h}
           T == {e \in Dir : table'[e] = h}
           R == {e \in Dir \ {d} : table[e] = h}
<1>1. /\ IsFiniteSet(R) /\ IsFiniteSet(S) /\ IsFiniteSet(T)
  BY Finite, FS_Subset
<1>2. /\ Cardinality(R) \in Nat /\ Cardinality(S) \in Nat
      /\ Cardinality(R \cup {d}) = Cardinality(R) + 1
  BY <1>1, FS_CardinalityType, FS_AddElement
<1>3. S = IF table[d] = h THEN R \cup {d} ELSE R
  OBVIOUS
<1>4. T = IF x = h THEN R \cup {d} ELSE R
  OBVIOUS
<1> HIDE DEF S, T, R
<1>5. Cardinality(S) = Cardinality(R) + Is(table[d], h)
  <2>1. CASE table[d] = h
    BY <1>2, <1>3, <2>1 DEF Is
  <2>2. CASE table[d] # h
    BY <1>2, <1>3, <2>2 DEF Is
  <2> QED BY <2>1, <2>2
<1>6. Cardinality(T) = Cardinality(R) + Is(x, h)
  <2>1. CASE x = h
    BY <1>2, <1>4, <2>1 DEF Is
  <2>2. CASE x # h
    BY <1>2, <1>4, <2>2 DEF Is
  <2> QED BY <2>1, <2>2
<1>7. Cardinality(T) = Cardinality(S) - Is(table[d], h) + Is(x, h)
  BY <1>2, <1>5, <1>6, IsType
<1> QED BY <1>2, <1>7 DEF S, T

LEMMA HeldByType == \A p, h : HeldBy(p, h) \in Nat /\ HeldBy(p, h)' \in Nat
<1>1. ASSUME NEW p, NEW h PROVE HeldBy(p, h) \in Nat /\ HeldBy(p, h)' \in Nat
  <2>1. /\ Is(me[p].m, h) \in Nat /\ Is(me[p].mh, h) \in Nat /\ Is(me[p].h, h) \in Nat
        /\ Is(me'[p].m, h) \in Nat /\ Is(me'[p].mh, h) \in Nat /\ Is(me'[p].h, h) \in Nat
    BY IsType
  <2> QED BY <2>1 DEF HeldBy
<1> QED BY <1>1

(* What the calls under way hold of a head.                                *)
LEMMA HeldSum ==
  ASSUME NEW p \in Proc, \A r \in Proc \ {p} : me'[r] = me[r] /\ pc'[r] = pc[r], NEW h
  PROVE  /\ Total([r \in Proc |-> HeldBy(r, h)]) \in Nat
         /\ Total([r \in Proc |-> HeldBy(r, h)])'
              = Total([r \in Proc |-> HeldBy(r, h)]) - HeldBy(p, h) + HeldBy(p, h)'
<1> DEFINE F == [r \in Proc |-> HeldBy(r, h)]
           G == [r \in Proc |-> HeldBy(r, h)']
<1>1. F \in [Proc -> Nat] /\ G \in [Proc -> Nat]
  BY HeldByType
<1>2. \A r \in Proc \ {p} : G[r] = F[r]
  BY DEF HeldBy
<1>3. F[p] = HeldBy(p, h) /\ G[p] = HeldBy(p, h)'
  OBVIOUS
<1> HIDE DEF F, G
<1>4. Total(G) = Total(F) - F[p] + G[p]
  BY <1>1, <1>2, Finite, TotalExcept
<1>5. Total(F) \in Nat
  BY <1>1, Finite, TotalType
<1> QED BY <1>3, <1>4, <1>5 DEF F, G

LEMMA HeadsMoved ==
  ASSUME NEW p \in Proc, \A r \in Proc \ {p} : me'[r] = me[r] /\ pc'[r] = pc[r],
         table \in [Dir -> Mhead \cup {Nil}], NEW h
  PROVE  /\ HeadRefs(h) \in Nat
         /\ table' = table => HeadRefs(h)' = HeadRefs(h) - HeldBy(p, h) + HeldBy(p, h)'
         /\ \A d \in Dir : \A x : table' = [table EXCEPT ![d] = x] =>
              HeadRefs(h)' = HeadRefs(h) - HeldBy(p, h) + HeldBy(p, h)' - Is(table[d], h) + Is(x, h)
<1> DEFINE A == Cardinality({e \in Dir : table[e] = h})
           B == Total([r \in Proc |-> HeldBy(r, h)])
<1>1. HeadRefs(h) = A + B /\ HeadRefs(h)' = A' + B'
  BY DEF HeadRefs
<1>2. A \in Nat
  BY Finite, FS_Subset, FS_CardinalityType
<1>3. B \in Nat /\ B' = B - HeldBy(p, h) + HeldBy(p, h)'
  BY HeldSum
<1>4. table' = table => A' = A
  OBVIOUS
<1>5. ASSUME NEW d \in Dir, NEW x, table' = [table EXCEPT ![d] = x]
      PROVE  A' = A - Is(table[d], h) + Is(x, h)
  BY <1>5, TableSum
<1> HIDE DEF A, B
<1>6. HeadRefs(h) \in Nat
  BY <1>1, <1>2, <1>3
<1>7. HeldBy(p, h) \in Nat /\ HeldBy(p, h)' \in Nat
  BY HeldByType
<1>8. ASSUME table' = table
      PROVE  HeadRefs(h)' = HeadRefs(h) - HeldBy(p, h) + HeldBy(p, h)'
  BY <1>1, <1>2, <1>3, <1>4, <1>7, <1>8
<1>9. ASSUME NEW d \in Dir, NEW x, table' = [table EXCEPT ![d] = x]
      PROVE  HeadRefs(h)' = HeadRefs(h) - HeldBy(p, h) + HeldBy(p, h)' - Is(table[d], h) + Is(x, h)
  <2>1. A' = A - Is(table[d], h) + Is(x, h)
    BY <1>5, <1>9
  <2>2. Is(table[d], h) \in Nat /\ Is(x, h) \in Nat
    BY IsType
  <2> QED BY <1>1, <1>2, <1>3, <1>7, <2>1, <2>2
<1> QED BY <1>6, <1>8, <1>9

(* Everyone's part of the references to a channel.                         *)
LEMMA CopiedType ==
  ASSUME NEW t \in [Dir -> Seq(Mount)], NEW d
  PROVE  /\ [e \in Dir |-> Count(t[e], d)] \in [Dir -> Nat]
         /\ Total([e \in Dir |-> Count(t[e], d)]) \in Nat
         /\ Copied(t, d) \in Nat
<1>1. [e \in Dir |-> Count(t[e], d)] \in [Dir -> Nat]
  BY CountType
<1>2. Total([e \in Dir |-> Count(t[e], d)]) \in Nat
  BY <1>1, Finite, TotalType
<1> QED BY <1>1, <1>2 DEF Copied

LEMMA CopiedNone == \A d \in Dir : Copied(NoCopy, d) = 0
<1>1. ASSUME NEW d \in Dir PROVE Copied(NoCopy, d) = 0
  <2>1. NoCopy \in [Dir -> Seq(Mount)] /\ \A e \in Dir : NoCopy[e] = <<>>
    BY DEF NoCopy
  <2>2. \A e \in Dir : Count(NoCopy[e], d) = 0
    BY <2>1, CountFew
  <2> DEFINE f == [e \in Dir |-> Count(NoCopy[e], d)]
  <2>3. f \in [Dir -> Nat] /\ \A e \in Dir : f[e] = 0
    BY <2>2
  <2> HIDE DEF f
  <2>4. Total(f) = 0
    BY <2>3, Finite, TotalZero
  <2> QED BY <2>1, <2>4 DEF Copied, f
<1> QED BY <1>1

(* A list copied into an empty place.                                      *)
LEMMA CopiedOne ==
  ASSUME NEW t \in [Dir -> Seq(Mount)], NEW e \in Dir, t[e] = <<>>,
         NEW s \in Seq(Mount), s # <<>>, NEW d \in Dir
  PROVE  Copied([t EXCEPT ![e] = s], d) = Copied(t, d) + Count(s, d) + Is(e, d)
<1> DEFINE u == [t EXCEPT ![e] = s]
           f == [x \in Dir |-> Count(t[x], d)]
           g == [x \in Dir |-> Count(u[x], d)]
<1>1. u \in [Dir -> Seq(Mount)] /\ u[e] = s /\ \A x \in Dir \ {e} : u[x] = t[x]
  OBVIOUS
<1> HIDE DEF u
<1>2. f \in [Dir -> Nat] /\ g \in [Dir -> Nat] /\ Total(f) \in Nat
  BY <1>1, CopiedType
<1>3. f[e] = 0 /\ g[e] = Count(s, d) /\ \A x \in Dir \ {e} : g[x] = f[x]
  BY <1>1, CountFew
<1>4. Copied(t, d) = Total(f) + (IF t[d] = <<>> THEN 0 ELSE 1)
  BY DEF Copied
<1>5. Copied(u, d) = Total(g) + (IF u[d] = <<>> THEN 0 ELSE 1)
  BY DEF Copied
<1> HIDE DEF f, g
<1>6. Total(g) = Total(f) - f[e] + g[e]
  BY <1>2, <1>3, Finite, TotalExcept
<1>7. Count(s, d) \in Nat
  BY CountType
<1>8. (IF u[d] = <<>> THEN 0 ELSE 1) = (IF t[d] = <<>> THEN 0 ELSE 1) + Is(e, d)
  BY <1>1 DEF Is
<1>9. Total(g) = Total(f) + Count(s, d)
  BY <1>2, <1>3, <1>6, <1>7
<1>10. (IF t[d] = <<>> THEN 0 ELSE 1) \in Nat /\ Is(e, d) \in Nat
  BY IsType
<1>11. Copied(u, d) = Copied(t, d) + Count(s, d) + Is(e, d)
  BY <1>2, <1>4, <1>5, <1>7, <1>8, <1>9, <1>10
<1> QED BY <1>11 DEF u

(* Numbering the mounts of a copy changes nothing.                         *)
LEMMA CopiedSame ==
  ASSUME NEW t \in [Dir -> Seq(Mount)], NEW u \in [Dir -> Seq(Mount)],
         \A e \in Dir : /\ Len(u[e]) = Len(t[e])
                        /\ \A i \in 1..Len(t[e]) : u[e][i].to = t[e][i].to,
         NEW d \in Dir
  PROVE  Copied(u, d) = Copied(t, d)
<1>1. ASSUME NEW e \in Dir PROVE Count(u[e], d) = Count(t[e], d)
  BY CountSame
<1>2. [e \in Dir |-> Count(u[e], d)] = [e \in Dir |-> Count(t[e], d)]
  BY <1>1
<1>3. u[d] = <<>> <=> t[d] = <<>>
  <2>1. \A s \in Seq(Mount) : s = <<>> <=> Len(s) = 0
    BY EmptySeq
  <2> QED BY <2>1
<1> QED BY <1>2, <1>3 DEF Copied

LEMMA UsingType ==
  ASSUME NEW p \in Proc, NEW d
  PROVE  /\ me \in [Proc -> Locals] /\ copy \in [Proc -> [Dir -> Seq(Mount)]] => Using(p, d) \in Nat
         /\ me' \in [Proc -> Locals] /\ copy' \in [Proc -> [Dir -> Seq(Mount)]] => Using(p, d)' \in Nat
<1>1. ASSUME me \in [Proc -> Locals], copy \in [Proc -> [Dir -> Seq(Mount)]]
      PROVE  Using(p, d) \in Nat
  <2>1. me[p].add \in Seq(Mount) /\ copy[p] \in [Dir -> Seq(Mount)]
    BY <1>1 DEF Locals
  <2>2. Count(me[p].add, d) \in Nat /\ Copied(copy[p], d) \in Nat
    BY <2>1, CountType, CopiedType
  <2>3. Is(me[p].b, d) \in Nat /\ Is(me[p].c, d) \in Nat /\ Is(me[p].new, d) \in Nat
    BY IsType
  <2> QED BY <2>2, <2>3 DEF Using
<1>2. ASSUME me' \in [Proc -> Locals], copy' \in [Proc -> [Dir -> Seq(Mount)]]
      PROVE  Using(p, d)' \in Nat
  <2>1. me'[p].add \in Seq(Mount) /\ copy'[p] \in [Dir -> Seq(Mount)]
    BY <1>2 DEF Locals
  <2>2. Count(me'[p].add, d) \in Nat /\ Copied(copy'[p], d) \in Nat
    BY <2>1, CountType, CopiedType
  <2>3. Is(me'[p].b, d) \in Nat /\ Is(me'[p].c, d) \in Nat /\ Is(me'[p].new, d) \in Nat
    BY IsType
  <2> QED BY <2>2, <2>3 DEF Using
<1> QED BY <1>1, <1>2

LEMMA UsingSum ==
  ASSUME NEW p \in Proc, NEW d,
         \A r \in Proc : Using(r, d) \in Nat /\ Using(r, d)' \in Nat,
         \A r \in Proc \ {p} : Using(r, d)' = Using(r, d)
  PROVE  /\ Total([r \in Proc |-> Using(r, d)]) \in Nat
         /\ Total([r \in Proc |-> Using(r, d)])'
              = Total([r \in Proc |-> Using(r, d)]) - Using(p, d) + Using(p, d)'
<1> DEFINE F == [r \in Proc |-> Using(r, d)]
           G == [r \in Proc |-> Using(r, d)']
<1>1. F \in [Proc -> Nat] /\ G \in [Proc -> Nat]
  OBVIOUS
<1>2. \A r \in Proc \ {p} : G[r] = F[r]
  OBVIOUS
<1>3. F[p] = Using(p, d) /\ G[p] = Using(p, d)'
  OBVIOUS
<1> HIDE DEF F, G
<1>4. Total(G) = Total(F) - F[p] + G[p]
  BY <1>1, <1>2, Finite, TotalExcept
<1>5. Total(F) \in Nat
  BY <1>1, Finite, TotalType
<1> QED BY <1>3, <1>4, <1>5 DEF F, G

LEMMA LinkedType ==
  ASSUME NEW h \in Mhead, NEW d
  PROVE  /\ list \in [Mhead -> Seq(Mount)] => Linked(h, d) \in Nat
         /\ list' \in [Mhead -> Seq(Mount)] => Linked(h, d)' \in Nat
<1>1. ASSUME list \in [Mhead -> Seq(Mount)] PROVE Linked(h, d) \in Nat
  <2>1. Count(list[h], d) \in Nat /\ Is(from[h], d) \in Nat
    BY <1>1, CountType, IsType
  <2> QED BY <2>1 DEF Linked
<1>2. ASSUME list' \in [Mhead -> Seq(Mount)] PROVE Linked(h, d)' \in Nat
  <2>1. Count(list'[h], d) \in Nat /\ Is(from'[h], d) \in Nat
    BY <1>2, CountType, IsType
  <2> QED BY <2>1 DEF Linked
<1> QED BY <1>1, <1>2

LEMMA LinkedSum ==
  ASSUME NEW h \in Mhead, NEW d,
         \A g \in Mhead : Linked(g, d) \in Nat /\ Linked(g, d)' \in Nat,
         \A g \in Mhead \ {h} : Linked(g, d)' = Linked(g, d)
  PROVE  /\ Total([g \in Mhead |-> Linked(g, d)]) \in Nat
         /\ Total([g \in Mhead |-> Linked(g, d)])'
              = Total([g \in Mhead |-> Linked(g, d)]) - Linked(h, d) + Linked(h, d)'
<1> DEFINE F == [g \in Mhead |-> Linked(g, d)]
           G == [g \in Mhead |-> Linked(g, d)']
<1>1. F \in [Mhead -> Nat] /\ G \in [Mhead -> Nat]
  OBVIOUS
<1>2. \A g \in Mhead \ {h} : G[g] = F[g]
  OBVIOUS
<1>3. F[h] = Linked(h, d) /\ G[h] = Linked(h, d)'
  OBVIOUS
<1> HIDE DEF F, G
<1>4. Total(G) = Total(F) - F[h] + G[h]
  BY <1>1, <1>2, Finite, TotalExcept
<1>5. Total(F) \in Nat
  BY <1>1, Finite, TotalType
<1> QED BY <1>3, <1>4, <1>5 DEF F, G

(* What one step of p, and with it of one head, does to all of them.       *)
Typed == /\ me \in [Proc -> Locals] /\ copy \in [Proc -> [Dir -> Seq(Mount)]]
         /\ list \in [Mhead -> Seq(Mount)]

LEMMA ChanMoved ==
  ASSUME Typed, Typed', NEW p \in Proc,
         \A r \in Proc \ {p} : me'[r] = me[r] /\ copy'[r] = copy[r], NEW d
  PROVE  /\ ChanRefs(d) \in Nat
         /\ list' = list /\ from' = from =>
              ChanRefs(d)' = ChanRefs(d) - Using(p, d) + Using(p, d)'
         /\ \A h \in Mhead :
              (\A g \in Mhead \ {h} : list'[g] = list[g] /\ from'[g] = from[g]) =>
                ChanRefs(d)' = ChanRefs(d) - Using(p, d) + Using(p, d)'
                                           - Linked(h, d) + Linked(h, d)'
<1> DEFINE A == Total([g \in Mhead |-> Linked(g, d)])
           B == Total([r \in Proc |-> Using(r, d)])
<1>1. ChanRefs(d) = A + B /\ ChanRefs(d)' = A' + B'
  BY DEF ChanRefs
<1>2. \A r \in Proc : Using(r, d) \in Nat /\ Using(r, d)' \in Nat
  BY UsingType DEF Typed
<1>3. \A g \in Mhead : Linked(g, d) \in Nat /\ Linked(g, d)' \in Nat
  BY LinkedType DEF Typed
<1>4. \A r \in Proc \ {p} : Using(r, d)' = Using(r, d)
  BY DEF Using
<1>5. B \in Nat /\ B' = B - Using(p, d) + Using(p, d)'
  <2> HIDE DEF Typed, B
  <2> QED BY <1>2, <1>4, UsingSum DEF B
<1>6. A \in Nat
  <2>1. [g \in Mhead |-> Linked(g, d)] \in [Mhead -> Nat]
    BY <1>3
  <2> QED BY <2>1, Finite, TotalType
<1>7. list' = list /\ from' = from => A' = A
  BY DEF Linked
<1>8. ASSUME NEW h \in Mhead, \A g \in Mhead \ {h} : list'[g] = list[g] /\ from'[g] = from[g]
      PROVE  A' = A - Linked(h, d) + Linked(h, d)'
  <2>1. \A g \in Mhead \ {h} : Linked(g, d)' = Linked(g, d)
    BY <1>8 DEF Linked
  <2> QED BY <1>3, <2>1, LinkedSum
<1> HIDE DEF A, B
<1>9. ChanRefs(d) \in Nat
  BY <1>1, <1>5, <1>6
<1>10. ASSUME list' = list, from' = from
       PROVE  ChanRefs(d)' = ChanRefs(d) - Using(p, d) + Using(p, d)'
  BY <1>1, <1>2, <1>5, <1>6, <1>7, <1>10
<1>11. ASSUME NEW h \in Mhead, \A g \in Mhead \ {h} : list'[g] = list[g] /\ from'[g] = from[g]
       PROVE  ChanRefs(d)' = ChanRefs(d) - Using(p, d) + Using(p, d)' - Linked(h, d) + Linked(h, d)'
  <2>1. A' = A - Linked(h, d) + Linked(h, d)'
    BY <1>8, <1>11
  <2> QED BY <1>1, <1>2, <1>3, <1>5, <1>6, <2>1
<1> QED BY <1>9, <1>10, <1>11

-----------------------------------------------------------------------------
(* Where a process is, and what it has in its variables there.             *)

Binding == {"bind.ns", "bind.lk", "bind.copy"}
Forking == {"fork.ns", "fork", "forked", "group"}
Inside  == {"check", "umh", "walk", "union", "createdir", "create", "undo", "undone",
            "opened", "reading", "read"}
Keeps   == {"bind", "unmount", "create"}

(* The system call that is under way there.                                *)
Serves(l, o) ==
  /\ l \in {"find", "findlk"} => o \in {"bind", "unmount", "walk", "open", "create"}
  /\ l \in {"walk", "union"} => o \in {"walk", "create"}
  /\ l \in {"createdir", "create"} => o = "create"
  /\ l \in {"undo", "undone"} => o = "dotdot"
  /\ l = "umh" => o \in {"open", "unmount"}
  /\ l \in {"opened", "reading", "read"} => o = "open"
  /\ l \in Binding \cup {"check"} => o = "bind"
  /\ l \in {"um.ns", "um.lk", "um.free"} => o = "unmount"
  /\ l \in Forking => o = "fork"

(* Its channels and mount heads.                                           *)
Chans(l, v) ==
  /\ v.call.op \in Keeps => v.b = v.call.b
  /\ v.call.op \notin Keeps => v.b = Nil
  /\ l \in Binding \cup Forking \cup {"um.free"} => v.c = Nil
  /\ l \in Inside => v.c # Nil
  /\ l \in {"find", "findlk"} => v.c # Nil \/ v.call.op = "create"
  /\ l \in Binding => v.new # Nil
  /\ l \notin Binding \cup {"back"} => v.new = Nil /\ v.mh = Nil
  /\ l \in {"find", "findlk", "undo", "undone"} \cup Binding \cup Forking => v.m = Nil
  /\ l \in {"union", "reading", "create"} => v.m # Nil
  /\ l # "bind.copy" => v.add = <<>>

(* A create goes back to the mount point once, and once more if create(5)  *)
(* failed, to open the file then.                                          *)
Tries(l, v) ==
  /\ v.retry => v.call.op = "create"
  /\ v.res = "exists" => v.retry
  /\ l \in {"createdir", "create"} => ~v.retry
  /\ l \in {"find", "findlk"} /\ v.c = Nil => ~v.retry

Free(v) == /\ v.b = Nil /\ v.c = Nil /\ v.m = Nil /\ v.new = Nil /\ v.mh = Nil /\ v.add = <<>>

Placed(p) ==
  /\ pc[p] = "idle" => Free(me[p])
  /\ pc[p] # "idle" => /\ me[p].call \in Call
                       /\ Serves(pc[p], me[p].call.op)
                       /\ Chans(pc[p], me[p])
                       /\ Tries(pc[p], me[p])
  /\ pc[p] \notin {"fork", "forked", "group"} => copy[p] = NoCopy

(* TypeOK, but that the counts may be negative.                            *)
Shapes ==
  /\ table \in [Dir -> Mhead \cup {Nil}]
  /\ from \in [Mhead -> Dir \cup {Nil}]
  /\ list \in [Mhead -> Seq(Mount)]
  /\ href \in [Mhead -> Int]
  /\ lock \in [Mhead \cup {"ns"} -> [r : SUBSET Proc, w : Proc \cup {Nil}]]
  /\ chan \in [Dir -> Int] /\ mountid \in Nat /\ has \subseteq Dir
  /\ pc \in [Proc -> PC] /\ me \in [Proc -> Locals]
  /\ calls \in 0..MaxCalls
  /\ copy \in [Proc -> [Dir -> Seq(Mount)]]
  /\ changed \in [Proc -> BOOLEAN] /\ wild \in BOOLEAN

(* A head is found by those that hold ns, and stays where they found it.   *)
Located(p) ==
  /\ pc[p] = "findlk" => me[p].h # Nil /\ table[Key(p)] = me[p].h
  /\ pc[p] \in {"bind.lk", "bind.copy", "um.lk"} => me[p].h # Nil /\ table[me[p].b] = me[p].h
  /\ pc[p] = "bind.copy" => me[p].add # <<>>
  /\ pc[p] = "um.free" => /\ me[p].h # Nil /\ from[me[p].h] = me[p].b
                          /\ \A d \in Dir : table[d] # me[p].h

(* A head is known by the name it is found by, until it is freed; it is    *)
(* empty only while a bind that made it, or replaces what it has, fills it.*)
Headed ==
  /\ \A d \in Dir : table[d] # Nil => from[table[d]] = d
  /\ \A h \in Mhead : from[h] # Nil =>
       table[from[h]] = h \/ \E p \in Proc : pc[p] = "um.free" /\ me[p].h = h
  /\ \A h \in Mhead : list[h] # <<>> => from[h] # Nil
  /\ \A d \in Dir : table[d] # Nil /\ list[table[d]] = <<>> =>
       \E p \in Proc : pc[p] \in {"bind.lk", "bind.copy"} /\ me[p].h = table[d]

(* Who has which lock.                                                     *)
Locks == Mhead \cup {"ns"}

Reads(l, v, x)  == IF x = "ns" THEN l \in {"findlk", "undone"}
                   ELSE l \in {"union", "reading"} /\ v.m = x
Writes(l, v, x) == IF x = "ns" THEN l \in {"bind.lk", "um.lk", "fork", "forked"}
                   ELSE l \in {"bind.copy", "um.free"} /\ v.h = x

Locking(p) == \A x \in Locks : /\ p \in lock[x].r <=> Reads(pc[p], me[p], x)
                               /\ lock[x].w = p <=> Writes(pc[p], me[p], x)

Exclusive == \A x \in Locks : lock[x].w # Nil => lock[x].r = {}

Control == /\ Shapes /\ Exclusive /\ Headed
           /\ \A p \in Proc : Placed(p) /\ Locking(p) /\ Located(p)

LEMMA Names ==
  /\ Nil \notin Proc /\ Nil \notin Dir /\ Nil \notin Mhead /\ Nil # "ns" /\ "ns" \notin Mhead
BY NameAssumption

LEMMA CallFacts ==
  ASSUME NEW a \in Call
  PROVE  /\ a \in Calls /\ a.op \in Ops /\ a.b \in Dir /\ a.x \in Dir \cup {Nil}
         /\ a.x = Nil => a.op \notin {"bind", "dotdot"}
         /\ a.mcreate \in BOOLEAN /\ a.excl \in BOOLEAN
BY CallAssumption DEF Calls

(* The fields of a process's variables.                                    *)
LEMMA LocalFacts ==
  ASSUME me \in [Proc -> Locals], NEW p \in Proc
  PROVE  LET v == me[p]
         IN  /\ v \in Locals
             /\ v.b \in Dir \cup {Nil} /\ v.c \in Dir \cup {Nil} /\ v.m \in Mhead \cup {Nil}
             /\ v.new \in Dir \cup {Nil} /\ v.mh \in Mhead \cup {Nil} /\ v.h \in Mhead \cup {Nil}
             /\ v.add \in Seq(Mount) /\ v.um \in Seq(Mount) /\ v.retry \in BOOLEAN
             /\ v.res \in {"none", "exists", "nocreate"} /\ v.call \in Calls \cup {Nil}
BY DEF Locals

LEMMA IdleFacts ==
  /\ Idle \in Locals /\ Free(Idle)
  /\ \A e \in {"none", "exists", "nocreate"} :
       [Idle EXCEPT !.res = e] \in Locals /\ Free([Idle EXCEPT !.res = e])
<1>1. <<>> \in Seq(Mount)
  OBVIOUS
<1> QED BY <1>1 DEF Idle, Locals, Free

(* What holds of the process that steps.                                   *)
LEMMA Here ==
  ASSUME Control, NEW p \in Proc
  PROVE  /\ pc[p] \in PC /\ me[p] \in Locals
         /\ Placed(p) /\ Locking(p) /\ Located(p)
         /\ pc[p] # "idle" => me[p].call \in Calls /\ me[p].call.b \in Dir
                              /\ me[p].call.x \in Dir \cup {Nil} /\ me[p].call.op \in Ops
<1>1. pc[p] \in PC /\ me[p] \in Locals /\ Placed(p) /\ Locking(p) /\ Located(p)
  BY DEF Control, Shapes
<1> QED BY <1>1, CallFacts DEF Placed

-----------------------------------------------------------------------------
(* Every step leaves a process in a place it may be in.                    *)

Others(p) == \A r \in Proc \ {p} : pc'[r] = pc[r] /\ me'[r] = me[r] /\ copy'[r] = copy[r]

Moves(p) == /\ Others(p)
            /\ pc' \in [Proc -> PC] /\ me' \in [Proc -> Locals]
            /\ copy' \in [Proc -> [Dir -> Seq(Mount)]]

LEMMA Moved ==
  ASSUME Shapes, NEW p \in Proc, NEW l \in PC, NEW v \in Locals, copy' = copy,
         pc' = [pc EXCEPT ![p] = l], me' = [me EXCEPT ![p] = v]
  PROVE  Moves(p) /\ pc'[p] = l /\ me'[p] = v /\ copy'[p] = copy[p]
BY DEF Shapes, Moves, Others

LEMMA Gone ==
  ASSUME Shapes, NEW p \in Proc, NEW l \in PC, copy' = copy,
         pc' = [pc EXCEPT ![p] = l], me' = me
  PROVE  Moves(p) /\ pc'[p] = l /\ me'[p] = me[p] /\ copy'[p] = copy[p]
BY DEF Shapes, Moves, Others

(* The end of a call.                                                      *)
LEMMA EndFacts ==
  ASSUME Shapes, NEW p \in Proc, NEW e \in {"none", "exists", "nocreate"}, End(p, e)
  PROVE  /\ pc' = [pc EXCEPT ![p] = "idle"] /\ pc' \in [Proc -> PC]
         /\ me' \in [Proc -> Locals] /\ Free(me'[p]) /\ me'[p].res = e
         /\ \A r \in Proc \ {p} : me'[r] = me[r]
         /\ changed' = [changed EXCEPT ![p] = FALSE]
<1> DEFINE w == [Idle EXCEPT !.res = e]
<1>1. w \in Locals /\ Free(w) /\ w.res = e
  BY IdleFacts DEF Idle
<1>2. /\ pc' = [pc EXCEPT ![p] = "idle"] /\ me' = [me EXCEPT ![p] = w]
      /\ changed' = [changed EXCEPT ![p] = FALSE]
  BY DEF End, Goto, Local
<1> HIDE DEF w
<1>3. pc' \in [Proc -> PC]
  BY <1>2 DEF Shapes, PC
<1>4. me' \in [Proc -> Locals] /\ me'[p] = w /\ \A r \in Proc \ {p} : me'[r] = me[r]
  BY <1>1, <1>2 DEF Shapes
<1> QED BY <1>1, <1>2, <1>3, <1>4

LEMMA EndPlaced ==
  ASSUME Shapes, NEW p \in Proc, Placed(p), copy' = copy,
         pc[p] \notin {"fork", "forked", "group"},
         NEW e \in {"none", "exists", "nocreate"}, End(p, e)
  PROVE  Moves(p) /\ Placed(p)'
<1>1. /\ pc' = [pc EXCEPT ![p] = "idle"] /\ pc' \in [Proc -> PC]
      /\ me' \in [Proc -> Locals] /\ Free(me'[p])
      /\ \A r \in Proc \ {p} : me'[r] = me[r]
  BY EndFacts
<1>2. pc'[p] = "idle" /\ \A r \in Proc \ {p} : pc'[r] = pc[r]
  BY <1>1 DEF Shapes
<1>3. copy'[p] = NoCopy
  BY DEF Placed
<1>4. Placed(p)'
  BY <1>1, <1>2, <1>3 DEF Placed
<1>5. Moves(p)
  BY <1>1, <1>2 DEF Moves, Others, Shapes
<1> QED BY <1>4, <1>5

(* Going on from one place to another with some variables changed.         *)
LEMMA OnPlaced ==
  ASSUME Shapes, NEW p \in Proc, Placed(p), NEW l \in PC, NEW v \in Locals,
         pc' = [pc EXCEPT ![p] = l], me' = [me EXCEPT ![p] = v], copy' = copy,
         pc[p] # "idle", l # "idle", v.call = me[p].call,
         pc[p] \notin {"fork", "forked", "group"},
         Serves(l, me[p].call.op), Chans(l, v), Tries(l, v)
  PROVE  Moves(p) /\ Placed(p)'
<1>1. Moves(p) /\ pc'[p] = l /\ me'[p] = v /\ copy'[p] = copy[p]
  BY Moved
<1>2. copy[p] = NoCopy /\ me[p].call \in Call
  BY DEF Placed
<1> QED BY <1>1, <1>2 DEF Placed

LEMMA PassPlaced ==
  ASSUME Shapes, NEW p \in Proc, Placed(p), NEW l \in PC,
         pc' = [pc EXCEPT ![p] = l], me' = me, copy' = copy,
         pc[p] # "idle", l # "idle",
         pc[p] \notin {"fork", "forked", "group"} \/ l \in {"fork", "forked", "group"},
         Serves(l, me[p].call.op), Chans(l, me[p]), Tries(l, me[p])
  PROVE  Moves(p) /\ Placed(p)'
<1>1. Moves(p) /\ pc'[p] = l /\ me'[p] = me[p] /\ copy'[p] = copy[p]
  BY Gone
<1>2. me[p].call \in Call /\ (pc[p] \notin {"fork", "forked", "group"} => copy[p] = NoCopy)
  BY DEF Placed
<1> QED BY <1>1, <1>2 DEF Placed

-----------------------------------------------------------------------------
(* A step of p takes it to l with the variables v.                         *)
Steps(p, l, v) == pc' = [pc EXCEPT ![p] = l] /\ me' = [me EXCEPT ![p] = v]

Locked == /\ lock \in [Locks -> [r : SUBSET Proc, w : Proc \cup {Nil}]]
          /\ Exclusive
          /\ \A r \in Proc : Locking(r)

LEMMA StepFacts ==
  ASSUME Shapes, NEW p \in Proc, NEW l, NEW v, Steps(p, l, v)
  PROVE  /\ pc'[p] = l /\ me'[p] = v
         /\ \A r \in Proc \ {p} : pc'[r] = pc[r] /\ me'[r] = me[r]
BY DEF Shapes, Steps

LEMMA StepSame ==
  ASSUME Shapes, NEW p \in Proc
  PROVE  /\ me' = me => me' = [me EXCEPT ![p] = me[p]]
         /\ pc' = pc => pc' = [pc EXCEPT ![p] = pc[p]]
BY DEF Shapes

LEMMA LockFacts ==
  ASSUME Control, NEW p \in Proc
  PROVE  /\ lock \in [Locks -> [r : SUBSET Proc, w : Proc \cup {Nil}]]
         /\ p # Nil /\ "ns" \in Locks /\ Mhead \subseteq Locks
         /\ \A y \in Locks : /\ lock[y].r \subseteq Proc /\ lock[y].w \in Proc \cup {Nil}
                             /\ p \in lock[y].r <=> Reads(pc[p], me[p], y)
                             /\ lock[y].w = p <=> Writes(pc[p], me[p], y)
                             /\ lock[y].w # Nil => lock[y].r = {}
<1>1. lock \in [Locks -> [r : SUBSET Proc, w : Proc \cup {Nil}]]
  BY DEF Control, Shapes, Locks
<1>2. Locking(p) /\ Exclusive /\ p # Nil
  BY Here, Names DEF Control
<1>3. "ns" \in Locks /\ Mhead \subseteq Locks
  BY DEF Locks
<1> QED BY <1>1, <1>2, <1>3 DEF Locking, Exclusive

LEMMA LockStep ==
  ASSUME Control, NEW p \in Proc, NEW l, NEW v, Steps(p, l, v),
         lock' \in [Locks -> [r : SUBSET Proc, w : Proc \cup {Nil}]],
         \A y \in Locks :
           /\ p \in lock'[y].r <=> Reads(l, v, y)
           /\ lock'[y].w = p <=> Writes(l, v, y)
           /\ \A r \in Proc \ {p} : /\ r \in lock'[y].r <=> r \in lock[y].r
                                    /\ lock'[y].w = r <=> lock[y].w = r
           /\ lock'[y].w # Nil => lock'[y].r = {}
  PROVE  Locked'
<1>1. Exclusive'
  BY DEF Exclusive
<1>2. ASSUME NEW r \in Proc PROVE Locking(r)'
  <2>1. pc'[p] = l /\ me'[p] = v /\ (r # p => pc'[r] = pc[r] /\ me'[r] = me[r])
    BY StepFacts DEF Control
  <2>2. CASE r = p
    BY <2>1, <2>2 DEF Locking
  <2>3. CASE r # p
    <3>1. Locking(r)
      BY DEF Control
    <3> QED BY <2>1, <2>3, <3>1 DEF Locking
  <2> QED BY <2>2, <2>3
<1> QED BY <1>1, <1>2 DEF Locked

LEMMA LockKept ==
  ASSUME Control, NEW p \in Proc, NEW l, NEW v, Steps(p, l, v), lock' = lock,
         \A y \in Locks : /\ Reads(l, v, y) <=> Reads(pc[p], me[p], y)
                          /\ Writes(l, v, y) <=> Writes(pc[p], me[p], y)
  PROVE  Locked'
BY LockFacts, LockStep

LEMMA TakesR ==
  ASSUME Control, NEW p \in Proc, NEW l, NEW v, Steps(p, l, v),
         NEW x \in Locks, CanR(x), lock' = [lock EXCEPT ![x].r = @ \cup {p}],
         \A y \in Locks : /\ Reads(l, v, y) <=> Reads(pc[p], me[p], y) \/ y = x
                          /\ Writes(l, v, y) <=> Writes(pc[p], me[p], y)
  PROVE  Locked'
<1>0. lock \in [Locks -> [r : SUBSET Proc, w : Proc \cup {Nil}]]
  BY LockFacts
<1>1. \A y \in Locks : /\ lock'[y].w = lock[y].w
                       /\ lock'[y].r = IF y = x THEN lock[y].r \cup {p} ELSE lock[y].r
  BY <1>0
<1>2. lock' \in [Locks -> [r : SUBSET Proc, w : Proc \cup {Nil}]]
  BY LockFacts
<1>3. lock[x].w = Nil
  BY DEF CanR
<1> QED BY <1>1, <1>2, <1>3, LockFacts, LockStep

LEMMA DropsR ==
  ASSUME Control, NEW p \in Proc, NEW l, NEW v, Steps(p, l, v),
         NEW x \in Locks, lock' = [lock EXCEPT ![x].r = @ \ {p}],
         \A y \in Locks : /\ Reads(l, v, y) <=> Reads(pc[p], me[p], y) /\ y # x
                          /\ Writes(l, v, y) <=> Writes(pc[p], me[p], y)
  PROVE  Locked'
<1>0. lock \in [Locks -> [r : SUBSET Proc, w : Proc \cup {Nil}]]
  BY LockFacts
<1>1. \A y \in Locks : /\ lock'[y].w = lock[y].w
                       /\ lock'[y].r = IF y = x THEN lock[y].r \ {p} ELSE lock[y].r
  BY <1>0
<1>2. lock' \in [Locks -> [r : SUBSET Proc, w : Proc \cup {Nil}]]
  BY LockFacts
<1> QED BY <1>1, <1>2, LockFacts, LockStep

LEMMA TakesW ==
  ASSUME Control, NEW p \in Proc, NEW l, NEW v, Steps(p, l, v),
         NEW x \in Locks, CanW(x), lock' = [lock EXCEPT ![x].w = p],
         \A y \in Locks : /\ Reads(l, v, y) <=> Reads(pc[p], me[p], y)
                          /\ Writes(l, v, y) <=> Writes(pc[p], me[p], y) \/ y = x
  PROVE  Locked'
<1>1. \A y \in Locks : /\ lock'[y].r = lock[y].r
                       /\ lock'[y].w = IF y = x THEN p ELSE lock[y].w
  BY LockFacts
<1>2. lock' \in [Locks -> [r : SUBSET Proc, w : Proc \cup {Nil}]]
  BY LockFacts
<1>3. lock[x].w = Nil /\ lock[x].r = {} /\ \A r \in Proc : r # Nil
  BY Names DEF CanW
<1> QED BY <1>1, <1>2, <1>3, LockFacts, LockStep

LEMMA DropsW ==
  ASSUME Control, NEW p \in Proc, NEW l, NEW v, Steps(p, l, v), NEW x \in Locks,
         lock' \in [Locks -> [r : SUBSET Proc, w : Proc \cup {Nil}]],
         \A y \in Locks : /\ lock'[y].r = lock[y].r
                          /\ lock'[y].w = IF y = x THEN Nil ELSE lock[y].w,
         lock[x].w = p,
         \A y \in Locks : /\ Reads(l, v, y) <=> Reads(pc[p], me[p], y)
                          /\ Writes(l, v, y) <=> Writes(pc[p], me[p], y) /\ y # x
  PROVE  Locked'
<1>3. \A r \in Proc : r # Nil
  BY Names
<1> QED BY <1>3, LockFacts, LockStep

(* From ns to the lock of a head.                                          *)
LEMMA HandsW ==
  ASSUME Control, NEW p \in Proc, NEW l, NEW v, Steps(p, l, v),
         NEW h \in Mhead, CanW(h), Writes(pc[p], me[p], "ns"),
         \/ lock' = [lock EXCEPT ![h].w = p, !["ns"].w = Nil]
         \/ lock' = [lock EXCEPT !["ns"].w = Nil, ![h].w = p],
         \A y \in Locks : /\ Reads(l, v, y) <=> Reads(pc[p], me[p], y)
                          /\ Writes(l, v, y) <=> y = h \/ (Writes(pc[p], me[p], y) /\ y # "ns")
  PROVE  Locked'
<1>1. h # "ns" /\ h \in Locks /\ "ns" \in Locks
  BY Names DEF Locks
<1>2. \A y \in Locks : /\ lock'[y].r = lock[y].r
                       /\ lock'[y].w = IF y = h THEN p ELSE IF y = "ns" THEN Nil ELSE lock[y].w
  BY <1>1, LockFacts
<1>3. lock' \in [Locks -> [r : SUBSET Proc, w : Proc \cup {Nil}]]
  BY <1>1, LockFacts
<1>4. lock["ns"].w = p /\ lock[h].w = Nil /\ lock[h].r = {} /\ \A r \in Proc : r # Nil
  BY <1>1, LockFacts, Names DEF CanW
<1> QED BY <1>1, <1>2, <1>3, <1>4, LockFacts, LockStep

-----------------------------------------------------------------------------
(* The references in a process's variables, and what a step that leaves    *)
(* the heads alone does to them.                                           *)
Own(v, d)     == Is(v.b, d) + Is(v.c, d) + Is(v.new, d)
OwnHead(v, h) == Is(v.m, h) + Is(v.mh, h)

Balanced(p) ==
  /\ chan' \in [Dir -> Int] /\ href' \in [Mhead -> Int]
  /\ \A d \in Dir : chan'[d] = chan[d] - Using(p, d) + Using(p, d)'
  /\ \A h \in Mhead : href'[h] = href[h] - HeldBy(p, h) + HeldBy(p, h)'

LEMMA OwnType == \A v, x : Own(v, x) \in Nat /\ OwnHead(v, x) \in Nat
BY IsType DEF Own, OwnHead

LEMMA Balancing ==
  ASSUME Control, NEW p \in Proc, NEW l, NEW v \in Locals, Steps(p, l, v),
         copy' = copy, v.add = me[p].add, l # "um.free", pc[p] # "um.free",
         chan' \in [Dir -> Int], href' \in [Mhead -> Int],
         \A d \in Dir : chan'[d] = chan[d] - Own(me[p], d) + Own(v, d),
         \A h \in Mhead : href'[h] = href[h] - OwnHead(me[p], h) + OwnHead(v, h)
  PROVE  Balanced(p)
<1>1. pc'[p] = l /\ me'[p] = v /\ me[p].add \in Seq(Mount) /\ copy[p] \in [Dir -> Seq(Mount)]
  BY StepFacts, LocalFacts DEF Control, Shapes
<1>2. ASSUME NEW d \in Dir PROVE chan'[d] = chan[d] - Using(p, d) + Using(p, d)'
  <2> DEFINE r == Count(me[p].add, d) + Copied(copy[p], d)
  <2>1. r \in Nat /\ Own(v, d) \in Nat /\ Own(me[p], d) \in Nat /\ chan[d] \in Int
    <3>1. Count(me[p].add, d) \in Nat /\ Copied(copy[p], d) \in Nat
      BY <1>1, CountType, CopiedType
    <3>2. chan[d] \in Int
      BY DEF Control, Shapes
    <3> QED BY <3>1, <3>2, OwnType
  <2>2. Using(p, d) = Own(me[p], d) + r
    <3>1. Count(me[p].add, d) \in Nat /\ Copied(copy[p], d) \in Nat
      BY <1>1, CountType, CopiedType
    <3> QED BY <3>1, IsType DEF Using, Own
  <2>3. Using(p, d)' = Own(v, d) + r
    <3>1. Count(me[p].add, d) \in Nat /\ Copied(copy[p], d) \in Nat
      BY <1>1, CountType, CopiedType
    <3>2. Using(p, d)' = Is(v.b, d) + Is(v.c, d) + Is(v.new, d) + Count(v.add, d) + Copied(copy[p], d)
      BY <1>1 DEF Using
    <3> QED BY <3>1, <3>2, IsType DEF Own
  <2> HIDE DEF r
  <2> QED BY <2>1, <2>2, <2>3
<1>3. ASSUME NEW h \in Mhead PROVE href'[h] = href[h] - HeldBy(p, h) + HeldBy(p, h)'
  <2>1. HeldBy(p, h) = OwnHead(me[p], h) /\ HeldBy(p, h)' = OwnHead(v, h)
    BY <1>1, IsType DEF HeldBy, OwnHead
  <2> QED BY <2>1
<1> QED BY <1>2, <1>3 DEF Balanced

LEMMA BalanceKept ==
  ASSUME Control, NEW p \in Proc, NEW l, NEW v \in Locals, Steps(p, l, v),
         copy' = copy, chan' = chan, href' = href, l # "um.free", pc[p] # "um.free",
         v.b = me[p].b, v.c = me[p].c, v.new = me[p].new, v.add = me[p].add,
         v.m = me[p].m, v.mh = me[p].mh
  PROVE  Balanced(p)
<1>1. chan \in [Dir -> Int] /\ href \in [Mhead -> Int]
  BY DEF Control, Shapes
<1>2. ASSUME NEW d \in Dir PROVE chan'[d] = chan[d] - Own(me[p], d) + Own(v, d)
  <2>1. Own(v, d) = Own(me[p], d) /\ Own(v, d) \in Nat /\ chan[d] \in Int
    BY <1>1, OwnType DEF Own
  <2> QED BY <2>1
<1>3. ASSUME NEW h \in Mhead PROVE href'[h] = href[h] - OwnHead(me[p], h) + OwnHead(v, h)
  <2>1. OwnHead(v, h) = OwnHead(me[p], h) /\ OwnHead(v, h) \in Nat /\ href[h] \in Int
    BY <1>1, OwnType DEF OwnHead
  <2> QED BY <2>1
<1> QED BY <1>1, <1>2, <1>3, Balancing

LEMMA ChanSwap ==
  ASSUME NEW f \in [Dir -> Int], NEW x \in Dir \cup {Nil}, NEW y \in Dir \cup {Nil}
  PROVE  /\ Incref(cclose(f, x), y) \in [Dir -> Int]
         /\ \A d \in Dir : Incref(cclose(f, x), y)[d] = f[d] - Is(x, d) + Is(y, d)
<1> DEFINE g == cclose(f, x)
<1>1. g \in [Dir -> Int] /\ \A d \in Dir : g[d] = f[d] - Is(x, d)
  BY ChanArithmetic
<1> HIDE DEF g
<1>2. Incref(g, y) \in [Dir -> Int] /\ \A d \in Dir : Incref(g, y)[d] = g[d] + Is(y, d)
  BY <1>1, ChanArithmetic
<1> QED BY <1>1, <1>2 DEF g

(* The end of a call lets go of everything.                                *)
LEMMA EndBalanced ==
  ASSUME Control, NEW p \in Proc, pc[p] \notin {"bind.copy", "um.free"}, copy' = copy,
         NEW e \in {"none", "exists", "nocreate"}, End(p, e)
  PROVE  Balanced(p)
<1> DEFINE v == me[p]
           w == [Idle EXCEPT !.res = e]
           f1 == cclose(chan, v.b)
           f2 == cclose(f1, v.c)
           f3 == cclose(f2, v.new)
           g1 == putmhead(href, v.m)
           g2 == putmhead(g1, v.mh)
<1>1. Steps(p, "idle", w) /\ chan' = f3 /\ href' = g2
  BY DEF End, Goto, Local, Steps
<1>2. w \in Locals /\ w.b = Nil /\ w.c = Nil /\ w.m = Nil /\ w.new = Nil /\ w.mh = Nil /\ w.add = <<>>
  BY IdleFacts DEF Free
<1>3. /\ v.b \in Dir \cup {Nil} /\ v.c \in Dir \cup {Nil} /\ v.new \in Dir \cup {Nil}
      /\ v.m \in Mhead \cup {Nil} /\ v.mh \in Mhead \cup {Nil}
      /\ chan \in [Dir -> Int] /\ href \in [Mhead -> Int]
  BY LocalFacts DEF Control, Shapes
<1>4. v.add = <<>>
  BY Here DEF Placed, Free, Chans
<1> HIDE DEF v, w
<1>5. f1 \in [Dir -> Int] /\ \A d \in Dir : f1[d] = chan[d] - Is(v.b, d)
  BY <1>3, ChanArithmetic
<1> HIDE DEF f1
<1>6. f2 \in [Dir -> Int] /\ \A d \in Dir : f2[d] = f1[d] - Is(v.c, d)
  BY <1>3, <1>5, ChanArithmetic
<1> HIDE DEF f2
<1>7. f3 \in [Dir -> Int] /\ \A d \in Dir : f3[d] = f2[d] - Is(v.new, d)
  BY <1>3, <1>6, ChanArithmetic
<1>8. g1 \in [Mhead -> Int] /\ \A h \in Mhead : g1[h] = href[h] - Is(v.m, h)
  BY <1>3, HeadArithmetic
<1> HIDE DEF g1, f3
<1>9. g2 \in [Mhead -> Int] /\ \A h \in Mhead : g2[h] = g1[h] - Is(v.mh, h)
  BY <1>3, <1>8, HeadArithmetic
<1> HIDE DEF g2
<1>10. \A d \in Dir \cup Mhead : Own(w, d) = 0 /\ OwnHead(w, d) = 0
  BY <1>2, IsType, Names DEF Own, OwnHead
<1>11. ASSUME NEW d \in Dir PROVE chan'[d] = chan[d] - Own(v, d) + Own(w, d)
  <2>1. chan[d] \in Int /\ Is(v.b, d) \in Nat /\ Is(v.c, d) \in Nat /\ Is(v.new, d) \in Nat
    BY <1>3, IsType
  <2> QED BY <1>1, <1>5, <1>6, <1>7, <1>10, <2>1 DEF Own
<1>12. ASSUME NEW h \in Mhead PROVE href'[h] = href[h] - OwnHead(v, h) + OwnHead(w, h)
  <2>1. href[h] \in Int /\ Is(v.m, h) \in Nat /\ Is(v.mh, h) \in Nat
    BY <1>3, IsType
  <2> QED BY <1>1, <1>8, <1>9, <1>10, <2>1 DEF OwnHead
<1>13. chan' \in [Dir -> Int] /\ href' \in [Mhead -> Int] /\ v.add = w.add
  BY <1>1, <1>2, <1>4, <1>7, <1>9
<1> QED BY <1>1, <1>2, <1>11, <1>12, <1>13, Balancing DEF v

LEMMA EndLocked ==
  ASSUME Control, NEW p \in Proc, lock' = lock,
         pc[p] \in {"walk", "back", "opened", "read", "createdir", "create", "check"},
         NEW e \in {"none", "exists", "nocreate"}, End(p, e)
  PROVE  Locked'
<1> DEFINE w == [Idle EXCEPT !.res = e]
<1>1. Steps(p, "idle", w)
  BY DEF End, Goto, Local, Steps
<1> HIDE DEF w
<1>2. \A y \in Locks : /\ ~Reads("idle", w, y) /\ ~Reads(pc[p], me[p], y)
                       /\ ~Writes("idle", w, y) /\ ~Writes(pc[p], me[p], y)
  BY DEF Reads, Writes
<1> QED BY <1>1, <1>2, LockKept

(* What a step keeps, and the sums it changes, if it leaves the heads.     *)
Kept(p) == Moves(p) /\ Placed(p)' /\ Locked'

LEMMA EndKept ==
  ASSUME Control, NEW p \in Proc, copy' = copy, lock' = lock,
         pc[p] \in {"walk", "back", "opened", "read", "createdir", "create", "check"},
         NEW e \in {"none", "exists", "nocreate"}, End(p, e)
  PROVE  Kept(p) /\ Balanced(p)
<1>1. Shapes /\ Placed(p)
  BY Here DEF Control
<1>2. Moves(p) /\ Placed(p)'
  BY <1>1, EndPlaced
<1> QED BY <1>2, EndBalanced, EndLocked DEF Kept
(* The directory looked up, and who asked for it.                          *)
LEMMA KeyFacts ==
  ASSUME Control, NEW p \in Proc, pc[p] \in {"find", "findlk"}
  PROVE  /\ Key(p) \in Dir /\ table[Key(p)] \in Mhead \cup {Nil}
         /\ me[p].c # Nil => Key(p) = me[p].c
         /\ me[p].c = Nil => Key(p) = me[p].b /\ me[p].call.op = "create" /\ Asked(p) = "createdir"
         /\ Asked(p) = "check" => me[p].call.op = "bind"
         /\ Asked(p) = "umh" => me[p].call.op \in {"open", "unmount"}
         /\ Asked(p) = "walk" => me[p].call.op \in {"walk", "create"}
         /\ Asked(p) = "createdir" => me[p].call.op = "create" /\ me[p].c = Nil
         /\ Asked(p) \in {"check", "umh", "walk", "createdir"}
<1>1. /\ me[p].c \in Dir \cup {Nil} /\ Serves(pc[p], me[p].call.op)
      /\ Chans(pc[p], me[p]) /\ me[p].call.b \in Dir
  BY Here, LocalFacts DEF Placed, Control, Shapes
<1>2. me[p].call.op \in {"bind", "unmount", "walk", "open", "create"}
  BY <1>1 DEF Serves
<1>3. me[p].c # Nil \/ (me[p].call.op = "create" /\ me[p].b = me[p].call.b)
  BY <1>1 DEF Chans, Keeps
<1>4. Key(p) \in Dir
  BY <1>1, <1>3 DEF Key
<1>5. table[Key(p)] \in Mhead \cup {Nil}
  BY <1>4 DEF Control, Shapes
<1>6. /\ Asked(p) = "check" => me[p].call.op = "bind"
      /\ Asked(p) = "umh" => me[p].call.op \in {"open", "unmount"}
      /\ Asked(p) = "walk" => me[p].call.op \in {"walk", "create"}
      /\ Asked(p) = "createdir" => me[p].call.op = "create" /\ me[p].c = Nil
      /\ Asked(p) \in {"check", "umh", "walk", "createdir"}
      /\ me[p].c = Nil => Asked(p) = "createdir"
  <2>1. CASE me[p].call.op = "bind"
    <3>1. Asked(p) = "check"
      BY <2>1 DEF Asked
    <3> QED BY <1>3, <2>1, <3>1
  <2>2. CASE me[p].call.op \in {"open", "unmount"}
    <3>1. Asked(p) = "umh"
      BY <2>2 DEF Asked
    <3> QED BY <1>3, <2>2, <3>1
  <2>3. CASE me[p].call.op = "walk" \/ (me[p].call.op = "create" /\ me[p].c # Nil)
    <3>1. Asked(p) = "walk"
      BY <2>3 DEF Asked
    <3> QED BY <1>3, <2>3, <3>1
  <2>4. CASE me[p].call.op = "create" /\ me[p].c = Nil
    <3>1. Asked(p) = "createdir"
      BY <2>4 DEF Asked
    <3> QED BY <2>4, <3>1
  <2> QED BY <1>2, <1>3, <2>1, <2>2, <2>3, <2>4
<1> QED BY <1>3, <1>4, <1>5, <1>6 DEF Key

LEMMA FindNsKept ==
  ASSUME Control, NEW p \in Proc, FindNs(p)
  PROVE  Kept(p) /\ Balanced(p)
<1> DEFINE v == me[p]
           w == [v EXCEPT !.h = table[Key(p)]]
           l == "findlk"
<1>1. pc[p] = "find" /\ pc' = [pc EXCEPT ![p] = l] /\ me' = [me EXCEPT ![p] = w] /\ copy' = copy
  BY DEF FindNs, At, Goto, Local
<1>2. v \in Locals /\ Placed(p) /\ Serves("find", v.call.op) /\ Chans("find", v) /\ Tries("find", v)
  BY <1>1, Here DEF Placed
<1>3. l = "findlk" /\ table[Key(p)] \in Mhead \cup {Nil}
  BY <1>1, KeyFacts
<1> HIDE DEF v
<1>4. w \in Locals /\ w.call = v.call /\ w.b = v.b /\ w.c = v.c /\ w.m = v.m
      /\ w.new = v.new /\ w.mh = v.mh /\ w.add = v.add /\ w.um = v.um /\ w.retry = v.retry /\ w.res = v.res
      /\ w.h = table[Key(p)]
  BY <1>2, <1>3 DEF Locals
<1> HIDE DEF w, l
<1>5. Serves(l, v.call.op) /\ Chans(l, w) /\ Tries(l, w) /\ l \in PC /\ l # "idle"
  BY <1>2, <1>3, <1>4 DEF Serves, Chans, Tries, Binding, Forking, Inside, Keeps, PC
<1>6. Moves(p) /\ Placed(p)'
  BY <1>1, <1>2, <1>4, <1>5, OnPlaced DEF Control, v
<1>7. Steps(p, l, w)
  BY <1>1 DEF Steps
<1>8. Locked'
  <2>1. CanR("ns") /\ lock' = [lock EXCEPT !["ns"].r = @ \cup {p}]
    BY DEF FindNs
  <2>2. "ns" \in Locks
    BY <1>1, <1>2, <1>3, <1>4 DEF Locks, v, Locals
  <2>3. \A y \in Locks : /\ Reads(l, w, y) <=> Reads(pc[p], me[p], y) \/ y = "ns"
                         /\ Writes(l, w, y) <=> Writes(pc[p], me[p], y)
    BY <1>1, <1>2, <1>3, <1>4 DEF v, Reads, Writes
  <2> QED BY <1>7, <2>1, <2>2, <2>3, TakesR
<1>9. Balanced(p)
  <2>1. copy' = copy /\ chan' = chan /\ href' = href
    BY DEF FindNs, heads, world
  <2> QED BY <1>1, <1>2, <1>3, <1>4, <1>7, <2>1, BalanceKept DEF v
<1> QED BY <1>6, <1>8, <1>9 DEF Kept

LEMMA FindNoneKept ==
  ASSUME Control, NEW p \in Proc, FindNone(p)
  PROVE  Kept(p) /\ Balanced(p)
<1> DEFINE v == me[p]
           w == [v EXCEPT !.c = Key(p)]
           l == Asked(p)
<1>1. pc[p] = "find" /\ pc' = [pc EXCEPT ![p] = l] /\ me' = [me EXCEPT ![p] = w] /\ copy' = copy
  BY DEF FindNone, At, Goto, Local
<1>2. v \in Locals /\ Placed(p) /\ Serves("find", v.call.op) /\ Chans("find", v) /\ Tries("find", v)
  BY <1>1, Here DEF Placed
<1>3. /\ Key(p) \in Dir /\ Key(p) # Nil /\ l \in {"check", "umh", "walk", "createdir"}
      /\ l = "check" => v.call.op = "bind"
      /\ l = "umh" => v.call.op \in {"open", "unmount"}
      /\ l = "walk" => v.call.op \in {"walk", "create"}
      /\ l = "createdir" => v.call.op = "create" /\ v.c = Nil
  BY <1>1, KeyFacts, Names
<1> HIDE DEF v
<1>4. w \in Locals /\ w.call = v.call /\ w.b = v.b /\ w.m = v.m /\ w.new = v.new
      /\ w.mh = v.mh /\ w.h = v.h /\ w.add = v.add /\ w.um = v.um /\ w.retry = v.retry /\ w.res = v.res
      /\ w.c = Key(p)
  BY <1>2, <1>3 DEF Locals
<1> HIDE DEF w, l
<1>5. Serves(l, v.call.op) /\ Chans(l, w) /\ Tries(l, w) /\ l \in PC /\ l # "idle"
  BY <1>2, <1>3, <1>4 DEF Serves, Chans, Tries, Binding, Forking, Inside, Keeps, PC
<1>6. Moves(p) /\ Placed(p)'
  BY <1>1, <1>2, <1>4, <1>5, OnPlaced DEF Control, v
<1>7. Steps(p, l, w)
  BY <1>1 DEF Steps
<1>8. Locked'
  <2>1. lock' = lock
    BY DEF FindNone
  <2>3. \A y \in Locks : /\ Reads(l, w, y) <=> Reads(pc[p], me[p], y)
                         /\ Writes(l, w, y) <=> Writes(pc[p], me[p], y)
    BY <1>1, <1>2, <1>3, <1>4 DEF v, Reads, Writes
  <2> QED BY <1>7, <2>1, <2>3, LockKept
<1>9. Balanced(p)
  <2>1. chan' \in [Dir -> Int] /\ \A d \in Dir : chan'[d] = chan[d] - Own(v, d) + Own(w, d)
    <3>1. chan' = (IF v.c = Nil THEN Incref(chan, Key(p)) ELSE chan) /\ chan \in [Dir -> Int]
      BY DEF FindNone, Control, Shapes, v
    <3>2. v.c # Nil => Key(p) = v.c
      BY <1>1, KeyFacts DEF v
    <3>3. ASSUME v.c = Nil
          PROVE  /\ chan' \in [Dir -> Int]
                 /\ \A d \in Dir : chan'[d] = chan[d] + Is(Key(p), d) /\ Is(v.c, d) = 0
      BY <1>3, <3>1, <3>3, ChanArithmetic, IsType, Names
    <3>4. ASSUME v.c = Nil, NEW d \in Dir PROVE chan'[d] = chan[d] - Own(v, d) + Own(w, d)
      <4>1. chan'[d] = chan[d] + Is(Key(p), d) /\ Is(v.c, d) = 0 /\ chan[d] \in Int
        BY <3>1, <3>3, <3>4
      <4>2. Is(v.b, d) \in Nat /\ Is(v.new, d) \in Nat /\ Is(Key(p), d) \in Nat
        BY IsType
      <4> QED BY <1>4, <4>1, <4>2 DEF Own
    <3>5. ASSUME v.c # Nil PROVE chan' = chan /\ \A d : Own(w, d) = Own(v, d) /\ Own(v, d) \in Nat
      BY <1>4, <3>1, <3>2, <3>5, OwnType DEF Own
    <3>6. ASSUME v.c # Nil, NEW d \in Dir PROVE chan'[d] = chan[d] - Own(v, d) + Own(w, d)
      BY <3>1, <3>5, <3>6
    <3> QED BY <3>1, <3>3, <3>4, <3>5, <3>6
  <2>2. href' \in [Mhead -> Int] /\ \A h \in Mhead : href'[h] = href[h] - OwnHead(v, h) + OwnHead(w, h)
    <3>1. href' = href /\ href \in [Mhead -> Int]
      BY DEF FindNone, heads, Control, Shapes
    <3>2. \A h : OwnHead(w, h) = OwnHead(v, h) /\ OwnHead(v, h) \in Nat
      BY <1>4, OwnType DEF OwnHead
    <3> QED BY <3>1, <3>2
  <2> QED BY <1>1, <1>2, <1>3, <1>4, <1>7, <2>1, <2>2, Balancing DEF v
<1> QED BY <1>6, <1>8, <1>9 DEF Kept

LEMMA FindKept ==
  ASSUME Control, NEW p \in Proc, Find(p), list[me[p].h] # <<>>
  PROVE  Kept(p) /\ Balanced(p)
<1> DEFINE v == me[p]
           to == list[v.h][1].to
           w == [v EXCEPT !.c = to, !.m = v.h, !.h = Nil]
           l == Asked(p)
<1>1. pc[p] = "findlk" /\ pc' = [pc EXCEPT ![p] = l] /\ me' = [me EXCEPT ![p] = w] /\ copy' = copy
  BY DEF Find, At, Goto, Local
<1>2. v \in Locals /\ Placed(p) /\ Serves("findlk", v.call.op) /\ Chans("findlk", v) /\ Tries("findlk", v)
  BY <1>1, Here DEF Placed
<1>3. /\ l \in {"check", "umh", "walk", "createdir"}
      /\ l = "check" => v.call.op = "bind"
      /\ l = "umh" => v.call.op \in {"open", "unmount"}
      /\ l = "walk" => v.call.op \in {"walk", "create"}
      /\ l = "createdir" => v.call.op = "create" /\ v.c = Nil
      /\ v.h \in Mhead /\ v.h # Nil
      /\ to \in Dir /\ to # Nil
  <2>1. v.h \in Mhead /\ v.h # Nil
    BY <1>1, <1>2, Here DEF Located, Locals
  <2>2. list[v.h] \in Seq(Mount) /\ list[v.h] # <<>>
    BY <2>1 DEF Control, Shapes
  <2>3. list[v.h][1] \in Mount
    BY <2>2, EmptySeq, ElementOfSeq
  <2>4. list[v.h][1].to \in Dir
    BY <2>3 DEF Mount
  <2> QED BY <1>1, <2>1, <2>4, KeyFacts, Names
<1> HIDE DEF v, to
<1>4. w \in Locals /\ w.call = v.call /\ w.b = v.b /\ w.new = v.new /\ w.mh = v.mh
      /\ w.add = v.add /\ w.um = v.um /\ w.retry = v.retry /\ w.res = v.res
      /\ w.c = to /\ w.m = v.h /\ w.h = Nil
  BY <1>2, <1>3 DEF Locals
<1> HIDE DEF w, l
<1>5. Serves(l, v.call.op) /\ Chans(l, w) /\ Tries(l, w) /\ l \in PC /\ l # "idle"
  BY <1>2, <1>3, <1>4 DEF Serves, Chans, Tries, Binding, Forking, Inside, Keeps, PC
<1>6. Moves(p) /\ Placed(p)'
  BY <1>1, <1>2, <1>4, <1>5, OnPlaced DEF Control, v
<1>7. Steps(p, l, w)
  BY <1>1 DEF Steps
<1>8. Locked'
  <2>1. lock' = [lock EXCEPT !["ns"].r = @ \ {p}]
    BY DEF Find
  <2>2. "ns" \in Locks
    BY <1>1, <1>2, <1>3, <1>4 DEF Locks, v, Locals
  <2>3. \A y \in Locks : /\ Reads(l, w, y) <=> Reads(pc[p], me[p], y) /\ y # "ns"
                         /\ Writes(l, w, y) <=> Writes(pc[p], me[p], y)
    BY <1>1, <1>2, <1>3, <1>4 DEF v, Reads, Writes
  <2> QED BY <1>7, <2>1, <2>2, <2>3, DropsR
<1>9. Balanced(p)
  <2>1. chan' \in [Dir -> Int] /\ \A d \in Dir : chan'[d] = chan[d] - Own(v, d) + Own(w, d)
    <3>1. chan' = Incref(cclose(chan, v.c), to) /\ chan \in [Dir -> Int]
      BY <1>1 DEF Find, to, Control, Shapes, v
    <3>2. v.c \in Dir \cup {Nil} /\ to \in Dir \cup {Nil}
      BY <1>2, <1>3 DEF Locals
    <3>3. /\ chan' \in [Dir -> Int]
          /\ \A d \in Dir : chan'[d] = chan[d] - Is(v.c, d) + Is(to, d)
      BY <3>1, <3>2, ChanSwap
    <3>4. ASSUME NEW d \in Dir PROVE chan'[d] = chan[d] - Own(v, d) + Own(w, d)
      <4>1. /\ chan[d] \in Int /\ Is(v.b, d) \in Nat /\ Is(v.new, d) \in Nat
            /\ Is(v.c, d) \in Nat /\ Is(to, d) \in Nat
        BY <3>1, IsType
      <4>2. Own(w, d) = Is(v.b, d) + Is(to, d) + Is(v.new, d)
        BY <1>4 DEF Own
      <4> QED BY <3>3, <4>1, <4>2 DEF Own
    <3> QED BY <3>3, <3>4
  <2>2. href' \in [Mhead -> Int] /\ \A h \in Mhead : href'[h] = href[h] - OwnHead(v, h) + OwnHead(w, h)
    <3>1. href' = [href EXCEPT ![v.h] = @ + 1] /\ href \in [Mhead -> Int]
      BY DEF Find, Control, Shapes, v
    <3>2. ASSUME NEW h \in Mhead PROVE href'[h] = href[h] - OwnHead(v, h) + OwnHead(w, h)
      <4>1. v.m = Nil
        BY <1>2 DEF Chans
      <4>2. Is(v.m, h) = 0 /\ Is(v.mh, h) \in Nat /\ href[h] \in Int /\ Is(v.h, h) \in Nat
        BY <3>1, <4>1, IsType, Names
      <4>3. href'[h] = href[h] + Is(v.h, h)
        BY <1>3, <3>1 DEF Is
      <4> QED BY <1>4, <4>2, <4>3 DEF OwnHead
    <3> QED BY <1>3, <3>1, <3>2
  <2> QED BY <1>1, <1>2, <1>3, <1>4, <1>7, <2>1, <2>2, Balancing DEF v
<1> QED BY <1>6, <1>8, <1>9 DEF Kept

LEMMA WalkKept ==
  ASSUME Control, NEW p \in Proc, Walk(p)
  PROVE  Kept(p) /\ Balanced(p)
<1>1. pc[p] \in {"walk"} /\ End(p, "none") /\ copy' = copy /\ lock' = lock
  BY DEF Walk, Return, At
<1> QED BY <1>1, EndKept

LEMMA WalkUnionKept ==
  ASSUME Control, NEW p \in Proc, WalkUnion(p)
  PROVE  Kept(p) /\ Balanced(p)
<1>1. pc[p] = "walk" /\ pc' = [pc EXCEPT ![p] = "union"] /\ me' = me /\ copy' = copy /\ me[p].m # Nil
  BY DEF WalkUnion, At, Goto, Local
<1>2. Placed(p) /\ Serves("walk", me[p].call.op) /\ Chans("walk", me[p]) /\ Tries("walk", me[p])
  BY <1>1, Here DEF Placed
<1>3. Serves("union", me[p].call.op) /\ Chans("union", me[p]) /\ Tries("union", me[p]) /\ "union" \in PC
  BY <1>1, <1>2 DEF Serves, Chans, Tries, Binding, Forking, Inside, Keeps, PC
<1>6. Moves(p) /\ Placed(p)'
  BY <1>1, <1>2, <1>3, PassPlaced DEF Control
<1>7. Steps(p, "union", me[p])
  BY <1>1, StepSame DEF Steps, Control
<1>4. me[p].m \in Mhead
  BY <1>1, <1>2, Here DEF Chans, Locals
<1>8. Locked'
  <2>1. CanR(me[p].m) /\ lock' = [lock EXCEPT ![me[p].m].r = @ \cup {p}]
    BY <1>1, <1>4 DEF WalkUnion
  <2>2. me[p].m \in Locks
    BY <1>1, <1>4 DEF Locks
  <2>3. \A y \in Locks : /\ Reads("union", me[p], y) <=> Reads(pc[p], me[p], y) \/ y = me[p].m
                         /\ Writes("union", me[p], y) <=> Writes(pc[p], me[p], y)
    BY <1>1, <1>4, Names DEF Reads, Writes, Locks
  <2> QED BY <1>7, <2>1, <2>2, <2>3, TakesR
<1>9. Balanced(p)
  <2>1. copy' = copy /\ chan' = chan /\ href' = href /\ me[p] \in Locals
    BY Here DEF WalkUnion, heads, world
  <2> QED BY <1>1, <1>7, <2>1, BalanceKept
<1> QED BY <1>6, <1>8, <1>9 DEF Kept

(* The name was not found.                                                 *)
LEMMA NotFoundPlaced ==
  ASSUME Control, NEW p \in Proc, pc[p] \in {"walk", "union"}, NotFound(p), copy' = copy
  PROVE  /\ Moves(p) /\ Placed(p)' /\ Balanced(p)
         /\ \E l \in {"find", "idle"}, w \in Locals : Steps(p, l, w)
<1> DEFINE v == me[p]
           w == [v EXCEPT !.c = Nil, !.m = Nil]
<1>1. v \in Locals /\ Shapes /\ Placed(p) /\ Serves(pc[p], v.call.op) /\ Chans(pc[p], v) /\ Tries(pc[p], v)
  BY Here DEF Placed, Control
<1>2. CASE v.call.op = "create" /\ ~v.retry
  <2>1. pc' = [pc EXCEPT ![p] = "find"] /\ me' = [me EXCEPT ![p] = w]
    BY <1>2 DEF NotFound, Goto, Local
  <2> HIDE DEF v
  <2>2. w \in Locals /\ w.call = v.call /\ w.b = v.b /\ w.c = Nil /\ w.m = Nil /\ w.new = v.new
        /\ w.mh = v.mh /\ w.add = v.add /\ w.retry = v.retry /\ w.res = v.res
    BY <1>1 DEF Locals
  <2> HIDE DEF w
  <2>3. Serves("find", v.call.op) /\ Chans("find", w) /\ Tries("find", w) /\ "find" \in PC
    BY <1>1, <1>2, <2>2 DEF Serves, Chans, Tries, Binding, Forking, Inside, Keeps, PC
  <2>4. Moves(p) /\ Placed(p)'
    BY <1>1, <2>1, <2>2, <2>3, OnPlaced DEF v
  <2>5. Steps(p, "find", w)
    BY <2>1 DEF Steps
  <2>6. chan' = cclose(chan, v.c) /\ href' = putmhead(href, v.m)
    BY <1>2 DEF NotFound, v
  <2>7. /\ v.c \in Dir \cup {Nil} /\ v.m \in Mhead \cup {Nil}
        /\ chan \in [Dir -> Int] /\ href \in [Mhead -> Int]
    BY <1>1 DEF Shapes, Locals
  <2>8. /\ chan' \in [Dir -> Int] /\ \A d \in Dir : chan'[d] = chan[d] - Is(v.c, d)
        /\ href' \in [Mhead -> Int] /\ \A h \in Mhead : href'[h] = href[h] - Is(v.m, h)
    BY <2>6, <2>7, ChanArithmetic, HeadArithmetic
  <2>9. ASSUME NEW d \in Dir PROVE chan'[d] = chan[d] - Own(v, d) + Own(w, d)
    <3>1. /\ chan[d] \in Int /\ Is(v.b, d) \in Nat /\ Is(v.c, d) \in Nat /\ Is(v.new, d) \in Nat
          /\ Is(Nil, d) = 0
      BY <2>7, IsType, Names
    <3> QED BY <2>2, <2>8, <3>1 DEF Own
  <2>10. ASSUME NEW h \in Mhead PROVE href'[h] = href[h] - OwnHead(v, h) + OwnHead(w, h)
    <3>1. href[h] \in Int /\ Is(v.m, h) \in Nat /\ Is(v.mh, h) \in Nat /\ Is(Nil, h) = 0
      BY <2>7, IsType, Names
    <3> QED BY <2>2, <2>8, <3>1 DEF OwnHead
  <2>11. pc[p] # "um.free"
    OBVIOUS
  <2>12. Balanced(p)
    BY <2>2, <2>5, <2>8, <2>9, <2>10, <2>11, Balancing DEF v
  <2> QED BY <2>2, <2>4, <2>5, <2>12
<1>3. CASE ~(v.call.op = "create" /\ ~v.retry)
  <2>1. End(p, v.res) /\ v.res \in {"none", "exists", "nocreate"}
    BY <1>1, <1>3 DEF NotFound, Locals
  <2>2. Moves(p) /\ Placed(p)' /\ Balanced(p)
    BY <1>1, <2>1, EndPlaced, EndBalanced
  <2> DEFINE u == [Idle EXCEPT !.res = v.res]
  <2>3. Steps(p, "idle", u) /\ u \in Locals
    BY <2>1, IdleFacts DEF Steps, End, Goto, Local
  <2> HIDE DEF u
  <2> QED BY <2>2, <2>3
<1> QED BY <1>2, <1>3

LEMMA WalkFailsKept ==
  ASSUME Control, NEW p \in Proc, WalkFails(p)
  PROVE  Kept(p) /\ Balanced(p)
<1>1. pc[p] = "walk" /\ NotFound(p) /\ copy' = copy /\ lock' = lock
  BY DEF WalkFails, At
<1>2. /\ Moves(p) /\ Placed(p)' /\ Balanced(p)
      /\ \E l \in {"find", "idle"}, w \in Locals : Steps(p, l, w)
  BY <1>1, NotFoundPlaced
<1>3. PICK l \in {"find", "idle"}, w \in Locals : Steps(p, l, w)
  BY <1>2
<1>4. \A y \in Locks : /\ ~Reads(l, w, y) /\ ~Reads(pc[p], me[p], y)
                       /\ ~Writes(l, w, y) /\ ~Writes(pc[p], me[p], y)
  BY <1>1 DEF Reads, Writes
<1>5. Locked'
  BY <1>1, <1>3, <1>4, LockKept
<1> QED BY <1>2, <1>5 DEF Kept

(* Nothing has changed for those at their places.                          *)
LEMMA StillPlaced ==
  ASSUME Control, NEW p \in Proc, pc' = pc, me' = me, copy' = copy
  PROVE  Moves(p) /\ Placed(p)'
<1>1. Placed(p)
  BY Here
<1> QED BY <1>1 DEF Control, Shapes, Moves, Others, Placed

LEMMA UnionSearchKept ==
  ASSUME Control, NEW p \in Proc, UnionSearch(p)
  PROVE  Kept(p) /\ Balanced(p)
<1>1. pc[p] = "union" /\ copy' = copy /\ Shapes /\ Placed(p) /\ me[p] \in Locals
  BY Here DEF UnionSearch, At, Control
<1>2. me[p].m \in Mhead
  BY <1>1 DEF Placed, Chans, Locals
<1>3. CASE list[me[p].m] = <<>>
  <2>1. pc' = pc /\ me' = me /\ lock' = lock /\ chan' = chan /\ href' = href
    BY <1>3 DEF UnionSearch
  <2>2. Steps(p, pc[p], me[p])
    BY <1>1, <2>1, StepSame DEF Steps
  <2>3. Locked'
    BY <2>1, <2>2, LockKept
  <2>4. Balanced(p)
    BY <1>1, <2>1, <2>2, BalanceKept
  <2>5. Moves(p) /\ Placed(p)'
    BY <1>1, <2>1, StillPlaced
  <2> QED BY <2>3, <2>4, <2>5 DEF Kept
<1>4. CASE list[me[p].m] # <<>>
  <2>1. lock' = [lock EXCEPT ![me[p].m].r = @ \ {p}] /\ (End(p, "none") \/ NotFound(p))
    BY <1>4 DEF UnionSearch
  <2>2. /\ Moves(p) /\ Placed(p)' /\ Balanced(p)
        /\ \E l \in {"find", "idle"}, w \in Locals : Steps(p, l, w)
    <3>1. CASE End(p, "none")
      <4> DEFINE w == [Idle EXCEPT !.res = "none"]
      <4>1. Steps(p, "idle", w) /\ w \in Locals
        BY <3>1, IdleFacts DEF Steps, End, Goto, Local
      <4> HIDE DEF w
      <4> QED BY <1>1, <3>1, <4>1, EndPlaced, EndBalanced
    <3> QED BY <1>1, <2>1, <3>1, NotFoundPlaced
  <2>3. PICK l \in {"find", "idle"}, w \in Locals : Steps(p, l, w)
    BY <2>2
  <2>4. \A y \in Locks : /\ Reads(l, w, y) <=> Reads(pc[p], me[p], y) /\ y # me[p].m
                         /\ Writes(l, w, y) <=> Writes(pc[p], me[p], y)
    BY <1>1 DEF Reads, Writes, Locks
  <2>5. me[p].m \in Locks
    BY <1>2 DEF Locks
  <2>6. Locked'
    BY <2>1, <2>3, <2>4, <2>5, DropsR
  <2> QED BY <2>2, <2>6 DEF Kept
<1> QED BY <1>3, <1>4

LEMMA UndoNsKept ==
  ASSUME Control, NEW p \in Proc, UndoNs(p)
  PROVE  Kept(p) /\ Balanced(p)
<1> DEFINE v == me[p]
           um == IF table[v.call.b] = Nil THEN <<>> ELSE list[table[v.call.b]]
           w == [v EXCEPT !.h = table[v.call.b], !.um = um]
           l == "undone"
<1>1. pc[p] = "undo" /\ pc' = [pc EXCEPT ![p] = l] /\ me' = [me EXCEPT ![p] = w] /\ copy' = copy
  BY DEF UndoNs, At, Goto, Local
<1>2. v \in Locals /\ Placed(p) /\ Serves("undo", v.call.op) /\ Chans("undo", v) /\ Tries("undo", v)
  BY <1>1, Here DEF Placed
<1>3. l = "undone" /\ table[v.call.b] \in Mhead \cup {Nil} /\ um \in Seq(Mount)
  <2>1. table[v.call.b] \in Mhead \cup {Nil}
    BY <1>1, Here DEF Control, Shapes
  <2>2. <<>> \in Seq(Mount)
    OBVIOUS
  <2> QED BY <2>1, <2>2 DEF Control, Shapes
<1> HIDE DEF v, um
<1>4. w \in Locals /\ w.call = v.call /\ w.b = v.b /\ w.c = v.c /\ w.m = v.m
      /\ w.new = v.new /\ w.mh = v.mh /\ w.add = v.add /\ w.retry = v.retry /\ w.res = v.res
      /\ w.h = table[v.call.b] /\ w.um = um
  BY <1>2, <1>3 DEF Locals
<1> HIDE DEF w, l
<1>5. Serves(l, v.call.op) /\ Chans(l, w) /\ Tries(l, w) /\ l \in PC /\ l # "idle"
  BY <1>2, <1>3, <1>4 DEF Serves, Chans, Tries, Binding, Forking, Inside, Keeps, PC
<1>6. Moves(p) /\ Placed(p)'
  BY <1>1, <1>2, <1>4, <1>5, OnPlaced DEF Control, v
<1>7. Steps(p, l, w)
  BY <1>1 DEF Steps
<1>8. Locked'
  <2>1. CanR("ns") /\ lock' = [lock EXCEPT !["ns"].r = @ \cup {p}]
    BY DEF UndoNs
  <2>2. "ns" \in Locks
    BY <1>1, <1>2, <1>3, <1>4 DEF Locks, v, Locals
  <2>3. \A y \in Locks : /\ Reads(l, w, y) <=> Reads(pc[p], me[p], y) \/ y = "ns"
                         /\ Writes(l, w, y) <=> Writes(pc[p], me[p], y)
    BY <1>1, <1>2, <1>3, <1>4 DEF v, Reads, Writes
  <2> QED BY <1>7, <2>1, <2>2, <2>3, TakesR
<1>9. Balanced(p)
  <2>1. copy' = copy /\ chan' = chan /\ href' = href
    BY DEF UndoNs, heads, world
  <2> QED BY <1>1, <1>2, <1>3, <1>4, <1>7, <2>1, BalanceKept DEF v
<1> QED BY <1>6, <1>8, <1>9 DEF Kept

LEMMA undomountKept ==
  ASSUME Control, NEW p \in Proc, undomount(p)
  PROVE  Kept(p) /\ Balanced(p)
<1> DEFINE v == me[p]
           cc == IF \E i \in DOMAIN v.um : v.um[i].to = v.c THEN v.call.b ELSE v.c
           w == [v EXCEPT !.c = cc, !.h = Nil, !.um = <<>>]
           l == "back"
<1>1. pc[p] = "undone" /\ pc' = [pc EXCEPT ![p] = l] /\ me' = [me EXCEPT ![p] = w] /\ copy' = copy
  BY DEF undomount, At, Goto, Local
<1>2. v \in Locals /\ Placed(p) /\ Serves("undone", v.call.op) /\ Chans("undone", v) /\ Tries("undone", v)
  BY <1>1, Here DEF Placed
<1>3. l = "back" /\ cc \in Dir \cup {Nil} /\ <<>> \in Seq(Mount)
  <2>1. v.call.b \in Dir /\ v.c \in Dir \cup {Nil}
    BY <1>1, Here, LocalFacts DEF Control, Shapes
  <2> QED BY <2>1
<1> HIDE DEF v, cc
<1>4. w \in Locals /\ w.call = v.call /\ w.b = v.b /\ w.m = v.m /\ w.new = v.new
      /\ w.mh = v.mh /\ w.add = v.add /\ w.retry = v.retry /\ w.res = v.res
      /\ w.c = cc /\ w.h = Nil /\ w.um = <<>>
  BY <1>2, <1>3 DEF Locals
<1> HIDE DEF w, l
<1>5. Serves(l, v.call.op) /\ Chans(l, w) /\ Tries(l, w) /\ l \in PC /\ l # "idle"
  BY <1>2, <1>3, <1>4 DEF Serves, Chans, Tries, Binding, Forking, Inside, Keeps, PC
<1>6. Moves(p) /\ Placed(p)'
  BY <1>1, <1>2, <1>4, <1>5, OnPlaced DEF Control, v
<1>7. Steps(p, l, w)
  BY <1>1 DEF Steps
<1>8. Locked'
  <2>1. lock' = [lock EXCEPT !["ns"].r = @ \ {p}]
    BY DEF undomount
  <2>2. "ns" \in Locks
    BY <1>1, <1>2, <1>3, <1>4 DEF Locks, v, Locals
  <2>3. \A y \in Locks : /\ Reads(l, w, y) <=> Reads(pc[p], me[p], y) /\ y # "ns"
                         /\ Writes(l, w, y) <=> Writes(pc[p], me[p], y)
    BY <1>1, <1>2, <1>3, <1>4 DEF v, Reads, Writes
  <2> QED BY <1>7, <2>1, <2>2, <2>3, DropsR
<1>9. Balanced(p)
  <2>1. chan' \in [Dir -> Int] /\ \A d \in Dir : chan'[d] = chan[d] - Own(v, d) + Own(w, d)
    <3>0. chan' = Incref(cclose(chan, v.c), cc) \/ (chan' = chan /\ cc = v.c)
      BY DEF undomount, v, cc
    <3>1. CASE chan' = Incref(cclose(chan, v.c), cc)
      <4>1. v.c \in Dir \cup {Nil} /\ chan \in [Dir -> Int]
        BY <1>2 DEF Locals, Control, Shapes
      <4>2. /\ chan' \in [Dir -> Int]
            /\ \A d \in Dir : chan'[d] = chan[d] - Is(v.c, d) + Is(cc, d)
        BY <1>3, <3>1, <4>1, ChanSwap
      <4>3. ASSUME NEW d \in Dir PROVE chan'[d] = chan[d] - Own(v, d) + Own(w, d)
        <5>1. /\ chan[d] \in Int /\ Is(v.b, d) \in Nat /\ Is(v.new, d) \in Nat
              /\ Is(v.c, d) \in Nat /\ Is(cc, d) \in Nat
          BY <4>1, IsType
        <5> QED BY <1>4, <4>2, <5>1 DEF Own
      <4> QED BY <4>2, <4>3
    <3>2. CASE chan' = chan /\ cc = v.c
      <4>1. chan \in [Dir -> Int]
        BY DEF Control, Shapes
      <4>2. \A d : Own(w, d) = Own(v, d) /\ Own(v, d) \in Nat
        BY <1>4, <3>2, OwnType DEF Own
      <4> QED BY <3>2, <4>1, <4>2
    <3> QED BY <3>0, <3>1, <3>2
  <2>2. href' \in [Mhead -> Int] /\ \A h \in Mhead : href'[h] = href[h] - OwnHead(v, h) + OwnHead(w, h)
    <3>1. href' = href /\ href \in [Mhead -> Int]
      BY DEF undomount, heads, Control, Shapes
    <3>2. \A h : OwnHead(w, h) = OwnHead(v, h) /\ OwnHead(v, h) \in Nat
      BY <1>4, OwnType DEF OwnHead
    <3> QED BY <3>1, <3>2
  <2> QED BY <1>1, <1>2, <1>3, <1>4, <1>7, <2>1, <2>2, Balancing DEF v
<1> QED BY <1>6, <1>8, <1>9 DEF Kept

LEMMA BackKept ==
  ASSUME Control, NEW p \in Proc, Back(p)
  PROVE  Kept(p) /\ Balanced(p)
<1>1. pc[p] \in {"back"} /\ End(p, "none") /\ copy' = copy /\ lock' = lock
  BY DEF Back, Return, At
<1> QED BY <1>1, EndKept

LEMMA OpenKept ==
  ASSUME Control, NEW p \in Proc, Open(p)
  PROVE  Kept(p) /\ Balanced(p)
<1> DEFINE v == me[p]
           mm == IF v.m # Nil /\ Len(list[v.m]) > 1 THEN v.m ELSE Nil
           w == [v EXCEPT !.m = mm]
           l == IF v.call.op = "unmount" THEN "um.ns" ELSE "opened"
<1>1. pc[p] = "umh" /\ pc' = [pc EXCEPT ![p] = l] /\ me' = [me EXCEPT ![p] = w] /\ copy' = copy
  BY DEF Open, At, Goto, Local
<1>2. v \in Locals /\ Placed(p) /\ Serves("umh", v.call.op) /\ Chans("umh", v) /\ Tries("umh", v)
  BY <1>1, Here DEF Placed
<1>3. /\ mm \in Mhead \cup {Nil}
      /\ v.call.op = "unmount" => l = "um.ns"
      /\ v.call.op # "unmount" => l = "opened"
  BY <1>2 DEF Locals
<1> HIDE DEF v, mm
<1>4. w \in Locals /\ w.call = v.call /\ w.b = v.b /\ w.c = v.c /\ w.new = v.new
      /\ w.mh = v.mh /\ w.h = v.h /\ w.add = v.add /\ w.um = v.um /\ w.retry = v.retry /\ w.res = v.res
      /\ w.m = mm
  BY <1>2, <1>3 DEF Locals
<1> HIDE DEF w, l
<1>5. Serves(l, v.call.op) /\ Chans(l, w) /\ Tries(l, w) /\ l \in PC /\ l # "idle"
  BY <1>2, <1>3, <1>4 DEF Serves, Chans, Tries, Binding, Forking, Inside, Keeps, PC
<1>6. Moves(p) /\ Placed(p)'
  BY <1>1, <1>2, <1>4, <1>5, OnPlaced DEF Control, v
<1>7. Steps(p, l, w)
  BY <1>1 DEF Steps
<1>8. Locked'
  <2>1. lock' = lock
    BY DEF Open
  <2>3. \A y \in Locks : /\ Reads(l, w, y) <=> Reads(pc[p], me[p], y)
                         /\ Writes(l, w, y) <=> Writes(pc[p], me[p], y)
    BY <1>1, <1>2, <1>3, <1>4 DEF v, Reads, Writes
  <2> QED BY <1>7, <2>1, <2>3, LockKept
<1>9. Balanced(p)
  <2>1. chan' \in [Dir -> Int] /\ \A d \in Dir : chan'[d] = chan[d] - Own(v, d) + Own(w, d)
    <3>1. chan' = chan /\ chan \in [Dir -> Int]
      BY DEF Open, world, Control, Shapes
    <3>2. \A d : Own(w, d) = Own(v, d) /\ Own(v, d) \in Nat
      BY <1>4, OwnType DEF Own
    <3> QED BY <3>1, <3>2
  <2>2. href' \in [Mhead -> Int] /\ \A h \in Mhead : href'[h] = href[h] - OwnHead(v, h) + OwnHead(w, h)
    <3>1. /\ href' = (IF mm = v.m /\ v.m # Nil THEN href ELSE putmhead(href, v.m))
          /\ mm \in {v.m, Nil} /\ href \in [Mhead -> Int]
      BY DEF Open, Control, Shapes, v, mm
    <3>2. CASE href' = href /\ mm = v.m
      <4>1. \A h : OwnHead(w, h) = OwnHead(v, h) /\ OwnHead(v, h) \in Nat
        BY <1>4, <3>2, OwnType DEF OwnHead
      <4> QED BY <3>1, <3>2, <4>1
    <3>3. CASE href' = putmhead(href, v.m) /\ mm = Nil
      <4>1. v.m \in Mhead \cup {Nil}
        BY <1>2 DEF Locals
      <4>2. href' \in [Mhead -> Int] /\ \A h \in Mhead : href'[h] = href[h] - Is(v.m, h)
        BY <3>1, <3>3, <4>1, HeadArithmetic
      <4>3. ASSUME NEW h \in Mhead PROVE href'[h] = href[h] - OwnHead(v, h) + OwnHead(w, h)
        <5>1. href[h] \in Int /\ Is(v.m, h) \in Nat /\ Is(v.mh, h) \in Nat /\ Is(mm, h) = 0
          BY <3>1, <3>3, IsType, Names
        <5> QED BY <1>4, <4>2, <5>1 DEF OwnHead
      <4> QED BY <4>2, <4>3
    <3> QED BY <3>1, <3>2, <3>3
  <2> QED BY <1>1, <1>2, <1>3, <1>4, <1>7, <2>1, <2>2, Balancing DEF v
<1> QED BY <1>6, <1>8, <1>9 DEF Kept

LEMMA unionreadKept ==
  ASSUME Control, NEW p \in Proc, unionread(p)
  PROVE  Kept(p) /\ Balanced(p)
<1>1. pc[p] = "opened" /\ pc' = [pc EXCEPT ![p] = "reading"] /\ me' = me /\ copy' = copy /\ me[p].m # Nil
  BY DEF unionread, At, Goto, Local
<1>2. Placed(p) /\ Serves("opened", me[p].call.op) /\ Chans("opened", me[p]) /\ Tries("opened", me[p])
  BY <1>1, Here DEF Placed
<1>3. Serves("reading", me[p].call.op) /\ Chans("reading", me[p]) /\ Tries("reading", me[p]) /\ "reading" \in PC
  BY <1>1, <1>2 DEF Serves, Chans, Tries, Binding, Forking, Inside, Keeps, PC
<1>6. Moves(p) /\ Placed(p)'
  BY <1>1, <1>2, <1>3, PassPlaced DEF Control
<1>7. Steps(p, "reading", me[p])
  BY <1>1, StepSame DEF Steps, Control
<1>4. me[p].m \in Mhead
  BY <1>1, <1>2, Here DEF Chans, Locals
<1>8. Locked'
  <2>1. CanR(me[p].m) /\ lock' = [lock EXCEPT ![me[p].m].r = @ \cup {p}]
    BY <1>1, <1>4 DEF unionread
  <2>2. me[p].m \in Locks
    BY <1>1, <1>4 DEF Locks
  <2>3. \A y \in Locks : /\ Reads("reading", me[p], y) <=> Reads(pc[p], me[p], y) \/ y = me[p].m
                         /\ Writes("reading", me[p], y) <=> Writes(pc[p], me[p], y)
    BY <1>1, <1>4, Names DEF Reads, Writes, Locks
  <2> QED BY <1>7, <2>1, <2>2, <2>3, TakesR
<1>9. Balanced(p)
  <2>1. copy' = copy /\ chan' = chan /\ href' = href /\ me[p] \in Locals
    BY Here DEF unionread, heads, world
  <2> QED BY <1>1, <1>7, <2>1, BalanceKept
<1> QED BY <1>6, <1>8, <1>9 DEF Kept

LEMMA ReadDoneKept ==
  ASSUME Control, NEW p \in Proc, ReadDone(p)
  PROVE  Kept(p) /\ Balanced(p)
<1>1. pc[p] = "reading" /\ pc' = [pc EXCEPT ![p] = "read"] /\ me' = me /\ copy' = copy
  BY DEF ReadDone, At, Goto, Local
<1>2. Placed(p) /\ Serves("reading", me[p].call.op) /\ Chans("reading", me[p]) /\ Tries("reading", me[p])
  BY <1>1, Here DEF Placed
<1>3. Serves("read", me[p].call.op) /\ Chans("read", me[p]) /\ Tries("read", me[p]) /\ "read" \in PC
  BY <1>1, <1>2 DEF Serves, Chans, Tries, Binding, Forking, Inside, Keeps, PC
<1>6. Moves(p) /\ Placed(p)'
  BY <1>1, <1>2, <1>3, PassPlaced DEF Control
<1>7. Steps(p, "read", me[p])
  BY <1>1, StepSame DEF Steps, Control
<1>4. me[p].m \in Mhead
  BY <1>1, <1>2, Here DEF Chans, Locals
<1>8. Locked'
  <2>1. lock' = [lock EXCEPT ![me[p].m].r = @ \ {p}]
    BY <1>1, <1>4 DEF ReadDone
  <2>2. me[p].m \in Locks
    BY <1>1, <1>4 DEF Locks
  <2>3. \A y \in Locks : /\ Reads("read", me[p], y) <=> Reads(pc[p], me[p], y) /\ y # me[p].m
                         /\ Writes("read", me[p], y) <=> Writes(pc[p], me[p], y)
    BY <1>1, <1>4, Names DEF Reads, Writes, Locks
  <2> QED BY <1>7, <2>1, <2>2, <2>3, DropsR
<1>9. Balanced(p)
  <2>1. copy' = copy /\ chan' = chan /\ href' = href /\ me[p] \in Locals
    BY Here DEF ReadDone, heads, world
  <2> QED BY <1>1, <1>7, <2>1, BalanceKept
<1> QED BY <1>6, <1>8, <1>9 DEF Kept

LEMMA CloseKept ==
  ASSUME Control, NEW p \in Proc, Close(p)
  PROVE  Kept(p) /\ Balanced(p)
<1>1. pc[p] \in {"opened", "read"} /\ End(p, "none") /\ copy' = copy /\ lock' = lock
  BY DEF Close, Return, At
<1> QED BY <1>1, EndKept

(* Trying again to open what a create could not make.                      *)
LEMMA RetryKept ==
  ASSUME Control, NEW p \in Proc, pc[p] \in {"createdir", "create"},
         NEW e \in {"exists", "nocreate"}, Retry(p, e), copy' = copy, lock' = lock
  PROVE  Kept(p) /\ Balanced(p)
<1> DEFINE v == me[p]
           w == [v EXCEPT !.c = v.b, !.m = Nil, !.retry = TRUE, !.res = e]
<1>1. v \in Locals /\ Shapes /\ Placed(p) /\ Serves(pc[p], v.call.op) /\ Chans(pc[p], v) /\ Tries(pc[p], v)
      /\ v.call.b \in Dir
  BY Here DEF Placed, Control
<1>2. CASE v.call.excl
  <2>1. End(p, "none")
    BY <1>2 DEF Retry
  <2> QED BY <2>1, EndKept
<1>3. CASE ~v.call.excl
  <2>1. pc' = [pc EXCEPT ![p] = "find"] /\ me' = [me EXCEPT ![p] = w]
    BY <1>3 DEF Retry, Goto, Local
  <2> HIDE DEF v
  <2>2. w \in Locals /\ w.call = v.call /\ w.b = v.b /\ w.c = v.b /\ w.m = Nil /\ w.new = v.new
        /\ w.mh = v.mh /\ w.add = v.add /\ w.retry = TRUE /\ w.res = e
    BY <1>1 DEF Locals
  <2> HIDE DEF w
  <2>3. v.b = v.call.b /\ v.b # Nil /\ v.call.op = "create"
    BY <1>1, Names DEF Serves, Chans, Keeps
  <2>4. Serves("find", v.call.op) /\ Chans("find", w) /\ Tries("find", w) /\ "find" \in PC
    BY <1>1, <2>2, <2>3 DEF Serves, Chans, Tries, Binding, Forking, Inside, Keeps, PC
  <2>5. Moves(p) /\ Placed(p)'
    BY <1>1, <2>1, <2>2, <2>4, OnPlaced DEF v
  <2>6. Steps(p, "find", w)
    BY <2>1 DEF Steps
  <2>7. Locked'
    <3>1. \A y \in Locks : /\ Reads("find", w, y) <=> Reads(pc[p], me[p], y)
                           /\ Writes("find", w, y) <=> Writes(pc[p], me[p], y)
      BY DEF Reads, Writes
    <3> QED BY <2>6, <3>1, LockKept
  <2>8. chan' \in [Dir -> Int] /\ \A d \in Dir : chan'[d] = chan[d] - Own(v, d) + Own(w, d)
    <3>1. chan' = Incref(cclose(chan, v.c), v.b) /\ chan \in [Dir -> Int]
      BY <1>3 DEF Retry, Control, Shapes, v
    <3>2. v.c \in Dir \cup {Nil} /\ v.b \in Dir \cup {Nil}
      BY <1>1 DEF Locals
    <3>3. /\ chan' \in [Dir -> Int]
          /\ \A d \in Dir : chan'[d] = chan[d] - Is(v.c, d) + Is(v.b, d)
      BY <3>1, <3>2, ChanSwap
    <3>4. ASSUME NEW d \in Dir PROVE chan'[d] = chan[d] - Own(v, d) + Own(w, d)
      <4>1. /\ chan[d] \in Int /\ Is(v.b, d) \in Nat /\ Is(v.new, d) \in Nat
            /\ Is(v.c, d) \in Nat /\ Is(v.b, d) \in Nat
        BY <3>1, IsType
      <4>2. Own(w, d) = Is(v.b, d) + Is(v.b, d) + Is(v.new, d)
        BY <2>2 DEF Own
      <4> QED BY <3>3, <4>1, <4>2 DEF Own
    <3> QED BY <3>3, <3>4
  <2>9. href' \in [Mhead -> Int] /\ \A h \in Mhead : href'[h] = href[h] - OwnHead(v, h) + OwnHead(w, h)
    <3>1. href' = putmhead(href, v.m) /\ href \in [Mhead -> Int] /\ v.m \in Mhead \cup {Nil}
      BY <1>1, <1>3 DEF Retry, Control, Shapes, v, Locals
    <3>2. href' \in [Mhead -> Int] /\ \A h \in Mhead : href'[h] = href[h] - Is(v.m, h)
      BY <3>1, HeadArithmetic
    <3>3. ASSUME NEW h \in Mhead PROVE href'[h] = href[h] - OwnHead(v, h) + OwnHead(w, h)
      <4>1. href[h] \in Int /\ Is(v.m, h) \in Nat /\ Is(v.mh, h) \in Nat /\ Is(Nil, h) = 0
        BY <3>1, IsType, Names
      <4> QED BY <2>2, <3>2, <4>1 DEF OwnHead
    <3> QED BY <3>2, <3>3
  <2>10. pc[p] # "um.free"
    OBVIOUS
  <2>11. Balanced(p)
    BY <2>2, <2>6, <2>8, <2>9, <2>10, Balancing DEF v
  <2> QED BY <2>5, <2>7, <2>11 DEF Kept
<1> QED BY <1>2, <1>3

LEMMA createdirKept ==
  ASSUME Control, NEW p \in Proc, createdir(p)
  PROVE  Kept(p) /\ Balanced(p)
<1> DEFINE v == me[p]
           s == list[v.m]
<1>1. v \in Locals /\ Shapes /\ Placed(p) /\ pc[p] = "createdir" /\ v.m # Nil /\ copy' = copy
      /\ lock' = lock /\ Serves("createdir", v.call.op) /\ Chans("createdir", v) /\ Tries("createdir", v)
  BY Here DEF Placed, Control, createdir, At
<1>2. ASSUME NEW i \in Creatable(s), Goto(p, "create"), Local(p, [v EXCEPT !.c = s[i].to]),
             chan' = Incref(cclose(chan, v.c), s[i].to), href' = href
      PROVE  Kept(p) /\ Balanced(p)
  <2> DEFINE w == [v EXCEPT !.c = s[i].to]
  <2>1. s \in Seq(Mount) /\ i \in 1..Len(s)
    <3>1. v.m \in Mhead
      BY <1>1 DEF Locals
    <3>2. s \in Seq(Mount)
      BY <1>1, <3>1 DEF Shapes
    <3> QED BY <3>2, LenProperties DEF Creatable
  <2>2. s[i].to \in Dir
    <3>1. s[i] \in Mount
      BY <2>1, ElementOfSeq
    <3> QED BY <3>1 DEF Mount
  <2>3. pc' = [pc EXCEPT ![p] = "create"] /\ me' = [me EXCEPT ![p] = w]
    BY <1>2 DEF Goto, Local
  <2> DEFINE to == s[i].to
  <2> HIDE DEF v, s, to
  <2>4. w \in Locals /\ w.call = v.call /\ w.b = v.b /\ w.c = to /\ w.m = v.m /\ w.new = v.new
        /\ w.mh = v.mh /\ w.add = v.add /\ w.retry = v.retry /\ w.res = v.res
    BY <1>1, <2>2 DEF Locals, to
  <2>5. to # Nil
    BY <2>2, Names DEF to
  <2> HIDE DEF w
  <2>6. Serves("create", v.call.op) /\ Chans("create", w) /\ Tries("create", w) /\ "create" \in PC
    BY <1>1, <2>4, <2>5 DEF Serves, Chans, Tries, Binding, Forking, Inside, Keeps, PC
  <2>7. Moves(p) /\ Placed(p)'
    BY <1>1, <2>3, <2>4, <2>6, OnPlaced DEF v
  <2>8. Steps(p, "create", w)
    BY <2>3 DEF Steps
  <2>9. Locked'
    <3>1. \A y \in Locks : /\ Reads("create", w, y) <=> Reads(pc[p], me[p], y)
                           /\ Writes("create", w, y) <=> Writes(pc[p], me[p], y)
      BY <1>1 DEF Reads, Writes
    <3> QED BY <1>1, <2>8, <3>1, LockKept
  <2>10. chan' \in [Dir -> Int] /\ \A d \in Dir : chan'[d] = chan[d] - Own(v, d) + Own(w, d)
    <3>1. chan' = Incref(cclose(chan, v.c), to) /\ chan \in [Dir -> Int]
      BY <1>2 DEF to, Control, Shapes, v
    <3>2. v.c \in Dir \cup {Nil} /\ to \in Dir \cup {Nil}
      BY <1>1, <2>2, <2>4 DEF Locals
    <3>3. /\ chan' \in [Dir -> Int]
          /\ \A d \in Dir : chan'[d] = chan[d] - Is(v.c, d) + Is(to, d)
      BY <3>1, <3>2, ChanSwap
    <3>4. ASSUME NEW d \in Dir PROVE chan'[d] = chan[d] - Own(v, d) + Own(w, d)
      <4>1. /\ chan[d] \in Int /\ Is(v.b, d) \in Nat /\ Is(v.new, d) \in Nat
            /\ Is(v.c, d) \in Nat /\ Is(to, d) \in Nat
        BY <3>1, IsType
      <4>2. Own(w, d) = Is(v.b, d) + Is(to, d) + Is(v.new, d)
        BY <2>4 DEF Own
      <4> QED BY <3>3, <4>1, <4>2 DEF Own
    <3> QED BY <3>3, <3>4
  <2>11. href' \in [Mhead -> Int] /\ \A h \in Mhead : href'[h] = href[h] - OwnHead(v, h) + OwnHead(w, h)
    <3>1. href' = href /\ href \in [Mhead -> Int]
      BY <1>1, <1>2 DEF Shapes
    <3>2. \A h : OwnHead(w, h) = OwnHead(v, h) /\ OwnHead(v, h) \in Nat
      BY <2>4, OwnType DEF OwnHead
    <3> QED BY <3>1, <3>2
  <2>12. Balanced(p)
    BY <1>1, <2>4, <2>8, <2>10, <2>11, Balancing DEF v
  <2> QED BY <2>7, <2>9, <2>12 DEF Kept
<1>3. ASSUME Retry(p, "nocreate") PROVE Kept(p) /\ Balanced(p)
  BY <1>1, <1>3, RetryKept
<1> QED BY <1>2, <1>3 DEF createdir

LEMMA CreateKept ==
  ASSUME Control, NEW p \in Proc, Create(p)
  PROVE  Kept(p) /\ Balanced(p)
<1>1. pc[p] \in {"createdir", "create"} /\ copy' = copy /\ lock' = lock /\ (End(p, "none") \/ Retry(p, "exists"))
  BY DEF Create, At
<1> QED BY <1>1, EndKept, RetryKept

LEMMA CheckKept ==
  ASSUME Control, NEW p \in Proc, Check(p)
  PROVE  Kept(p) /\ Balanced(p)
<1> DEFINE v == me[p]
           w == [v EXCEPT !.new = v.c, !.mh = v.m, !.c = Nil, !.m = Nil]
<1>1. v \in Locals /\ Shapes /\ Placed(p) /\ pc[p] = "check"
      /\ Serves("check", v.call.op) /\ Chans("check", v) /\ Tries("check", v)
  BY Here DEF Placed, Control, Check, At
<1>2. CASE Return(p)
  <2>1. End(p, "none") /\ copy' = copy /\ lock' = lock
    BY <1>2 DEF Return
  <2> QED BY <1>1, <2>1, EndKept
<1>3. CASE Goto(p, "bind.ns") /\ Local(p, w) /\ UNCHANGED <<heads, lock, world, copy>>
  <2>1. pc' = [pc EXCEPT ![p] = "bind.ns"] /\ me' = [me EXCEPT ![p] = w] /\ copy' = copy
    BY <1>3 DEF Goto, Local
  <2> HIDE DEF v
  <2>2. w \in Locals /\ w.call = v.call /\ w.b = v.b /\ w.c = Nil /\ w.m = Nil /\ w.new = v.c
        /\ w.mh = v.m /\ w.add = v.add /\ w.retry = v.retry /\ w.res = v.res
    BY <1>1 DEF Locals
  <2> HIDE DEF w
  <2>3. Serves("bind.ns", v.call.op) /\ Chans("bind.ns", w) /\ Tries("bind.ns", w) /\ "bind.ns" \in PC
    BY <1>1, <2>2 DEF Serves, Chans, Tries, Binding, Forking, Inside, Keeps, PC
  <2>4. Moves(p) /\ Placed(p)'
    BY <1>1, <2>1, <2>2, <2>3, OnPlaced DEF v
  <2>5. Steps(p, "bind.ns", w)
    BY <2>1 DEF Steps
  <2>6. Locked'
    <3>1. \A y \in Locks : /\ Reads("bind.ns", w, y) <=> Reads(pc[p], me[p], y)
                           /\ Writes("bind.ns", w, y) <=> Writes(pc[p], me[p], y)
      BY <1>1 DEF Reads, Writes
    <3> QED BY <1>3, <2>5, <3>1, LockKept
  <2>7. /\ v.new = Nil /\ v.mh = Nil /\ chan' = chan /\ href' = href
        /\ chan \in [Dir -> Int] /\ href \in [Mhead -> Int]
    BY <1>1, <1>3 DEF Chans, Shapes, Binding, heads, world
  <2>8. ASSUME NEW d \in Dir PROVE chan'[d] = chan[d] - Own(v, d) + Own(w, d)
    <3>1. chan[d] \in Int /\ Is(v.b, d) \in Nat /\ Is(v.c, d) \in Nat /\ Is(Nil, d) = 0
      BY <2>7, IsType, Names
    <3> QED BY <2>2, <2>7, <3>1 DEF Own
  <2>9. ASSUME NEW h \in Mhead PROVE href'[h] = href[h] - OwnHead(v, h) + OwnHead(w, h)
    <3>1. href[h] \in Int /\ Is(v.m, h) \in Nat /\ Is(Nil, h) = 0
      BY <2>7, IsType, Names
    <3> QED BY <2>2, <2>7, <3>1 DEF OwnHead
  <2>10. Balanced(p)
    BY <1>1, <1>3, <2>2, <2>5, <2>7, <2>8, <2>9, Balancing DEF v
  <2> QED BY <2>4, <2>6, <2>10 DEF Kept
<1> QED BY <1>2, <1>3 DEF Check

LEMMA BindNsKept ==
  ASSUME Control, NEW p \in Proc, BindNs(p)
  PROVE  Kept(p)
<1> DEFINE v == me[p]
<1>1. v \in Locals /\ Shapes /\ Placed(p) /\ pc[p] = "bind.ns"
      /\ Serves("bind.ns", v.call.op) /\ Chans("bind.ns", v) /\ Tries("bind.ns", v)
  BY Here DEF Placed, Control, BindNs, At
<1>2. v.b \in Dir
  BY <1>1, Here DEF Serves, Chans, Binding, Keeps
<1>3. PICK h \in Mhead \cup {Nil} :
        /\ pc' = [pc EXCEPT ![p] = "bind.lk"] /\ me' = [me EXCEPT ![p] = [v EXCEPT !.h = h]]
        /\ copy' = copy
  <2>1. table[v.b] \in Mhead \cup {Nil}
    BY <1>1, <1>2 DEF Shapes
  <2> QED BY <2>1 DEF BindNs, Goto, Local
<1> DEFINE w == [v EXCEPT !.h = h]
<1> HIDE DEF v
<1>4. w \in Locals /\ w.call = v.call /\ w.b = v.b /\ w.c = v.c /\ w.m = v.m /\ w.new = v.new
      /\ w.mh = v.mh /\ w.add = v.add /\ w.retry = v.retry /\ w.res = v.res
  BY <1>1 DEF Locals
<1>5. me' = [me EXCEPT ![p] = w]
  BY <1>3
<1> HIDE DEF w
<1>6. Serves("bind.lk", v.call.op) /\ Chans("bind.lk", w) /\ Tries("bind.lk", w) /\ "bind.lk" \in PC
  BY <1>1, <1>4 DEF Serves, Chans, Tries, Binding, Forking, Inside, Keeps, PC
<1>9. Moves(p) /\ Placed(p)'
  BY <1>1, <1>3, <1>4, <1>5, <1>6, OnPlaced DEF v
<1>7. Steps(p, "bind.lk", w)
  BY <1>3, <1>5 DEF Steps
<1>8. Locked'
  <2>1. CanW("ns") /\ lock' = [lock EXCEPT !["ns"].w = p]
    BY DEF BindNs
  <2>2. "ns" \in Locks
    BY <1>1 DEF Locks
  <2>3. \A y \in Locks : /\ Reads("bind.lk", w, y) <=> Reads(pc[p], me[p], y)
                         /\ Writes("bind.lk", w, y) <=> Writes(pc[p], me[p], y) \/ y = "ns"
    BY <1>1 DEF Reads, Writes
  <2> QED BY <1>7, <2>1, <2>2, <2>3, TakesW
<1> QED BY <1>8, <1>9 DEF Kept

LEMMA BindLockKept ==
  ASSUME Control, NEW p \in Proc, BindLock(p)
  PROVE  Kept(p)
<1> DEFINE v == me[p]
           um == IF v.mh = Nil THEN <<>> ELSE list[v.mh]
           add == <<[to |-> v.new, mcreate |-> v.call.mcreate, id |-> mountid + 1]>>
           w == [v EXCEPT !.um = um, !.add = add]
           l == "bind.copy"
<1>1. pc[p] = "bind.lk" /\ pc' = [pc EXCEPT ![p] = l] /\ me' = [me EXCEPT ![p] = w] /\ copy' = copy
  BY DEF BindLock, At, Goto, Local
<1>2. v \in Locals /\ Placed(p) /\ Serves("bind.lk", v.call.op) /\ Chans("bind.lk", v) /\ Tries("bind.lk", v)
  BY <1>1, Here DEF Placed
<1>3. l = "bind.copy" /\ um \in Seq(Mount) /\ add \in Seq(Mount)
  <2>1. um \in Seq(Mount)
    <3>1. <<>> \in Seq(Mount)
      OBVIOUS
    <3>2. v.mh \in Mhead \cup {Nil}
      BY <1>2 DEF Locals
    <3> QED BY <3>1, <3>2 DEF Control, Shapes
  <2>2. v.new \in Dir /\ v.call.mcreate \in BOOLEAN /\ mountid + 1 \in Nat
    <3>1. v.new \in Dir
      BY <1>2 DEF Chans, Binding, Locals
    <3> QED BY <1>1, <1>2, <3>1, CallFacts DEF Placed, Control, Shapes
  <2>3. [to |-> v.new, mcreate |-> v.call.mcreate, id |-> mountid + 1] \in Mount
    BY <2>2 DEF Mount
  <2> QED BY <2>1, <2>3
<1> HIDE DEF v, um, add
<1>4. w \in Locals /\ w.call = v.call /\ w.b = v.b /\ w.c = v.c /\ w.m = v.m
      /\ w.new = v.new /\ w.mh = v.mh /\ w.h = v.h /\ w.retry = v.retry /\ w.res = v.res
      /\ w.um = um /\ w.add = add
  BY <1>2, <1>3 DEF Locals
<1> HIDE DEF w, l
<1>5. Serves(l, v.call.op) /\ Chans(l, w) /\ Tries(l, w) /\ l \in PC /\ l # "idle"
  BY <1>2, <1>3, <1>4 DEF Serves, Chans, Tries, Binding, Forking, Inside, Keeps, PC
<1>6. Moves(p) /\ Placed(p)'
  BY <1>1, <1>2, <1>4, <1>5, OnPlaced DEF Control, v
<1>7. Steps(p, l, w)
  BY <1>1 DEF Steps
<1>h. v.h \in Mhead
  BY <1>1, Here DEF Located, Locals, v
<1>8. Locked'
  <2>1. CanW(v.h) /\ Writes(pc[p], me[p], "ns")
        /\ \/ lock' = [lock EXCEPT ![v.h].w = p, !["ns"].w = Nil]
           \/ lock' = [lock EXCEPT !["ns"].w = Nil, ![v.h].w = p]
    BY <1>1, <1>2, <1>3, <1>4, <1>h DEF BindLock, v, Writes
  <2>2. v.h \in Mhead
    BY <1>1, <1>2, <1>3, <1>4, <1>h DEF Locks, v, Locals
  <2>3. \A y \in Locks : /\ Reads(l, w, y) <=> Reads(pc[p], me[p], y)
                         /\ Writes(l, w, y) <=> y = v.h \/ (Writes(pc[p], me[p], y) /\ y # "ns")
    BY <1>1, <1>2, <1>3, <1>4, <1>h, Names DEF v, Reads, Writes, Locks
  <2> QED BY <1>7, <2>1, <2>2, <2>3, HandsW
<1> QED BY <1>6, <1>8 DEF Kept

LEMMA BindLinkKept ==
  ASSUME Control, NEW p \in Proc, BindLink(p)
  PROVE  Kept(p)
<1> DEFINE v == me[p]
           w == [v EXCEPT !.h = Nil, !.add = <<>>, !.um = <<>>]
           l == "back"
<1>1. pc[p] = "bind.copy" /\ pc' = [pc EXCEPT ![p] = l] /\ me' = [me EXCEPT ![p] = w] /\ copy' = copy
  BY DEF BindLink, At, Goto, Local
<1>2. v \in Locals /\ Placed(p) /\ Serves("bind.copy", v.call.op) /\ Chans("bind.copy", v) /\ Tries("bind.copy", v)
  BY <1>1, Here DEF Placed
<1>3. l = "back" /\ <<>> \in Seq(Mount)
  OBVIOUS
<1> HIDE DEF v
<1>4. w \in Locals /\ w.call = v.call /\ w.b = v.b /\ w.c = v.c /\ w.m = v.m
      /\ w.new = v.new /\ w.mh = v.mh /\ w.retry = v.retry /\ w.res = v.res
      /\ w.h = Nil /\ w.add = <<>> /\ w.um = <<>>
  BY <1>2, <1>3 DEF Locals
<1> HIDE DEF w, l
<1>5. Serves(l, v.call.op) /\ Chans(l, w) /\ Tries(l, w) /\ l \in PC /\ l # "idle"
  BY <1>2, <1>3, <1>4 DEF Serves, Chans, Tries, Binding, Forking, Inside, Keeps, PC
<1>6. Moves(p) /\ Placed(p)'
  BY <1>1, <1>2, <1>4, <1>5, OnPlaced DEF Control, v
<1>7. Steps(p, l, w)
  BY <1>1 DEF Steps
<1>h. v.h \in Mhead
  BY <1>1, Here DEF Located, Locals, v
<1>8. Locked'
  <2>1. lock' = [lock EXCEPT ![v.h].w = Nil]
    BY DEF BindLink, v
  <2>2. v.h \in Locks
    BY <1>1, <1>2, <1>3, <1>4, <1>h DEF Locks, v, Locals
  <2>5. /\ lock' \in [Locks -> [r : SUBSET Proc, w : Proc \cup {Nil}]]
        /\ \A y \in Locks : /\ lock'[y].r = lock[y].r
                             /\ lock'[y].w = IF y = v.h THEN Nil ELSE lock[y].w
    <3>1. lock \in [Locks -> [r : SUBSET Proc, w : Proc \cup {Nil}]]
      BY LockFacts
    <3> QED BY <2>1, <2>2, <3>1
  <2>4. lock[v.h].w = p
    <3>1. Writes(pc[p], me[p], v.h)
      BY <1>1, <1>h, Names DEF v, Writes
    <3> QED BY <2>2, <3>1, LockFacts
  <2>3. \A y \in Locks : /\ Reads(l, w, y) <=> Reads(pc[p], me[p], y)
                         /\ Writes(l, w, y) <=> Writes(pc[p], me[p], y) /\ y # v.h
    BY <1>1, <1>2, <1>3, <1>4, <1>h, Names DEF v, Reads, Writes, Locks
  <2> QED BY <1>7, <2>2, <2>3, <2>4, <2>5, DropsW
<1> QED BY <1>6, <1>8 DEF Kept

LEMMA UnmountNsKept ==
  ASSUME Control, NEW p \in Proc, UnmountNs(p)
  PROVE  Kept(p) /\ Balanced(p)
<1> DEFINE v == me[p]
           w == [v EXCEPT !.h = table[v.b]]
<1>1. v \in Locals /\ Shapes /\ Placed(p) /\ pc[p] = "um.ns" /\ copy' = copy
      /\ Serves("um.ns", v.call.op) /\ Chans("um.ns", v) /\ Tries("um.ns", v)
  BY Here DEF Placed, Control, UnmountNs, At
<1>2. v.b \in Dir
  BY <1>1, Here DEF Serves, Chans, Keeps
<1>3. table[v.b] \in Mhead \cup {Nil}
  BY <1>1, <1>2 DEF Shapes
<1>s. copy' = copy /\ chan' = chan /\ href' = href
  BY DEF UnmountNs, heads, world
<1>4. CASE pc' = [pc EXCEPT ![p] = "back"] /\ me' = me /\ lock' = lock
  <2>1. Serves("back", v.call.op) /\ Chans("back", v) /\ Tries("back", v) /\ "back" \in PC
    BY <1>1 DEF Serves, Chans, Tries, Binding, Forking, Inside, Keeps, PC
  <2>2. Moves(p) /\ Placed(p)'
    BY <1>1, <1>4, <2>1, PassPlaced
  <2>3. Steps(p, "back", v)
    BY <1>1, <1>4, StepSame DEF Steps
  <2>4. \A y \in Locks : /\ Reads("back", v, y) <=> Reads(pc[p], me[p], y)
                         /\ Writes("back", v, y) <=> Writes(pc[p], me[p], y)
    BY <1>1 DEF Reads, Writes
  <2>5. Locked'
    BY <1>4, <2>3, <2>4, LockKept
  <2>6. Balanced(p)
    BY <1>1, <1>s, <2>3, BalanceKept
  <2> QED BY <2>2, <2>5, <2>6 DEF Kept
<1>5. CASE /\ pc' = [pc EXCEPT ![p] = "um.lk"] /\ me' = [me EXCEPT ![p] = w]
           /\ lock' = [lock EXCEPT !["ns"].w = p] /\ CanW("ns")
  <2> DEFINE g == table[v.b]
  <2>1. g \in Mhead \cup {Nil}
    BY <1>3
  <2> HIDE DEF v, g
  <2>2. w = [v EXCEPT !.h = g]
    BY DEF g
  <2>3. w \in Locals /\ w.call = v.call /\ w.b = v.b /\ w.c = v.c /\ w.m = v.m /\ w.new = v.new
        /\ w.mh = v.mh /\ w.add = v.add /\ w.retry = v.retry /\ w.res = v.res
    BY <1>1, <2>1, <2>2 DEF Locals
  <2> HIDE DEF w
  <2>4. Serves("um.lk", v.call.op) /\ Chans("um.lk", w) /\ Tries("um.lk", w) /\ "um.lk" \in PC
    BY <1>1, <2>3 DEF Serves, Chans, Tries, Binding, Forking, Inside, Keeps, PC
  <2>5. Moves(p) /\ Placed(p)'
    BY <1>1, <1>5, <2>3, <2>4, OnPlaced DEF v
  <2>6. Steps(p, "um.lk", w)
    BY <1>5 DEF Steps
  <2>7. \A y \in Locks : /\ Reads("um.lk", w, y) <=> Reads(pc[p], me[p], y)
                         /\ Writes("um.lk", w, y) <=> Writes(pc[p], me[p], y) \/ y = "ns"
    BY <1>1 DEF Reads, Writes
  <2>8. "ns" \in Locks
    BY DEF Locks
  <2>9. Locked'
    BY <1>5, <2>6, <2>7, <2>8, TakesW
  <2>10. Balanced(p)
    BY <1>1, <1>s, <2>3, <2>6, BalanceKept DEF v
  <2> QED BY <2>5, <2>9, <2>10 DEF Kept
<1> QED BY <1>4, <1>5 DEF UnmountNs, Goto, Local

LEMMA UnmountOneKept ==
  ASSUME Control, NEW p \in Proc, UnmountOne(p)
  PROVE  Kept(p)
<1> DEFINE v == me[p]
           w == [v EXCEPT !.h = Nil]
           l == "back"
<1>1. pc[p] = "um.lk" /\ pc' = [pc EXCEPT ![p] = l] /\ me' = [me EXCEPT ![p] = w] /\ copy' = copy
  BY DEF UnmountOne, At, Goto, Local
<1>2. v \in Locals /\ Placed(p) /\ Serves("um.lk", v.call.op) /\ Chans("um.lk", v) /\ Tries("um.lk", v)
  BY <1>1, Here DEF Placed
<1>3. l = "back"
  OBVIOUS
<1> HIDE DEF v
<1>4. w \in Locals /\ w.call = v.call /\ w.b = v.b /\ w.c = v.c /\ w.m = v.m
      /\ w.new = v.new /\ w.mh = v.mh /\ w.add = v.add /\ w.um = v.um /\ w.retry = v.retry /\ w.res = v.res
      /\ w.h = Nil
  BY <1>2 DEF Locals
<1> HIDE DEF w, l
<1>5. Serves(l, v.call.op) /\ Chans(l, w) /\ Tries(l, w) /\ l \in PC /\ l # "idle"
  BY <1>2, <1>3, <1>4 DEF Serves, Chans, Tries, Binding, Forking, Inside, Keeps, PC
<1>6. Moves(p) /\ Placed(p)'
  BY <1>1, <1>2, <1>4, <1>5, OnPlaced DEF Control, v
<1>7. Steps(p, l, w)
  BY <1>1 DEF Steps
<1>8. Locked'
  <2>1. lock' = [lock EXCEPT !["ns"].w = Nil]
    BY DEF UnmountOne
  <2>2. "ns" \in Locks
    BY <1>1, <1>2, <1>3, <1>4 DEF Locks, v, Locals
  <2>5. /\ lock' \in [Locks -> [r : SUBSET Proc, w : Proc \cup {Nil}]]
        /\ \A y \in Locks : /\ lock'[y].r = lock[y].r
                             /\ lock'[y].w = IF y = "ns" THEN Nil ELSE lock[y].w
    <3>1. lock \in [Locks -> [r : SUBSET Proc, w : Proc \cup {Nil}]]
      BY LockFacts
    <3> QED BY <2>1, <2>2, <3>1
  <2>4. lock["ns"].w = p
    <3>1. Writes(pc[p], me[p], "ns")
      BY <1>1 DEF Writes
    <3> QED BY <3>1, LockFacts
  <2>3. \A y \in Locks : /\ Reads(l, w, y) <=> Reads(pc[p], me[p], y)
                         /\ Writes(l, w, y) <=> Writes(pc[p], me[p], y) /\ y # "ns"
    BY <1>1, <1>2, <1>3, <1>4 DEF v, Reads, Writes
  <2> QED BY <1>7, <2>2, <2>3, <2>4, <2>5, DropsW
<1> QED BY <1>6, <1>8 DEF Kept

LEMMA UnmountAllKept ==
  ASSUME Control, NEW p \in Proc, UnmountAll(p)
  PROVE  Kept(p)
<1>1. pc[p] = "um.lk" /\ pc' = [pc EXCEPT ![p] = "um.free"] /\ me' = me /\ copy' = copy /\ me[p].c = Nil
  BY DEF UnmountAll, At, Goto, Local
<1>2. Placed(p) /\ Serves("um.lk", me[p].call.op) /\ Chans("um.lk", me[p]) /\ Tries("um.lk", me[p])
  BY <1>1, Here DEF Placed
<1>3. Serves("um.free", me[p].call.op) /\ Chans("um.free", me[p]) /\ Tries("um.free", me[p]) /\ "um.free" \in PC
  BY <1>1, <1>2 DEF Serves, Chans, Tries, Binding, Forking, Inside, Keeps, PC
<1>4. Moves(p) /\ Placed(p)'
  BY <1>1, <1>2, <1>3, PassPlaced DEF Control
<1>5. me[p].h \in Mhead
  BY <1>1, Here DEF Located, Locals
<1>7. Steps(p, "um.free", me[p])
  BY <1>1, StepSame DEF Steps, Control
<1>8. Locked'
  <2>1. CanW(me[p].h) /\ Writes(pc[p], me[p], "ns")
        /\ \/ lock' = [lock EXCEPT ![me[p].h].w = p, !["ns"].w = Nil]
           \/ lock' = [lock EXCEPT !["ns"].w = Nil, ![me[p].h].w = p]
    BY <1>1, <1>5 DEF UnmountAll, Writes
  <2>2. me[p].h \in Mhead
    BY <1>1, <1>5 DEF Locks
  <2>3. \A y \in Locks : /\ Reads("um.free", me[p], y) <=> Reads(pc[p], me[p], y)
                         /\ Writes("um.free", me[p], y) <=> y = me[p].h \/ (Writes(pc[p], me[p], y) /\ y # "ns")
    BY <1>1, <1>5, Names DEF Reads, Writes, Locks
  <2> QED BY <1>7, <2>1, <2>2, <2>3, HandsW
<1> QED BY <1>4, <1>8 DEF Kept

LEMMA UnmountFreeKept ==
  ASSUME Control, NEW p \in Proc, UnmountFree(p)
  PROVE  Kept(p)
<1> DEFINE v == me[p]
           w == [v EXCEPT !.h = Nil]
           l == "back"
<1>1. pc[p] = "um.free" /\ pc' = [pc EXCEPT ![p] = l] /\ me' = [me EXCEPT ![p] = w] /\ copy' = copy
  BY DEF UnmountFree, At, Goto, Local
<1>2. v \in Locals /\ Placed(p) /\ Serves("um.free", v.call.op) /\ Chans("um.free", v) /\ Tries("um.free", v)
  BY <1>1, Here DEF Placed
<1>3. l = "back"
  OBVIOUS
<1> HIDE DEF v
<1>4. w \in Locals /\ w.call = v.call /\ w.b = v.b /\ w.c = v.c /\ w.m = v.m
      /\ w.new = v.new /\ w.mh = v.mh /\ w.add = v.add /\ w.um = v.um /\ w.retry = v.retry /\ w.res = v.res
      /\ w.h = Nil
  BY <1>2 DEF Locals
<1> HIDE DEF w, l
<1>5. Serves(l, v.call.op) /\ Chans(l, w) /\ Tries(l, w) /\ l \in PC /\ l # "idle"
  BY <1>2, <1>3, <1>4 DEF Serves, Chans, Tries, Binding, Forking, Inside, Keeps, PC
<1>6. Moves(p) /\ Placed(p)'
  BY <1>1, <1>2, <1>4, <1>5, OnPlaced DEF Control, v
<1>7. Steps(p, l, w)
  BY <1>1 DEF Steps
<1>h. v.h \in Mhead
  BY <1>1, Here DEF Located, Locals, v
<1>8. Locked'
  <2>1. lock' = [lock EXCEPT ![v.h].w = Nil]
    BY DEF UnmountFree, v
  <2>2. v.h \in Locks
    BY <1>1, <1>2, <1>3, <1>4, <1>h DEF Locks, v, Locals
  <2>5. /\ lock' \in [Locks -> [r : SUBSET Proc, w : Proc \cup {Nil}]]
        /\ \A y \in Locks : /\ lock'[y].r = lock[y].r
                             /\ lock'[y].w = IF y = v.h THEN Nil ELSE lock[y].w
    <3>1. lock \in [Locks -> [r : SUBSET Proc, w : Proc \cup {Nil}]]
      BY LockFacts
    <3> QED BY <2>1, <2>2, <3>1
  <2>4. lock[v.h].w = p
    <3>1. Writes(pc[p], me[p], v.h)
      BY <1>1, <1>h, Names DEF v, Writes
    <3> QED BY <2>2, <3>1, LockFacts
  <2>3. \A y \in Locks : /\ Reads(l, w, y) <=> Reads(pc[p], me[p], y)
                         /\ Writes(l, w, y) <=> Writes(pc[p], me[p], y) /\ y # v.h
    BY <1>1, <1>2, <1>3, <1>4, <1>h, Names DEF v, Reads, Writes, Locks
  <2> QED BY <1>7, <2>2, <2>3, <2>4, <2>5, DropsW
<1> QED BY <1>6, <1>8 DEF Kept

LEMMA ForkNsKept ==
  ASSUME Control, NEW p \in Proc, ForkNs(p)
  PROVE  Kept(p) /\ Balanced(p)
<1>1. pc[p] = "fork.ns" /\ pc' = [pc EXCEPT ![p] = "fork"] /\ me' = me /\ copy' = copy
  BY DEF ForkNs, At, Goto, Local
<1>2. Placed(p) /\ Serves("fork.ns", me[p].call.op) /\ Chans("fork.ns", me[p]) /\ Tries("fork.ns", me[p])
  BY <1>1, Here DEF Placed
<1>3. Serves("fork", me[p].call.op) /\ Chans("fork", me[p]) /\ Tries("fork", me[p]) /\ "fork" \in PC
  BY <1>1, <1>2 DEF Serves, Chans, Tries, Binding, Forking, Inside, Keeps, PC
<1>6. Moves(p) /\ Placed(p)'
  BY <1>1, <1>2, <1>3, PassPlaced DEF Control
<1>7. Steps(p, "fork", me[p])
  BY <1>1, StepSame DEF Steps, Control
<1>8. Locked'
  <2>1. CanW("ns") /\ lock' = [lock EXCEPT !["ns"].w = p]
    BY DEF ForkNs
  <2>2. "ns" \in Locks
    BY <1>1 DEF Locks
  <2>3. \A y \in Locks : /\ Reads("fork", me[p], y) <=> Reads(pc[p], me[p], y)
                         /\ Writes("fork", me[p], y) <=> Writes(pc[p], me[p], y) \/ y = "ns"
    BY <1>1 DEF Reads, Writes
  <2> QED BY <1>7, <2>1, <2>2, <2>3, TakesW
<1>9. Balanced(p)
  <2>1. copy' = copy /\ chan' = chan /\ href' = href /\ me[p] \in Locals
    BY Here DEF ForkNs, heads, world
  <2> QED BY <1>1, <1>7, <2>1, BalanceKept
<1> QED BY <1>6, <1>8, <1>9 DEF Kept

LEMMA ForkCopyFacts ==
  ASSUME Control, NEW p \in Proc, ForkCopy(p)
  PROVE  \E d \in Dir : LET s == list[table[d]] IN
           /\ pc[p] = "fork" /\ table[d] \in Mhead /\ copy[p][d] = <<>> /\ CanR(table[d])
           /\ s \in Seq(Mount)
           /\ \E t \in Seq(Mount) :
                /\ copy' = [copy EXCEPT ![p] = [copy[p] EXCEPT ![d] = t]]
                /\ Len(t) = Len(s)
                /\ \A i \in 1..Len(s) : t[i].to = s[i].to /\ t[i].mcreate = s[i].mcreate
           /\ mountid' = mountid + Len(s)
           /\ chan' = Held(Incref(chan, d), s)
           /\ UNCHANGED <<heads, lock, has, calls, pc, me, changed, wild>>
<1>1. PICK d \in Uncopied(p) : LET s == list[table[d]] IN
        /\ At(p, "fork") /\ ForkHead(p, d)
        /\ copy' = [copy EXCEPT ![p][d] = [i \in DOMAIN s |-> [s[i] EXCEPT !.id = mountid + i]]]
        /\ mountid' = mountid + Len(s)
        /\ chan' = Held(Incref(chan, d), s)
        /\ UNCHANGED <<heads, lock, has, calls, pc, me, changed, wild>>
  BY DEF ForkCopy
<1> DEFINE s == list[table[d]]
           t == [i \in DOMAIN s |-> [s[i] EXCEPT !.id = mountid + i]]
<1>2. d \in Dir /\ table[d] \in Mhead /\ copy[p][d] = <<>>
  BY DEF Uncopied, Control, Shapes
<1>3. s \in Seq(Mount)
  BY <1>2 DEF Control, Shapes
<1>4. DOMAIN s = 1..Len(s) /\ Len(s) \in Nat /\ \A i \in 1..Len(s) : s[i] \in Mount
  BY <1>3, LenProperties, ElementOfSeq
<1>5. mountid \in Nat
  BY DEF Control, Shapes
<1>6. copy' = [copy EXCEPT ![p] = [copy[p] EXCEPT ![d] = t]]
  BY <1>1 DEF Control, Shapes
<1> HIDE DEF s
<1>7. t \in Seq(Mount) /\ Len(t) = Len(s)
      /\ \A i \in 1..Len(s) : t[i].to = s[i].to /\ t[i].mcreate = s[i].mcreate
  <2>1. ASSUME NEW i \in 1..Len(s)
        PROVE  /\ [s[i] EXCEPT !.id = mountid + i] \in Mount
               /\ [s[i] EXCEPT !.id = mountid + i].to = s[i].to
               /\ [s[i] EXCEPT !.id = mountid + i].mcreate = s[i].mcreate
    BY <1>4, <1>5 DEF Mount
  <2>2. t \in [1..Len(s) -> Mount]
    BY <1>4, <2>1
  <2>3. t \in Seq(Mount) /\ Len(t) = Len(s)
    BY <1>4, <2>2, IsASeq
  <2> QED BY <1>4, <2>1, <2>3
<1> HIDE DEF t
<1> QED BY <1>1, <1>2, <1>3, <1>6, <1>7 DEF s, At, ForkHead

(* Whoever has ns finds something mounted where it can read.               *)
LEMMA Filled ==
  ASSUME Control, NEW p \in Proc, NEW d \in Dir, table[d] \in Mhead, CanR(table[d]),
         Reads(pc[p], me[p], "ns") \/ pc[p] = "fork"
  PROVE  list[table[d]] # <<>>
<1>1. SUFFICES ASSUME list[table[d]] = <<>> PROVE FALSE
  OBVIOUS
<1>2. PICK q \in Proc : pc[q] \in {"bind.lk", "bind.copy"} /\ me[q].h = table[d]
  BY <1>1, Names DEF Control, Headed
<1>3. "ns" \in Locks /\ table[d] \in Locks /\ table[d] # "ns" /\ q # Nil /\ q \in Proc
  BY Names DEF Locks
<1>4. CASE pc[q] = "bind.copy"
  <2>1. Writes(pc[q], me[q], table[d])
    BY <1>2, <1>3, <1>4 DEF Writes
  <2>2. lock[table[d]].w = q
    BY <1>3, <2>1, LockFacts
  <2> QED BY <1>3, <2>2 DEF CanR
<1>5. CASE pc[q] = "bind.lk"
  <2>1. Writes(pc[q], me[q], "ns")
    BY <1>5 DEF Writes
  <2>2. lock["ns"].w = q /\ lock["ns"].r = {}
    BY <1>3, <2>1, LockFacts
  <2>3. ~Reads(pc[p], me[p], "ns")
    BY <1>3, <2>2, LockFacts
  <2>4. lock["ns"].w = p
    <3>1. Writes(pc[p], me[p], "ns")
      BY <2>3 DEF Writes
    <3> QED BY <1>3, <3>1, LockFacts
  <2> QED BY <1>5, <2>2, <2>3, <2>4
<1> QED BY <1>2, <1>4, <1>5

(* findmount finds something mounted.                                      *)
LEMMA Findable ==
  ASSUME Control, NEW p \in Proc, pc[p] = "findlk", CanR(me[p].h)
  PROVE  list[me[p].h] # <<>>
<1>1. me[p].h \in Mhead /\ table[Key(p)] = me[p].h /\ Key(p) \in Dir
  BY Here, KeyFacts DEF Located, Locals
<1>2. Reads(pc[p], me[p], "ns")
  BY DEF Reads
<1> QED BY <1>1, <1>2, Filled

(* The references of a copy.                                               *)
LEMMA CopyBalancing ==
  ASSUME Control, NEW p \in Proc, pc[p] \in {"fork", "group"}, pc'[p] # "um.free",
         \A x : Own(me'[p], x) = Own(me[p], x) /\ OwnHead(me'[p], x) = OwnHead(me[p], x),
         me'[p].add = me[p].add, copy'[p] \in [Dir -> Seq(Mount)], href' = href,
         chan' \in [Dir -> Int],
         \A d \in Dir : chan'[d] = chan[d] - Copied(copy[p], d) + Copied(copy'[p], d)
  PROVE  Balanced(p)
<1>1. me[p].add \in Seq(Mount) /\ copy[p] \in [Dir -> Seq(Mount)]
  BY LocalFacts DEF Control, Shapes
<1>2. ASSUME NEW d \in Dir PROVE chan'[d] = chan[d] - Using(p, d) + Using(p, d)'
  <2> DEFINE r == Own(me[p], d) + Count(me[p].add, d)
             o == Copied(copy[p], d)
             n == Copied(copy'[p], d)
  <2>0. Count(me[p].add, d) \in Nat /\ Own(me[p], d) \in Nat
    BY <1>1, CountType, OwnType
  <2>1. r \in Nat /\ o \in Nat /\ n \in Nat
    <3>1. Copied(copy[p], d) \in Nat /\ Copied(copy'[p], d) \in Nat
      BY <1>1, CopiedType
    <3> QED BY <2>0, <3>1
  <2>2. chan[d] \in Int
    BY DEF Control, Shapes
  <2>3. Using(p, d) = r + o
    BY DEF Using, Own
  <2>4. Using(p, d)' = Own(me'[p], d) + Count(me'[p].add, d) + n
    BY DEF Using, Own
  <2>5. Own(me'[p], d) = Own(me[p], d) /\ me'[p].add = me[p].add
    OBVIOUS
  <2>6. Using(p, d)' = r + n
    BY <2>4, <2>5
  <2>7. chan'[d] = chan[d] - o + n
    OBVIOUS
  <2> HIDE DEF r, o, n
  <2> QED BY <2>1, <2>2, <2>3, <2>6, <2>7
<1>3. ASSUME NEW h \in Mhead PROVE href'[h] = href[h] - HeldBy(p, h) + HeldBy(p, h)'
  <2>1. HeldBy(p, h) = OwnHead(me[p], h) /\ HeldBy(p, h)' = OwnHead(me'[p], h)
    BY IsType DEF HeldBy, OwnHead
  <2>2. href[h] \in Int /\ OwnHead(me[p], h) \in Nat
    BY OwnType DEF Control, Shapes
  <2> QED BY <2>1, <2>2
<1>4. href' \in [Mhead -> Int]
  BY DEF Control, Shapes
<1> QED BY <1>2, <1>3, <1>4 DEF Balanced

LEMMA ForkCopyKept ==
  ASSUME Control, NEW p \in Proc, ForkCopy(p)
  PROVE  Kept(p) /\ Balanced(p)
<1>1. PICK d \in Dir : LET s == list[table[d]] IN
        /\ pc[p] = "fork" /\ table[d] \in Mhead /\ copy[p][d] = <<>> /\ CanR(table[d])
        /\ s \in Seq(Mount)
        /\ \E t \in Seq(Mount) :
             /\ copy' = [copy EXCEPT ![p] = [copy[p] EXCEPT ![d] = t]]
             /\ Len(t) = Len(s)
             /\ \A i \in 1..Len(s) : t[i].to = s[i].to /\ t[i].mcreate = s[i].mcreate
        /\ mountid' = mountid + Len(s)
        /\ chan' = Held(Incref(chan, d), s)
        /\ UNCHANGED <<heads, lock, has, calls, pc, me, changed, wild>>
  BY ForkCopyFacts
<1> DEFINE s == list[table[d]]
<1>2. PICK t \in Seq(Mount) :
        /\ copy' = [copy EXCEPT ![p] = [copy[p] EXCEPT ![d] = t]]
        /\ Len(t) = Len(s)
        /\ \A i \in 1..Len(s) : t[i].to = s[i].to /\ t[i].mcreate = s[i].mcreate
  BY <1>1
<1> DEFINE u == [copy[p] EXCEPT ![d] = t]
<1>3. Shapes /\ Placed(p) /\ copy[p] \in [Dir -> Seq(Mount)]
  BY Here DEF Control, Shapes
<1>4. /\ pc[p] = "fork" /\ pc' = pc /\ me' = me /\ lock' = lock /\ href' = href
      /\ s \in Seq(Mount) /\ copy[p][d] = <<>> /\ chan' = Held(Incref(chan, d), s)
  BY <1>1 DEF heads
<1>5. s # <<>>
  BY <1>1, <1>4, Filled
<1>6. u \in [Dir -> Seq(Mount)]
  BY <1>3
<1> HIDE DEF s
<1>7. ASSUME NEW e \in Dir
      PROVE  Copied(u, e) = Copied(copy[p], e) + Count(s, e) + Is(d, e)
  <2>1. Len(t) = Len(s) /\ \A i \in 1..Len(t) : t[i].to = s[i].to
    BY <1>2
  <2>2. t # <<>>
    BY <1>4, <1>5, <2>1, EmptySeq
  <2>3. Count(t, e) = Count(s, e)
    BY <1>4, <2>1, CountSame
  <2>4. Copied(u, e) = Copied(copy[p], e) + Count(t, e) + Is(d, e)
    BY <1>3, <1>4, <2>2, CopiedOne
  <2> QED BY <2>3, <2>4
<1> HIDE DEF u
<1>8. copy' = [copy EXCEPT ![p] = u]
  BY <1>2 DEF u
<1>9. /\ copy' \in [Proc -> [Dir -> Seq(Mount)]] /\ copy'[p] = u
      /\ \A r \in Proc \ {p} : copy'[r] = copy[r]
  BY <1>3, <1>6, <1>8 DEF Shapes
<1>10. Moves(p)
  BY <1>3, <1>4, <1>9 DEF Moves, Others, Shapes
<1>11. Placed(p)'
  BY <1>3, <1>4 DEF Placed
<1>12. Locked'
  <2>1. Steps(p, pc[p], me[p])
    BY <1>3, <1>4, StepSame DEF Steps
  <2> QED BY <1>4, <2>1, LockKept
<1>13. chan' \in [Dir -> Int] /\ \A e \in Dir : chan'[e] = chan[e] + Is(d, e) + Count(s, e)
  <2> DEFINE f == Incref(chan, d)
  <2>1. f \in [Dir -> Int] /\ \A e \in Dir : f[e] = chan[e] + Is(d, e)
    BY <1>3, ChanArithmetic DEF Shapes
  <2> HIDE DEF f
  <2>2. Held(f, s) \in [Dir -> Int] /\ \A e \in Dir : Held(f, s)[e] = f[e] + Count(s, e)
    BY <1>4, <2>1, ListArithmetic
  <2> QED BY <1>4, <2>1, <2>2 DEF f
<1>14. \A e \in Dir : chan'[e] = chan[e] - Copied(copy[p], e) + Copied(copy'[p], e)
  <2>1. ASSUME NEW e \in Dir PROVE chan'[e] = chan[e] - Copied(copy[p], e) + Copied(copy'[p], e)
    <3>1. Copied(copy[p], e) \in Nat /\ Count(s, e) \in Nat /\ Is(d, e) \in Nat
      BY <1>3, <1>4, CopiedType, CountType, IsType
    <3>2. chan[e] \in Int
      BY <1>3 DEF Shapes
    <3>3. Copied(copy'[p], e) = Copied(copy[p], e) + Count(s, e) + Is(d, e)
      BY <1>7, <1>9
    <3>4. chan'[e] = chan[e] + Is(d, e) + Count(s, e)
      BY <1>13
    <3> QED BY <3>1, <3>2, <3>3, <3>4
  <2> QED BY <2>1
<1>15. Balanced(p)
  BY <1>4, <1>6, <1>9, <1>13, <1>14, CopyBalancing
<1> QED BY <1>10, <1>11, <1>12, <1>15 DEF Kept

(* The mounts of a table.                                                  *)
LEMMA ListPlaces ==
  ASSUME NEW D, NEW t \in [Dir -> Seq(D)]
  PROVE  /\ IsFiniteSet(Places(t)) /\ Cardinality(Places(t)) \in Nat
         /\ \A x : x \in Places(t) <=> \E d \in Dir : \E i \in 1..Len(t[d]) : x = <<d, i>>
<1> DEFINE f == [d \in Dir |-> Len(t[d])]
<1>1. \A d \in Dir : Len(t[d]) \in Nat /\ DOMAIN t[d] = 1..Len(t[d])
  BY LenProperties
<1>2. f \in [Dir -> Nat]
  BY <1>1
<1>3. Places(t) = Cells(f)
  <2>1. {{d} \X DOMAIN t[d] : d \in Dir} = {{d} \X (1..f[d]) : d \in DOMAIN f}
    BY <1>1
  <2> QED BY <2>1 DEF Places, Cells
<1> HIDE DEF f
<1>4. IsFiniteSet(Cells(f)) /\ Cardinality(Cells(f)) \in Nat
  BY <1>2, Finite, TotalType
<1>5. \A x : x \in Places(t) <=> \E d \in Dir : \E i \in 1..Len(t[d]) : x = <<d, i>>
  <2>1. \A x : x \in Places(t) <=> \E d \in Dir : x \in {d} \X DOMAIN t[d]
    BY Zenon DEF Places
  <2>2. ASSUME NEW d \in Dir, NEW x
        PROVE  x \in {d} \X DOMAIN t[d] <=> \E i \in 1..Len(t[d]) : x = <<d, i>>
    BY <1>1
  <2> QED BY <2>1, <2>2
<1> QED BY <1>3, <1>4, <1>5

LEMMA PlacesFacts ==
  ASSUME NEW t \in [Dir -> Seq(Mount)]
  PROVE  /\ IsFiniteSet(Places(t)) /\ Cardinality(Places(t)) \in Nat
         /\ \A x : x \in Places(t) <=> \E d \in Dir : \E i \in 1..Len(t[d]) : x = <<d, i>>
BY ListPlaces

LEMMA ParentType ==
  ASSUME Shapes
  PROVE  /\ Parent \in [Dir -> Seq(Mount)]
         /\ \A id : Older(id) \in Nat
<1>1. Parent \in [Dir -> Seq(Mount)]
  <2>1. <<>> \in Seq(Mount)
    OBVIOUS
  <2>2. \A d \in Dir : table[d] # Nil => list[table[d]] \in Seq(Mount)
    BY DEF Shapes
  <2> QED BY <2>1, <2>2 DEF Parent
<1>2. ASSUME NEW id PROVE Older(id) \in Nat
  <2> DEFINE S == {x \in Places(Parent) : Parent[x[1]][x[2]].id < id}
  <2>1. IsFiniteSet(Places(Parent)) /\ S \subseteq Places(Parent)
    BY <1>1, PlacesFacts
  <2>2. Cardinality(S) \in Nat
    BY <2>1, FS_Subset, FS_CardinalityType
  <2> QED BY <2>2 DEF Older
<1> QED BY <1>1, <1>2

LEMMA ForkIdsFacts ==
  ASSUME Control, NEW p \in Proc, ForkIds(p)
  PROVE  \E u \in [Dir -> Seq(Mount)] :
           /\ pc[p] = "fork" /\ Uncopied(p) = {}
           /\ copy' = [copy EXCEPT ![p] = u]
           /\ \A e \in Dir : /\ Len(u[e]) = Len(copy[p][e])
                             /\ \A i \in 1..Len(copy[p][e]) :
                                  /\ u[e][i].to = copy[p][e][i].to
                                  /\ u[e][i].mcreate = copy[p][e][i].mcreate
                                  /\ u[e][i].id = mountid + Older(Parent[e][i].id)
           /\ mountid' \in Nat
           /\ pc' = [pc EXCEPT ![p] = "forked"]
           /\ UNCHANGED <<heads, lock, chan, has, calls, me, changed, wild>>
<1> DEFINE t == copy[p]
           U(d) == [i \in DOMAIN t[d] |-> [t[d][i] EXCEPT !.id = mountid + Older(Parent[d][i].id)]]
           u == [d \in Dir |-> U(d)]
<1>1. /\ pc[p] = "fork" /\ Uncopied(p) = {} /\ copy' = [copy EXCEPT ![p] = u]
      /\ mountid' = mountid + Cardinality(Places(Parent))
      /\ pc' = [pc EXCEPT ![p] = "forked"]
      /\ UNCHANGED <<heads, lock, chan, has, calls, me, changed, wild>>
  BY DEF ForkIds, At, Goto
<1>2. Shapes /\ t \in [Dir -> Seq(Mount)] /\ mountid \in Nat
  BY DEF Control, Shapes
<1>3. Parent \in [Dir -> Seq(Mount)] /\ \A id : Older(id) \in Nat
  BY <1>2, ParentType
<1>4. Cardinality(Places(Parent)) \in Nat
  BY <1>3, PlacesFacts
<1> HIDE DEF t
<1>5. ASSUME NEW e \in Dir
      PROVE  /\ U(e) \in Seq(Mount) /\ Len(U(e)) = Len(t[e])
             /\ \A i \in 1..Len(t[e]) : /\ U(e)[i].to = t[e][i].to
                                        /\ U(e)[i].mcreate = t[e][i].mcreate
                                        /\ U(e)[i].id = mountid + Older(Parent[e][i].id)
  <2> DEFINE s == t[e]
             o(i) == Older(Parent[e][i].id)
  <2>1. s \in Seq(Mount)
    BY <1>2
  <2>2. \A i : o(i) \in Nat
    BY <1>3
  <2>3. U(e) = [i \in DOMAIN s |-> [s[i] EXCEPT !.id = mountid + o(i)]]
    OBVIOUS
  <2> HIDE DEF s, o, U
  <2>4. DOMAIN s = 1..Len(s) /\ Len(s) \in Nat /\ \A i \in 1..Len(s) : s[i] \in Mount
    BY <2>1, LenProperties, ElementOfSeq
  <2>5. ASSUME NEW i \in 1..Len(s)
        PROVE  /\ [s[i] EXCEPT !.id = mountid + o(i)] \in Mount
               /\ [s[i] EXCEPT !.id = mountid + o(i)].to = s[i].to
               /\ [s[i] EXCEPT !.id = mountid + o(i)].mcreate = s[i].mcreate
               /\ [s[i] EXCEPT !.id = mountid + o(i)].id = mountid + o(i)
    <3>1. mountid + o(i) \in Nat /\ s[i] \in Mount
      BY <1>2, <2>2, <2>4
    <3> QED BY <3>1 DEF Mount
  <2>6. U(e) \in [1..Len(s) -> Mount]
    BY <2>3, <2>4, <2>5
  <2>7. U(e) \in Seq(Mount) /\ Len(U(e)) = Len(s)
    BY <2>4, <2>6, IsASeq
  <2>8. \A i \in 1..Len(s) : /\ U(e)[i].to = s[i].to /\ U(e)[i].mcreate = s[i].mcreate
                            /\ U(e)[i].id = mountid + o(i)
    BY <2>3, <2>4, <2>5
  <2> QED BY <2>7, <2>8 DEF s, o
<1> HIDE DEF U
<1>6. u \in [Dir -> Seq(Mount)] /\ \A e \in Dir : u[e] = U(e)
  BY <1>5
<1> HIDE DEF u
<1>7. mountid' \in Nat
  BY <1>1, <1>2, <1>4
<1>8. \A e \in Dir : /\ Len(u[e]) = Len(t[e])
                     /\ \A i \in 1..Len(t[e]) : /\ u[e][i].to = t[e][i].to
                                                /\ u[e][i].mcreate = t[e][i].mcreate
                                                /\ u[e][i].id = mountid + Older(Parent[e][i].id)
  BY <1>5, <1>6
<1>9. u \in [Dir -> Seq(Mount)]
  BY <1>6
<1> QED BY <1>1, <1>7, <1>8, <1>9 DEF t

LEMMA ForkIdsKept ==
  ASSUME Control, NEW p \in Proc, ForkIds(p)
  PROVE  Kept(p) /\ Balanced(p)
<1>1. PICK u \in [Dir -> Seq(Mount)] :
        /\ pc[p] = "fork" /\ copy' = [copy EXCEPT ![p] = u]
        /\ \A e \in Dir : /\ Len(u[e]) = Len(copy[p][e])
                          /\ \A i \in 1..Len(copy[p][e]) : u[e][i].to = copy[p][e][i].to
        /\ pc' = [pc EXCEPT ![p] = "forked"] /\ me' = me
        /\ lock' = lock /\ chan' = chan /\ href' = href
  BY ForkIdsFacts DEF heads
<1>2. Shapes /\ Placed(p) /\ copy[p] \in [Dir -> Seq(Mount)] /\ chan \in [Dir -> Int]
  BY Here DEF Control, Shapes
<1>3. /\ copy' \in [Proc -> [Dir -> Seq(Mount)]] /\ copy'[p] = u
      /\ \A r \in Proc \ {p} : copy'[r] = copy[r]
  BY <1>1, <1>2 DEF Shapes
<1>4. pc' \in [Proc -> PC] /\ pc'[p] = "forked" /\ \A r \in Proc \ {p} : pc'[r] = pc[r]
  BY <1>1, <1>2 DEF Shapes, PC
<1>5. Moves(p)
  BY <1>1, <1>2, <1>3, <1>4 DEF Moves, Others, Shapes
<1>6. me[p].call \in Call /\ Serves("fork", me[p].call.op) /\ Chans("fork", me[p]) /\ Tries("fork", me[p])
  BY <1>1, <1>2 DEF Placed
<1>7. Serves("forked", me[p].call.op) /\ Chans("forked", me[p]) /\ Tries("forked", me[p])
  BY <1>6 DEF Serves, Chans, Tries, Binding, Forking, Inside, Keeps
<1>8. Placed(p)'
  BY <1>1, <1>4, <1>6, <1>7 DEF Placed
<1>9. Locked'
  <2>1. Steps(p, "forked", me[p])
    BY <1>1, <1>2, StepSame DEF Steps
  <2>2. \A y \in Locks : /\ Reads("forked", me[p], y) <=> Reads(pc[p], me[p], y)
                         /\ Writes("forked", me[p], y) <=> Writes(pc[p], me[p], y)
    BY <1>1 DEF Reads, Writes
  <2> QED BY <1>1, <2>1, <2>2, LockKept
<1>10. \A d \in Dir : Copied(u, d) = Copied(copy[p], d)
  BY <1>1, <1>2, CopiedSame
<1>11. \A d \in Dir : chan'[d] = chan[d] - Copied(copy[p], d) + Copied(copy'[p], d)
  <2>1. ASSUME NEW d \in Dir PROVE chan'[d] = chan[d] - Copied(copy[p], d) + Copied(copy'[p], d)
    <3>1. Copied(copy[p], d) \in Nat /\ chan[d] \in Int /\ Copied(copy'[p], d) = Copied(copy[p], d)
      BY <1>2, <1>3, <1>10, CopiedType
    <3> QED BY <1>1, <3>1
  <2> QED BY <2>1
<1>12. Balanced(p)
  BY <1>1, <1>2, <1>3, <1>4, <1>11, CopyBalancing
<1> QED BY <1>5, <1>8, <1>9, <1>12 DEF Kept

LEMMA ForkOutKept ==
  ASSUME Control, NEW p \in Proc, ForkOut(p)
  PROVE  Kept(p) /\ Balanced(p)
<1>1. pc[p] = "forked" /\ pc' = [pc EXCEPT ![p] = "group"] /\ me' = me /\ copy' = copy
  BY DEF ForkOut, At, Goto
<1>2. Placed(p) /\ Serves("forked", me[p].call.op) /\ Chans("forked", me[p]) /\ Tries("forked", me[p])
  BY <1>1, Here DEF Placed
<1>3. Serves("group", me[p].call.op) /\ Chans("group", me[p]) /\ Tries("group", me[p]) /\ "group" \in PC
  BY <1>1, <1>2 DEF Serves, Chans, Tries, Binding, Forking, Inside, Keeps, PC
<1>6. Moves(p) /\ Placed(p)'
  BY <1>1, <1>2, <1>3, PassPlaced DEF Control
<1>7. Steps(p, "group", me[p])
  BY <1>1, StepSame DEF Steps, Control
<1>8. Locked'
  <2>1. lock' = [lock EXCEPT !["ns"].w = Nil]
    BY DEF ForkOut
  <2>2. "ns" \in Locks
    BY DEF Locks
  <2>3. \A y \in Locks : /\ Reads("group", me[p], y) <=> Reads(pc[p], me[p], y)
                         /\ Writes("group", me[p], y) <=> Writes(pc[p], me[p], y) /\ y # "ns"
    BY <1>1 DEF Reads, Writes
  <2>5. /\ lock' \in [Locks -> [r : SUBSET Proc, w : Proc \cup {Nil}]]
        /\ \A y \in Locks : /\ lock'[y].r = lock[y].r
                             /\ lock'[y].w = IF y = "ns" THEN Nil ELSE lock[y].w
    <3>1. lock \in [Locks -> [r : SUBSET Proc, w : Proc \cup {Nil}]]
      BY LockFacts
    <3> QED BY <2>1, <2>2, <3>1
  <2>4. lock["ns"].w = p
    <3>1. Writes(pc[p], me[p], "ns")
      BY <1>1 DEF Writes
    <3> QED BY <2>2, <3>1, LockFacts
  <2> QED BY <1>7, <2>2, <2>3, <2>4, <2>5, DropsW
<1>9. Balanced(p)
  <2>1. copy' = copy /\ chan' = chan /\ href' = href /\ me[p] \in Locals
    BY Here DEF ForkOut, heads, world
  <2> QED BY <1>1, <1>7, <2>1, BalanceKept
<1> QED BY <1>6, <1>8, <1>9 DEF Kept

LEMMA closepgrpKept ==
  ASSUME Control, NEW p \in Proc, closepgrp(p)
  PROVE  Kept(p) /\ Balanced(p)
<1>1. /\ pc[p] = "group" /\ pc' = [pc EXCEPT ![p] = "idle"] /\ me' = [me EXCEPT ![p] = Idle]
      /\ copy' = [copy EXCEPT ![p] = NoCopy] /\ lock' = lock /\ href' = href
      /\ chan' = [d \in Dir |-> chan[d] - Copied(copy[p], d)]
  BY DEF closepgrp, At, Goto, Local, heads
<1>2. Idle \in Locals /\ Free(Idle) /\ NoCopy \in [Dir -> Seq(Mount)]
  BY IdleFacts DEF NoCopy
<1>c. /\ copy[p] \in [Dir -> Seq(Mount)] /\ chan \in [Dir -> Int] /\ Free(me[p])
  <2>1. Placed(p) /\ Serves("group", me[p].call.op) /\ Chans("group", me[p])
    BY <1>1, Here DEF Placed
  <2>2. Free(me[p])
    BY <2>1 DEF Serves, Chans, Forking, Binding, Keeps, Free
  <2> QED BY <2>2 DEF Control, Shapes
<1>o. \A x : Own(Idle, x) = Own(me[p], x) /\ OwnHead(Idle, x) = OwnHead(me[p], x)
  BY <1>2, <1>c DEF Free, Own, OwnHead
<1>a. Idle.add = me[p].add
  BY <1>2, <1>c DEF Free
<1> HIDE DEF Idle, NoCopy
<1>3. pc' \in [Proc -> PC] /\ pc'[p] = "idle" /\ \A r \in Proc \ {p} : pc'[r] = pc[r]
  BY <1>1 DEF Control, Shapes, PC
<1>4. me' \in [Proc -> Locals] /\ me'[p] = Idle /\ \A r \in Proc \ {p} : me'[r] = me[r]
  BY <1>1, <1>2 DEF Control, Shapes
<1>5. copy' \in [Proc -> [Dir -> Seq(Mount)]] /\ copy'[p] = NoCopy
      /\ \A r \in Proc \ {p} : copy'[r] = copy[r]
  BY <1>1, <1>2 DEF Control, Shapes
<1>6. Moves(p)
  BY <1>3, <1>4, <1>5 DEF Moves, Others
<1>7. Placed(p)'
  BY <1>2, <1>3, <1>4, <1>5 DEF Placed
<1>8. Locked'
  <2>1. Steps(p, "idle", Idle)
    BY <1>1 DEF Steps
  <2>2. \A y \in Locks : /\ ~Reads("idle", Idle, y) /\ ~Reads(pc[p], me[p], y)
                         /\ ~Writes("idle", Idle, y) /\ ~Writes(pc[p], me[p], y)
    BY <1>1 DEF Reads, Writes
  <2> QED BY <1>1, <2>1, <2>2, LockKept
<1>9. chan' \in [Dir -> Int]
      /\ \A d \in Dir : chan'[d] = chan[d] - Copied(copy[p], d) + Copied(copy'[p], d)
  <2>1. \A d \in Dir : Copied(copy[p], d) \in Nat
    BY <1>c, CopiedType
  <2>2. \A d \in Dir : Copied(copy'[p], d) = 0
    BY <1>5, CopiedNone
  <2> QED BY <1>1, <1>c, <2>1, <2>2
<1>10. Balanced(p)
  <2>1. \A x : Own(me'[p], x) = Own(me[p], x) /\ OwnHead(me'[p], x) = OwnHead(me[p], x)
    BY <1>4, <1>o
  <2>2. me'[p].add = me[p].add /\ copy'[p] \in [Dir -> Seq(Mount)] /\ pc'[p] # "um.free"
    BY <1>3, <1>4, <1>5, <1>a
  <2> QED BY <1>1, <1>9, <2>1, <2>2, CopyBalancing
<1> QED BY <1>6, <1>7, <1>8, <1>10 DEF Kept

-----------------------------------------------------------------------------
(* The beginning of a call.                                                *)
LEMMA BeginKept ==
  ASSUME Control, NEW p \in Proc, Begin(p)
  PROVE  Kept(p) /\ Balanced(p)
<1>1. PICK a \in Call :
        LET c0 == IF a.op \in {"bind", "unmount", "dotdot"} THEN a.x ELSE a.b
            b0 == IF a.op \in {"bind", "unmount", "create"} THEN a.b ELSE Nil
            skip == a.op = "fork"
        IN /\ At(p, "idle") /\ copy' = copy
           /\ Goto(p, IF c0 = Nil THEN "um.ns" ELSE First(a.op))
           /\ Local(p, [Idle EXCEPT !.call = a, !.b = b0, !.c = IF skip THEN Nil ELSE c0])
           /\ chan' = IF skip THEN chan ELSE Incref(Incref(chan, b0), c0)
           /\ lock' = lock /\ href' = href
  BY DEF Begin, heads
<1> DEFINE c0 == IF a.op \in {"bind", "unmount", "dotdot"} THEN a.x ELSE a.b
           b0 == IF a.op \in {"bind", "unmount", "create"} THEN a.b ELSE Nil
           l == IF c0 = Nil THEN "um.ns" ELSE First(a.op)
           cc == IF a.op = "fork" THEN Nil ELSE c0
           v == [Idle EXCEPT !.call = a, !.b = b0, !.c = cc]
<1>2. /\ a \in Calls /\ a.op \in Ops /\ a.b \in Dir /\ a.x \in Dir \cup {Nil}
      /\ a.x = Nil => a.op \notin {"bind", "dotdot"}
  BY CallFacts
<1>3. c0 \in Dir \cup {Nil} /\ b0 \in Dir \cup {Nil}
      /\ (c0 = Nil => a.op = "unmount") /\ (a.op \in Keeps => b0 = a.b)
      /\ (a.op \notin Keeps => b0 = Nil)
  BY <1>2, Names DEF Keeps
<1>c. cc \in Dir \cup {Nil} /\ (a.op = "fork" => cc = Nil) /\ (a.op # "fork" => cc = c0)
  BY <1>3
<1>d. chan' = (IF a.op = "fork" THEN chan ELSE Incref(Incref(chan, b0), c0)) /\ lock' = lock /\ href' = href
  BY <1>1
<1> HIDE DEF b0, c0, cc
<1>4. /\ l \in PC
      /\ a.op = "unmount" => l \in {"find", "um.ns"}
      /\ a.op = "fork" => l = "fork.ns"
      /\ a.op = "dotdot" => l = "undo"
      /\ a.op \in {"bind", "open", "walk", "create"} => l = "find"
      /\ l # "um.ns" => c0 # Nil
      /\ l # "idle" /\ l \notin {"fork", "forked", "group"}
  BY <1>2, <1>3 DEF First, PC, Ops
<1>5. v \in Locals /\ v.call = a /\ v.b = b0 /\ v.m = Nil /\ v.new = Nil /\ v.mh = Nil
      /\ v.add = <<>> /\ v.retry = FALSE /\ v.res = "none"
      /\ (a.op = "fork" => v.c = Nil) /\ (a.op # "fork" => v.c = c0)
  <2>1. Idle \in Locals /\ Free(Idle) /\ Idle.retry = FALSE /\ Idle.res = "none"
    BY IdleFacts DEF Idle
  <2>2. v \in Locals
    BY <1>2, <1>3, <1>c, <2>1 DEF Locals
  <2>3. v.call = a /\ v.b = b0 /\ v.c = cc
    BY <2>1 DEF Locals
  <2>4. /\ v.m = Nil /\ v.new = Nil /\ v.mh = Nil
        /\ v.add = <<>> /\ v.retry = FALSE /\ v.res = "none"
    BY <2>1 DEF Locals, Free
  <2> QED BY <1>c, <2>2, <2>3, <2>4
<1>6. pc' = [pc EXCEPT ![p] = l] /\ me' = [me EXCEPT ![p] = v] /\ copy' = copy /\ pc[p] = "idle"
  BY <1>1 DEF Goto, Local, At, c0, b0, cc
<1> HIDE DEF l, v
<1>7. Moves(p) /\ pc'[p] = l /\ me'[p] = v /\ copy'[p] = copy[p]
  BY <1>4, <1>5, <1>6, Moved DEF Control
<1>8. copy[p] = NoCopy
  BY <1>6, Here DEF Placed
<1>9. Serves(l, v.call.op) /\ Chans(l, v) /\ Tries(l, v)
  <2>1. Serves(l, a.op)
    BY <1>2, <1>4 DEF Serves, Ops, Binding, Forking
  <2>2. Chans(l, v)
    BY <1>2, <1>3, <1>4, <1>5 DEF Chans, Ops, Binding, Forking, Inside
  <2>3. Tries(l, v)
    BY <1>4, <1>5 DEF Tries, Ops
  <2> QED BY <1>5, <2>1, <2>2, <2>3
<1>10. Placed(p)'
  BY <1>4, <1>5, <1>7, <1>8, <1>9 DEF Placed
<1>11. Steps(p, l, v)
  BY <1>6 DEF Steps
<1>12. Free(me[p])
  BY <1>6, Here DEF Placed
<1>13. Locked'
  <2>1. l \in {"find", "um.ns", "fork.ns", "undo"}
    BY <1>2, <1>4 DEF Ops
  <2>2. \A y \in Locks : /\ ~Reads(l, v, y) /\ ~Reads(pc[p], me[p], y)
                         /\ ~Writes(l, v, y) /\ ~Writes(pc[p], me[p], y)
    BY <1>6, <2>1 DEF Reads, Writes
  <2> QED BY <1>d, <1>11, <2>2, LockKept
<1>14. chan' \in [Dir -> Int] /\ \A d \in Dir : chan'[d] = chan[d] + Is(b0, d) + Is(v.c, d)
  <2>1. chan \in [Dir -> Int] /\ \A d \in Dir : Is(Nil, d) = 0
    BY IsType, Names DEF Control, Shapes
  <2>2. CASE a.op = "fork"
    <3>1. b0 = Nil /\ v.c = Nil /\ chan' = chan
      BY <1>3, <1>5, <1>d, <2>2 DEF Keeps
    <3> QED BY <2>1, <3>1
  <2>3. CASE a.op # "fork"
    <3> DEFINE f == Incref(chan, b0)
    <3>1. f \in [Dir -> Int] /\ \A d \in Dir : f[d] = chan[d] + Is(b0, d)
      BY <1>3, <2>1, ChanArithmetic
    <3>2. chan' = Incref(f, c0) /\ v.c = c0
      BY <1>5, <1>d, <2>3
    <3> HIDE DEF f
    <3>3. chan' \in [Dir -> Int] /\ \A d \in Dir : chan'[d] = f[d] + Is(c0, d)
      BY <1>3, <3>1, <3>2, ChanArithmetic
    <3> QED BY <3>1, <3>2, <3>3
  <2> QED BY <2>2, <2>3
<1>15. ASSUME NEW d \in Dir PROVE chan'[d] = chan[d] - Own(me[p], d) + Own(v, d)
  <2>1. Own(me[p], d) = 0
    BY <1>12, IsType, Names DEF Own, Free
  <2>2. Own(v, d) = Is(b0, d) + Is(v.c, d)
    <3>1. Is(b0, d) \in Nat /\ Is(v.c, d) \in Nat /\ Is(Nil, d) = 0
      BY IsType, Names
    <3> QED BY <1>5, <3>1 DEF Own
  <2>3. chan[d] \in Int /\ Is(b0, d) \in Nat /\ Is(v.c, d) \in Nat
    BY IsType DEF Control, Shapes
  <2>4. chan'[d] = chan[d] + Is(b0, d) + Is(v.c, d)
    BY <1>14
  <2> QED BY <2>1, <2>2, <2>3, <2>4
<1>16. ASSUME NEW h \in Mhead PROVE href'[h] = href[h] - OwnHead(me[p], h) + OwnHead(v, h)
  <2>1. OwnHead(me[p], h) = 0 /\ OwnHead(v, h) = 0
    BY <1>5, <1>12, IsType, Names DEF OwnHead, Free
  <2>2. href[h] \in Int
    BY DEF Control, Shapes
  <2> QED BY <1>d, <2>1, <2>2
<1>17. href' \in [Mhead -> Int] /\ v.add = me[p].add /\ l # "um.free"
  <2>1. v.add = me[p].add
    BY <1>5, <1>12 DEF Free
  <2>2. l # "um.free"
    BY <1>2, <1>4 DEF Ops
  <2> QED BY <1>d, <2>1, <2>2 DEF Control, Shapes
<1>18. Balanced(p)
  BY <1>5, <1>6, <1>11, <1>14, <1>15, <1>16, <1>17, Balancing
<1> QED BY <1>7, <1>10, <1>13, <1>18 DEF Kept

-----------------------------------------------------------------------------
(* The steps that leave the mount table, its heads and their lists alone.  *)

Calm(p) == \/ Begin(p) \/ Lookup(p) \/ Namec(p) \/ Check(p) \/ UnmountNs(p) \/ pgrpcpy(p)

Same == table' = table /\ from' = from /\ list' = list

Holding == {"bind.lk", "bind.copy", "um.free"}
Found   == {"findlk", "bind.lk", "bind.copy", "um.lk", "um.free"}

LEMMA CalmKept ==
  ASSUME Control, NEW p \in Proc, Calm(p)
  PROVE  Kept(p) /\ Balanced(p) /\ Same
<1>1. CASE Begin(p)
  <2>1. Same
    BY <1>1 DEF Begin, heads, Same
  <2> QED BY <1>1, <2>1, BeginKept
<1>2. CASE Lookup(p)
  <2>1. CASE FindNs(p)
    BY <2>1, FindNsKept DEF FindNs, heads, Same
  <2>2. CASE FindNone(p)
    BY <2>2, FindNoneKept DEF FindNone, heads, Same
  <2>3. CASE Find(p)
    <3>1. pc[p] = "findlk" /\ CanR(me[p].h) /\ Same
      BY <2>3 DEF Find, At, Same
    <3>2. list[me[p].h] # <<>>
      BY <3>1, Findable
    <3> QED BY <2>3, <3>1, <3>2, FindKept
  <2>4. CASE Walk(p)
    BY <2>4, WalkKept DEF Walk, Return, Same
  <2>5. CASE WalkUnion(p)
    BY <2>5, WalkUnionKept DEF WalkUnion, heads, Same
  <2>6. CASE WalkFails(p)
    BY <2>6, WalkFailsKept DEF WalkFails, Same
  <2>7. CASE UnionSearch(p)
    <3>1. Same
      BY <2>7 DEF UnionSearch, Same
    <3> QED BY <2>7, <3>1, UnionSearchKept
  <2>8. CASE UndoNs(p)
    BY <2>8, UndoNsKept DEF UndoNs, heads, Same
  <2>9. CASE undomount(p)
    BY <2>9, undomountKept DEF undomount, heads, Same
  <2>10. CASE Back(p)
    BY <2>10, BackKept DEF Back, Return, Same
  <2> QED BY <1>2, <2>1, <2>2, <2>3, <2>4, <2>5, <2>6, <2>7, <2>8, <2>9, <2>10
          DEF Lookup, findmount
<1>3. CASE Namec(p)
  <2>1. CASE Open(p)
    BY <2>1, OpenKept DEF Open, Same
  <2>2. CASE unionread(p)
    BY <2>2, unionreadKept DEF unionread, heads, Same
  <2>3. CASE ReadDone(p)
    BY <2>3, ReadDoneKept DEF ReadDone, heads, Same
  <2>4. CASE Close(p)
    BY <2>4, CloseKept DEF Close, Return, Same
  <2>5. CASE createdir(p)
    <3>1. Same
      BY <2>5 DEF createdir, Same
    <3> QED BY <2>5, <3>1, createdirKept
  <2>6. CASE Create(p)
    <3>1. Same
      BY <2>6 DEF Create, Same
    <3> QED BY <2>6, <3>1, CreateKept
  <2> QED BY <1>3, <2>1, <2>2, <2>3, <2>4, <2>5, <2>6 DEF Namec
<1>4. CASE Check(p)
  <2>1. Same
    BY <1>4 DEF Check, Return, heads, Same
  <2> QED BY <1>4, <2>1, CheckKept
<1>5. CASE UnmountNs(p)
  BY <1>5, UnmountNsKept DEF UnmountNs, heads, Same
<1>6. CASE pgrpcpy(p)
  <2>1. CASE ForkNs(p)
    BY <2>1, ForkNsKept DEF ForkNs, heads, Same
  <2>2. CASE ForkCopy(p)
    <3>1. Same
      BY <2>2 DEF ForkCopy, heads, Same
    <3> QED BY <2>2, <3>1, ForkCopyKept
  <2>3. CASE ForkIds(p)
    <3>1. Same
      BY <2>3 DEF ForkIds, heads, Same
    <3> QED BY <2>3, <3>1, ForkIdsKept
  <2>4. CASE ForkOut(p)
    BY <2>4, ForkOutKept DEF ForkOut, heads, Same
  <2>5. CASE closepgrp(p)
    <3>1. Same
      BY <2>5 DEF closepgrp, heads, Same
    <3> QED BY <2>5, <3>1, closepgrpKept
  <2> QED BY <1>6, <2>1, <2>2, <2>3, <2>4, <2>5 DEF pgrpcpy
<1> QED BY <1>1, <1>2, <1>3, <1>4, <1>5, <1>6 DEF Calm

(* Where they go.                                                          *)
LEMMA EndIdle ==
  ASSUME Shapes, NEW p \in Proc, NEW e, End(p, e)
  PROVE  pc'[p] = "idle"
BY DEF End, Goto, Shapes

LEMMA CalmFrom ==
  ASSUME NEW p \in Proc, Calm(p)
  PROVE  pc[p] \notin Holding
<1>1. CASE Begin(p)
  BY <1>1 DEF Begin, At, Holding
<1>2. CASE Lookup(p)
  BY <1>2 DEF Lookup, findmount, FindNs, FindNone, Find, Walk, WalkUnion, WalkFails, UnionSearch,
              UndoNs, undomount, Back, At, Holding
<1>3. CASE Namec(p)
  BY <1>3 DEF Namec, Open, unionread, ReadDone, Close, createdir, Create, At, Holding
<1>4. CASE Check(p)
  BY <1>4 DEF Check, At, Holding
<1>5. CASE UnmountNs(p)
  BY <1>5 DEF UnmountNs, At, Holding
<1>6. CASE pgrpcpy(p)
  BY <1>6 DEF pgrpcpy, ForkNs, ForkCopy, ForkIds, ForkOut, closepgrp, At, Holding
<1> QED BY <1>1, <1>2, <1>3, <1>4, <1>5, <1>6 DEF Calm

Past == Found \cup {"fork", "forked"}

LEMMA CalmPast ==
  ASSUME Control, NEW p \in Proc, Calm(p), ~FindNs(p), ~UnmountNs(p), ~pgrpcpy(p)
  PROVE  pc'[p] \notin Past
<1>s. Shapes /\ pc \in [Proc -> PC]
  BY DEF Control, Shapes
<1>1. CASE Begin(p)
  <2>1. PICK a \in Call : \E l \in {"um.ns", First(a.op)} : pc' = [pc EXCEPT ![p] = l]
    BY <1>1 DEF Begin, Goto
  <2>2. First(a.op) \in {"fork.ns", "undo", "find"}
    BY CallFacts DEF First, Ops
  <2> QED BY <1>s, <2>1, <2>2 DEF Past, Found
<1>2. CASE Lookup(p)
  <2>2. CASE FindNone(p)
    <3>1. pc[p] = "find" /\ pc' = [pc EXCEPT ![p] = Asked(p)]
      BY <2>2 DEF FindNone, At, Goto
    <3>2. Asked(p) \in {"check", "umh", "walk", "createdir"}
      BY <3>1, KeyFacts
    <3> QED BY <1>s, <3>1, <3>2 DEF Past, Found
  <2>3. CASE Find(p)
    <3>1. pc[p] = "findlk" /\ pc' = [pc EXCEPT ![p] = Asked(p)]
      BY <2>3 DEF Find, At, Goto
    <3>2. Asked(p) \in {"check", "umh", "walk", "createdir"}
      BY <3>1, KeyFacts
    <3> QED BY <1>s, <3>1, <3>2 DEF Past, Found
  <2>4. CASE Walk(p) \/ Back(p)
    BY <1>s, <2>4, EndIdle DEF Walk, Back, Return, Past, Found
  <2>5. CASE WalkUnion(p)
    BY <1>s, <2>5 DEF WalkUnion, Goto, Past, Found
  <2>6. CASE NotFound(p)
    BY <1>s, <2>6, EndIdle DEF NotFound, Goto, Past, Found
  <2>7. CASE UnionSearch(p)
    <3>1. CASE pc' = pc /\ pc[p] = "union"
      BY <3>1 DEF Past, Found
    <3>2. CASE End(p, "none")
      BY <1>s, <3>2, EndIdle DEF Past, Found
    <3> QED BY <2>6, <2>7, <3>1, <3>2 DEF UnionSearch, At
  <2>8. CASE UndoNs(p)
    BY <1>s, <2>8 DEF UndoNs, Goto, Past, Found
  <2>9. CASE undomount(p)
    BY <1>s, <2>9 DEF undomount, Goto, Past, Found
  <2> QED BY <1>2, <2>2, <2>3, <2>4, <2>5, <2>6, <2>7, <2>8, <2>9
          DEF Lookup, findmount, WalkFails
<1>3. CASE Namec(p)
  <2>1. CASE Open(p)
    BY <1>s, <2>1 DEF Open, Goto, Past, Found
  <2>2. CASE unionread(p)
    BY <1>s, <2>2 DEF unionread, Goto, Past, Found
  <2>3. CASE ReadDone(p)
    BY <1>s, <2>3 DEF ReadDone, Goto, Past, Found
  <2>4. CASE Close(p)
    BY <1>s, <2>4, EndIdle DEF Close, Return, Past, Found
  <2>r. ASSUME NEW e, Retry(p, e) PROVE pc'[p] \notin Past
    BY <1>s, <2>r, EndIdle DEF Retry, Goto, Past, Found
  <2>5. CASE createdir(p)
    <3>1. CASE Goto(p, "create")
      BY <1>s, <3>1 DEF Goto, Past, Found
    <3> QED BY <2>5, <2>r, <3>1 DEF createdir
  <2>6. CASE Create(p)
    <3>1. CASE End(p, "none")
      BY <1>s, <3>1, EndIdle DEF Past, Found
    <3> QED BY <2>6, <2>r, <3>1 DEF Create
  <2> QED BY <1>3, <2>1, <2>2, <2>3, <2>4, <2>5, <2>6 DEF Namec
<1>4. CASE Check(p)
  <2>1. CASE End(p, "none")
    BY <1>s, <2>1, EndIdle DEF Past, Found
  <2>2. CASE Goto(p, "bind.ns")
    BY <1>s, <2>2 DEF Goto, Past, Found
  <2> QED BY <1>4, <2>1, <2>2 DEF Check, Return
<1> QED BY <1>1, <1>2, <1>3, <1>4 DEF Calm

LEMMA CalmTo ==
  ASSUME Control, NEW p \in Proc, Calm(p), ~FindNs(p), ~UnmountNs(p)
  PROVE  pc'[p] \notin Found
<1>s. Shapes /\ pc \in [Proc -> PC]
  BY DEF Control, Shapes
<1>1. CASE pgrpcpy(p)
  <2>1. CASE ForkCopy(p)
    <3>1. pc' = pc /\ pc[p] = "fork"
      BY <2>1 DEF ForkCopy, At
    <3> QED BY <3>1 DEF Found
  <2>2. CASE ForkNs(p)
    BY <1>s, <2>2 DEF ForkNs, Goto, Found
  <2>3. CASE ForkIds(p)
    <3>1. Goto(p, "forked")
      BY <2>3 DEF ForkIds
    <3> QED BY <1>s, <3>1 DEF Goto, Found
  <2>4. CASE ForkOut(p)
    BY <1>s, <2>4 DEF ForkOut, Goto, Found
  <2>5. CASE closepgrp(p)
    <3>1. Goto(p, "idle")
      BY <2>5 DEF closepgrp
    <3> QED BY <1>s, <3>1 DEF Goto, Found
  <2> QED BY <1>1, <2>1, <2>2, <2>3, <2>4, <2>5 DEF pgrpcpy
<1> QED BY <1>1, CalmPast DEF Past

LEMMA CalmLocated ==
  ASSUME Control, NEW p \in Proc, Calm(p)
  PROVE  Located(p)'
<1>1. me \in [Proc -> Locals] /\ pc \in [Proc -> PC] /\ me[p] \in Locals
  BY Here DEF Control, Shapes
<1>2. CASE FindNs(p)
  <2> DEFINE k == Key(p)
             w == [me[p] EXCEPT !.h = table[k]]
  <2>1. pc[p] = "find" /\ table[k] # Nil /\ pc' = [pc EXCEPT ![p] = "findlk"]
        /\ me' = [me EXCEPT ![p] = w] /\ table' = table
    BY <1>2 DEF FindNs, At, Goto, Local, heads
  <2>2. table[k] \in Mhead \cup {Nil}
    BY <2>1, KeyFacts
  <2>3. w.h = table[k] /\ w.c = me[p].c /\ w.b = me[p].b
    BY <1>1, <2>2 DEF Locals
  <2>k. k = IF me[p].c = Nil THEN me[p].b ELSE me[p].c
    BY DEF Key
  <2> HIDE DEF k, w
  <2>4. pc'[p] = "findlk" /\ me'[p] = w
    BY <1>1, <2>1
  <2>5. Key(p)' = k
    BY <2>3, <2>4, <2>k DEF Key
  <2> QED BY <2>1, <2>3, <2>4, <2>5 DEF Located
<1>3. CASE UnmountNs(p)
  <2> DEFINE w == [me[p] EXCEPT !.h = table[me[p].b]]
  <2>1. CASE Goto(p, "back")
    BY <1>1, <2>1 DEF Goto, Located
  <2>2. CASE Goto(p, "um.lk") /\ table[me[p].b] # Nil /\ Local(p, w) /\ table' = table
    <3>1. me[p].b \in Dir
      <4>1. pc[p] = "um.ns" /\ Placed(p)
        BY <1>3, Here DEF UnmountNs, At
      <4>2. me[p].call.op = "unmount" /\ me[p].b = me[p].call.b
        BY <4>1 DEF Placed, Serves, Chans, Keeps
      <4> QED BY <4>1, <4>2, Here
    <3>2. table[me[p].b] \in Mhead \cup {Nil}
      BY <3>1 DEF Control, Shapes
    <3>3. w.h = table[me[p].b] /\ w.b = me[p].b
      BY <1>1, <3>2 DEF Locals
    <3> HIDE DEF w
    <3>4. pc'[p] = "um.lk" /\ me'[p] = w
      BY <1>1, <2>2 DEF Goto, Local
    <3> QED BY <2>2, <3>3, <3>4 DEF Located
  <2> QED BY <1>3, <2>1, <2>2 DEF UnmountNs, heads
<1>4. CASE ~FindNs(p) /\ ~UnmountNs(p)
  <2>1. pc'[p] \notin Found
    BY <1>4, CalmTo
  <2> QED BY <2>1 DEF Located, Found
<1> QED BY <1>2, <1>3, <1>4

(* Nobody else's place changes.                                            *)
LEMMA CalmHeaded ==
  ASSUME Control, NEW p \in Proc, Moves(p), Same, Located(p)',
         pc[p] \notin Holding \/ (pc[p] = "bind.lk" /\ pc'[p] = "bind.copy" /\ me'[p].h = me[p].h)
  PROVE  Headed' /\ \A r \in Proc : Located(r)'
<1>1. ASSUME NEW r \in Proc, r # p PROVE pc'[r] = pc[r] /\ me'[r] = me[r]
  BY <1>1 DEF Moves, Others
<1>2. ASSUME NEW r \in Proc PROVE Located(r)'
  <2>1. CASE r = p
    BY <2>1
  <2>2. CASE r # p
    <3>1. Located(r) /\ Key(r)' = Key(r)
      BY <1>1, <2>2 DEF Control, Key
    <3> QED BY <1>1, <2>2, <3>1 DEF Located, Same
  <2> QED BY <2>1, <2>2
<1>3. Headed
  BY DEF Control
<1>4. Headed'
  <2>1. \A d \in Dir : table'[d] # Nil => from'[table'[d]] = d
    BY <1>3 DEF Headed, Same
  <2>2. ASSUME NEW h \in Mhead, from'[h] # Nil
        PROVE  table'[from'[h]] = h \/ \E q \in Proc : pc'[q] = "um.free" /\ me'[q].h = h
    <3>1. table[from[h]] = h \/ \E q \in Proc : pc[q] = "um.free" /\ me[q].h = h
      BY <1>3, <2>2 DEF Headed, Same
    <3>2. ASSUME NEW q \in Proc, pc[q] = "um.free" PROVE pc'[q] = pc[q] /\ me'[q] = me[q]
      BY <1>1, <3>2 DEF Holding
    <3> QED BY <3>1, <3>2 DEF Same
  <2>3. \A h \in Mhead : list'[h] # <<>> => from'[h] # Nil
    BY <1>3 DEF Headed, Same
  <2>4. ASSUME NEW d \in Dir, table'[d] # Nil, list'[table'[d]] = <<>>
        PROVE  \E q \in Proc : pc'[q] \in {"bind.lk", "bind.copy"} /\ me'[q].h = table'[d]
    <3>1. PICK q \in Proc : pc[q] \in {"bind.lk", "bind.copy"} /\ me[q].h = table[d]
      BY <1>3, <2>4 DEF Headed, Same
    <3>2. pc'[q] \in {"bind.lk", "bind.copy"} /\ me'[q].h = me[q].h
      BY <1>1, <3>1 DEF Holding
    <3> QED BY <3>1, <3>2 DEF Same
  <2> QED BY <2>1, <2>2, <2>3, <2>4 DEF Headed
<1> QED BY <1>2, <1>4

-----------------------------------------------------------------------------
(* The rest of the state has its type.                                     *)

Plain == /\ mountid \in Nat /\ has \subseteq Dir /\ calls \in 0..MaxCalls
         /\ changed \in [Proc -> BOOLEAN] /\ wild \in BOOLEAN

LEMMA ChangeType ==
  ASSUME changed \in [Proc -> BOOLEAN]
  PROVE  /\ Change => changed' \in [Proc -> BOOLEAN]
         /\ \A p \in Proc : \A e : End(p, e) => changed' \in [Proc -> BOOLEAN]
         /\ \A p \in Proc : \A e : Retry(p, e) => changed' \in [Proc -> BOOLEAN]
         /\ \A p \in Proc : NotFound(p) => changed' \in [Proc -> BOOLEAN]
<1>1. Change => changed' \in [Proc -> BOOLEAN]
  BY DEF Change
<1>2. \A p \in Proc : \A e : End(p, e) => changed' \in [Proc -> BOOLEAN]
  BY DEF End
<1>3. \A p \in Proc : \A e : Retry(p, e) => changed' \in [Proc -> BOOLEAN]
  BY <1>2 DEF Retry
<1>4. \A p \in Proc : NotFound(p) => changed' \in [Proc -> BOOLEAN]
  BY <1>2 DEF NotFound
<1> QED BY <1>1, <1>2, <1>3, <1>4

LEMMA PlainKept ==
  ASSUME Control, NEW p \in Proc, Begin(p) \/ Step(p)
  PROVE  Plain'
<1>t. Plain
  BY DEF Control, Shapes, Plain
<1>c. changed \in [Proc -> BOOLEAN]
  BY <1>t DEF Plain
<1> DEFINE Stays == UNCHANGED <<mountid, has, calls, changed, wild>>
           Other == UNCHANGED <<mountid, has, calls, wild>> /\ changed' \in [Proc -> BOOLEAN]
           Wild  == UNCHANGED <<has, calls>> /\ wild' \in BOOLEAN /\ changed' \in [Proc -> BOOLEAN]
<1>w. ASSUME Stays PROVE Plain'
  BY <1>t, <1>w DEF Plain
<1>o. ASSUME Other PROVE Plain'
  BY <1>t, <1>o DEF Plain
<1>m. ASSUME Wild, mountid' \in Nat PROVE Plain'
  BY <1>t, <1>m DEF Plain
<1>r. ASSUME Return(p) PROVE Plain'
  <2>1. changed' \in [Proc -> BOOLEAN]
    BY <1>c, <1>r, ChangeType DEF Return
  <2>2. UNCHANGED <<mountid, has, calls, wild>>
    BY <1>r DEF Return
  <2> QED BY <1>o, <2>1, <2>2
<1>n. mountid \in Nat /\ MaxCalls \in Nat
  BY <1>t, CallAssumption DEF Plain
<1>1. CASE Begin(p)
  <2>1. calls < MaxCalls /\ calls' = calls + 1 /\ UNCHANGED <<mountid, has, changed, wild>>
    BY <1>1 DEF Begin
  <2> QED BY <1>t, <1>n, <2>1 DEF Plain
<1>2. CASE Lookup(p)
  <2>1. CASE FindNs(p) \/ WalkUnion(p) \/ UndoNs(p)
    <3>1. Stays
      BY <2>1 DEF FindNs, WalkUnion, UndoNs, world
    <3> QED BY <1>w, <3>1
  <2>2. CASE FindNone(p) \/ Find(p)
    <3>1. Stays
      BY <2>2 DEF FindNone, Find
    <3> QED BY <1>w, <3>1
  <2>3. CASE Walk(p) \/ Back(p)
    BY <1>r, <2>3 DEF Walk, Back
  <2>4. CASE WalkFails(p)
    <3>1. changed' \in [Proc -> BOOLEAN]
      BY <1>c, <2>4, ChangeType DEF WalkFails
    <3>2. UNCHANGED <<mountid, has, calls, wild>>
      BY <2>4 DEF WalkFails
    <3> QED BY <1>o, <3>1, <3>2
  <2>5. CASE UnionSearch(p)
    <3>1. UNCHANGED <<mountid, has, calls>>
      BY <2>5 DEF UnionSearch
    <3>2. wild' \in BOOLEAN
      BY <1>t, <2>5 DEF UnionSearch, Plain
    <3>3. changed' \in [Proc -> BOOLEAN]
      <4>1. CASE changed' = changed
        BY <1>c, <4>1
      <4>2. CASE End(p, "none") \/ NotFound(p)
        BY <1>c, <4>2, ChangeType
      <4> QED BY <2>5, <4>1, <4>2 DEF UnionSearch
    <3> QED BY <1>m, <1>n, <3>1, <3>2, <3>3
  <2>6. CASE undomount(p)
    <3>1. UNCHANGED <<mountid, has, calls, changed>>
      BY <2>6 DEF undomount
    <3>2. wild' \in BOOLEAN
      BY <2>6 DEF undomount
    <3> QED BY <1>m, <1>n, <1>c, <3>1, <3>2
  <2> QED BY <1>2, <2>1, <2>2, <2>3, <2>4, <2>5, <2>6 DEF Lookup, findmount
<1>3. CASE Namec(p)
  <2>1. CASE Open(p) \/ unionread(p) \/ ReadDone(p)
    <3>1. Stays
      BY <2>1 DEF Open, unionread, ReadDone, world
    <3> QED BY <1>w, <3>1
  <2>2. CASE Close(p)
    BY <1>r, <2>2 DEF Close
  <2>3. CASE createdir(p)
    <3>1. UNCHANGED <<mountid, has, calls, wild>>
      BY <2>3 DEF createdir
    <3>2. changed' = changed \/ Retry(p, "nocreate")
      BY <2>3 DEF createdir
    <3>3. changed' \in [Proc -> BOOLEAN]
      BY <1>c, <3>2, ChangeType
    <3> QED BY <1>o, <3>1, <3>3
  <2>4. CASE Create(p)
    <3>1. UNCHANGED <<mountid, calls, wild>>
      BY <2>4 DEF Create
    <3>2. changed' \in [Proc -> BOOLEAN]
      <4>1. End(p, "none") \/ Retry(p, "exists")
        BY <2>4 DEF Create
      <4> QED BY <1>c, <4>1, ChangeType
    <3>3. me[p].c \in Dir
      <4>1. pc[p] \in {"create", "createdir"} /\ Placed(p) /\ me[p] \in Locals
        BY <2>4, Here DEF Create, At
      <4>2. me[p].c # Nil
        BY <4>1 DEF Placed, Chans, Inside
      <4> QED BY <4>1, <4>2 DEF Locals
    <3>4. has' \subseteq Dir
      BY <1>t, <2>4, <3>3 DEF Create, Plain
    <3> QED BY <1>t, <3>1, <3>2, <3>4 DEF Plain
  <2> QED BY <1>3, <2>1, <2>2, <2>3, <2>4 DEF Namec
<1>4. CASE cmount(p)
  <2>1. CASE Check(p)
    <3>1. Return(p) \/ Stays
      BY <2>1 DEF Check, world
    <3> QED BY <1>r, <1>w, <3>1
  <2>2. CASE BindNs(p)
    <3>1. UNCHANGED <<has, calls, changed, wild>>
      BY <2>2 DEF BindNs
    <3>2. mountid' = mountid \/ mountid' = mountid + 1
      BY <2>2 DEF BindNs
    <3> QED BY <1>t, <1>n, <3>1, <3>2 DEF Plain
  <2>3. CASE BindLock(p)
    <3>1. mountid' = mountid + 1 /\ UNCHANGED <<has, calls, changed, wild>>
      BY <2>3 DEF BindLock
    <3> QED BY <1>t, <1>n, <3>1 DEF Plain
  <2>4. CASE BindLink(p)
    <3> DEFINE n == IF me[p].um = <<>> THEN 0 ELSE Len(me[p].um) - 1
    <3>1. mountid' = mountid + n /\ UNCHANGED <<has, calls>> /\ Change
      BY <2>4 DEF BindLink
    <3>2. wild' \in BOOLEAN
      BY <2>4 DEF BindLink
    <3>3. n \in Nat
      <4>1. me[p].um \in Seq(Mount)
        BY Here DEF Locals
      <4>2. CASE me[p].um = <<>>
        BY <4>2
      <4>3. CASE me[p].um # <<>>
        <5>1. Len(me[p].um) \in Nat /\ Len(me[p].um) # 0
          BY <4>1, <4>3, EmptySeq, LenProperties
        <5> QED BY <4>3, <5>1
      <4> QED BY <4>2, <4>3
    <3> HIDE DEF n
    <3>4. changed' \in [Proc -> BOOLEAN]
      BY <1>c, <3>1, ChangeType
    <3>5. mountid' \in Nat
      BY <1>n, <3>1, <3>3
    <3> QED BY <1>m, <3>1, <3>2, <3>4, <3>5
  <2> QED BY <1>4, <2>1, <2>2, <2>3, <2>4 DEF cmount
<1>5. CASE cunmount(p)
  <2>1. CASE UnmountNs(p)
    <3>1. Stays
      BY <2>1 DEF UnmountNs, world
    <3> QED BY <1>w, <3>1
  <2>2. CASE UnmountOne(p)
    <3>1. UNCHANGED <<mountid, has, calls, wild>>
      BY <2>2 DEF UnmountOne
    <3>2. changed' = changed \/ Change
      BY <2>2 DEF UnmountOne
    <3> QED BY <1>c, <1>o, <3>1, <3>2, ChangeType
  <2>3. CASE UnmountAll(p)
    <3>1. UNCHANGED <<mountid, has, calls, wild>> /\ Change
      BY <2>3 DEF UnmountAll, world
    <3> QED BY <1>c, <1>o, <3>1, ChangeType
  <2>4. CASE UnmountFree(p)
    <3>1. Stays
      BY <2>4 DEF UnmountFree
    <3> QED BY <1>w, <3>1
  <2> QED BY <1>5, <2>1, <2>2, <2>3, <2>4 DEF cunmount
<1>6. CASE pgrpcpy(p)
  <2>1. CASE ForkNs(p) \/ ForkOut(p)
    <3>1. Stays
      BY <2>1 DEF ForkNs, ForkOut, world
    <3> QED BY <1>w, <3>1
  <2>2. CASE ForkCopy(p)
    <3>1. PICK d \in Dir : /\ list[table[d]] \in Seq(Mount)
                           /\ mountid' = mountid + Len(list[table[d]])
                           /\ UNCHANGED <<has, calls, changed, wild>>
      BY <2>2, ForkCopyFacts
    <3>2. mountid' \in Nat
      BY <1>n, <3>1, LenProperties
    <3> QED BY <1>t, <3>1, <3>2 DEF Plain
  <2>3. CASE ForkIds(p)
    <3>1. mountid' \in Nat /\ UNCHANGED <<has, calls, changed, wild>>
      BY <2>3, ForkIdsFacts
    <3> QED BY <1>t, <3>1 DEF Plain
  <2>4. CASE closepgrp(p)
    <3>1. UNCHANGED <<mountid, has, calls, wild>> /\ changed' = [changed EXCEPT ![p] = FALSE]
      BY <2>4 DEF closepgrp
    <3>2. changed' \in [Proc -> BOOLEAN]
      BY <1>c, <3>1
    <3> QED BY <1>o, <3>1, <3>2
  <2> QED BY <1>6, <2>1, <2>2, <2>3, <2>4 DEF pgrpcpy
<1> QED BY <1>1, <1>2, <1>3, <1>4, <1>5, <1>6 DEF Step

-----------------------------------------------------------------------------
(* The references add up.                                                  *)

Counts == /\ \A h \in Mhead : href[h] = HeadRefs(h)
          /\ \A d \in Dir : chan[d] = ChanRefs(d)

(* What all steps do to the sums.                                          *)
LEMMA ChanCounts ==
  ASSUME Control, Counts, NEW p \in Proc, Moves(p), list' \in [Mhead -> Seq(Mount)],
         NEW h \in Mhead, \A g \in Mhead \ {h} : list'[g] = list[g] /\ from'[g] = from[g],
         \A d \in Dir : chan'[d] = chan[d] - Using(p, d) + Using(p, d)' - Linked(h, d) + Linked(h, d)'
  PROVE  \A d \in Dir : chan'[d] = ChanRefs(d)'
<1>1. Typed /\ Typed'
  BY DEF Typed, Control, Shapes, Moves
<1>2. \A r \in Proc \ {p} : me'[r] = me[r] /\ copy'[r] = copy[r]
  BY DEF Moves, Others
<1>3. ASSUME NEW d \in Dir PROVE chan'[d] = ChanRefs(d)'
  <2>1. ChanRefs(d)' = ChanRefs(d) - Using(p, d) + Using(p, d)' - Linked(h, d) + Linked(h, d)'
    BY <1>1, <1>2, ChanMoved
  <2>2. chan[d] = ChanRefs(d)
    BY DEF Counts
  <2>3. chan'[d] = chan[d] - Using(p, d) + Using(p, d)' - Linked(h, d) + Linked(h, d)'
    OBVIOUS
  <2> QED BY <2>1, <2>2, <2>3
<1> QED BY <1>3

LEMMA HeadCounts ==
  ASSUME Control, Counts, NEW p \in Proc, Moves(p)
  PROVE  /\ (/\ table' = table
             /\ \A h \in Mhead : href'[h] = href[h] - HeldBy(p, h) + HeldBy(p, h)')
               => \A h \in Mhead : href'[h] = HeadRefs(h)'
         /\ \A d \in Dir : \A x :
              (/\ table' = [table EXCEPT ![d] = x]
               /\ \A h \in Mhead : href'[h] = href[h] - HeldBy(p, h) + HeldBy(p, h)'
                                              - Is(table[d], h) + Is(x, h))
               => \A h \in Mhead : href'[h] = HeadRefs(h)'
<1>1. table \in [Dir -> Mhead \cup {Nil}] /\ \A r \in Proc \ {p} : me'[r] = me[r] /\ pc'[r] = pc[r]
  BY DEF Control, Shapes, Moves, Others
<1>2. ASSUME table' = table, NEW h \in Mhead, href'[h] = href[h] - HeldBy(p, h) + HeldBy(p, h)'
      PROVE  href'[h] = HeadRefs(h)'
  <2>1. HeadRefs(h)' = HeadRefs(h) - HeldBy(p, h) + HeldBy(p, h)'
    BY <1>1, <1>2, HeadsMoved
  <2>2. href[h] = HeadRefs(h)
    BY DEF Counts
  <2> QED BY <1>2, <2>1, <2>2
<1>3. ASSUME NEW d \in Dir, NEW x, table' = [table EXCEPT ![d] = x], NEW h \in Mhead,
             href'[h] = href[h] - HeldBy(p, h) + HeldBy(p, h)' - Is(table[d], h) + Is(x, h)
      PROVE  href'[h] = HeadRefs(h)'
  <2>1. HeadRefs(h)' = HeadRefs(h) - HeldBy(p, h) + HeldBy(p, h)' - Is(table[d], h) + Is(x, h)
    BY <1>1, <1>3, HeadsMoved
  <2>2. href[h] = HeadRefs(h)
    BY DEF Counts
  <2> QED BY <1>3, <2>1, <2>2
<1>4. ASSUME table' = table, \A h \in Mhead : href'[h] = href[h] - HeldBy(p, h) + HeldBy(p, h)'
      PROVE  \A h \in Mhead : href'[h] = HeadRefs(h)'
  BY <1>2, <1>4
<1>5. ASSUME NEW d \in Dir, NEW x, table' = [table EXCEPT ![d] = x],
             \A h \in Mhead : href'[h] = href[h] - HeldBy(p, h) + HeldBy(p, h)'
                                         - Is(table[d], h) + Is(x, h)
      PROVE  \A h \in Mhead : href'[h] = HeadRefs(h)'
  BY <1>3, <1>5
<1> QED BY <1>4, <1>5

LEMMA CalmCounts ==
  ASSUME Control, Counts, NEW p \in Proc, Moves(p), Balanced(p), Same
  PROVE  Counts'
<1>1. \A h \in Mhead : href'[h] = HeadRefs(h)'
  <2>1. table' = table /\ \A h \in Mhead : href'[h] = href[h] - HeldBy(p, h) + HeldBy(p, h)'
    BY DEF Same, Balanced
  <2> QED BY <2>1, HeadCounts
<1>2. Typed /\ Typed'
  BY DEF Typed, Control, Shapes, Moves, Same
<1>3. \A r \in Proc \ {p} : me'[r] = me[r] /\ copy'[r] = copy[r]
  BY DEF Moves, Others
<1>4. ASSUME NEW d \in Dir PROVE chan'[d] = ChanRefs(d)'
  <2>1. list' = list /\ from' = from
    BY DEF Same
  <2>2. ChanRefs(d)' = ChanRefs(d) - Using(p, d) + Using(p, d)'
    BY <1>2, <1>3, <2>1, ChanMoved
  <2>3. chan[d] = ChanRefs(d) /\ chan'[d] = chan[d] - Using(p, d) + Using(p, d)'
    BY DEF Counts, Balanced
  <2> QED BY <2>2, <2>3
<1> QED BY <1>1, <1>4 DEF Counts

LEMMA Assemble ==
  ASSUME Control, NEW p \in Proc, Kept(p), Plain', table' \in [Dir -> Mhead \cup {Nil}],
         from' \in [Mhead -> Dir \cup {Nil}], list' \in [Mhead -> Seq(Mount)],
         href' \in [Mhead -> Int], chan' \in [Dir -> Int],
         Headed', \A r \in Proc : Located(r)'
  PROVE  Control'
<1>1. Moves(p) /\ Placed(p)' /\ Locked'
  BY DEF Kept
<1>2. lock' \in [Mhead \cup {"ns"} -> [r : SUBSET Proc, w : Proc \cup {Nil}]]
      /\ Exclusive' /\ \A r \in Proc : Locking(r)'
  BY <1>1 DEF Locked, Locks
<1>3. Shapes'
  BY <1>1, <1>2 DEF Shapes, Moves, Plain
<1>4. ASSUME NEW r \in Proc PROVE Placed(r)'
  <2>1. CASE r = p
    BY <1>1, <2>1
  <2>2. CASE r # p
    <3>1. Placed(r) /\ pc'[r] = pc[r] /\ me'[r] = me[r] /\ copy'[r] = copy[r]
      BY <1>1, <2>2 DEF Control, Moves, Others
    <3> QED BY <3>1 DEF Placed
  <2> QED BY <2>1, <2>2
<1> QED BY <1>2, <1>3, <1>4 DEF Control

LEMMA QuietStep ==
  ASSUME Control, Counts, NEW p \in Proc, Kept(p), Plain', Balanced(p), Same, Located(p)',
         pc[p] \notin Holding \/ (pc[p] = "bind.lk" /\ pc'[p] = "bind.copy" /\ me'[p].h = me[p].h)
  PROVE  Control' /\ Counts'
<1>1. Moves(p)
  BY DEF Kept
<1>2. Counts'
  BY <1>1, CalmCounts
<1>3. Headed' /\ \A r \in Proc : Located(r)'
  BY <1>1, CalmHeaded
<1>4. /\ table' \in [Dir -> Mhead \cup {Nil}] /\ from' \in [Mhead -> Dir \cup {Nil}]
      /\ list' \in [Mhead -> Seq(Mount)] /\ href' \in [Mhead -> Int] /\ chan' \in [Dir -> Int]
  BY DEF Control, Shapes, Same, Balanced
<1> QED BY <1>2, <1>3, <1>4, Assemble

LEMMA CalmStep ==
  ASSUME Control, Counts, NEW p \in Proc, Calm(p)
  PROVE  Control' /\ Counts'
<1>1. Kept(p) /\ Balanced(p) /\ Same /\ Located(p)' /\ pc[p] \notin Holding
  BY CalmKept, CalmLocated, CalmFrom
<1>2. Plain'
  <2>1. Begin(p) \/ Step(p)
    BY DEF Calm, Step, cmount, cunmount
  <2> QED BY <2>1, PlainKept
<1> QED BY <1>1, <1>2, QuietStep

(* Variables that hold the same.                                           *)
LEMMA UsingSame ==
  ASSUME NEW p \in Proc, copy'[p] = copy[p], me'[p].b = me[p].b, me'[p].c = me[p].c,
         me'[p].new = me[p].new, me'[p].add = me[p].add
  PROVE  \A d : Using(p, d)' = Using(p, d)
BY DEF Using

LEMMA HeldSame ==
  ASSUME NEW p \in Proc, me'[p].m = me[p].m, me'[p].mh = me[p].mh,
         pc[p] # "um.free", pc'[p] # "um.free"
  PROVE  \A h : HeldBy(p, h)' = HeldBy(p, h)
BY DEF HeldBy

(* A head without references is not in use.                                *)
LEMMA Unused ==
  ASSUME Control, Counts, NEW h \in Mhead, href[h] = 0
  PROVE  /\ \A d \in Dir : table[d] # h
         /\ \A r \in Proc : pc[r] = "um.free" => me[r].h # h
         /\ from[h] = Nil /\ list[h] = <<>>
<1> DEFINE S == {d \in Dir : table[d] = h}
           F == [r \in Proc |-> HeldBy(r, h)]
<1>1. F \in [Proc -> Nat] /\ Total(F) \in Nat
  <2>1. F \in [Proc -> Nat]
    BY HeldByType
  <2> QED BY <2>1, Finite, TotalType
<1>2. IsFiniteSet(S) /\ Cardinality(S) \in Nat
  BY Finite, FS_Subset, FS_CardinalityType
<1>3. Cardinality(S) + Total(F) = 0
  BY DEF Counts, HeadRefs
<1>4. Cardinality(S) = 0 /\ Total(F) = 0
  BY <1>1, <1>2, <1>3
<1>5. \A d \in Dir : table[d] # h
  <2>1. S = {}
    BY <1>2, <1>4, FS_EmptySet
  <2> QED BY <2>1
<1>6. \A r \in Proc : HeldBy(r, h) = 0
  <2>1. \A r \in Proc : F[r] = 0
    BY <1>1, <1>4, Finite, TotalZero
  <2> QED BY <2>1
<1>7. ASSUME NEW r \in Proc, pc[r] = "um.free", me[r].h = h PROVE FALSE
  <2>1. HeldBy(r, h) = Is(me[r].m, h) + Is(me[r].mh, h) + 1
    BY <1>7, IsType DEF HeldBy
  <2>2. Is(me[r].m, h) \in Nat /\ Is(me[r].mh, h) \in Nat
    BY IsType
  <2> QED BY <1>6, <2>1, <2>2
<1>8. from[h] = Nil
  BY <1>5, <1>7 DEF Control, Headed, Shapes
<1>9. list[h] = <<>>
  BY <1>8 DEF Control, Headed
<1> QED BY <1>5, <1>7, <1>8, <1>9

-----------------------------------------------------------------------------
(* The steps of bind and unmount.                                          *)

(* What a process that makes no copy has of a channel.                     *)
LEMMA UsingParts ==
  ASSUME Control, NEW p \in Proc, Moves(p), copy'[p] = copy[p], NEW d
  PROVE  /\ Using(p, d) \in Nat /\ Own(me[p], d) \in Nat /\ Own(me'[p], d) \in Nat
         /\ Count(me[p].add, d) \in Nat /\ Count(me'[p].add, d) \in Nat
         /\ Using(p, d)' = Using(p, d) - Own(me[p], d) - Count(me[p].add, d)
                                       + Own(me'[p], d) + Count(me'[p].add, d)
<1>1. /\ me[p].add \in Seq(Mount) /\ me'[p].add \in Seq(Mount)
      /\ copy[p] \in [Dir -> Seq(Mount)]
  BY DEF Control, Shapes, Moves, Locals
<1> DEFINE x == Copied(copy[p], d)
<1>2. x \in Nat /\ Count(me[p].add, d) \in Nat /\ Count(me'[p].add, d) \in Nat
  BY <1>1, CopiedType, CountType
<1>3. Using(p, d) = Own(me[p], d) + Count(me[p].add, d) + x
  BY DEF Using, Own
<1>4. Using(p, d)' = Own(me'[p], d) + Count(me'[p].add, d) + x
  BY DEF Using, Own
<1>5. Own(me[p], d) \in Nat /\ Own(me'[p], d) \in Nat
  BY OwnType
<1> HIDE DEF x
<1> QED BY <1>2, <1>3, <1>4, <1>5

LEMMA BindLockStep ==
  ASSUME Control, Counts, NEW p \in Proc, BindLock(p)
  PROVE  Control' /\ Counts'
<1> DEFINE v == me[p]
           s == IF v.mh = Nil THEN <<>> ELSE list[v.mh]
           x == [to |-> v.new, mcreate |-> v.call.mcreate, id |-> mountid + 1]
           w == [v EXCEPT !.um = s, !.add = <<x>>]
<1>1. /\ pc[p] = "bind.lk" /\ pc' = [pc EXCEPT ![p] = "bind.copy"]
      /\ me' = [me EXCEPT ![p] = w] /\ copy' = copy /\ chan' = Incref(chan, v.new)
      /\ table' = table /\ from' = from /\ list' = list /\ href' = href
  BY DEF BindLock, At, Goto, Local, heads
<1>2. Kept(p) /\ Plain'
  BY BindLockKept, PlainKept DEF Step, cmount
<1>3. /\ v \in Locals /\ v.new \in Dir /\ v.add = <<>> /\ x \in Mount /\ mountid \in Nat
      /\ v.h # Nil /\ table[v.b] = v.h
  <2>1. /\ v \in Locals /\ Placed(p) /\ Chans("bind.lk", v) /\ v.call \in Calls
        /\ v.h # Nil /\ table[v.b] = v.h
    BY <1>1, Here DEF Placed, Located
  <2>2. v.new \in Dir /\ v.add = <<>>
    BY <2>1 DEF Chans, Binding, Locals
  <2>3. mountid + 1 \in Nat /\ v.call.mcreate \in BOOLEAN
    BY <2>1 DEF Control, Shapes, Calls
  <2> QED BY <2>1, <2>2, <2>3 DEF Control, Shapes, Mount
<1>4. me' \in [Proc -> Locals] /\ Moves(p) /\ pc'[p] = "bind.copy" /\ me'[p] = w
  BY <1>1, <1>2 DEF Kept, Moves, Control, Shapes
<1>5. /\ w.b = v.b /\ w.c = v.c /\ w.new = v.new /\ w.m = v.m /\ w.mh = v.mh
      /\ w.h = v.h /\ w.add = <<x>>
  BY <1>3 DEF Locals
<1>s. <<x>> # <<>>
  OBVIOUS
<1>x. x.to = v.new
  OBVIOUS
<1> HIDE DEF v, w, s, x
<1>6. Balanced(p)
  <2>1. \A h \in Mhead : href'[h] = href[h] - HeldBy(p, h) + HeldBy(p, h)'
    <3>1. \A h : HeldBy(p, h)' = HeldBy(p, h)
      BY <1>1, <1>4, <1>5, HeldSame DEF v
    <3>2. \A h \in Mhead : href[h] \in Int
      BY DEF Control, Shapes
    <3> QED BY <1>1, <3>1, <3>2, HeldByType
  <2>2. ASSUME NEW d \in Dir PROVE chan'[d] = chan[d] - Using(p, d) + Using(p, d)'
    <3>1. Own(me'[p], d) = Own(me[p], d)
      BY <1>4, <1>5 DEF Own, v
    <3>2. Count(me[p].add, d) = 0 /\ Count(me'[p].add, d) = Is(v.new, d) /\ Is(v.new, d) \in Nat
      BY <1>3, <1>4, <1>5, <1>x, CountFew, IsType DEF v
    <3>3. Using(p, d)' = Using(p, d) + Is(v.new, d) /\ Using(p, d) \in Nat
      BY <1>1, <1>4, <3>1, <3>2, UsingParts
    <3>4. chan'[d] = chan[d] + Is(v.new, d) /\ chan[d] \in Int
      <4>1. chan \in [Dir -> Int] /\ v.new \in Dir \cup {Nil} /\ chan' = Incref(chan, v.new)
        BY <1>1, <1>3 DEF Control, Shapes
      <4> QED BY <4>1, ChanArithmetic
    <3> QED BY <3>2, <3>3, <3>4
  <2>3. chan' \in [Dir -> Int] /\ href' \in [Mhead -> Int]
    BY <1>1, <1>3, ChanArithmetic DEF Control, Shapes
  <2> QED BY <2>1, <2>2, <2>3 DEF Balanced
<1>7. Located(p)'
  BY <1>1, <1>3, <1>4, <1>5, <1>s DEF Located
<1>8. me'[p].h = me[p].h /\ Same
  BY <1>1, <1>4, <1>5 DEF Same, v
<1> QED BY <1>1, <1>2, <1>4, <1>6, <1>7, <1>8, QuietStep

(* A bind that finds nothing mounted takes a head that is not in use.      *)
LEMMA NewHead ==
  ASSUME Control, Counts, NEW p \in Proc, BindNs(p), table[me[p].b] = Nil
  PROVE  \E h \in Mhead, s \in Seq(Mount) :
           /\ href[h] = 0
           /\ table' = [table EXCEPT ![me[p].b] = h]
           /\ from' = [from EXCEPT ![h] = me[p].b]
           /\ href' = [href EXCEPT ![h] = 1]
           /\ list' = [list EXCEPT ![h] = s]
           /\ me' = [me EXCEPT ![p] = [me[p] EXCEPT !.h = h]]
           /\ chan' \in [Dir -> Int]
           /\ \A d \in Dir : chan'[d] = chan[d] + Is(me[p].b, d) + Count(s, d)
<1> DEFINE v == me[p]
           x == [to |-> v.b, mcreate |-> FALSE, id |-> mountid + 1]
           old == v.call.order # "MREPL"
           s == IF old THEN <<x>> ELSE <<>>
<1>1. v.b \in Dir /\ mountid + 1 \in Nat /\ chan \in [Dir -> Int]
  <2>1. pc[p] = "bind.ns" /\ Placed(p) /\ v \in Locals
    BY Here DEF BindNs, At
  <2>2. v.call.op = "bind" /\ v.b = v.call.b
    BY <2>1 DEF Placed, Serves, Chans, Binding, Keeps
  <2>3. v.b \in Dir
    BY <2>1, <2>2, Here
  <2> QED BY <2>3 DEF Control, Shapes
<1>2. PICK h \in Mhead :
        /\ newmhead(h)
        /\ table' = [table EXCEPT ![v.b] = h]
        /\ from' = [from EXCEPT ![h] = v.b]
        /\ href' = [href EXCEPT ![h] = 1]
        /\ list' = [list EXCEPT ![h] = s]
        /\ me' = [me EXCEPT ![p] = [v EXCEPT !.h = h]]
        /\ chan' = IF old THEN Incref(Incref(chan, v.b), v.b) ELSE Incref(chan, v.b)
  BY DEF BindNs, Local
<1>3. x \in Mount /\ x.to = v.b
  BY <1>1 DEF Mount
<1>4. s \in Seq(Mount) /\ \A d : Count(s, d) = IF old THEN Is(v.b, d) ELSE 0
  <2> HIDE DEF x
  <2>1. <<x>> \in Seq(Mount) /\ <<>> \in Seq(Mount)
    BY <1>3
  <2>2. \A d : Count(<<x>>, d) = Is(v.b, d) /\ Count(<<>>, d) = 0
    BY <1>3, CountFew
  <2> QED BY <2>1, <2>2
<1> DEFINE f == Incref(chan, v.b)
           g == Incref(f, v.b)
<1> HIDE DEF v, x, old, s
<1>5. f \in [Dir -> Int] /\ \A d \in Dir : f[d] = chan[d] + Is(v.b, d)
  BY <1>1, ChanArithmetic
<1> HIDE DEF f
<1>6. g \in [Dir -> Int] /\ \A d \in Dir : g[d] = f[d] + Is(v.b, d)
  BY <1>1, <1>5, ChanArithmetic
<1>7. chan' = IF old THEN g ELSE f
  BY <1>2 DEF f
<1> HIDE DEF g
<1>8. chan' \in [Dir -> Int] /\ \A d \in Dir : chan'[d] = chan[d] + Is(v.b, d) + Count(s, d)
  <2>1. \A d \in Dir : chan[d] \in Int /\ Is(v.b, d) \in Nat
    BY <1>1, IsType
  <2> QED BY <1>4, <1>5, <1>6, <1>7, <2>1
<1>9. href[h] = 0
  BY <1>2 DEF newmhead
<1> QED BY <1>2, <1>4, <1>8, <1>9 DEF v

LEMMA BindNsHeaded ==
  ASSUME Control, Counts, NEW p \in Proc, pc[p] = "bind.ns", pc'[p] = "bind.lk", Others(p),
         NEW b \in Dir, table[b] = Nil, NEW h \in Mhead, href[h] = 0, NEW s,
         table' = [table EXCEPT ![b] = h], from' = [from EXCEPT ![h] = b],
         list' = [list EXCEPT ![h] = s], me'[p].h = h, me'[p].b = b
  PROVE  Headed' /\ \A r \in Proc : Located(r)'
<1>1. /\ table \in [Dir -> Mhead \cup {Nil}] /\ from \in [Mhead -> Dir \cup {Nil}]
      /\ list \in [Mhead -> Seq(Mount)] /\ Headed
  BY DEF Control, Shapes
<1>2. /\ \A d \in Dir : table[d] # h
      /\ \A r \in Proc : pc[r] = "um.free" => me[r].h # h
      /\ from[h] = Nil /\ list[h] = <<>>
  BY Unused
<1>3. /\ table'[b] = h /\ \A d \in Dir \ {b} : table'[d] = table[d]
      /\ from'[h] = b /\ \A g \in Mhead \ {h} : from'[g] = from[g]
      /\ list'[h] = s /\ \A g \in Mhead \ {h} : list'[g] = list[g]
  BY <1>1
<1>4. h # Nil /\ b # Nil
  BY Names
<1>5. \A r \in Proc \ {p} : pc'[r] = pc[r] /\ me'[r] = me[r]
  BY DEF Others
<1>6. ASSUME NEW r \in Proc PROVE Located(r)'
  <2>1. CASE r = p
    BY <1>3, <1>4, <2>1 DEF Located
  <2>2. CASE r # p
    <3>1. Located(r) /\ Key(r)' = Key(r) /\ pc'[r] = pc[r] /\ me'[r] = me[r]
      BY <1>5, <2>2 DEF Control, Key
    <3>2. ASSUME pc[r] = "findlk" PROVE me[r].h # Nil /\ table'[Key(r)] = me[r].h
      <4>1. Key(r) \in Dir
        BY <3>2, KeyFacts
      <4> QED BY <1>3, <3>1, <3>2, <4>1 DEF Located
    <3>3. ASSUME pc[r] \in {"bind.lk", "bind.copy", "um.lk"}
          PROVE  me[r].h # Nil /\ table'[me[r].b] = me[r].h
      <4>1. me[r].b \in Dir
        <5>1. Placed(r)
          BY Here
        <5>2. me[r].call.op \in Keeps /\ me[r].b = me[r].call.b
          BY <3>3, <5>1 DEF Placed, Serves, Chans, Binding, Keeps
        <5> QED BY <3>3, <5>2, Here
      <4> QED BY <1>3, <3>1, <3>3, <4>1 DEF Located
    <3>4. ASSUME pc[r] = "um.free"
          PROVE  /\ me[r].h # Nil /\ from'[me[r].h] = me[r].b
                 /\ \A d \in Dir : table'[d] # me[r].h
      <4>1. me[r].h \in Mhead /\ me[r].h # h
        BY <1>2, <3>1, <3>4, Here DEF Located, Locals
      <4> QED BY <1>3, <3>1, <3>4, <4>1 DEF Located
    <3> QED BY <3>1, <3>2, <3>3, <3>4 DEF Located
  <2> QED BY <2>1, <2>2
<1>7. Headed'
  <2>1. ASSUME NEW d \in Dir, table'[d] # Nil PROVE from'[table'[d]] = d
    BY <1>1, <1>2, <1>3, <2>1 DEF Headed
  <2>2. ASSUME NEW g \in Mhead, from'[g] # Nil
        PROVE  table'[from'[g]] = g \/ \E q \in Proc : pc'[q] = "um.free" /\ me'[q].h = g
    <3>1. CASE g = h
      BY <1>3, <3>1
    <3>2. CASE g # h
      <4>1. from'[g] = from[g] /\ from[g] \in Dir
        BY <1>1, <1>3, <2>2, <3>2
      <4>2. table[from[g]] = g \/ \E q \in Proc : pc[q] = "um.free" /\ me[q].h = g
        BY <1>1, <2>2, <4>1 DEF Headed
      <4>3. CASE table[from[g]] = g
        <5>1. from[g] # b
          BY <4>3, Names
        <5> QED BY <1>3, <4>1, <4>3, <5>1
      <4>4. ASSUME NEW q \in Proc, pc[q] = "um.free", me[q].h = g
            PROVE  pc'[q] = "um.free" /\ me'[q].h = g
        BY <1>5, <4>4
      <4> QED BY <4>2, <4>3, <4>4
    <3> QED BY <3>1, <3>2
  <2>3. ASSUME NEW g \in Mhead, list'[g] # <<>> PROVE from'[g] # Nil
    BY <1>1, <1>3, <1>4, <2>3 DEF Headed
  <2>4. ASSUME NEW d \in Dir, table'[d] # Nil, list'[table'[d]] = <<>>
        PROVE  \E q \in Proc : pc'[q] \in {"bind.lk", "bind.copy"} /\ me'[q].h = table'[d]
    <3>1. CASE d = b
      BY <1>3, <3>1
    <3>2. CASE d # b
      <4>1. table'[d] = table[d] /\ table[d] \in Mhead \ {h} /\ list'[table[d]] = list[table[d]]
        BY <1>1, <1>2, <1>3, <2>4, <3>2
      <4>2. PICK q \in Proc : pc[q] \in {"bind.lk", "bind.copy"} /\ me[q].h = table[d]
        BY <1>1, <2>4, <4>1 DEF Headed
      <4>3. pc'[q] = pc[q] /\ me'[q] = me[q]
        BY <1>5, <4>2
      <4> QED BY <4>1, <4>2, <4>3
    <3> QED BY <3>1, <3>2
  <2> QED BY <2>1, <2>2, <2>3, <2>4 DEF Headed
<1> QED BY <1>6, <1>7

LEMMA BindNsStep ==
  ASSUME Control, Counts, NEW p \in Proc, BindNs(p)
  PROVE  Control' /\ Counts'
<1>1. Kept(p) /\ Plain' /\ Moves(p)
  BY BindNsKept, PlainKept DEF Step, cmount, Kept
<1>2. pc[p] = "bind.ns" /\ pc' = [pc EXCEPT ![p] = "bind.lk"] /\ pc'[p] = "bind.lk" /\ copy' = copy
  BY DEF BindNs, At, Goto, Control, Shapes
<1>3. me[p] \in Locals /\ me[p].b \in Dir /\ me[p].add = <<>>
  <2>1. Placed(p) /\ me[p] \in Locals
    BY Here
  <2>2. me[p].call.op \in Keeps /\ me[p].b = me[p].call.b /\ me[p].add = <<>>
    BY <1>2, <2>1 DEF Placed, Serves, Chans, Binding, Keeps
  <2> QED BY <1>2, <2>1, <2>2, Here
<1> DEFINE b == me[p].b
           v == me[p]
<1>4. CASE table[b] # Nil
  <2> DEFINE w == [v EXCEPT !.h = table[b]]
  <2>1. /\ me' = [me EXCEPT ![p] = w] /\ Same /\ href' = href /\ chan' = chan
    BY <1>4 DEF BindNs, Local, heads, Same
  <2>2. table[b] \in Mhead
    BY <1>3, <1>4 DEF Control, Shapes
  <2>3. w \in Locals /\ w.h = table[b] /\ w.b = b /\ w.c = v.c /\ w.new = v.new
        /\ w.add = v.add /\ w.m = v.m /\ w.mh = v.mh
    BY <1>3, <2>2 DEF Locals
  <2> HIDE DEF w
  <2>4. Steps(p, "bind.lk", w) /\ me'[p] = w
    BY <1>2, <2>1 DEF Steps, Control, Shapes
  <2>5. Balanced(p)
    BY <1>2, <2>1, <2>3, <2>4, BalanceKept
  <2>6. Located(p)'
    BY <1>2, <1>4, <2>1, <2>3, <2>4 DEF Located, Same
  <2> QED BY <1>1, <1>2, <2>1, <2>5, <2>6, QuietStep DEF Holding
<1>5. CASE table[b] = Nil
  <2>1. PICK h \in Mhead, s \in Seq(Mount) :
           /\ href[h] = 0
           /\ table' = [table EXCEPT ![b] = h]
           /\ from' = [from EXCEPT ![h] = b]
           /\ href' = [href EXCEPT ![h] = 1]
           /\ list' = [list EXCEPT ![h] = s]
           /\ me' = [me EXCEPT ![p] = [me[p] EXCEPT !.h = h]]
           /\ chan' \in [Dir -> Int]
           /\ \A d \in Dir : chan'[d] = chan[d] + Is(b, d) + Count(s, d)
    BY <1>5, NewHead
  <2> DEFINE w == [v EXCEPT !.h = h]
  <2>2. w.h = h /\ w.b = b /\ w.c = v.c /\ w.new = v.new
        /\ w.add = v.add /\ w.m = v.m /\ w.mh = v.mh
    BY <1>3 DEF Locals
  <2>3. me'[p] = w
    BY <2>1 DEF Control, Shapes
  <2>s. Shapes
    BY DEF Control
  <2> HIDE DEF w
  <2>4. Headed' /\ \A r \in Proc : Located(r)'
    <3>1. me'[p].h = h /\ me'[p].b = b /\ Others(p) /\ b \in Dir
      BY <1>1, <1>3, <2>2, <2>3 DEF Moves
    <3> QED BY <1>2, <1>5, <2>1, <3>1, BindNsHeaded
  <2>5. /\ table' \in [Dir -> Mhead \cup {Nil}] /\ from' \in [Mhead -> Dir \cup {Nil}]
        /\ list' \in [Mhead -> Seq(Mount)] /\ href' \in [Mhead -> Int]
    BY <1>3, <2>1, <2>s DEF Shapes
  <2>6. Control'
    BY <1>1, <2>1, <2>4, <2>5, Assemble
  <2>7. \A g \in Mhead : href'[g] = HeadRefs(g)'
    <3>1. ASSUME NEW g \in Mhead
          PROVE  href'[g] = href[g] - HeldBy(p, g) + HeldBy(p, g)' - Is(table[b], g) + Is(h, g)
      <4>1. HeldBy(p, g)' = HeldBy(p, g) /\ HeldBy(p, g) \in Nat
        BY <1>2, <2>2, <2>3, HeldSame, HeldByType
      <4>2. Is(table[b], g) = 0
        BY <1>5, IsType, Names
      <4>3. href'[g] = href[g] + Is(h, g) /\ href[g] \in Int /\ Is(h, g) \in Nat
        BY <2>1, <2>s DEF Shapes, Is
      <4> QED BY <4>1, <4>2, <4>3
    <3>2. b \in Dir /\ table' = [table EXCEPT ![b] = h]
      BY <1>3, <2>1
    <3> QED BY <1>1, <3>1, <3>2, HeadCounts
  <2>8. \A d \in Dir : chan'[d] = ChanRefs(d)'
    <3>1. ASSUME NEW d \in Dir
          PROVE  chan'[d] = chan[d] - Using(p, d) + Using(p, d)' - Linked(h, d) + Linked(h, d)'
      <4>1. Using(p, d)' = Using(p, d) /\ Using(p, d) \in Nat
        <5>1. Using(p, d)' = Using(p, d)
          BY <1>2, <2>2, <2>3, UsingSame
        <5>2. Using(p, d) \in Nat
          BY UsingType, <2>s DEF Shapes
        <5> QED BY <5>1, <5>2
      <4>2. Linked(h, d) = 0
        <5>1. from[h] = Nil /\ list[h] = <<>>
          BY <2>1, Unused
        <5> QED BY <5>1, CountFew, IsType, Names DEF Linked
      <4>3. Linked(h, d)' = Count(s, d) + Is(b, d)
        <5>1. list'[h] = s /\ from'[h] = b
          BY <2>1, <2>s DEF Shapes
        <5> QED BY <5>1 DEF Linked
      <4>4. chan[d] \in Int /\ Is(b, d) \in Nat /\ Count(s, d) \in Nat
        BY <2>s, IsType, CountType DEF Shapes
      <4>5. chan'[d] = chan[d] + Is(b, d) + Count(s, d)
        BY <2>1
      <4> QED BY <4>1, <4>2, <4>3, <4>4, <4>5
    <3>2. \A g \in Mhead \ {h} : list'[g] = list[g] /\ from'[g] = from[g]
      BY <2>1, <2>s DEF Shapes
    <3> QED BY <1>1, <2>5, <3>1, <3>2, ChanCounts
  <2> QED BY <2>6, <2>7, <2>8 DEF Counts
<1> QED BY <1>4, <1>5

(* What the steps that change the list of one head in the table do to the  *)
(* heads: nobody else has that head.                                       *)
LEMMA Filling ==
  ASSUME Control, NEW p \in Proc, Others(p), table' = table, from' = from,
         NEW h \in Mhead, from[h] # Nil, NEW s, s # <<>>, list' = [list EXCEPT ![h] = s],
         pc[p] # "um.free", pc'[p] \notin Found, me[p].h = h
  PROVE  Headed' /\ \A r \in Proc : Located(r)'
<1>1. /\ table \in [Dir -> Mhead \cup {Nil}] /\ from \in [Mhead -> Dir \cup {Nil}]
      /\ list \in [Mhead -> Seq(Mount)] /\ Headed
  BY DEF Control, Shapes
<1>2. list'[h] = s /\ \A g \in Mhead \ {h} : list'[g] = list[g]
  BY <1>1
<1>3. \A r \in Proc \ {p} : pc'[r] = pc[r] /\ me'[r] = me[r]
  BY DEF Others
<1>4. ASSUME NEW r \in Proc PROVE Located(r)'
  <2>1. CASE r = p
    BY <2>1 DEF Located, Found
  <2>2. CASE r # p
    <3>1. Located(r) /\ Key(r)' = Key(r) /\ pc'[r] = pc[r] /\ me'[r] = me[r]
      BY <1>3, <2>2 DEF Control, Key
    <3> QED BY <3>1 DEF Located
  <2> QED BY <2>1, <2>2
<1>5. Headed'
  <2>1. \A d \in Dir : table'[d] # Nil => from'[table'[d]] = d
    BY <1>1 DEF Headed
  <2>2. ASSUME NEW g \in Mhead, from'[g] # Nil
        PROVE  table'[from'[g]] = g \/ \E q \in Proc : pc'[q] = "um.free" /\ me'[q].h = g
    <3>1. table[from[g]] = g \/ \E q \in Proc : pc[q] = "um.free" /\ me[q].h = g
      BY <1>1, <2>2 DEF Headed
    <3>2. ASSUME NEW q \in Proc, pc[q] = "um.free" PROVE pc'[q] = pc[q] /\ me'[q] = me[q]
      BY <1>3, <3>2
    <3> QED BY <3>1, <3>2
  <2>3. \A g \in Mhead : list'[g] # <<>> => from'[g] # Nil
    BY <1>1, <1>2 DEF Headed
  <2>4. ASSUME NEW d \in Dir, table'[d] # Nil, list'[table'[d]] = <<>>
        PROVE  \E q \in Proc : pc'[q] \in {"bind.lk", "bind.copy"} /\ me'[q].h = table'[d]
    <3>1. table'[d] = table[d] /\ table[d] \in Mhead \ {h} /\ list'[table[d]] = list[table[d]]
      BY <1>1, <1>2, <2>4
    <3>2. PICK q \in Proc : pc[q] \in {"bind.lk", "bind.copy"} /\ me[q].h = table[d]
      BY <1>1, <2>4, <3>1 DEF Headed
    <3>3. pc'[q] = pc[q] /\ me'[q] = me[q]
      BY <1>3, <3>1, <3>2
    <3> QED BY <3>1, <3>2, <3>3
  <2> QED BY <2>1, <2>2, <2>3, <2>4 DEF Headed
<1> QED BY <1>4, <1>5

(* The list a bind leaves.                                                 *)
LEMMA BindLinkFacts ==
  ASSUME Control, NEW p \in Proc, BindLink(p)
  PROVE  LET h == me[p].h IN
         /\ pc[p] = "bind.copy" /\ pc' = [pc EXCEPT ![p] = "back"] /\ h \in Mhead
         /\ me' = [me EXCEPT ![p] = [me[p] EXCEPT !.h = Nil, !.add = <<>>, !.um = <<>>]]
         /\ table' = table /\ from' = from /\ href' = href /\ copy' = copy
         /\ \E s \in Seq(Mount) :
              /\ s # <<>> /\ list' = [list EXCEPT ![h] = s]
              /\ chan' \in [Dir -> Int]
              /\ \A d \in Dir : chan'[d] = chan[d] - Count(me[p].add, d) - Count(list[h], d) + Count(s, d)
<1> DEFINE v == me[p]
           h == v.h
           n == IF v.um = <<>> THEN 0 ELSE Len(v.um) - 1
           u == [i \in 1..n |-> [to |-> v.um[i + 1].to, mcreate |-> FALSE, id |-> mountid + i]]
           a == v.add \o u
           repl == v.call.order = "MREPL"
           s == IF repl THEN a ELSE IF v.call.order = "MAFTER" THEN list[h] \o a ELSE a \o list[h]
           f == Held(chan, u)
           g == mountfree(f, list[h])
<1>1. /\ pc[p] = "bind.copy" /\ pc' = [pc EXCEPT ![p] = "back"]
      /\ me' = [me EXCEPT ![p] = [v EXCEPT !.h = Nil, !.add = <<>>, !.um = <<>>]]
      /\ table' = table /\ from' = from /\ href' = href /\ copy' = copy
  BY DEF BindLink, At, Goto, Local
<1>2. list' = [list EXCEPT ![h] = s] /\ chan' = IF repl THEN g ELSE f
  BY DEF BindLink, Replaced
<1>3. v \in Locals /\ h \in Mhead /\ v.add \in Seq(Mount) /\ v.add # <<>> /\ v.um \in Seq(Mount)
      /\ list[h] \in Seq(Mount) /\ mountid \in Nat /\ chan \in [Dir -> Int]
  <2>1. v \in Locals /\ Located(p)
    BY Here
  <2>2. h \in Mhead /\ v.add # <<>>
    BY <1>1, <2>1 DEF Located, Locals
  <2> QED BY <2>1, <2>2 DEF Locals, Control, Shapes
<1>4. n \in Nat /\ \A i \in 1..n : i + 1 \in 1..Len(v.um)
  <2>1. CASE v.um = <<>>
    BY <2>1
  <2>2. CASE v.um # <<>>
    <3>1. Len(v.um) \in Nat /\ Len(v.um) # 0
      BY <1>3, <2>2, EmptySeq, LenProperties
    <3> QED BY <2>2, <3>1
  <2> QED BY <2>1, <2>2
<1>5. u \in Seq(Mount)
  <2> HIDE DEF n
  <2>1. ASSUME NEW i \in 1..n PROVE [to |-> v.um[i + 1].to, mcreate |-> FALSE, id |-> mountid + i] \in Mount
    <3>1. v.um[i + 1] \in Mount
      BY <1>3, <1>4, ElementOfSeq
    <3>2. v.um[i + 1].to \in Dir /\ mountid + i \in Nat
      BY <1>3, <1>4, <3>1 DEF Mount
    <3> QED BY <3>2 DEF Mount
  <2>2. u \in [1..n -> Mount]
    BY <2>1
  <2> QED BY <1>4, <2>2, SeqDef
<1> HIDE DEF v, h, n, u
<1>6. /\ a \in Seq(Mount) /\ a # <<>>
      /\ \A d : Count(a, d) = Count(v.add, d) + Count(u, d)
  <2>1. Len(v.add) \in Nat /\ Len(v.add) # 0 /\ Len(u) \in Nat
    BY <1>3, <1>5, EmptySeq, LenProperties
  <2>2. \A d : /\ a \in Seq(Mount) /\ Len(a) = Len(v.add) + Len(u)
               /\ Count(a, d) = Count(v.add, d) + Count(u, d)
    BY <1>3, <1>5, CountConcat
  <2> HIDE DEF a
  <2>3. Len(a) # 0 /\ a \in Seq(Mount)
    BY <2>1, <2>2
  <2>4. a # <<>>
    BY <2>3
  <2> QED BY <2>2, <2>3, <2>4
<1> HIDE DEF a
<1>7. /\ s \in Seq(Mount) /\ s # <<>>
      /\ \A d : Count(s, d) = Count(a, d) + (IF repl THEN 0 ELSE Count(list[h], d))
  <2>0. Len(a) \in Nat /\ Len(a) # 0 /\ Len(list[h]) \in Nat
    BY <1>3, <1>6, EmptySeq, LenProperties
  <2>n. \A d : Count(a, d) \in Nat /\ Count(list[h], d) \in Nat
    BY <1>3, <1>6, CountType
  <2>1. CASE repl
    BY <1>6, <2>1, <2>n
  <2> DEFINE t == list[h] \o a
             t2 == a \o list[h]
  <2>2. \A d : /\ t \in Seq(Mount) /\ Len(t) = Len(list[h]) + Len(a)
               /\ Count(t, d) = Count(list[h], d) + Count(a, d)
    BY <1>3, <1>6, CountConcat
  <2>3. \A d : /\ t2 \in Seq(Mount) /\ Len(t2) = Len(a) + Len(list[h])
               /\ Count(t2, d) = Count(a, d) + Count(list[h], d)
    BY <1>3, <1>6, CountConcat
  <2>4. s = IF repl THEN a ELSE IF v.call.order = "MAFTER" THEN t ELSE t2
    OBVIOUS
  <2> HIDE DEF s, t, t2
  <2>5. Len(t) # 0 /\ Len(t2) # 0 /\ t \in Seq(Mount) /\ t2 \in Seq(Mount)
    BY <2>0, <2>2, <2>3
  <2>6. t # <<>> /\ t2 # <<>>
    BY <2>5
  <2>7. CASE ~repl /\ s = t
    BY <2>2, <2>5, <2>6, <2>7, <2>n
  <2>8. CASE ~repl /\ s = t2
    BY <2>3, <2>5, <2>6, <2>8, <2>n
  <2> QED BY <2>1, <2>4, <2>7, <2>8
<1> HIDE DEF s
<1>8. f \in [Dir -> Int] /\ \A d \in Dir : f[d] = chan[d] + Count(u, d)
  BY <1>3, <1>5, ListArithmetic
<1> HIDE DEF f
<1>9. g \in [Dir -> Int] /\ \A d \in Dir : g[d] = f[d] - Count(list[h], d)
  BY <1>3, <1>8, ListArithmetic
<1> HIDE DEF g
<1>10. ASSUME NEW d \in Dir
       PROVE  chan'[d] = chan[d] - Count(v.add, d) - Count(list[h], d) + Count(s, d)
  <2>1. /\ chan[d] \in Int /\ Count(v.add, d) \in Nat /\ Count(list[h], d) \in Nat
        /\ Count(u, d) \in Nat
    BY <1>3, <1>5, CountType
  <2>2. Count(s, d) = Count(v.add, d) + Count(u, d) + (IF repl THEN 0 ELSE Count(list[h], d))
    BY <1>6, <1>7
  <2>3. chan'[d] = chan[d] + Count(u, d) - (IF repl THEN Count(list[h], d) ELSE 0)
    <3> HIDE DEF repl
    <3> QED BY <1>2, <1>8, <1>9, <2>1
  <2> HIDE DEF repl
  <2>4. CASE repl
    BY <2>1, <2>2, <2>3, <2>4
  <2>5. CASE ~repl
    BY <2>1, <2>2, <2>3, <2>5
  <2> QED BY <2>4, <2>5
<1>11. chan' \in [Dir -> Int]
  BY <1>2, <1>8, <1>9
<1> QED BY <1>1, <1>2, <1>3, <1>7, <1>10, <1>11 DEF v, h

LEMMA BindLinkStep ==
  ASSUME Control, Counts, NEW p \in Proc, BindLink(p)
  PROVE  Control' /\ Counts'
<1>0. PICK h \in Mhead : h = me[p].h
  BY BindLinkFacts
<1> DEFINE v == me[p]
           w == [v EXCEPT !.h = Nil, !.add = <<>>, !.um = <<>>]
<1>1. /\ pc[p] = "bind.copy" /\ pc' = [pc EXCEPT ![p] = "back"] /\ h \in Mhead
      /\ me' = [me EXCEPT ![p] = w] /\ copy' = copy
      /\ table' = table /\ from' = from /\ href' = href
  BY <1>0, BindLinkFacts
<1>2. PICK s \in Seq(Mount) :
        /\ s # <<>> /\ list' = [list EXCEPT ![h] = s]
        /\ chan' \in [Dir -> Int]
        /\ \A d \in Dir : chan'[d] = chan[d] - Count(v.add, d) - Count(list[h], d) + Count(s, d)
  BY <1>0, BindLinkFacts
<1>3. Kept(p) /\ Plain' /\ Moves(p) /\ Others(p)
  BY BindLinkKept, PlainKept DEF Step, cmount, Kept, Moves
<1>4. w.b = v.b /\ w.c = v.c /\ w.new = v.new /\ w.m = v.m /\ w.mh = v.mh /\ w.add = <<>>
  <2>1. v \in Locals
    BY Here
  <2> QED BY <2>1 DEF Locals
<1>s. Shapes
  BY DEF Control
<1>5. me'[p] = w /\ pc'[p] = "back"
  BY <1>1, <1>s DEF Shapes
<1>6. from[h] # Nil
  <2>1. table[v.b] = h /\ v.b \in Dir
    <3>1. Located(p) /\ Placed(p)
      BY Here
    <3>2. v.call.op \in Keeps /\ v.b = v.call.b /\ table[v.b] = h
      BY <1>0, <1>1, <3>1 DEF Placed, Located, Serves, Chans, Binding, Keeps
    <3> QED BY <1>1, <3>2, Here
  <2>2. h # Nil
    BY <1>1, Names
  <2> QED BY <2>1, <2>2, Names DEF Control, Headed
<1> HIDE DEF w
<1>7. Headed' /\ \A r \in Proc : Located(r)'
  BY <1>0, <1>1, <1>2, <1>3, <1>5, <1>6, Filling DEF Found
<1>8. /\ list' \in [Mhead -> Seq(Mount)] /\ href' \in [Mhead -> Int]
      /\ table' \in [Dir -> Mhead \cup {Nil}] /\ from' \in [Mhead -> Dir \cup {Nil}]
  BY <1>1, <1>2, <1>s DEF Shapes
<1>9. Control'
  BY <1>2, <1>3, <1>7, <1>8, Assemble
<1>10. \A g \in Mhead : href'[g] = HeadRefs(g)'
  <2>1. \A g : HeldBy(p, g)' = HeldBy(p, g) /\ HeldBy(p, g) \in Nat
    BY <1>1, <1>4, <1>5, HeldSame, HeldByType
  <2>2. \A g \in Mhead : href'[g] = href[g] - HeldBy(p, g) + HeldBy(p, g)'
    <3>1. \A g \in Mhead : href[g] \in Int
      BY <1>s DEF Shapes
    <3> QED BY <1>1, <2>1, <3>1
  <2> QED BY <1>1, <1>3, <2>2, HeadCounts
<1>11. \A d \in Dir : chan'[d] = ChanRefs(d)'
  <2>1. ASSUME NEW d \in Dir
        PROVE  chan'[d] = chan[d] - Using(p, d) + Using(p, d)' - Linked(h, d) + Linked(h, d)'
    <3>1. Own(me'[p], d) = Own(me[p], d) /\ Count(me'[p].add, d) = 0
      BY <1>4, <1>5, CountFew DEF Own
    <3>2. /\ Using(p, d)' = Using(p, d) - Count(v.add, d) /\ Using(p, d) \in Nat
          /\ Count(v.add, d) \in Nat
      BY <1>1, <1>3, <3>1, UsingParts
    <3>3. Linked(h, d)' = Linked(h, d) - Count(list[h], d) + Count(s, d)
      <4>1. list'[h] = s /\ from'[h] = from[h] /\ list[h] \in Seq(Mount)
        BY <1>1, <1>2, <1>s DEF Shapes
      <4>2. Count(s, d) \in Nat /\ Count(list[h], d) \in Nat /\ Is(from[h], d) \in Nat
        BY <4>1, CountType, IsType
      <4>3. Linked(h, d) = Count(list[h], d) + Is(from[h], d)
        BY DEF Linked
      <4>4. Linked(h, d)' = Count(list'[h], d) + Is(from'[h], d)
        BY DEF Linked
      <4> QED BY <4>1, <4>2, <4>3, <4>4
    <3>4. Linked(h, d) \in Nat /\ Count(s, d) \in Nat /\ Count(list[h], d) \in Nat /\ chan[d] \in Int
      <4>1. list[h] \in Seq(Mount) /\ chan[d] \in Int /\ list \in [Mhead -> Seq(Mount)]
        BY <1>1, <1>s DEF Shapes
      <4> QED BY <1>1, <4>1, CountType, LinkedType
    <3>5. chan'[d] = chan[d] - Count(v.add, d) - Count(list[h], d) + Count(s, d)
      BY <1>2
    <3> QED BY <3>2, <3>3, <3>4, <3>5
  <2>2. \A g \in Mhead \ {h} : list'[g] = list[g] /\ from'[g] = from[g]
    BY <1>1, <1>2, <1>s DEF Shapes
  <2> QED BY <1>1, <1>3, <1>8, <2>1, <2>2, ChanCounts
<1> QED BY <1>9, <1>10, <1>11 DEF Counts

(* An unmount that holds ns and may lock the head has it to itself.        *)
LEMMA Alone ==
  ASSUME Control, NEW p \in Proc, pc[p] = "um.lk", CanW(me[p].h)
  PROVE  /\ me[p] \in Locals /\ me[p].b \in Dir /\ me[p].h \in Mhead
         /\ table[me[p].b] = me[p].h /\ from[me[p].h] = me[p].b
         /\ \A d \in Dir : table[d] = me[p].h => d = me[p].b
         /\ \A r \in Proc \ {p} :
              /\ pc[r] \notin {"findlk", "bind.lk", "um.lk"}
              /\ pc[r] \in {"bind.copy", "um.free"} => me[r].h # me[p].h
         /\ list[me[p].h] # <<>>
<1> DEFINE h == me[p].h
           b == me[p].b
<1>1. me[p] \in Locals /\ Placed(p) /\ Located(p)
  BY Here
<1>2. b \in Dir
  <2>1. me[p].call.op \in Keeps /\ b = me[p].call.b
    BY <1>1 DEF Placed, Serves, Chans, Keeps
  <2> QED BY <2>1, Here
<1>3. h \in Mhead /\ h # Nil /\ table[b] = h
  BY <1>1 DEF Located, Locals
<1>4. from[h] = b /\ \A d \in Dir : table[d] = h => d = b
  BY <1>2, <1>3 DEF Control, Headed
<1>5. lock["ns"].w = p /\ lock["ns"].r = {} /\ "ns" \in Locks /\ h \in Locks /\ p # Nil
  <2>1. "ns" \in Locks /\ h \in Locks /\ p # Nil
    BY <1>3, LockFacts
  <2>2. Writes(pc[p], me[p], "ns")
    BY DEF Writes
  <2> QED BY <2>1, <2>2, LockFacts
<1>6. ASSUME NEW r \in Proc \ {p} PROVE pc[r] \notin {"findlk", "bind.lk", "um.lk"}
  <2>1. ~Reads(pc[r], me[r], "ns") /\ ~Writes(pc[r], me[r], "ns")
    BY <1>5, LockFacts
  <2> QED BY <2>1 DEF Reads, Writes
<1>7. ASSUME NEW r \in Proc \ {p}, pc[r] \in {"bind.copy", "um.free"} PROVE me[r].h # h
  <2>1. lock[h].w # r
    BY Names DEF CanW
  <2>2. ~Writes(pc[r], me[r], h)
    BY <1>5, <2>1, LockFacts
  <2> QED BY <1>3, <1>7, <2>2, Names DEF Writes
<1>8. list[h] # <<>>
  <2>1. ASSUME list[h] = <<>> PROVE FALSE
    <3>1. PICK q \in Proc : pc[q] \in {"bind.lk", "bind.copy"} /\ me[q].h = table[b]
      BY <1>2, <1>3, <2>1 DEF Control, Headed
    <3>2. q # p
      BY <3>1
    <3> QED BY <1>3, <1>6, <1>7, <3>1, <3>2
  <2> QED BY <2>1
<1> QED BY <1>1, <1>2, <1>3, <1>4, <1>6, <1>7, <1>8

(* The head leaves the table, and is freed at once or by um.free.          *)
LEMMA Unlinking ==
  ASSUME Control, NEW p \in Proc, pc[p] = "um.lk", CanW(me[p].h), Others(p),
         NEW h, h = me[p].h, NEW b, b = me[p].b, table' = [table EXCEPT ![b] = Nil],
         \/ /\ pc'[p] = "back"
            /\ from' = [from EXCEPT ![h] = Nil] /\ list' = [list EXCEPT ![h] = <<>>]
         \/ /\ pc'[p] = "um.free" /\ me'[p].h = h /\ me'[p].b = b
            /\ from' = from /\ list' = list
  PROVE  Headed' /\ \A r \in Proc : Located(r)'
<1>1. /\ table \in [Dir -> Mhead \cup {Nil}] /\ from \in [Mhead -> Dir \cup {Nil}]
      /\ list \in [Mhead -> Seq(Mount)] /\ Headed
  BY DEF Control, Shapes
<1>2. /\ b \in Dir /\ h \in Mhead /\ h # Nil /\ table[b] = h /\ from[h] = b
      /\ \A d \in Dir : table[d] = h => d = b
      /\ \A r \in Proc \ {p} : /\ pc[r] \notin {"findlk", "bind.lk", "um.lk"}
                               /\ pc[r] \in {"bind.copy", "um.free"} => me[r].h # h
  BY Alone, Names
<1>3. /\ table'[b] = Nil /\ \A d \in Dir \ {b} : table'[d] = table[d]
      /\ \A g \in Mhead \ {h} : from'[g] = from[g] /\ list'[g] = list[g]
  BY <1>1, <1>2
<1>4. \A r \in Proc \ {p} : pc'[r] = pc[r] /\ me'[r] = me[r]
  BY DEF Others
<1>5. pc'[p] \in {"back", "um.free"}
  OBVIOUS
<1>6. pc'[p] = "back" => from'[h] = Nil /\ list'[h] = <<>>
  BY <1>1, <1>2
<1>7. pc'[p] = "um.free" => me'[p].h = h /\ me'[p].b = b /\ from'[h] = b
  BY <1>1, <1>2
<1>8. ASSUME NEW r \in Proc PROVE Located(r)'
  <2>1. CASE r = p
    <3>1. \A d \in Dir : table'[d] # h
      BY <1>2, <1>3
    <3> QED BY <1>2, <1>5, <1>7, <2>1, <3>1 DEF Located
  <2>2. CASE r # p
    <3>1. Located(r) /\ pc'[r] = pc[r] /\ me'[r] = me[r] /\ me[r] \in Locals
      BY <1>4, <2>2, Here
    <3>2. pc[r] \notin {"findlk", "bind.lk", "um.lk"}
      BY <1>2, <2>2
    <3>3. ASSUME pc[r] = "bind.copy"
          PROVE  me[r].h # Nil /\ table'[me[r].b] = me[r].h /\ me[r].add # <<>>
      <4>1. me[r].b \in Dir
        <5>1. Placed(r)
          BY Here
        <5>2. me[r].call.op \in Keeps /\ me[r].b = me[r].call.b
          BY <3>3, <5>1 DEF Placed, Serves, Chans, Binding, Keeps
        <5> QED BY <3>3, <5>2, Here
      <4>2. me[r].h # h /\ table[me[r].b] = me[r].h /\ me[r].h # Nil /\ me[r].add # <<>>
        BY <1>2, <2>2, <3>1, <3>3 DEF Located
      <4> QED BY <1>2, <1>3, <4>1, <4>2
    <3>4. ASSUME pc[r] = "um.free"
          PROVE  /\ me[r].h # Nil /\ from'[me[r].h] = me[r].b
                 /\ \A d \in Dir : table'[d] # me[r].h
      <4>1. me[r].h \in Mhead /\ me[r].h # h /\ me[r].h # Nil /\ from[me[r].h] = me[r].b
            /\ \A d \in Dir : table[d] # me[r].h
        BY <1>2, <2>2, <3>1, <3>4 DEF Located, Locals
      <4> QED BY <1>3, <4>1
    <3> QED BY <3>1, <3>2, <3>3, <3>4 DEF Located
  <2> QED BY <2>1, <2>2
<1>9. Headed'
  <2>1. ASSUME NEW d \in Dir, table'[d] # Nil PROVE from'[table'[d]] = d
    <3>1. d # b /\ table'[d] = table[d] /\ table[d] \in Mhead \ {h}
      BY <1>1, <1>2, <1>3, <2>1
    <3> QED BY <1>1, <1>3, <2>1, <3>1 DEF Headed
  <2>2. ASSUME NEW g \in Mhead, from'[g] # Nil
        PROVE  table'[from'[g]] = g \/ \E q \in Proc : pc'[q] = "um.free" /\ me'[q].h = g
    <3>1. CASE g = h
      BY <1>5, <1>6, <1>7, <2>2, <3>1
    <3>2. CASE g # h
      <4>1. from'[g] = from[g] /\ from[g] \in Dir
        BY <1>1, <1>3, <2>2, <3>2
      <4>2. table[from[g]] = g \/ \E q \in Proc : pc[q] = "um.free" /\ me[q].h = g
        BY <1>1, <2>2, <4>1 DEF Headed
      <4>3. CASE table[from[g]] = g
        <5>1. from[g] # b
          BY <1>2, <3>2, <4>3
        <5> QED BY <1>3, <4>1, <4>3, <5>1
      <4>4. ASSUME NEW q \in Proc, pc[q] = "um.free", me[q].h = g
            PROVE  pc'[q] = "um.free" /\ me'[q].h = g
        BY <1>4, <4>4
      <4> QED BY <4>2, <4>3, <4>4
    <3> QED BY <3>1, <3>2
  <2>3. ASSUME NEW g \in Mhead, list'[g] # <<>> PROVE from'[g] # Nil
    <3>1. CASE g = h
      BY <1>2, <1>5, <1>6, <1>7, <2>3, <3>1, Names
    <3>2. CASE g # h
      BY <1>1, <1>3, <2>3, <3>2 DEF Headed
    <3> QED BY <3>1, <3>2
  <2>4. ASSUME NEW d \in Dir, table'[d] # Nil, list'[table'[d]] = <<>>
        PROVE  \E q \in Proc : pc'[q] \in {"bind.lk", "bind.copy"} /\ me'[q].h = table'[d]
    <3>1. d # b /\ table'[d] = table[d] /\ table[d] \in Mhead \ {h}
      BY <1>1, <1>2, <1>3, <2>4
    <3>2. PICK q \in Proc : pc[q] \in {"bind.lk", "bind.copy"} /\ me[q].h = table[d]
      BY <1>1, <1>3, <2>4, <3>1 DEF Headed
    <3>3. pc'[q] = pc[q] /\ me'[q] = me[q]
      BY <1>4, <3>2
    <3> QED BY <3>1, <3>2, <3>3
  <2> QED BY <2>1, <2>2, <2>3, <2>4 DEF Headed
<1> QED BY <1>8, <1>9

(* Where UnmountOne, UnmountAll and UnmountFree leave p.                   *)
LEMMA BackLocals ==
  ASSUME NEW v \in Locals
  PROVE  LET w == [v EXCEPT !.h = Nil]
         IN  /\ w.b = v.b /\ w.c = v.c /\ w.new = v.new /\ w.add = v.add
             /\ w.m = v.m /\ w.mh = v.mh /\ w \in Locals /\ w.h = Nil
BY DEF Locals

LEMMA UnmountOneStep ==
  ASSUME Control, Counts, NEW p \in Proc, UnmountOne(p)
  PROVE  Control' /\ Counts'
<1>0. PICK h, b, c, s : h = me[p].h /\ b = me[p].b /\ c = me[p].c /\ s = list[h]
  OBVIOUS
<1> DEFINE v == me[p]
           w == [v EXCEPT !.h = Nil]
           which == {i \in DOMAIN s : s[i].to = c /\ \A j \in 1..(i - 1) : s[j].to # c}
           empty == Len(s) = 1
<1>1. /\ pc[p] = "um.lk" /\ CanW(h) /\ c # Nil
      /\ pc' = [pc EXCEPT ![p] = "back"] /\ me' = [me EXCEPT ![p] = w] /\ copy' = copy
      /\ \/ Same /\ href' = href /\ chan' = chan
         \/ \E i \in which :
             /\ list' = [list EXCEPT ![h] = RemoveAt(s, i)]
             /\ table' = IF empty THEN [table EXCEPT ![b] = Nil] ELSE table
             /\ from' = IF empty THEN [from EXCEPT ![h] = Nil] ELSE from
             /\ href' = IF empty THEN putmhead(href, h) ELSE href
             /\ chan' = IF empty THEN cclose(cclose(chan, c), b) ELSE cclose(chan, c)
  BY <1>0 DEF UnmountOne, At, Goto, Local, heads, Same
<1>2. Kept(p) /\ Plain' /\ Moves(p) /\ Others(p)
  BY UnmountOneKept, PlainKept DEF Step, cunmount, Kept, Moves
<1>3. /\ v \in Locals /\ b \in Dir /\ h \in Mhead /\ table[b] = h /\ from[h] = b
      /\ c \in Dir /\ s \in Seq(Mount)
  <2>1. v \in Locals /\ b \in Dir /\ h \in Mhead /\ table[b] = h /\ from[h] = b
    BY <1>0, <1>1, Alone
  <2>2. c \in Dir
    BY <1>0, <1>1, <2>1 DEF Locals
  <2>3. s \in Seq(Mount)
    BY <1>0, <2>1 DEF Control, Shapes
  <2> QED BY <2>1, <2>2, <2>3
<1>4. /\ w.b = b /\ w.c = c /\ w.new = v.new /\ w.add = v.add /\ w.m = v.m /\ w.mh = v.mh
      /\ w \in Locals
  BY <1>0, <1>3, BackLocals
<1>s. Shapes
  BY DEF Control
<1>5. me'[p] = w /\ pc'[p] = "back"
  BY <1>1, <1>s DEF Shapes
<1> HIDE DEF w, which, empty
<1>6. Steps(p, "back", w)
  BY <1>1 DEF Steps
<1>7. Located(p)'
  BY <1>5 DEF Located
<1>8. CASE Same /\ href' = href /\ chan' = chan
  <2>1. Balanced(p)
    BY <1>0, <1>1, <1>4, <1>6, <1>8, BalanceKept
  <2> QED BY <1>1, <1>2, <1>7, <1>8, <2>1, QuietStep DEF Holding
<1>9. CASE \E i \in which :
             /\ list' = [list EXCEPT ![h] = RemoveAt(s, i)]
             /\ table' = IF empty THEN [table EXCEPT ![b] = Nil] ELSE table
             /\ from' = IF empty THEN [from EXCEPT ![h] = Nil] ELSE from
             /\ href' = IF empty THEN putmhead(href, h) ELSE href
             /\ chan' = IF empty THEN cclose(cclose(chan, c), b) ELSE cclose(chan, c)
  <2>1. PICK i \in which :
             /\ list' = [list EXCEPT ![h] = RemoveAt(s, i)]
             /\ table' = IF empty THEN [table EXCEPT ![b] = Nil] ELSE table
             /\ from' = IF empty THEN [from EXCEPT ![h] = Nil] ELSE from
             /\ href' = IF empty THEN putmhead(href, h) ELSE href
             /\ chan' = IF empty THEN cclose(cclose(chan, c), b) ELSE cclose(chan, c)
    BY <1>9
  <2>2. i \in 1..Len(s) /\ s[i].to = c
    BY <1>3, <2>1, LenProperties DEF which
  <2> DEFINE t == RemoveAt(s, i)
  <2>3. t \in Seq(Mount) /\ Len(t) = Len(s) - 1 /\ \A d : Count(t, d) = Count(s, d) - Is(c, d)
    BY <1>3, <2>2, CountRemove
  <2>4. empty <=> t = <<>>
    <3>1. Len(t) \in Nat /\ Len(s) \in Nat
      BY <1>3, <2>3, LenProperties
    <3> HIDE DEF t
    <3>2. t = <<>> <=> Len(t) = 0
      BY <2>3, EmptySeq
    <3> QED BY <2>3, <3>1, <3>2 DEF empty
  <2>5. list' = [list EXCEPT ![h] = t]
    BY <2>1
  <2> HIDE DEF t
  <2>6. Headed' /\ \A r \in Proc : Located(r)'
    <3>1. CASE empty
      <4>1. table' = [table EXCEPT ![b] = Nil] /\ from' = [from EXCEPT ![h] = Nil]
            /\ list' = [list EXCEPT ![h] = <<>>]
        BY <2>1, <2>4, <2>5, <3>1
      <4> QED BY <1>0, <1>1, <1>2, <1>5, <4>1, Unlinking
    <3>2. CASE ~empty
      <4>1. table' = table /\ from' = from /\ from[h] # Nil /\ t # <<>> /\ pc'[p] \notin Found
            /\ pc[p] # "um.free" /\ me[p].h = h
        BY <1>0, <1>1, <1>3, <1>5, <2>1, <2>4, <3>2, Names DEF Found
      <4> QED BY <1>2, <1>3, <2>5, <4>1, Filling
    <3> QED BY <3>1, <3>2
  <2>7. chan' \in [Dir -> Int]
        /\ \A d \in Dir : chan'[d] = chan[d] - Is(c, d) - (IF empty THEN Is(b, d) ELSE 0)
    <3> DEFINE f == cclose(chan, c)
               g == cclose(f, b)
    <3>1. chan \in [Dir -> Int] /\ c \in Dir \cup {Nil} /\ b \in Dir \cup {Nil}
      BY <1>3, <1>s DEF Shapes
    <3>2. f \in [Dir -> Int] /\ \A d \in Dir : f[d] = chan[d] - Is(c, d)
      BY <3>1, ChanArithmetic
    <3> HIDE DEF f
    <3>3. g \in [Dir -> Int] /\ \A d \in Dir : g[d] = f[d] - Is(b, d)
      BY <3>1, <3>2, ChanArithmetic
    <3>4. chan' = IF empty THEN g ELSE f
      BY <2>1 DEF f
    <3> HIDE DEF g
    <3> QED BY <3>2, <3>3, <3>4
  <2>8. href' \in [Mhead -> Int]
        /\ \A g \in Mhead : href'[g] = href[g] - (IF empty THEN Is(h, g) ELSE 0)
    <3>1. href \in [Mhead -> Int] /\ h \in Mhead \cup {Nil}
      BY <1>3, <1>s DEF Shapes
    <3>2. putmhead(href, h) \in [Mhead -> Int]
          /\ \A g \in Mhead : putmhead(href, h)[g] = href[g] - Is(h, g)
      BY <3>1, HeadArithmetic
    <3> QED BY <2>1, <3>1, <3>2
  <2>9. /\ list' \in [Mhead -> Seq(Mount)]
        /\ table' \in [Dir -> Mhead \cup {Nil}] /\ from' \in [Mhead -> Dir \cup {Nil}]
    BY <2>1, <2>3, <2>5, <1>s DEF Shapes
  <2>10. Control'
    BY <1>2, <2>6, <2>7, <2>8, <2>9, Assemble
  <2>11. \A g \in Mhead : href'[g] = HeadRefs(g)'
    <3>1. \A g : HeldBy(p, g)' = HeldBy(p, g) /\ HeldBy(p, g) \in Nat
      BY <1>1, <1>4, <1>5, HeldSame, HeldByType
    <3>2. \A g \in Mhead : href[g] \in Int
      BY <1>s DEF Shapes
    <3>3. CASE empty
      <4>1. b \in Dir /\ table' = [table EXCEPT ![b] = Nil]
        BY <1>3, <2>1, <3>3
      <4>2. ASSUME NEW g \in Mhead
            PROVE  href'[g] = href[g] - HeldBy(p, g) + HeldBy(p, g)' - Is(table[b], g) + Is(Nil, g)
        <5>1. Is(table[b], g) = Is(h, g) /\ Is(Nil, g) = 0 /\ Is(h, g) \in Nat
          BY <1>3, IsType, Names
        <5>2. href'[g] = href[g] - Is(h, g)
          BY <2>8, <3>3
        <5> QED BY <3>1, <3>2, <5>1, <5>2
      <4> QED BY <1>2, <4>1, <4>2, HeadCounts
    <3>4. CASE ~empty
      <4>1. table' = table
        BY <2>1, <3>4
      <4>2. \A g \in Mhead : href'[g] = href[g] - HeldBy(p, g) + HeldBy(p, g)'
        BY <2>8, <3>1, <3>2, <3>4
      <4> QED BY <1>2, <4>1, <4>2, HeadCounts
    <3> QED BY <3>3, <3>4
  <2>12. \A d \in Dir : chan'[d] = ChanRefs(d)'
    <3>1. ASSUME NEW d \in Dir
          PROVE  chan'[d] = chan[d] - Using(p, d) + Using(p, d)' - Linked(h, d) + Linked(h, d)'
      <4>1. Using(p, d)' = Using(p, d) /\ Using(p, d) \in Nat
        <5>1. Using(p, d)' = Using(p, d)
          BY <1>0, <1>1, <1>4, <1>5, UsingSame
        <5>2. Using(p, d) \in Nat
          BY UsingType, <1>s DEF Shapes
        <5> QED BY <5>1, <5>2
      <4>2. list'[h] = t /\ from'[h] = (IF empty THEN Nil ELSE b)
        BY <1>3, <2>1, <2>5, <1>s DEF Shapes
      <4>3. Linked(h, d) = Count(s, d) + Is(b, d)
        BY <1>0, <1>3 DEF Linked
      <4>4. Linked(h, d)' = Count(t, d) + Is(from'[h], d)
        BY <4>2 DEF Linked
      <4>5. Is(from'[h], d) = IF empty THEN 0 ELSE Is(b, d)
        BY <4>2, IsType, Names
      <4>6. /\ Count(s, d) \in Nat /\ Is(b, d) \in Nat /\ Is(c, d) \in Nat /\ chan[d] \in Int
            /\ Count(t, d) = Count(s, d) - Is(c, d)
            /\ chan'[d] = chan[d] - Is(c, d) - (IF empty THEN Is(b, d) ELSE 0)
        BY <1>3, <2>3, <2>7, IsType, CountType, <1>s DEF Shapes
      <4> QED BY <4>1, <4>3, <4>4, <4>5, <4>6
    <3>2. \A g \in Mhead \ {h} : list'[g] = list[g] /\ from'[g] = from[g]
      BY <1>3, <2>1, <2>5, <1>s DEF Shapes
    <3> QED BY <1>2, <1>3, <2>9, <3>1, <3>2, ChanCounts
  <2> QED BY <2>10, <2>11, <2>12 DEF Counts
<1> QED BY <1>1, <1>8, <1>9

LEMMA UnmountAllStep ==
  ASSUME Control, Counts, NEW p \in Proc, UnmountAll(p)
  PROVE  Control' /\ Counts'
<1>0. PICK h, b : h = me[p].h /\ b = me[p].b
  OBVIOUS
<1>1. /\ pc[p] = "um.lk" /\ CanW(h) /\ pc' = [pc EXCEPT ![p] = "um.free"] /\ me' = me
      /\ copy' = copy /\ table' = [table EXCEPT ![b] = Nil] /\ from' = from /\ list' = list
      /\ href' = href /\ chan' = chan
  BY <1>0 DEF UnmountAll, At, Goto, world
<1>2. Kept(p) /\ Plain' /\ Moves(p) /\ Others(p)
  BY UnmountAllKept, PlainKept DEF Step, cunmount, Kept, Moves
<1>3. b \in Dir /\ h \in Mhead /\ table[b] = h /\ h # Nil
  BY <1>0, <1>1, Alone, Names
<1>s. Shapes
  BY DEF Control
<1>4. pc'[p] = "um.free" /\ me'[p].h = h /\ me'[p].b = b
  BY <1>0, <1>1, <1>s DEF Shapes
<1>5. Headed' /\ \A r \in Proc : Located(r)'
  BY <1>0, <1>1, <1>2, <1>4, Unlinking
<1>6. /\ table' \in [Dir -> Mhead \cup {Nil}] /\ from' \in [Mhead -> Dir \cup {Nil}]
      /\ list' \in [Mhead -> Seq(Mount)] /\ href' \in [Mhead -> Int] /\ chan' \in [Dir -> Int]
  BY <1>1, <1>s DEF Shapes
<1>7. Control'
  BY <1>2, <1>5, <1>6, Assemble
<1>8. \A g \in Mhead : href'[g] = HeadRefs(g)'
  <2>1. ASSUME NEW g \in Mhead
        PROVE  href'[g] = href[g] - HeldBy(p, g) + HeldBy(p, g)' - Is(table[b], g) + Is(Nil, g)
    <3>1. HeldBy(p, g)' = HeldBy(p, g) + Is(h, g)
      <4>1. HeldBy(p, g) = Is(me[p].m, g) + Is(me[p].mh, g) + 0
        BY <1>1 DEF HeldBy
      <4>2. HeldBy(p, g)' = Is(me[p].m, g) + Is(me[p].mh, g) + Is(h, g)
        BY <1>0, <1>1, <1>4 DEF HeldBy
      <4> QED BY <4>1, <4>2, IsType
    <3>2. HeldBy(p, g) \in Nat /\ Is(h, g) \in Nat /\ Is(Nil, g) = 0 /\ href[g] \in Int
      BY HeldByType, IsType, Names, <1>s DEF Shapes
    <3> QED BY <1>1, <1>3, <3>1, <3>2
  <2>2. b \in Dir /\ table' = [table EXCEPT ![b] = Nil]
    BY <1>1, <1>3
  <2> QED BY <1>2, <2>1, <2>2, HeadCounts
<1>9. \A d \in Dir : chan'[d] = ChanRefs(d)'
  <2>1. ASSUME NEW d \in Dir
        PROVE  chan'[d] = chan[d] - Using(p, d) + Using(p, d)' - Linked(h, d) + Linked(h, d)'
    <3>1. Using(p, d)' = Using(p, d) /\ Linked(h, d)' = Linked(h, d)
      BY <1>1, UsingSame DEF Linked
    <3>2. Using(p, d) \in Nat /\ Linked(h, d) \in Nat /\ chan[d] \in Int
      BY <1>3, UsingType, LinkedType, <1>s DEF Shapes
    <3> QED BY <1>1, <3>1, <3>2
  <2>2. \A g \in Mhead \ {h} : list'[g] = list[g] /\ from'[g] = from[g]
    BY <1>1
  <2> QED BY <1>2, <1>3, <1>6, <2>1, <2>2, ChanCounts
<1> QED BY <1>7, <1>8, <1>9 DEF Counts

(* The head that is freed is nobody else's.                                *)
LEMMA FreeHeaded ==
  ASSUME Control, NEW p \in Proc, pc[p] = "um.free", pc'[p] = "back", Others(p),
         NEW h, h = me[p].h, table' = table,
         from' = [from EXCEPT ![h] = Nil], list' = [list EXCEPT ![h] = <<>>]
  PROVE  Headed' /\ \A r \in Proc : Located(r)'
<1>1. /\ table \in [Dir -> Mhead \cup {Nil}] /\ from \in [Mhead -> Dir \cup {Nil}]
      /\ list \in [Mhead -> Seq(Mount)] /\ Headed
  BY DEF Control, Shapes
<1>2. h \in Mhead /\ h # Nil /\ \A d \in Dir : table[d] # h
  BY Here DEF Located, Locals
<1>3. lock[h].w = p /\ h \in Locks
  <2>1. Writes(pc[p], me[p], h) /\ h \in Locks
    BY <1>2, Names, LockFacts DEF Writes
  <2> QED BY <2>1, LockFacts
<1>4. ASSUME NEW r \in Proc \ {p}, pc[r] = "um.free" PROVE me[r].h # h
  <2>1. ~Writes(pc[r], me[r], h)
    BY <1>3, LockFacts
  <2> QED BY <1>2, <1>4, <2>1, Names DEF Writes
<1>5. /\ from'[h] = Nil /\ list'[h] = <<>>
      /\ \A g \in Mhead \ {h} : from'[g] = from[g] /\ list'[g] = list[g]
  BY <1>1, <1>2
<1>6. \A r \in Proc \ {p} : pc'[r] = pc[r] /\ me'[r] = me[r]
  BY DEF Others
<1>7. ASSUME NEW r \in Proc PROVE Located(r)'
  <2>1. CASE r = p
    BY <2>1 DEF Located
  <2>2. CASE r # p
    <3>1. Located(r) /\ Key(r)' = Key(r) /\ pc'[r] = pc[r] /\ me'[r] = me[r] /\ me[r] \in Locals
      BY <1>6, <2>2, Here DEF Key
    <3>2. ASSUME pc[r] = "um.free"
          PROVE  me[r].h # Nil /\ from'[me[r].h] = me[r].b /\ \A d \in Dir : table'[d] # me[r].h
      <4>1. me[r].h \in Mhead \ {h}
        BY <1>4, <2>2, <3>1, <3>2 DEF Located, Locals
      <4> QED BY <1>5, <3>1, <3>2, <4>1 DEF Located
    <3> QED BY <3>1, <3>2 DEF Located
  <2> QED BY <2>1, <2>2
<1>8. Headed'
  <2>1. ASSUME NEW d \in Dir, table'[d] # Nil PROVE from'[table'[d]] = d
    BY <1>1, <1>2, <1>5, <2>1 DEF Headed
  <2>2. ASSUME NEW g \in Mhead, from'[g] # Nil
        PROVE  table'[from'[g]] = g \/ \E q \in Proc : pc'[q] = "um.free" /\ me'[q].h = g
    <3>1. g # h /\ from'[g] = from[g]
      BY <1>5, <2>2
    <3>2. table[from[g]] = g \/ \E q \in Proc : pc[q] = "um.free" /\ me[q].h = g
      BY <1>1, <2>2, <3>1 DEF Headed
    <3>3. ASSUME NEW q \in Proc, pc[q] = "um.free", me[q].h = g
          PROVE  pc'[q] = "um.free" /\ me'[q].h = g
      BY <1>6, <3>1, <3>3
    <3> QED BY <3>1, <3>2, <3>3
  <2>3. ASSUME NEW g \in Mhead, list'[g] # <<>> PROVE from'[g] # Nil
    <3>1. g # h
      BY <1>5, <2>3
    <3> QED BY <1>1, <1>5, <2>3, <3>1 DEF Headed
  <2>4. ASSUME NEW d \in Dir, table'[d] # Nil, list'[table'[d]] = <<>>
        PROVE  \E q \in Proc : pc'[q] \in {"bind.lk", "bind.copy"} /\ me'[q].h = table'[d]
    <3>1. table'[d] = table[d] /\ table[d] \in Mhead \ {h}
      BY <1>1, <1>2, <2>4
    <3>2. PICK q \in Proc : pc[q] \in {"bind.lk", "bind.copy"} /\ me[q].h = table[d]
      BY <1>1, <1>5, <2>4, <3>1 DEF Headed
    <3>3. pc'[q] = pc[q] /\ me'[q] = me[q]
      BY <1>6, <3>2
    <3> QED BY <3>1, <3>2, <3>3
  <2> QED BY <2>1, <2>2, <2>3, <2>4 DEF Headed
<1> QED BY <1>7, <1>8

LEMMA UnmountFreeStep ==
  ASSUME Control, Counts, NEW p \in Proc, UnmountFree(p)
  PROVE  Control' /\ Counts'
<1>0. PICK h, b, s : h = me[p].h /\ b = from[h] /\ s = list[h]
  OBVIOUS
<1> DEFINE v == me[p]
           w == [v EXCEPT !.h = Nil]
<1>1. /\ pc[p] = "um.free" /\ pc' = [pc EXCEPT ![p] = "back"] /\ me' = [me EXCEPT ![p] = w]
      /\ copy' = copy /\ table' = table
      /\ list' = [list EXCEPT ![h] = <<>>] /\ from' = [from EXCEPT ![h] = Nil]
      /\ href' = putmhead(href, h) /\ chan' = cclose(mountfree(chan, s), b)
  BY <1>0 DEF UnmountFree, At, Goto, Local
<1>2. Kept(p) /\ Plain' /\ Moves(p) /\ Others(p)
  BY UnmountFreeKept, PlainKept DEF Step, cunmount, Kept, Moves
<1>s. Shapes
  BY DEF Control
<1>3. v \in Locals /\ h \in Mhead /\ b \in Dir \cup {Nil} /\ s \in Seq(Mount)
  <2>1. v \in Locals /\ h \in Mhead
    BY <1>0, <1>1, Here DEF Located, Locals
  <2> QED BY <1>0, <1>s, <2>1 DEF Shapes
<1>4. w.b = v.b /\ w.c = v.c /\ w.new = v.new /\ w.add = v.add /\ w.m = v.m /\ w.mh = v.mh
  BY <1>3, BackLocals
<1>5. me'[p] = w /\ pc'[p] = "back"
  BY <1>1, <1>s DEF Shapes
<1> HIDE DEF w
<1>6. Headed' /\ \A r \in Proc : Located(r)'
  BY <1>0, <1>1, <1>2, <1>5, FreeHeaded
<1>7. chan' \in [Dir -> Int] /\ \A d \in Dir : chan'[d] = chan[d] - Count(s, d) - Is(b, d)
  <2> DEFINE f == mountfree(chan, s)
  <2>1. chan \in [Dir -> Int]
    BY <1>s DEF Shapes
  <2>2. f \in [Dir -> Int] /\ \A d \in Dir : f[d] = chan[d] - Count(s, d)
    BY <1>3, <2>1, ListArithmetic
  <2>3. chan' = cclose(f, b)
    BY <1>1
  <2> HIDE DEF f
  <2>4. chan' \in [Dir -> Int] /\ \A d \in Dir : chan'[d] = f[d] - Is(b, d)
    BY <1>3, <2>2, <2>3, ChanArithmetic
  <2> QED BY <2>2, <2>4
<1>8. href' \in [Mhead -> Int] /\ \A g \in Mhead : href'[g] = href[g] - Is(h, g)
  <2>1. href \in [Mhead -> Int] /\ h \in Mhead \cup {Nil}
    BY <1>3, <1>s DEF Shapes
  <2> QED BY <1>1, <2>1, HeadArithmetic
<1>9. /\ list' \in [Mhead -> Seq(Mount)]
      /\ table' \in [Dir -> Mhead \cup {Nil}] /\ from' \in [Mhead -> Dir \cup {Nil}]
  <2>1. <<>> \in Seq(Mount)
    OBVIOUS
  <2> QED BY <1>1, <1>s, <2>1 DEF Shapes
<1>10. Control'
  BY <1>2, <1>6, <1>7, <1>8, <1>9, Assemble
<1>11. \A g \in Mhead : href'[g] = HeadRefs(g)'
  <2>1. ASSUME NEW g \in Mhead PROVE href'[g] = href[g] - HeldBy(p, g) + HeldBy(p, g)'
    <3>1. HeldBy(p, g) = HeldBy(p, g)' + Is(h, g)
      <4>1. HeldBy(p, g) = Is(v.m, g) + Is(v.mh, g) + Is(h, g)
        BY <1>0, <1>1 DEF HeldBy
      <4>2. HeldBy(p, g)' = Is(v.m, g) + Is(v.mh, g) + 0
        BY <1>4, <1>5 DEF HeldBy
      <4> QED BY <4>1, <4>2, IsType
    <3>2. HeldBy(p, g)' \in Nat /\ Is(h, g) \in Nat /\ href[g] \in Int
      BY HeldByType, IsType, <1>s DEF Shapes
    <3>3. href'[g] = href[g] - Is(h, g)
      BY <1>8
    <3> QED BY <3>1, <3>2, <3>3
  <2> QED BY <1>1, <1>2, <2>1, HeadCounts
<1>12. \A d \in Dir : chan'[d] = ChanRefs(d)'
  <2>1. ASSUME NEW d \in Dir
        PROVE  chan'[d] = chan[d] - Using(p, d) + Using(p, d)' - Linked(h, d) + Linked(h, d)'
    <3>1. Using(p, d)' = Using(p, d) /\ Using(p, d) \in Nat
      <4>1. Using(p, d)' = Using(p, d)
        BY <1>1, <1>4, <1>5, UsingSame
      <4>2. Using(p, d) \in Nat
        BY UsingType, <1>s DEF Shapes
      <4> QED BY <4>1, <4>2
    <3>2. Linked(h, d) = Count(s, d) + Is(b, d)
      BY <1>0 DEF Linked
    <3>3. Linked(h, d)' = 0
      <4>1. list'[h] = <<>> /\ from'[h] = Nil
        BY <1>1, <1>3, <1>s DEF Shapes
      <4>2. Linked(h, d)' = Count(list'[h], d) + Is(from'[h], d)
        BY DEF Linked
      <4> QED BY <4>1, <4>2, CountFew, IsType, Names
    <3>4. Count(s, d) \in Nat /\ Is(b, d) \in Nat /\ chan[d] \in Int
      BY <1>3, CountType, IsType, <1>s DEF Shapes
    <3>5. chan'[d] = chan[d] - Count(s, d) - Is(b, d)
      BY <1>7
    <3> QED BY <3>1, <3>2, <3>3, <3>4, <3>5
  <2>2. \A g \in Mhead \ {h} : list'[g] = list[g] /\ from'[g] = from[g]
    BY <1>1, <1>3, <1>s DEF Shapes
  <2> QED BY <1>2, <1>3, <1>9, <2>1, <2>2, ChanCounts
<1> QED BY <1>10, <1>11, <1>12 DEF Counts

-----------------------------------------------------------------------------
(* The invariant.                                                          *)

LEMMA Moving ==
  ASSUME Control, Counts, NEW p \in Proc, Begin(p) \/ Step(p)
  PROVE  Control' /\ Counts'
<1>1. CASE Calm(p)
  BY <1>1, CalmStep
<1>2. CASE BindNs(p)
  BY <1>2, BindNsStep
<1>3. CASE BindLock(p)
  BY <1>3, BindLockStep
<1>4. CASE BindLink(p)
  BY <1>4, BindLinkStep
<1>5. CASE UnmountOne(p)
  BY <1>5, UnmountOneStep
<1>6. CASE UnmountAll(p)
  BY <1>6, UnmountAllStep
<1>7. CASE UnmountFree(p)
  BY <1>7, UnmountFreeStep
<1> QED BY <1>1, <1>2, <1>3, <1>4, <1>5, <1>6, <1>7 DEF Calm, Step, cmount, cunmount

(* A step that leaves all the program has alone but its calls and files.   *)
LEMMA Resting ==
  ASSUME Control, Counts, UNCHANGED <<heads, lock, chan, mountid, pc, me, copy, wild>>,
         has' \subseteq Dir, calls' \in 0..MaxCalls, changed' \in [Proc -> BOOLEAN]
  PROVE  Control' /\ Counts'
<1>1. /\ table' = table /\ from' = from /\ list' = list /\ href' = href /\ lock' = lock
      /\ chan' = chan /\ mountid' = mountid /\ pc' = pc /\ me' = me /\ copy' = copy /\ wild' = wild
  BY DEF heads
<1>2. Shapes' /\ Exclusive'
  BY <1>1 DEF Control, Shapes, Exclusive
<1>3. Headed'
  <2>1. Headed
    BY DEF Control
  <2> QED BY <1>1, <2>1 DEF Headed
<1>4. ASSUME NEW p \in Proc PROVE Placed(p)' /\ Locking(p)' /\ Located(p)'
  <2>1. Placed(p) /\ Locking(p) /\ Located(p) /\ Key(p)' = Key(p)
    BY <1>1 DEF Control, Key
  <2>2. Placed(p)' /\ Locking(p)'
    BY <1>1, <2>1 DEF Placed, Locking
  <2>3. Located(p)'
    BY <1>1, <2>1 DEF Located
  <2> QED BY <2>2, <2>3
<1>5. \A h \in Mhead : HeadRefs(h)' = HeadRefs(h)
  BY <1>1 DEF HeadRefs, HeldBy
<1>6. \A d \in Dir : ChanRefs(d)' = ChanRefs(d)
  BY <1>1 DEF ChanRefs, Linked, Using
<1> QED BY <1>1, <1>2, <1>3, <1>4, <1>5, <1>6 DEF Control, Counts

LEMMA NextControl == Control /\ Counts /\ [Next]_vars => Control' /\ Counts'
<1> SUFFICES ASSUME Control, Counts, [Next]_vars PROVE Control' /\ Counts'
  OBVIOUS
<1>1. has \subseteq Dir /\ calls \in 0..MaxCalls /\ changed \in [Proc -> BOOLEAN]
  BY DEF Control, Shapes
<1>2. CASE UNCHANGED vars
  BY <1>1, <1>2, Resting DEF vars, world
<1>3. CASE Removed
  <2>1. /\ UNCHANGED <<heads, lock, chan, mountid, pc, me, copy, wild>>
        /\ calls < MaxCalls /\ calls' = calls + 1 /\ Change /\ has' \subseteq has
    BY <1>3 DEF Removed
  <2>2. calls' \in 0..MaxCalls
    BY <1>1, <2>1, CallAssumption
  <2>3. changed' \in [Proc -> BOOLEAN]
    BY <1>1, <2>1, ChangeType
  <2> QED BY <1>1, <2>1, <2>2, <2>3, Resting
<1>4. ASSUME NEW p \in Proc, Begin(p) \/ Step(p) PROVE Control' /\ Counts'
  BY <1>4, Moving
<1> QED BY <1>2, <1>3, <1>4 DEF Next, Rest

(* The table a group begins with.                                          *)
LEMMA Begins ==
  ASSUME Init
  PROVE  \E t \in [Dir -> Seq(Dir)] : \E at \in [Mounted(t) -> Mhead] :
           /\ \A d, e \in Mounted(t) : at[d] = at[e] => d = e
           /\ \A d \in Dir : table[d] = IF t[d] # <<>> THEN at[d] ELSE Nil
           /\ table \in [Dir -> Mhead \cup {Nil}]
           /\ from \in [Mhead -> Dir \cup {Nil}]
           /\ \A h \in Mhead : \A d \in Mounted(t) : at[d] = h => from[h] = d
           /\ \A h \in Mhead : (\A d \in Mounted(t) : at[d] # h) => from[h] = Nil
           /\ \A h \in Mhead : from[h] = Nil => list[h] = <<>>
           /\ \A h \in Mhead : from[h] # Nil => Len(list[h]) = Len(t[from[h]])
           /\ list \in [Mhead -> Seq(Mount)]
           /\ href = [h \in Mhead |-> IF from[h] = Nil THEN 0 ELSE 1]
           /\ chan = [d \in Dir |-> Total([h \in Mhead |-> Count(list[h], d) + Is(from[h], d)])]
           /\ mountid \in Nat
<1>0. PICK t \in Table : \E id \in Ids(t) :
       LET at == CHOOSE f \in Heads(t) : TRUE
           mount(d, i) == [to |-> t[d][i], mcreate |-> i = Len(t[d]), id |-> id[<<d, i>>]]
       IN /\ table = [d \in Dir |-> IF d \in Mounted(t) THEN at[d] ELSE Nil]
          /\ from = [h \in Mhead |-> IF \E d \in Mounted(t) : at[d] = h
                                    THEN CHOOSE d \in Mounted(t) : at[d] = h ELSE Nil]
          /\ list = [h \in Mhead |-> IF from[h] = Nil THEN <<>>
                                    ELSE [i \in 1..Len(t[from[h]]) |-> mount(from[h], i)]]
          /\ href = [h \in Mhead |-> IF from[h] = Nil THEN 0 ELSE 1]
          /\ chan = [d \in Dir |-> Total([h \in Mhead |-> Count(list[h], d) + Is(from[h], d)])]
          /\ mountid = Cardinality(Places(t))
  BY DEF Init
<1>1. PICK id \in Ids(t) :
       LET at == CHOOSE f \in Heads(t) : TRUE
           mount(d, i) == [to |-> t[d][i], mcreate |-> i = Len(t[d]), id |-> id[<<d, i>>]]
       IN /\ table = [d \in Dir |-> IF d \in Mounted(t) THEN at[d] ELSE Nil]
          /\ from = [h \in Mhead |-> IF \E d \in Mounted(t) : at[d] = h
                                    THEN CHOOSE d \in Mounted(t) : at[d] = h ELSE Nil]
          /\ list = [h \in Mhead |-> IF from[h] = Nil THEN <<>>
                                    ELSE [i \in 1..Len(t[from[h]]) |-> mount(from[h], i)]]
          /\ href = [h \in Mhead |-> IF from[h] = Nil THEN 0 ELSE 1]
          /\ chan = [d \in Dir |-> Total([h \in Mhead |-> Count(list[h], d) + Is(from[h], d)])]
          /\ mountid = Cardinality(Places(t))
  BY <1>0
<1> DEFINE at == CHOOSE f \in Heads(t) : TRUE
           mount(d, i) == [to |-> t[d][i], mcreate |-> i = Len(t[d]), id |-> id[<<d, i>>]]
<1>2. t \in [Dir -> Seq(Dir)] /\ at \in Heads(t)
  BY TableAssumption
<1>3. at \in [Mounted(t) -> Mhead] /\ \A d, e \in Mounted(t) : at[d] = at[e] => d = e
  BY <1>2 DEF Heads
<1>4. /\ table = [d \in Dir |-> IF d \in Mounted(t) THEN at[d] ELSE Nil]
      /\ from = [h \in Mhead |-> IF \E d \in Mounted(t) : at[d] = h
                                 THEN CHOOSE d \in Mounted(t) : at[d] = h ELSE Nil]
      /\ list = [h \in Mhead |-> IF from[h] = Nil THEN <<>>
                                 ELSE [i \in 1..Len(t[from[h]]) |-> mount(from[h], i)]]
      /\ mountid = Cardinality(Places(t))
  BY <1>1
<1> HIDE DEF at
<1>5. \A d : d \in Mounted(t) <=> d \in Dir /\ t[d] # <<>>
  BY DEF Mounted
<1>6. table \in [Dir -> Mhead \cup {Nil}] /\ \A d \in Dir : table[d] = IF t[d] # <<>> THEN at[d] ELSE Nil
  BY <1>3, <1>4, <1>5
<1>7. ASSUME NEW h \in Mhead, NEW d \in Mounted(t), at[d] = h PROVE from[h] = d
  <2>1. from[h] = CHOOSE e \in Mounted(t) : at[e] = h
    BY <1>4, <1>7
  <2>2. from[h] \in Mounted(t) /\ at[from[h]] = h
    BY <1>7, <2>1
  <2> QED BY <1>3, <1>7, <2>2
<1>8. \A h \in Mhead : (\A d \in Mounted(t) : at[d] # h) => from[h] = Nil
  BY <1>4
<1>9. from \in [Mhead -> Dir \cup {Nil}]
  <2>1. ASSUME NEW h \in Mhead PROVE from[h] \in Dir \cup {Nil}
    BY <1>5, <1>7, <1>8
  <2> QED BY <1>4, <2>1
<1>10. ASSUME NEW h \in Mhead, from[h] # Nil
       PROVE  list[h] \in Seq(Mount) /\ Len(list[h]) = Len(t[from[h]])
  <2> DEFINE d == from[h]
             s == [i \in 1..Len(t[d]) |-> mount(d, i)]
  <2>1. d \in Dir /\ t[d] \in Seq(Dir) /\ Len(t[d]) \in Nat
    BY <1>2, <1>9, <1>10, LenProperties
  <2>2. list[h] = s
    BY <1>4, <1>10
  <2> HIDE DEF d
  <2>3. ASSUME NEW i \in 1..Len(t[d]) PROVE mount(d, i) \in Mount
    <3>1. t[d][i] \in Dir
      BY <2>1, ElementOfSeq
    <3>2. <<d, i>> \in Places(t)
      BY <1>2, <2>1, ListPlaces
    <3>3. id[<<d, i>>] \in Nat
      BY <3>2 DEF Ids
    <3> QED BY <3>1, <3>3 DEF Mount
  <2> HIDE DEF mount
  <2>4. s \in [1..Len(t[d]) -> Mount]
    BY <2>3
  <2>5. s \in Seq(Mount) /\ DOMAIN s = 1..Len(t[d])
    BY <2>1, <2>4, SeqDef
  <2>6. Len(s) = Len(t[d])
    BY <2>1, <2>5, LenProperties
  <2> QED BY <2>2, <2>5, <2>6 DEF d
<1>11. \A h \in Mhead : from[h] = Nil => list[h] = <<>>
  BY <1>4
<1>12. list \in [Mhead -> Seq(Mount)]
  <2>1. ASSUME NEW h \in Mhead PROVE list[h] \in Seq(Mount)
    <3>1. <<>> \in Seq(Mount)
      OBVIOUS
    <3> QED BY <1>10, <1>11, <3>1
  <2> QED BY <1>4, <2>1
<1>13. mountid \in Nat
  BY <1>2, <1>4, ListPlaces
<1>14. /\ href = [h \in Mhead |-> IF from[h] = Nil THEN 0 ELSE 1]
       /\ chan = [d \in Dir |-> Total([h \in Mhead |-> Count(list[h], d) + Is(from[h], d)])]
  BY <1>1
<1>15. \A h \in Mhead : \A d \in Mounted(t) : at[d] = h => from[h] = d
  BY <1>7
<1>16. \A h \in Mhead : from[h] # Nil => Len(list[h]) = Len(t[from[h]])
  BY <1>10
<1> QED BY <1>2, <1>3, <1>6, <1>8, <1>9, <1>11, <1>12, <1>13, <1>14, <1>15, <1>16

LEMMA InitControl == Init => Control /\ Counts
<1> SUFFICES ASSUME Init PROVE Control /\ Counts
  OBVIOUS
<1>0. PICK t \in [Dir -> Seq(Dir)] : \E at \in [Mounted(t) -> Mhead] :
           /\ \A d, e \in Mounted(t) : at[d] = at[e] => d = e
           /\ \A d \in Dir : table[d] = IF t[d] # <<>> THEN at[d] ELSE Nil
           /\ table \in [Dir -> Mhead \cup {Nil}]
           /\ from \in [Mhead -> Dir \cup {Nil}]
           /\ \A h \in Mhead : \A d \in Mounted(t) : at[d] = h => from[h] = d
           /\ \A h \in Mhead : (\A d \in Mounted(t) : at[d] # h) => from[h] = Nil
           /\ \A h \in Mhead : from[h] = Nil => list[h] = <<>>
           /\ \A h \in Mhead : from[h] # Nil => Len(list[h]) = Len(t[from[h]])
           /\ list \in [Mhead -> Seq(Mount)]
           /\ href = [h \in Mhead |-> IF from[h] = Nil THEN 0 ELSE 1]
           /\ chan = [d \in Dir |-> Total([h \in Mhead |-> Count(list[h], d) + Is(from[h], d)])]
           /\ mountid \in Nat
  BY Begins
<1>1. PICK at \in [Mounted(t) -> Mhead] :
           /\ \A d, e \in Mounted(t) : at[d] = at[e] => d = e
           /\ \A d \in Dir : table[d] = IF t[d] # <<>> THEN at[d] ELSE Nil
           /\ table \in [Dir -> Mhead \cup {Nil}]
           /\ from \in [Mhead -> Dir \cup {Nil}]
           /\ \A h \in Mhead : \A d \in Mounted(t) : at[d] = h => from[h] = d
           /\ \A h \in Mhead : (\A d \in Mounted(t) : at[d] # h) => from[h] = Nil
           /\ \A h \in Mhead : from[h] = Nil => list[h] = <<>>
           /\ \A h \in Mhead : from[h] # Nil => Len(list[h]) = Len(t[from[h]])
           /\ list \in [Mhead -> Seq(Mount)]
           /\ href = [h \in Mhead |-> IF from[h] = Nil THEN 0 ELSE 1]
           /\ chan = [d \in Dir |-> Total([h \in Mhead |-> Count(list[h], d) + Is(from[h], d)])]
           /\ mountid \in Nat
  BY <1>0
<1>2. \A d : d \in Mounted(t) <=> d \in Dir /\ t[d] # <<>>
  BY DEF Mounted
<1>3. /\ lock = [x \in Mhead \cup {"ns"} |-> [r |-> {}, w |-> Nil]]
      /\ calls = 0 /\ has \in Files
      /\ pc = [p \in Proc |-> "idle"] /\ me = [p \in Proc |-> Idle]
      /\ copy = [p \in Proc |-> NoCopy] /\ changed = [p \in Proc |-> FALSE] /\ wild = FALSE
  BY DEF Init
<1>4. \A d \in Dir, h \in Mhead : table[d] = h <=> from[h] = d
  BY <1>1, <1>2, Names
<1>5. \A h \in Mhead, d \in Dir : Linked(h, d) \in Nat
  BY <1>1, LinkedType
<1>6. \A d \in Dir : /\ chan[d] = Total([h \in Mhead |-> Linked(h, d)])
                     /\ chan[d] \in Nat
  <2>1. ASSUME NEW d \in Dir
        PROVE  chan[d] = Total([h \in Mhead |-> Linked(h, d)]) /\ chan[d] \in Nat
    <3> DEFINE f == [h \in Mhead |-> Linked(h, d)]
    <3>1. f = [h \in Mhead |-> Count(list[h], d) + Is(from[h], d)]
      BY DEF Linked
    <3>2. f \in [Mhead -> Nat]
      BY <1>5
    <3>3. chan[d] = Total([h \in Mhead |-> Count(list[h], d) + Is(from[h], d)])
      BY <1>1
    <3>4. chan[d] = Total(f)
      BY <3>1, <3>3
    <3> HIDE DEF f
    <3>5. Total(f) \in Nat
      BY <3>2, Finite, TotalType
    <3> QED BY <3>4, <3>5 DEF f
  <2> QED BY <2>1
<1>7. Shapes
  <2>1. Idle \in Locals /\ "idle" \in PC
    BY IdleFacts DEF PC
  <2>2. NoCopy \in [Dir -> Seq(Mount)]
    BY DEF NoCopy
  <2>3. has \subseteq Dir /\ 0 \in 0..MaxCalls
    BY <1>3, TableAssumption, CallAssumption
  <2>4. /\ table \in [Dir -> Mhead \cup {Nil}] /\ from \in [Mhead -> Dir \cup {Nil}]
        /\ list \in [Mhead -> Seq(Mount)] /\ href \in [Mhead -> Int] /\ mountid \in Nat
    BY <1>1
  <2>5. chan \in [Dir -> Int]
    <3>1. chan = [d \in Dir |-> Total([h \in Mhead |-> Count(list[h], d) + Is(from[h], d)])]
      BY <1>1
    <3>2. chan = [d \in Dir |-> chan[d]]
      BY <3>1
    <3>3. \A d \in Dir : chan[d] \in Nat
      BY <1>6, Zenon
    <3> QED BY <3>2, <3>3
  <2>6. /\ lock \in [Mhead \cup {"ns"} -> [r : SUBSET Proc, w : Proc \cup {Nil}]]
        /\ pc \in [Proc -> PC] /\ me \in [Proc -> Locals] /\ calls \in 0..MaxCalls
        /\ copy \in [Proc -> [Dir -> Seq(Mount)]]
        /\ changed \in [Proc -> BOOLEAN] /\ wild \in BOOLEAN
    BY <1>3, <2>1, <2>2, <2>3
  <2> QED BY <2>3, <2>4, <2>5, <2>6 DEF Shapes
<1>8. Headed
  <2>1. ASSUME NEW d \in Dir, table[d] # Nil PROVE from[table[d]] = d /\ list[table[d]] # <<>>
    <3>1. table[d] \in Mhead /\ t[d] # <<>> /\ from[table[d]] = d
      BY <1>1, <1>4, <2>1
    <3>2. Len(list[table[d]]) = Len(t[d])
      BY <1>1, <3>1, Names
    <3>3. Len(t[d]) # 0
      BY <1>1, <3>1, EmptySeq
    <3>4. Len(<<>>) = 0
      OBVIOUS
    <3> QED BY <3>1, <3>2, <3>3, <3>4, Zenon
  <2>2. \A h \in Mhead : from[h] # Nil => table[from[h]] = h
    BY <1>1, <1>4
  <2>3. \A h \in Mhead : list[h] # <<>> => from[h] # Nil
    BY <1>1
  <2> QED BY <2>1, <2>2, <2>3 DEF Headed
<1>9. \A p \in Proc : pc[p] = "idle" /\ me[p] = Idle /\ copy[p] = NoCopy
  BY <1>3
<1>10. Exclusive /\ \A p \in Proc : Placed(p) /\ Locking(p) /\ Located(p)
  <2>1. \A x \in Locks : lock[x].r = {} /\ lock[x].w = Nil
    BY <1>3 DEF Locks
  <2>2. \A p \in Proc : Locking(p)
    BY <1>9, <2>1, Names DEF Locking, Reads, Writes
  <2>3. \A p \in Proc : Placed(p) /\ Located(p)
    BY <1>9, IdleFacts DEF Placed, Located
  <2> QED BY <2>1, <2>2, <2>3 DEF Exclusive
<1>11. ASSUME NEW h \in Mhead PROVE href[h] = HeadRefs(h)
  <2> DEFINE S == {d \in Dir : table[d] = h}
             F == [p \in Proc |-> HeldBy(p, h)]
  <2>1. \A p \in Proc : HeldBy(p, h) = 0
    <3>1. Idle.m = Nil /\ Idle.mh = Nil
      BY DEF Idle
    <3> QED BY <1>9, <3>1, IsType, Names DEF HeldBy
  <2>2. Total(F) = 0
    <3>1. F \in [Proc -> Nat] /\ \A p \in Proc : F[p] = 0
      BY <2>1
    <3> HIDE DEF F
    <3> QED BY <3>1, Finite, TotalZero
  <2>3. Cardinality(S) = href[h]
    <3>1. CASE from[h] = Nil
      <4>1. S = {}
        BY <1>4, <3>1, Names
      <4> QED BY <1>1, <3>1, <4>1, FS_EmptySet
    <3>2. CASE from[h] # Nil
      <4>1. S = {from[h]}
        BY <1>1, <1>4, <3>2
      <4> QED BY <1>1, <3>2, <4>1, FS_Singleton
    <3> QED BY <3>1, <3>2
  <2>4. href[h] \in Nat
    BY <1>1
  <2> QED BY <2>2, <2>3, <2>4 DEF HeadRefs
<1>12. ASSUME NEW d \in Dir PROVE chan[d] = ChanRefs(d)
  <2> DEFINE F == [p \in Proc |-> Using(p, d)]
  <2>1. ASSUME NEW p \in Proc PROVE Using(p, d) = 0
    <3>1. Idle.b = Nil /\ Idle.c = Nil /\ Idle.new = Nil /\ Idle.add = <<>>
      BY DEF Idle
    <3>2. Is(Nil, d) = 0 /\ Count(<<>>, d) = 0 /\ Copied(NoCopy, d) = 0
      BY IsType, Names, CountFew, CopiedNone
    <3> QED BY <1>9, <3>1, <3>2 DEF Using
  <2>2. Total(F) = 0
    <3>1. F \in [Proc -> Nat] /\ \A p \in Proc : F[p] = 0
      BY <2>1
    <3> HIDE DEF F
    <3> QED BY <3>1, Finite, TotalZero
  <2>3. chan[d] = Total([h \in Mhead |-> Linked(h, d)]) /\ chan[d] \in Nat
    BY <1>6
  <2> QED BY <2>2, <2>3 DEF ChanRefs
<1> QED BY <1>7, <1>8, <1>10, <1>11, <1>12 DEF Control, Counts

LEMMA SpecControl == Spec => [](Control /\ Counts)
BY InitControl, NextControl, PTL DEF Spec

(* No reference is lost and none is kept too long: whatever calls are under *)
(* way, on every path, the counts of heads and channels are the references  *)
(* there are.                                                               *)
THEOREM RefsBalanced == Spec => []RefsBalance
<1>1. Control /\ Counts => RefsBalance
  <2> SUFFICES ASSUME Control, Counts PROVE RefsBalance
    OBVIOUS
  <2>1. Shapes
    BY DEF Control
  <2>2. \A h \in Mhead : href[h] \in Nat
    <3>1. table \in [Dir -> Mhead \cup {Nil}]
      BY <2>1 DEF Shapes
    <3>2. ASSUME NEW h \in Mhead PROVE HeadRefs(h) \in Nat
      <4> DEFINE S == {d \in Dir : table[d] = h}
                 F == [p \in Proc |-> HeldBy(p, h)]
      <4>1. Cardinality(S) \in Nat
        BY Finite, FS_Subset, FS_CardinalityType
      <4>2. F \in [Proc -> Nat]
        BY HeldByType
      <4>3. HeadRefs(h) = Cardinality(S) + Total(F)
        BY DEF HeadRefs
      <4> HIDE DEF F, S
      <4>4. Total(F) \in Nat
        BY <4>2, Finite, TotalType
      <4> QED BY <4>1, <4>3, <4>4
    <3> QED BY <3>2 DEF Counts
  <2>3. \A d \in Dir : chan[d] \in Nat
    <3>1. ASSUME NEW d \in Dir PROVE ChanRefs(d) \in Nat
      <4> DEFINE F == [h \in Mhead |-> Linked(h, d)]
                 G == [p \in Proc |-> Using(p, d)]
      <4>1. F \in [Mhead -> Nat]
        BY <2>1, LinkedType DEF Shapes
      <4>2. G \in [Proc -> Nat]
        BY <2>1, UsingType DEF Shapes
      <4>3. ChanRefs(d) = Total(F) + Total(G)
        BY DEF ChanRefs
      <4> HIDE DEF F, G
      <4>4. Total(F) \in Nat /\ Total(G) \in Nat
        BY <4>1, <4>2, Finite, TotalType
      <4> QED BY <4>3, <4>4
    <3> QED BY <3>1 DEF Counts
  <2>4. href \in [Mhead -> Nat] /\ chan \in [Dir -> Nat]
    BY <2>1, <2>2, <2>3 DEF Shapes
  <2>5. TypeOK
    BY <2>1, <2>4 DEF Shapes, TypeOK
  <2> QED BY <2>5 DEF RefsBalance, Counts
<1> QED BY <1>1, SpecControl, PTL

(* What findmount takes for granted.                                        *)
THEOREM HeadsAlwaysUsable == Spec => []HeadsUsable
<1>1. Control /\ Counts => HeadsUsable
  <2> SUFFICES ASSUME Control, NEW d \in Dir, table[d] # Nil
               PROVE  /\ from[table[d]] = d
                      /\ (lock[table[d]].w = Nil /\ lock["ns"].w = Nil) => list[table[d]] # <<>>
    BY DEF HeadsUsable
  <2>1. table[d] \in Mhead
    BY DEF Control, Shapes
  <2>2. from[table[d]] = d
    BY DEF Control, Headed
  <2>3. ASSUME lock[table[d]].w = Nil, lock["ns"].w = Nil, list[table[d]] = <<>> PROVE FALSE
    <3>1. PICK q \in Proc : pc[q] \in {"bind.lk", "bind.copy"} /\ me[q].h = table[d]
      BY <2>3 DEF Control, Headed
    <3>2. q # Nil /\ "ns" \in Locks /\ table[d] \in Locks
      BY <2>1, LockFacts
    <3>3. lock["ns"].w # q /\ lock[table[d]].w # q
      BY <2>3, <3>2
    <3>4. ~Writes(pc[q], me[q], "ns") /\ ~Writes(pc[q], me[q], table[d])
      BY <3>2, <3>3, LockFacts
    <3> QED BY <2>1, <3>1, <3>4, Names DEF Writes
  <2> QED BY <2>2, <2>3
<1> QED BY <1>1, SpecControl, PTL

-----------------------------------------------------------------------------
(* The copy of a table.                                                    *)

(* What has been copied is as it still is, and the numbers of the copies   *)
(* follow those of the mounts.                                             *)
Copies(p, d) ==
  LET s == copy[p][d]
      t == list[table[d]]
  IN /\ table[d] # Nil /\ lock[table[d]].w = Nil
     /\ Len(s) = Len(t)
     /\ \A i \in 1..Len(t) : s[i].to = t[i].to /\ s[i].mcreate = t[i].mcreate

Numbered(p) == \E k \in Nat : \A d \in Dir : \A i \in 1..Len(copy[p][d]) :
                 copy[p][d][i].id = k + Older(Parent[d][i].id)

Copying(p) ==
  /\ pc[p] \in {"fork", "forked"} => \A d \in Dir : copy[p][d] # <<>> => Copies(p, d)
  /\ pc[p] = "forked" => Uncopied(p) = {} /\ Numbered(p)

(* While p has ns nobody else touches a list in the table, but one whose   *)
(* lock is taken, and nobody takes such a lock.                            *)
LEMMA OthersWait ==
  ASSUME Control, NEW p \in Proc, pc[p] \in {"fork", "forked"},
         NEW q \in Proc \ {p}, Begin(q) \/ Step(q)
  PROVE  /\ table' = table /\ pc'[q] # "bind.copy"
         /\ \A d \in Dir : table[d] # Nil /\ lock[table[d]].w = Nil
                             => list'[table[d]] = list[table[d]]
<1> DEFINE v == me[q]
<1>1. /\ "ns" \in Locks /\ p # Nil /\ q # Nil /\ p # q /\ lock["ns"].w = p
      /\ pc[q] \notin {"bind.lk", "um.lk", "fork", "forked"}
  <2>1. "ns" \in Locks /\ p # Nil /\ q # Nil /\ p # q
    BY LockFacts
  <2>2. lock["ns"].w = p
    BY <2>1, LockFacts DEF Writes
  <2>3. ~Writes(pc[q], me[q], "ns")
    BY <2>1, <2>2, LockFacts
  <2> QED BY <2>1, <2>2, <2>3 DEF Writes
<1>2. ~CanW("ns") /\ ~CanR("ns")
  BY <1>1 DEF CanW, CanR
<1>s. /\ table \in [Dir -> Mhead \cup {Nil}] /\ list \in [Mhead -> Seq(Mount)]
      /\ pc \in [Proc -> PC]
  BY DEF Control, Shapes
<1>3. CASE Calm(q)
  <2>1. Same
    BY <1>3, CalmKept
  <2>2. pc'[q] # "bind.copy"
    BY <1>2, <1>3, CalmTo DEF FindNs, UnmountNs, Found
  <2> QED BY <2>1, <2>2 DEF Same
<1>4. CASE BindLink(q)
  <2>1. /\ pc[q] = "bind.copy" /\ pc' = [pc EXCEPT ![q] = "back"] /\ table' = table
        /\ \E s : list' = [list EXCEPT ![v.h] = s]
    BY <1>4 DEF BindLink, At, Goto
  <2>2. v.h \in Mhead
    BY <2>1, Here DEF Located, Locals
  <2>3. v.h # "ns" /\ v.h \in Locks
    BY <2>2, Names DEF Locks
  <2>4. lock[v.h].w = q
    <3>1. Writes(pc[q], me[q], v.h)
      BY <2>1, <2>3 DEF Writes
    <3> QED BY <2>3, <3>1, LockFacts
  <2>5. ASSUME NEW d \in Dir, table[d] # Nil, lock[table[d]].w = Nil
        PROVE  list'[table[d]] = list[table[d]]
    <3>1. table[d] \in Mhead /\ table[d] # v.h
      BY <1>1, <1>s, <2>4, <2>5
    <3> QED BY <1>s, <2>1, <3>1
  <2>6. pc'[q] = "back"
    BY <1>s, <2>1
  <2> QED BY <2>1, <2>5, <2>6
<1>5. CASE UnmountFree(q)
  <2>1. /\ pc[q] = "um.free" /\ pc' = [pc EXCEPT ![q] = "back"] /\ table' = table
        /\ list' = [list EXCEPT ![v.h] = <<>>]
    BY <1>5 DEF UnmountFree, At, Goto
  <2>2. \A d \in Dir : table[d] # v.h
    BY <2>1 DEF Control, Located
  <2>3. \A d \in Dir : table[d] # Nil => list'[table[d]] = list[table[d]]
    BY <1>s, <2>1, <2>2
  <2>4. pc'[q] = "back"
    BY <1>s, <2>1
  <2> QED BY <2>1, <2>3, <2>4
<1>6. ~BindNs(q) /\ ~BindLock(q) /\ ~UnmountOne(q) /\ ~UnmountAll(q)
  BY <1>1, <1>2 DEF BindNs, BindLock, UnmountOne, UnmountAll, At
<1> QED BY <1>3, <1>4, <1>5, <1>6 DEF Calm, Step, cmount, cunmount

(* Nor does it matter to the copy what others do.                          *)
LEMMA CopyingKept ==
  ASSUME Control, Control', NEW p \in Proc, Copying(p),
         pc'[p] = pc[p], copy'[p] = copy[p], pc[p] \in {"fork", "forked"}, table' = table,
         \A d \in Dir : table[d] # Nil /\ lock[table[d]].w = Nil
                          => list'[table[d]] = list[table[d]] /\ lock'[table[d]].w = Nil
  PROVE  Copying(p)'
<1>1. ASSUME NEW d \in Dir, copy[p][d] # <<>>
      PROVE  Copies(p, d)' /\ table[d] # Nil /\ list'[table[d]] = list[table[d]]
  <2>1. Copies(p, d)
    BY <1>1 DEF Copying
  <2>2. table[d] # Nil /\ lock[table[d]].w = Nil
    BY <2>1 DEF Copies
  <2>3. list'[table[d]] = list[table[d]] /\ lock'[table[d]].w = Nil
    BY <2>2
  <2> QED BY <2>1, <2>2, <2>3 DEF Copies
<1>2. ASSUME pc[p] = "forked" PROVE Uncopied(p)' = {} /\ Numbered(p)'
  <2>1. Uncopied(p) = {} /\ Numbered(p)
    BY <1>2 DEF Copying
  <2>2. Uncopied(p)' = {}
    BY <2>1 DEF Uncopied
  <2>3. ASSUME NEW d \in Dir, table[d] # Nil PROVE list'[table[d]] = list[table[d]]
    <3>1. copy[p][d] # <<>>
      BY <2>1, <2>3 DEF Uncopied
    <3> QED BY <1>1, <3>1
  <2>4. Parent' = Parent
    BY <2>3 DEF Parent
  <2>5. \A d \in Dir : \A i : Older(Parent[d][i].id)' = Older(Parent[d][i].id)
    BY <2>4 DEF Older, Places
  <2>6. PICK k \in Nat : \A d \in Dir : \A i \in 1..Len(copy[p][d]) :
                copy[p][d][i].id = k + Older(Parent[d][i].id)
    BY <2>1 DEF Numbered
  <2>7. \A d \in Dir : \A i \in 1..Len(copy'[p][d]) :
                copy'[p][d][i].id = k + Older(Parent[d][i].id)'
    BY <2>5, <2>6
  <2> QED BY <2>2, <2>7 DEF Numbered
<1> QED BY <1>1, <1>2 DEF Copying

(* What p does to its own copy.                                            *)
LEMMA CopyingMine ==
  ASSUME Control, NEW p \in Proc, Copying(p), Begin(p) \/ Step(p)
  PROVE  Copying(p)'
<1>s. /\ Shapes /\ pc \in [Proc -> PC] /\ copy \in [Proc -> [Dir -> Seq(Mount)]]
      /\ copy[p] \in [Dir -> Seq(Mount)] /\ Placed(p)
  BY DEF Control, Shapes
<1>1. CASE ForkNs(p)
  <2>1. pc[p] = "fork.ns" /\ pc'[p] = "fork" /\ copy' = copy
    BY <1>1, <1>s DEF ForkNs, At, Goto
  <2>2. \A d \in Dir : copy'[p][d] = <<>>
    BY <1>s, <2>1 DEF Placed, NoCopy
  <2> QED BY <2>1, <2>2 DEF Copying
<1>2. CASE ForkCopy(p)
  <2>1. PICK d \in Dir : LET s == list[table[d]] IN
          /\ pc[p] = "fork" /\ table[d] \in Mhead /\ copy[p][d] = <<>> /\ CanR(table[d])
          /\ s \in Seq(Mount)
          /\ \E t \in Seq(Mount) :
               /\ copy' = [copy EXCEPT ![p] = [copy[p] EXCEPT ![d] = t]]
               /\ Len(t) = Len(s)
               /\ \A i \in 1..Len(s) : t[i].to = s[i].to /\ t[i].mcreate = s[i].mcreate
          /\ UNCHANGED <<heads, lock, pc>>
    BY <1>2, ForkCopyFacts
  <2>2. PICK t \in Seq(Mount) :
          /\ copy' = [copy EXCEPT ![p] = [copy[p] EXCEPT ![d] = t]]
          /\ Len(t) = Len(list[table[d]])
          /\ \A i \in 1..Len(list[table[d]]) : /\ t[i].to = list[table[d]][i].to
                                               /\ t[i].mcreate = list[table[d]][i].mcreate
    BY <2>1
  <2>3. \A e \in Dir : copy'[p][e] = IF e = d THEN t ELSE copy[p][e]
    BY <1>s, <2>2
  <2>4. table' = table /\ list' = list /\ lock' = lock /\ pc' = pc
    BY <2>1 DEF heads
  <2>5. ASSUME NEW e \in Dir, copy'[p][e] # <<>> PROVE Copies(p, e)'
    <3>1. CASE e = d
      <4>1. table[d] # Nil /\ lock[table[d]].w = Nil
        BY <2>1, Names DEF CanR
      <4>2. copy'[p][e] = t
        BY <2>3, <3>1
      <4> QED BY <2>2, <2>4, <3>1, <4>1, <4>2 DEF Copies
    <3>2. CASE e # d
      <4>1. copy'[p][e] = copy[p][e]
        BY <2>3, <3>2
      <4>2. Copies(p, e)
        BY <2>1, <2>5, <4>1 DEF Copying
      <4> QED BY <2>4, <4>1, <4>2 DEF Copies
    <3> QED BY <3>1, <3>2
  <2>6. pc'[p] = "fork"
    BY <2>1, <2>4
  <2> QED BY <2>5, <2>6 DEF Copying
<1>3. CASE ForkIds(p)
  <2>1. PICK u \in [Dir -> Seq(Mount)] :
          /\ pc[p] = "fork" /\ Uncopied(p) = {}
          /\ copy' = [copy EXCEPT ![p] = u]
          /\ \A e \in Dir : /\ Len(u[e]) = Len(copy[p][e])
                            /\ \A i \in 1..Len(copy[p][e]) :
                                 /\ u[e][i].to = copy[p][e][i].to
                                 /\ u[e][i].mcreate = copy[p][e][i].mcreate
                                 /\ u[e][i].id = mountid + Older(Parent[e][i].id)
          /\ pc' = [pc EXCEPT ![p] = "forked"]
          /\ UNCHANGED <<heads, lock>>
    BY <1>3, ForkIdsFacts
  <2>2. table' = table /\ list' = list /\ lock' = lock /\ copy'[p] = u /\ pc'[p] = "forked"
    BY <1>s, <2>1 DEF heads
  <2>3. \A e \in Dir : Len(copy[p][e]) \in Nat /\ (u[e] = <<>> <=> copy[p][e] = <<>>)
    <3>1. ASSUME NEW e \in Dir
          PROVE  Len(copy[p][e]) \in Nat /\ (u[e] = <<>> <=> copy[p][e] = <<>>)
      <4>1. copy[p][e] \in Seq(Mount) /\ u[e] \in Seq(Mount) /\ Len(u[e]) = Len(copy[p][e])
        BY <1>s, <2>1
      <4> QED BY <4>1, EmptySeq, LenProperties
    <3> QED BY <3>1
  <2>4. ASSUME NEW e \in Dir, copy'[p][e] # <<>> PROVE Copies(p, e)'
    <3>1. copy[p][e] # <<>>
      BY <2>2, <2>3, <2>4
    <3>2. Copies(p, e)
      BY <2>1, <3>1 DEF Copying
    <3>3. /\ Len(u[e]) = Len(copy[p][e])
          /\ \A i \in 1..Len(copy[p][e]) : /\ u[e][i].to = copy[p][e][i].to
                                           /\ u[e][i].mcreate = copy[p][e][i].mcreate
      BY <2>1
    <3> QED BY <2>2, <3>2, <3>3 DEF Copies
  <2>5. Uncopied(p)' = {}
    <3>1. \A d \in Dir : table[d] # Nil => copy[p][d] # <<>>
      BY <2>1 DEF Uncopied
    <3>2. \A d \in Dir : table'[d] # Nil => copy'[p][d] # <<>>
      BY <2>2, <2>3, <3>1
    <3> QED BY <3>2 DEF Uncopied
  <2>6. Numbered(p)'
    <3>1. Parent' = Parent
      BY <2>2 DEF Parent
    <3>2. \A d \in Dir : \A i : Older(Parent[d][i].id)' = Older(Parent[d][i].id)
      BY <3>1 DEF Older, Places
    <3>3. mountid \in Nat
      BY <1>s DEF Shapes
    <3>4. \A d \in Dir : \A i \in 1..Len(copy'[p][d]) :
            copy'[p][d][i].id = mountid + Older(Parent[d][i].id)'
      BY <2>1, <2>2, <3>2
    <3> QED BY <3>3, <3>4 DEF Numbered
  <2> QED BY <2>2, <2>4, <2>5, <2>6 DEF Copying
<1>4. CASE ForkOut(p) \/ closepgrp(p)
  <2>1. pc'[p] \in {"group", "idle"}
    BY <1>s, <1>4 DEF ForkOut, closepgrp, Goto
  <2> QED BY <2>1 DEF Copying
<1>5. CASE Calm(p) /\ ~pgrpcpy(p)
  <2>1. pc'[p] \notin {"fork", "forked"}
    <3>1. CASE FindNs(p)
      BY <1>s, <3>1 DEF FindNs, Goto
    <3>2. CASE UnmountNs(p)
      BY <1>s, <3>2 DEF UnmountNs, Goto
    <3> QED BY <1>5, <3>1, <3>2, CalmPast DEF Past
  <2> QED BY <2>1 DEF Copying
<1>6. CASE ~Calm(p)
  <2>1. BindNs(p) \/ BindLock(p) \/ BindLink(p) \/ UnmountOne(p) \/ UnmountAll(p) \/ UnmountFree(p)
    BY <1>6 DEF Calm, Step, cmount, cunmount
  <2>2. Goto(p, "bind.lk") \/ Goto(p, "bind.copy") \/ Goto(p, "back") \/ Goto(p, "um.free")
    BY <2>1 DEF BindNs, BindLock, BindLink, UnmountOne, UnmountAll, UnmountFree
  <2>3. pc'[p] \notin {"fork", "forked"}
    BY <1>s, <2>2 DEF Goto
  <2> QED BY <2>3 DEF Copying
<1> QED BY <1>1, <1>2, <1>3, <1>4, <1>5, <1>6 DEF pgrpcpy

LEMMA StepMoves ==
  ASSUME Control, NEW p \in Proc, Begin(p) \/ Step(p)
  PROVE  Moves(p)
<1>1. CASE Calm(p)
  BY <1>1, CalmKept DEF Kept
<1>2. CASE ~Calm(p)
  BY <1>2, BindNsKept, BindLockKept, BindLinkKept, UnmountOneKept, UnmountAllKept, UnmountFreeKept
  DEF Calm, Kept, Step, cmount, cunmount
<1> QED BY <1>1, <1>2

LEMMA NextCopying ==
  Control /\ Counts /\ (\A p \in Proc : Copying(p)) /\ [Next]_vars => (\A p \in Proc : Copying(p))'
<1> SUFFICES ASSUME Control, Counts, [Next]_vars, NEW p \in Proc, Copying(p) PROVE Copying(p)'
  OBVIOUS
<1>1. Control'
  BY NextControl
<1>s. pc \in [Proc -> PC] /\ me \in [Proc -> Locals]
  BY DEF Control, Shapes
<1>2. ASSUME table' = table, list' = list, lock' = lock, pc' = pc, copy' = copy PROVE Copying(p)'
  <2>1. CASE pc[p] \in {"fork", "forked"}
    BY <1>1, <1>2, <2>1, CopyingKept
  <2>2. CASE pc[p] \notin {"fork", "forked"}
    BY <1>2, <2>2 DEF Copying
  <2> QED BY <2>1, <2>2
<1>3. ASSUME NEW q \in Proc \ {p}, Begin(q) \/ Step(q) PROVE Copying(p)'
  <2>1. Moves(q)
    BY <1>3, StepMoves
  <2>2. \A r \in Proc \ {q} : pc'[r] = pc[r] /\ me'[r] = me[r] /\ copy'[r] = copy[r]
    BY <2>1 DEF Moves, Others
  <2>3. CASE pc[p] \notin {"fork", "forked"}
    BY <2>2, <2>3 DEF Copying
  <2>4. CASE pc[p] \in {"fork", "forked"}
    <3>1. /\ table' = table /\ pc'[q] # "bind.copy"
          /\ \A d \in Dir : table[d] # Nil /\ lock[table[d]].w = Nil
                              => list'[table[d]] = list[table[d]]
      BY <1>3, <2>4, OthersWait
    <3>2. ASSUME NEW d \in Dir, table[d] # Nil, lock[table[d]].w = Nil
          PROVE  lock'[table[d]].w = Nil
      <4> DEFINE h == table[d]
      <4>1. h \in Mhead /\ h \in Locks /\ h # "ns"
        BY <3>2, Names DEF Control, Shapes, Locks
      <4>2. ASSUME NEW r \in Proc, lock'[h].w = r PROVE FALSE
        <5>1. Writes(pc'[r], me'[r], h)
          <6>1. Locking(r)'
            BY <1>1 DEF Control
          <6> QED BY <4>1, <4>2, <6>1 DEF Locking
        <5>2. pc'[r] \in {"bind.copy", "um.free"} /\ me'[r].h = h
          BY <4>1, <5>1 DEF Writes
        <5>3. ~Writes(pc[r], me[r], h)
          BY <3>2, <4>1, LockFacts
        <5>4. r = q
          BY <2>2, <5>1, <5>3
        <5>5. pc'[r] = "um.free"
          BY <3>1, <5>2, <5>4
        <5>6. Located(r)'
          BY <1>1 DEF Control
        <5>7. \A e \in Dir : table'[e] # me'[r].h
          BY <5>5, <5>6 DEF Located
        <5> QED BY <3>1, <5>2, <5>7
      <4>3. lock'[h].w \in Proc \cup {Nil}
        BY <1>1, <4>1 DEF Control, Shapes
      <4> QED BY <4>2, <4>3
    <3> QED BY <1>1, <2>2, <2>4, <3>1, <3>2, CopyingKept
  <2> QED BY <2>3, <2>4
<1>4. CASE UNCHANGED vars
  BY <1>2, <1>4 DEF vars, heads
<1>5. CASE Removed
  <2>1. UNCHANGED <<heads, lock, pc, copy>>
    BY <1>5 DEF Removed
  <2> QED BY <1>2, <2>1 DEF heads
<1>6. ASSUME Begin(p) \/ Step(p) PROVE Copying(p)'
  BY <1>6, CopyingMine
<1> QED BY <1>3, <1>4, <1>5, <1>6 DEF Next, Rest

(* A mount is older than another if more mounts are older than that one.   *)
LEMMA OlderOrder ==
  ASSUME Shapes, NEW x \in Places(Parent), NEW y \in Places(Parent)
  PROVE  LET a == Parent[x[1]][x[2]].id
             b == Parent[y[1]][y[2]].id
         IN Older(a) < Older(b) <=> a < b
<1> DEFINE a == Parent[x[1]][x[2]].id
           b == Parent[y[1]][y[2]].id
           S(n) == {z \in Places(Parent) : Parent[z[1]][z[2]].id < n}
<1>1. Parent \in [Dir -> Seq(Mount)] /\ \A n : Older(n) \in Nat /\ Older(n) = Cardinality(S(n))
  BY ParentType DEF Older
<1>2. \A z \in Places(Parent) : Parent[z[1]][z[2]].id \in Nat
  <2>1. ASSUME NEW d \in Dir, NEW i \in 1..Len(Parent[d]) PROVE Parent[d][i].id \in Nat
    <3>1. Parent[d][i] \in Mount
      BY <1>1, ElementOfSeq
    <3> QED BY <3>1 DEF Mount
  <2> QED BY <1>1, <2>1, PlacesFacts
<1>3. a \in Nat /\ b \in Nat
  BY <1>2
<1>4. IsFiniteSet(Places(Parent))
  BY <1>1, PlacesFacts
<1>5. ASSUME a < b PROVE Older(a) < Older(b)
  <2>1. S(a) \subseteq S(b) /\ x \in S(b) /\ x \notin S(a)
    BY <1>2, <1>3, <1>5
  <2>2. IsFiniteSet(S(b))
    BY <1>4, FS_Subset
  <2>3. Cardinality(S(a)) <= Cardinality(S(b)) /\ Cardinality(S(a)) # Cardinality(S(b))
    BY <2>1, <2>2, FS_Subset
  <2> HIDE DEF S, a, b
  <2> QED BY <1>1, <2>3
<1>6. ASSUME ~(a < b) PROVE ~(Older(a) < Older(b))
  <2>1. S(b) \subseteq S(a)
    BY <1>2, <1>3, <1>6
  <2>2. IsFiniteSet(S(a))
    BY <1>4, FS_Subset
  <2>3. Cardinality(S(b)) <= Cardinality(S(a))
    BY <2>1, <2>2, FS_Subset
  <2> HIDE DEF S, a, b
  <2> QED BY <1>1, <2>3
<1> QED BY <1>5, <1>6

LEMMA Faithful ==
  Control /\ (\A p \in Proc : Copying(p)) => CopyFaithful
<1> SUFFICES ASSUME Control, NEW p \in Proc, Copying(p), pc[p] = "forked"
             PROVE  LET t == copy[p]
                        Old(x) == Parent[x[1]][x[2]]
                        New(x) == t[x[1]][x[2]]
                    IN /\ \A d \in Dir : Len(t[d]) = Len(Parent[d])
                       /\ \A x \in Places(t) : New(x).to = Old(x).to /\ New(x).mcreate = Old(x).mcreate
                       /\ \A x, y \in Places(t) : New(x).id < New(y).id <=> Old(x).id < Old(y).id
  BY DEF CopyFaithful
<1> DEFINE t == copy[p]
           Old(x) == Parent[x[1]][x[2]]
           New(x) == t[x[1]][x[2]]
<1>1. Shapes /\ t \in [Dir -> Seq(Mount)] /\ Parent \in [Dir -> Seq(Mount)]
      /\ \A n : Older(n) \in Nat
  BY ParentType DEF Control, Shapes
<1>2. ASSUME NEW d \in Dir
      PROVE  /\ Len(t[d]) = Len(Parent[d])
             /\ \A i \in 1..Len(t[d]) : /\ t[d][i].to = Parent[d][i].to
                                        /\ t[d][i].mcreate = Parent[d][i].mcreate
  <2>1. CASE t[d] = <<>>
    <3>1. table[d] = Nil
      BY <2>1 DEF Copying, Uncopied
    <3>2. Parent[d] = <<>>
      BY <3>1 DEF Parent
    <3>3. Len(t[d]) = 0
      BY <2>1, <1>1, EmptySeq
    <3> QED BY <2>1, <3>2, <3>3
  <2>2. CASE t[d] # <<>>
    <3>1. Copies(p, d)
      BY <2>2 DEF Copying
    <3>2. Parent[d] = list[table[d]]
      BY <3>1 DEF Copies, Parent
    <3> QED BY <3>1, <3>2 DEF Copies
  <2> QED BY <2>1, <2>2
<1>3. PICK k \in Nat : \A d \in Dir : \A i \in 1..Len(t[d]) : t[d][i].id = k + Older(Parent[d][i].id)
  BY DEF Copying, Numbered
<1>4. ASSUME NEW x \in Places(t)
      PROVE  /\ x \in Places(Parent) /\ New(x).to = Old(x).to /\ New(x).mcreate = Old(x).mcreate
             /\ New(x).id = k + Older(Old(x).id)
  <2>1. PICK d \in Dir : \E i \in 1..Len(t[d]) : x = <<d, i>>
    BY <1>1, PlacesFacts
  <2>2. PICK i \in 1..Len(t[d]) : x = <<d, i>>
    BY <2>1
  <2>3. x[1] = d /\ x[2] = i
    BY <2>2
  <2>4. i \in 1..Len(Parent[d])
    BY <1>2
  <2>5. x \in Places(Parent)
    BY <1>1, <2>2, <2>4, PlacesFacts
  <2> QED BY <1>2, <1>3, <2>3, <2>5
<1>5. ASSUME NEW x \in Places(t), NEW y \in Places(t)
      PROVE  New(x).id < New(y).id <=> Old(x).id < Old(y).id
  <2>1. x \in Places(Parent) /\ y \in Places(Parent)
        /\ New(x).id = k + Older(Old(x).id) /\ New(y).id = k + Older(Old(y).id)
    BY <1>4
  <2>2. Older(Old(x).id) < Older(Old(y).id) <=> Old(x).id < Old(y).id
    BY <1>1, <2>1, OlderOrder
  <2>3. Older(Old(x).id) \in Nat /\ Older(Old(y).id) \in Nat
    BY <1>1
  <2> HIDE DEF Old, New
  <2> QED BY <2>1, <2>2, <2>3
<1> QED BY <1>2, <1>4, <1>5

(* A new group gets the table as it was at one moment, its mounts in the   *)
(* order in which they were made.                                          *)
THEOREM CopiesFaithful == Spec => []CopyFaithful
<1> DEFINE CopyInv == \A p \in Proc : Copying(p)
<1>1. Init => CopyInv
  <2> SUFFICES ASSUME Init, NEW p \in Proc PROVE Copying(p)
    OBVIOUS
  <2>1. pc[p] = "idle"
    BY DEF Init
  <2> QED BY <2>1 DEF Copying
<1>2. Control /\ Counts /\ CopyInv /\ [Next]_vars => CopyInv'
  BY NextCopying
<1>3. Control /\ CopyInv => CopyFaithful
  BY Faithful
<1> HIDE DEF CopyInv
<1>4. Spec => []CopyInv
  BY <1>1, <1>2, SpecControl, PTL DEF Spec
<1> QED BY <1>3, <1>4, SpecControl, PTL

-----------------------------------------------------------------------------
(* The create that comes second.                                           *)

(* Somebody has found nothing mounted on d and is about to mount something.*)
Pending(d) == /\ table[d] # Nil
              /\ \E q \in Proc : pc[q] \in {"bind.lk", "bind.copy"} /\ me[q].h = table[d]

(* The file is in a directory of s, from the n-th on.                      *)
Some(s, n) == \E i \in n..Len(s) : s[i].to \in has

(* Who walks from d will find the file, when he gets there.                *)
Reach(d) == /\ table[d] = Nil => d \in has
            /\ table[d] # Nil => Pending(d) \/ Some(list[table[d]], 1)

(* A create that is not disturbed: from its b it has gone into what is     *)
(* mounted there; and if create(5) found the file, a walk will.            *)
Starting(p) == LET v == me[p] IN
  pc[p] \in {"find", "findlk"} =>
    /\ v.c \in {Nil, v.b}
    /\ v.res = "exists" => Reach(v.b)

Entered(p) == LET v == me[p]
                  s == list[v.m] IN
  pc[p] \in {"walk", "union", "createdir", "create"} /\ v.m # Nil =>
    /\ v.m = table[v.b]
    /\ pc[p] \in {"walk", "union"} => s # <<>> /\ s[1].to = v.c
    /\ pc[p] = "walk" /\ v.res = "exists" => Some(s, 1)
    /\ pc[p] = "union" /\ v.res = "exists" => Some(s, 2)
    /\ pc[p] = "create" => \E i \in 1..Len(s) : s[i].to = v.c

Unmounted(p) == LET v == me[p] IN
  pc[p] \in {"walk", "createdir"} /\ v.m = Nil =>
    /\ v.c = v.b
    /\ pc[p] = "walk" /\ v.res = "exists" => v.c \in has
    /\ pc[p] = "createdir" => table[v.b] = Nil \/ Pending(v.b)

Creating(p) == pc[p] # "idle" /\ me[p].call.op = "create" /\ ~changed[p] =>
                 Starting(p) /\ Entered(p) /\ Unmounted(p)

LEMMA FilesGrow ==
  ASSUME NEW p \in Proc, Begin(p) \/ Step(p)
  PROVE  has' = has \/ (Create(p) /\ has \subseteq has')
<1>1. CASE Begin(p)
  BY <1>1 DEF Begin
<1>2. CASE Lookup(p)
  BY <1>2 DEF Lookup, findmount, FindNs, FindNone, Find, Walk, WalkUnion, WalkFails, UnionSearch,
              UndoNs, undomount, Back, Return, world
<1>3. CASE Namec(p)
  <2>1. CASE Create(p)
    BY <2>1 DEF Create
  <2> QED BY <1>3, <2>1 DEF Namec, Open, unionread, ReadDone, Close, createdir, Return, world
<1>4. CASE cmount(p)
  BY <1>4 DEF cmount, Check, BindNs, BindLock, BindLink, Return, world
<1>5. CASE cunmount(p)
  BY <1>5 DEF cunmount, UnmountNs, UnmountOne, UnmountAll, UnmountFree, world
<1>6. CASE pgrpcpy(p)
  BY <1>6 DEF pgrpcpy, ForkNs, ForkCopy, ForkIds, ForkOut, closepgrp, world
<1> QED BY <1>1, <1>2, <1>3, <1>4, <1>5, <1>6 DEF Step

(* What an undisturbed create relies on.                                   *)
Steady(d) == /\ table'[d] = table[d] \/ (table[d] = Nil /\ Pending(d)')
             /\ table[d] # Nil => list'[table[d]] = list[table[d]]
             /\ Pending(d) => Pending(d)'

LEMMA PendingKept ==
  ASSUME Control, NEW q \in Proc, Others(q), NEW d, table'[d] = table[d], Pending(d),
         pc[q] \notin {"bind.lk", "bind.copy"}
           \/ (pc'[q] \in {"bind.lk", "bind.copy"} /\ me'[q].h = me[q].h)
  PROVE  Pending(d)'
<1>1. PICK r \in Proc : pc[r] \in {"bind.lk", "bind.copy"} /\ me[r].h = table[d]
  BY DEF Pending
<1>2. pc'[r] \in {"bind.lk", "bind.copy"} /\ me'[r].h = me[r].h
  BY <1>1 DEF Others
<1> QED BY <1>1, <1>2 DEF Pending

LEMMA CalmSteady ==
  ASSUME Control, NEW q \in Proc, Calm(q), NEW d
  PROVE  Steady(d)
<1>1. Same /\ Others(q) /\ pc[q] \notin Holding
  BY CalmKept, CalmFrom DEF Kept, Moves
<1>2. Pending(d) => Pending(d)'
  BY <1>1, PendingKept DEF Same, Holding
<1> QED BY <1>1, <1>2 DEF Same, Steady

LEMMA StepSteady ==
  ASSUME Control, Counts, NEW q \in Proc, Begin(q) \/ Step(q), NEW d \in Dir
  PROVE  Change \/ Steady(d)
<1>s. /\ table \in [Dir -> Mhead \cup {Nil}] /\ list \in [Mhead -> Seq(Mount)]
      /\ pc \in [Proc -> PC] /\ me \in [Proc -> Locals] /\ Others(q)
  BY StepMoves DEF Control, Shapes, Moves
<1>1. CASE Calm(q)
  BY <1>1, CalmSteady
<1>2. CASE BindLink(q) \/ UnmountAll(q)
  BY <1>2 DEF BindLink, UnmountAll
<1>3. CASE BindLock(q)
  <2> DEFINE v == me[q]
             x == [to |-> v.new, mcreate |-> v.call.mcreate, id |-> mountid + 1]
             s == IF v.mh = Nil THEN <<>> ELSE list[v.mh]
  <2>1. /\ pc' = [pc EXCEPT ![q] = "bind.copy"] /\ table' = table /\ list' = list
        /\ me' = [me EXCEPT ![q] = [v EXCEPT !.um = s, !.add = <<x>>]]
    BY <1>3 DEF BindLock, Goto, Local, heads
  <2> HIDE DEF s, x
  <2>2. pc'[q] = "bind.copy" /\ me'[q].h = v.h
    BY <1>s, <2>1 DEF Locals
  <2>3. Pending(d) => Pending(d)'
    BY <1>s, <2>1, <2>2, PendingKept
  <2> QED BY <2>1, <2>3 DEF Steady
<1>4. CASE BindNs(q)
  <2>1. pc[q] = "bind.ns" /\ pc'[q] = "bind.lk"
    BY <1>s, <1>4 DEF BindNs, At, Goto
  <2>2. CASE table[me[q].b] # Nil
    <3>1. table' = table /\ list' = list
      BY <1>4, <2>2 DEF BindNs, heads
    <3>2. Pending(d) => Pending(d)'
      BY <1>s, <2>1, <3>1, PendingKept
    <3> QED BY <3>1, <3>2 DEF Steady
  <2>3. CASE table[me[q].b] = Nil
    <3>1. PICK h \in Mhead, s \in Seq(Mount) :
            /\ href[h] = 0
            /\ table' = [table EXCEPT ![me[q].b] = h]
            /\ list' = [list EXCEPT ![h] = s]
            /\ me' = [me EXCEPT ![q] = [me[q] EXCEPT !.h = h]]
      BY <1>4, <2>3, NewHead
    <3>2. \A e \in Dir : table[e] # h
      BY <3>1, Unused
    <3>3. CASE d = me[q].b
      <4>1. table'[d] = h /\ h # Nil /\ table[d] = Nil
        BY <1>s, <2>3, <3>1, <3>3, Names
      <4>2. me'[q].h = h
        BY <1>s, <3>1 DEF Locals
      <4>3. Pending(d)'
        BY <2>1, <4>1, <4>2 DEF Pending
      <4> QED BY <4>1, <4>3 DEF Steady
    <3>4. CASE d # me[q].b
      <4>1. table'[d] = table[d]
        BY <1>s, <3>1, <3>4
      <4>2. table[d] # Nil => list'[table[d]] = list[table[d]]
        BY <1>s, <3>1, <3>2
      <4>3. Pending(d) => Pending(d)'
        BY <1>s, <2>1, <4>1, PendingKept
      <4> QED BY <4>1, <4>2, <4>3 DEF Steady
    <3> QED BY <3>3, <3>4
  <2> QED BY <2>2, <2>3
<1>5. CASE UnmountOne(q)
  <2>1. CASE UNCHANGED heads
    <3>1. pc[q] = "um.lk" /\ table' = table /\ list' = list
      BY <1>5, <2>1 DEF UnmountOne, At, heads
    <3>2. Pending(d) => Pending(d)'
      BY <1>s, <3>1, PendingKept
    <3> QED BY <3>1, <3>2 DEF Steady
  <2> QED BY <1>5, <2>1 DEF UnmountOne
<1>6. CASE UnmountFree(q)
  <2>1. pc[q] = "um.free" /\ table' = table /\ list' = [list EXCEPT ![me[q].h] = <<>>]
    BY <1>6 DEF UnmountFree, At
  <2>2. table[d] # me[q].h
    BY <2>1 DEF Control, Located
  <2>3. table[d] # Nil => list'[table[d]] = list[table[d]]
    BY <1>s, <2>1, <2>2
  <2>4. Pending(d) => Pending(d)'
    BY <1>s, <2>1, PendingKept
  <2> QED BY <2>1, <2>3, <2>4 DEF Steady
<1> QED BY <1>1, <1>2, <1>3, <1>4, <1>5, <1>6 DEF Calm, Step, cmount, cunmount

LEMMA ReachKept ==
  ASSUME NEW d \in Dir, Steady(d), has \subseteq has', Reach(d)
  PROVE  Reach(d)'
<1>1. CASE table'[d] = table[d]
  <2>1. \A s : Some(s, 1) => \E i \in 1..Len(s) : s[i].to \in has'
    BY DEF Some
  <2> QED BY <1>1, <2>1 DEF Reach, Steady, Some
<1>2. CASE table'[d] # table[d]
  <2>1. Pending(d)'
    BY <1>2 DEF Steady
  <2> QED BY <2>1 DEF Reach, Pending
<1> QED BY <1>1, <1>2

(* While p does nothing itself.                                            *)
LEMMA CreatingKept ==
  ASSUME NEW p \in Proc, Starting(p), Entered(p), Unmounted(p), NEW b \in Dir, me[p].b = b,
         pc'[p] = pc[p], me'[p] = me[p], Steady(b), has \subseteq has', b # Nil
  PROVE  Starting(p)' /\ Entered(p)' /\ Unmounted(p)'
<1> DEFINE v == me[p]
<1>1. Starting(p)'
  BY ReachKept DEF Starting
<1>2. Entered(p)'
  <2>1. SUFFICES ASSUME pc[p] \in {"walk", "union", "createdir", "create"}, v.m # Nil
                 PROVE  Entered(p)'
    BY DEF Entered
  <2>2. v.m = table[b]
    BY <2>1 DEF Entered
  <2>3. table'[b] = table[b] /\ list'[v.m] = list[v.m]
    BY <2>1, <2>2 DEF Steady
  <2>4. \A n : Some(list[v.m], n) => Some(list[v.m], n)'
    <3>1. \A s : \A n : Some(s, n) => \E i \in n..Len(s) : s[i].to \in has'
      BY DEF Some
    <3> QED BY <2>3, <3>1 DEF Some
  <2> QED BY <2>1, <2>2, <2>3, <2>4 DEF Entered
<1>3. Unmounted(p)'
  <2>1. ASSUME table[b] = Nil \/ Pending(b) PROVE table'[b] = Nil \/ Pending(b)'
    BY <2>1 DEF Steady, Pending
  <2> QED BY <2>1 DEF Unmounted
<1> QED BY <1>1, <1>2, <1>3

-----------------------------------------------------------------------------
(* What a create does itself.                                              *)

Making == {"find", "findlk", "walk", "union", "createdir", "create"}

(* Everything else leads away from there, without an error.                *)
LEMMA NotMaking ==
  ASSUME Control, NEW p \in Proc, Step(p), ~findmount(p), ~WalkUnion(p), ~WalkFails(p),
         ~UnionSearch(p), ~createdir(p), ~Create(p)
  PROVE  pc'[p] \notin Making /\ (pc'[p] = "idle" => me'[p].res # "exists")
<1>s. Shapes /\ pc \in [Proc -> PC] /\ me \in [Proc -> Locals]
  BY DEF Control, Shapes
<1>e. ASSUME Return(p) PROVE pc'[p] = "idle" /\ me'[p].res = "none"
  <2>1. End(p, "none")
    BY <1>e DEF Return
  <2> QED BY <1>s, <2>1, EndFacts, EndIdle
<1>1. CASE Walk(p) \/ Back(p) \/ Close(p)
  <2>1. Return(p)
    BY <1>1 DEF Walk, Back, Close
  <2> QED BY <1>e, <2>1 DEF Making
<1>2. CASE closepgrp(p)
  <2>1. pc' = [pc EXCEPT ![p] = "idle"] /\ me' = [me EXCEPT ![p] = Idle]
    BY <1>2 DEF closepgrp, Goto, Local
  <2>2. pc'[p] = "idle" /\ me'[p] = Idle /\ Idle.res = "none"
    BY <1>s, <2>1 DEF Idle
  <2> QED BY <2>2 DEF Making
<1>3. CASE Check(p)
  <2>1. CASE Goto(p, "bind.ns")
    BY <1>s, <2>1 DEF Goto, Making
  <2> QED BY <1>e, <1>3, <2>1 DEF Check, Making
<1>4. CASE ForkCopy(p)
  <2>1. pc' = pc /\ pc[p] = "fork"
    BY <1>4 DEF ForkCopy, At
  <2> QED BY <2>1 DEF Making
<1>5. ASSUME NEW l \in PC \ (Making \cup {"idle"}), Goto(p, l)
      PROVE  pc'[p] \notin Making /\ (pc'[p] = "idle" => me'[p].res # "exists")
  BY <1>s, <1>5 DEF Goto
<1>6. \/ UndoNs(p) \/ undomount(p) \/ Open(p) \/ unionread(p) \/ ReadDone(p)
      \/ BindNs(p) \/ BindLock(p) \/ BindLink(p) \/ UnmountNs(p) \/ UnmountOne(p)
      \/ UnmountAll(p) \/ UnmountFree(p) \/ ForkNs(p) \/ ForkIds(p) \/ ForkOut(p)
      => \E l \in PC \ (Making \cup {"idle"}) : Goto(p, l)
  <2> DEFINE Away(l) == l \in PC \ (Making \cup {"idle"}) /\ Goto(p, l)
  <2>1. \/ Goto(p, "undone") \/ Goto(p, "back") \/ Goto(p, "um.ns") \/ Goto(p, "opened")
        \/ Goto(p, "reading") \/ Goto(p, "read") \/ Goto(p, "bind.lk") \/ Goto(p, "bind.copy")
        \/ Goto(p, "um.lk") \/ Goto(p, "um.free") \/ Goto(p, "fork") \/ Goto(p, "forked")
        \/ Goto(p, "group")
        => \E l \in PC \ (Making \cup {"idle"}) : Goto(p, l)
    <3>1. {"undone", "back", "um.ns", "opened", "reading", "read", "bind.lk", "bind.copy",
           "um.lk", "um.free", "fork", "forked", "group"} \subseteq PC \ (Making \cup {"idle"})
      BY DEF PC, Making
    <3> QED BY <3>1
  <2>2. CASE UndoNs(p) \/ undomount(p) \/ unionread(p) \/ ReadDone(p)
    BY <2>1, <2>2 DEF UndoNs, undomount, unionread, ReadDone
  <2>3. CASE Open(p)
    <3>1. Goto(p, "um.ns") \/ Goto(p, "opened")
      BY <2>3 DEF Open
    <3> QED BY <2>1, <3>1
  <2>4. CASE BindNs(p) \/ BindLock(p) \/ BindLink(p)
    BY <2>1, <2>4 DEF BindNs, BindLock, BindLink
  <2>5. CASE UnmountNs(p) \/ UnmountOne(p) \/ UnmountAll(p) \/ UnmountFree(p)
    BY <2>1, <2>5 DEF UnmountNs, UnmountOne, UnmountAll, UnmountFree
  <2>6. CASE ForkNs(p) \/ ForkIds(p) \/ ForkOut(p)
    BY <2>1, <2>6 DEF ForkNs, ForkIds, ForkOut
  <2> QED BY <2>2, <2>3, <2>4, <2>5, <2>6
<1> QED BY <1>1, <1>2, <1>3, <1>4, <1>5, <1>6
        DEF Step, Lookup, Namec, cmount, cunmount, pgrpcpy

(* The variables of an undisturbed create that goes on.                    *)
Creates(p) == pc[p] # "idle" /\ me[p].call.op = "create" /\ ~changed[p]
Made(p)    == Starting(p) /\ Entered(p) /\ Unmounted(p)

LEMMA CreateFacts ==
  ASSUME Control, NEW p \in Proc, pc[p] \in Making, me[p].call.op = "create"
  PROVE  LET v == me[p]
         IN  /\ v \in Locals /\ v.b \in Dir /\ v.b # Nil /\ v.c \in Dir \cup {Nil}
             /\ v.m \in Mhead \cup {Nil}
             /\ v.m # Nil => list[v.m] \in Seq(Mount)
             /\ v.res = "exists" => v.retry
             /\ pc[p] \in {"createdir", "create"} => ~v.retry
             /\ pc[p] \in {"find", "findlk"} => v.m = Nil /\ (v.c = Nil => ~v.retry)
             /\ pc[p] \in {"union", "create"} => v.m # Nil
<1> DEFINE v == me[p]
<1>1. /\ pc[p] # "idle" /\ v \in Locals /\ Placed(p)
      /\ v.call.b \in Dir /\ Chans(pc[p], v) /\ Tries(pc[p], v)
  BY Here DEF Placed, Making
<1>2. v.b \in Dir /\ v.b # Nil
  BY <1>1, Names DEF Chans, Keeps
<1>3. v.c \in Dir \cup {Nil} /\ v.m \in Mhead \cup {Nil}
  BY <1>1 DEF Locals
<1>4. v.m # Nil => list[v.m] \in Seq(Mount)
  BY <1>3 DEF Control, Shapes
<1> QED BY <1>1, <1>2, <1>3, <1>4 DEF Chans, Tries

LEMMA MadeNext ==
  ASSUME NEW p \in Proc, NEW l, NEW b, NEW c, NEW m, NEW r,
         pc'[p] = l, me'[p].b = b, me'[p].c = c, me'[p].m = m, me'[p].res = r,
         l \in {"find", "findlk"} => c \in {Nil, b} /\ (r = "exists" => Reach(b)'),
         l \in {"walk", "union", "createdir", "create"} /\ m # Nil =>
           /\ m = table'[b]
           /\ l \in {"walk", "union"} => list'[m] # <<>> /\ list'[m][1].to = c
           /\ l = "walk" /\ r = "exists" => \E i \in 1..Len(list'[m]) : list'[m][i].to \in has'
           /\ l = "union" /\ r = "exists" => \E i \in 2..Len(list'[m]) : list'[m][i].to \in has'
           /\ l = "create" => \E i \in 1..Len(list'[m]) : list'[m][i].to = c,
         l \in {"walk", "createdir"} /\ m = Nil =>
           /\ c = b
           /\ l = "walk" /\ r = "exists" => c \in has'
           /\ l = "createdir" => table'[b] = Nil \/ Pending(b)'
  PROVE  Made(p)'
<1>1. Starting(p)'
  BY DEF Starting, Reach, Pending, Some
<1>2. Entered(p)'
  BY DEF Entered, Some
<1>3. Unmounted(p)'
  BY DEF Unmounted, Pending
<1> QED BY <1>1, <1>2, <1>3 DEF Made

(* findmount.                                                              *)
LEMMA FindNsMakes ==
  ASSUME Control, NEW p \in Proc, FindNs(p), Made(p), me[p].call.op = "create"
  PROVE  Made(p)'
<1>1. /\ pc[p] = "find" /\ pc' = [pc EXCEPT ![p] = "findlk"]
      /\ me' = [me EXCEPT ![p] = [me[p] EXCEPT !.h = table[Key(p)]]] /\ has' = has
  BY DEF FindNs, At, Goto, Local, world
<1>2. PICK b, c, m, r : b = me[p].b /\ c = me[p].c /\ m = me[p].m /\ r = me[p].res
  OBVIOUS
<1>3. me[p] \in Locals /\ b \in Dir
  BY <1>1, <1>2, CreateFacts DEF Making
<1>4. pc'[p] = "findlk" /\ me'[p].b = b /\ me'[p].c = c /\ me'[p].m = m /\ me'[p].res = r
  BY <1>1, <1>2, <1>3 DEF Control, Shapes, Locals
<1>5. c \in {Nil, b} /\ (r = "exists" => Reach(b))
  BY <1>1, <1>2 DEF Made, Starting
<1>6. Reach(b) => Reach(b)'
  BY <1>1, <1>3, CalmSteady, ReachKept DEF Calm, Lookup, findmount
<1> QED BY <1>4, <1>5, <1>6, MadeNext

LEMMA FindNoneMakes ==
  ASSUME Control, NEW p \in Proc, FindNone(p), Made(p), me[p].call.op = "create"
  PROVE  Made(p)'
<1>1. /\ pc[p] = "find" /\ pc' = [pc EXCEPT ![p] = Asked(p)] /\ table[Key(p)] = Nil
      /\ me' = [me EXCEPT ![p] = [me[p] EXCEPT !.c = Key(p)]] /\ has' = has /\ table' = table
  BY DEF FindNone, At, Goto, Local, heads
<1>2. PICK b, c, m, r, k, l : b = me[p].b /\ c = me[p].c /\ m = me[p].m /\ r = me[p].res
                              /\ k = Key(p) /\ l = Asked(p)
  OBVIOUS
<1>3. /\ me[p] \in Locals /\ b \in Dir /\ m = Nil
      /\ c \in {Nil, b} /\ (r = "exists" => Reach(b))
  BY <1>1, <1>2, CreateFacts DEF Making, Made, Starting
<1>4. k = b /\ l \in {"walk", "createdir"}
  BY <1>1, <1>2, <1>3, KeyFacts DEF Key
<1>5. pc'[p] = l /\ me'[p].b = b /\ me'[p].c = b /\ me'[p].m = m /\ me'[p].res = r
  BY <1>1, <1>2, <1>3, <1>4 DEF Control, Shapes, Locals
<1>6. table'[b] = Nil /\ (r = "exists" => b \in has')
  BY <1>1, <1>2, <1>3, <1>4 DEF Reach
<1> QED BY <1>3, <1>4, <1>5, <1>6, MadeNext

LEMMA FindMakes ==
  ASSUME Control, NEW p \in Proc, Find(p), Made(p), me[p].call.op = "create"
  PROVE  Made(p)'
<1>1. /\ pc[p] = "findlk" /\ pc' = [pc EXCEPT ![p] = Asked(p)] /\ CanR(me[p].h)
      /\ me' = [me EXCEPT ![p] = [me[p] EXCEPT !.c = list[me[p].h][1].to, !.m = me[p].h, !.h = Nil]]
      /\ has' = has /\ table' = table /\ list' = list
  BY DEF Find, At, Goto, Local
<1>2. PICK b, c, h, r, d, l : b = me[p].b /\ c = me[p].c /\ h = me[p].h /\ r = me[p].res
                              /\ d = list[h][1].to /\ l = Asked(p)
  OBVIOUS
<1>3. /\ me[p] \in Locals /\ b \in Dir
      /\ c \in {Nil, b} /\ (r = "exists" => Reach(b))
  BY <1>1, <1>2, CreateFacts DEF Making, Made, Starting
<1>4. Key(p) = b /\ l \in {"walk", "createdir"}
  BY <1>1, <1>2, <1>3, KeyFacts DEF Key
<1>5. h # Nil /\ table[b] = h /\ h \in Mhead /\ list[h] # <<>>
  <2>1. h # Nil /\ table[b] = h
    BY <1>1, <1>2, <1>4, Here DEF Located
  <2>2. h \in Mhead
    BY <1>2, <1>3, <2>1 DEF Locals
  <2> QED BY <1>1, <1>2, <2>1, <2>2, Findable
<1>6. ~Pending(b)
  <2>1. ASSUME NEW q \in Proc, pc[q] \in {"bind.lk", "bind.copy"}, me[q].h = h PROVE FALSE
    <3>1. "ns" \in Locks /\ h \in Locks /\ h # "ns" /\ p # Nil /\ q # Nil
      BY <1>5, Names DEF Locks
    <3>2. Reads(pc[p], me[p], "ns")
      BY <1>1 DEF Reads
    <3>3. lock["ns"].w = Nil
      BY <3>1, <3>2, LockFacts
    <3>4. ~Writes(pc[q], me[q], "ns") /\ ~Writes(pc[q], me[q], h)
      BY <1>1, <1>2, <3>1, <3>3, LockFacts DEF CanR
    <3> QED BY <2>1, <3>1, <3>4 DEF Writes
  <2> QED BY <1>5, <2>1 DEF Pending
<1>7. pc'[p] = l /\ me'[p].b = b /\ me'[p].c = d /\ me'[p].m = h /\ me'[p].res = r
  <2>1. l \in PC /\ pc' = [pc EXCEPT ![p] = l]
    BY <1>1, <1>2, <1>4 DEF PC
  <2>2. me' = [me EXCEPT ![p] = [me[p] EXCEPT !.c = d, !.m = h, !.h = Nil]]
    BY <1>1, <1>2
  <2> QED BY <1>2, <1>3, <2>1, <2>2 DEF Control, Shapes, Locals
<1>8. r = "exists" => \E i \in 1..Len(list'[h]) : list'[h][i].to \in has'
  BY <1>1, <1>3, <1>5, <1>6 DEF Reach, Some
<1>9. h = table'[b] /\ list'[h] # <<>> /\ list'[h][1].to = d
  BY <1>1, <1>2, <1>5
<1> QED BY <1>4, <1>5, <1>7, <1>8, <1>9, MadeNext

(* The walk.                                                               *)
LEMMA WalkUnionMakes ==
  ASSUME Control, NEW p \in Proc, WalkUnion(p), Made(p), me[p].call.op = "create"
  PROVE  Made(p)'
<1>1. /\ pc[p] = "walk" /\ pc' = [pc EXCEPT ![p] = "union"] /\ me[p].c \notin has /\ me[p].m # Nil
      /\ me' = me /\ has' = has /\ table' = table /\ list' = list
  BY DEF WalkUnion, At, Goto, heads, world
<1>2. PICK b, c, m, r : b = me[p].b /\ c = me[p].c /\ m = me[p].m /\ r = me[p].res
  OBVIOUS
<1>3. /\ m = table[b] /\ list[m] # <<>> /\ list[m][1].to = c
      /\ r = "exists" => \E i \in 1..Len(list[m]) : list[m][i].to \in has
  BY <1>1, <1>2 DEF Made, Entered, Some
<1>4. r = "exists" => \E i \in 2..Len(list[m]) : list[m][i].to \in has
  <2>1. list[m] \in Seq(Mount)
    BY <1>1, <1>2, CreateFacts DEF Making
  <2>2. \A i \in 1..Len(list[m]) : i = 1 \/ i \in 2..Len(list[m])
    BY <2>1, LenProperties
  <2> QED BY <1>1, <1>2, <1>3, <2>2
<1>5. pc'[p] = "union" /\ me'[p].b = b /\ me'[p].c = c /\ me'[p].m = m /\ me'[p].res = r
  BY <1>1, <1>2 DEF Control, Shapes
<1> QED BY <1>1, <1>2, <1>3, <1>4, <1>5, MadeNext

LEMMA NotFoundMakes ==
  ASSUME Control, NEW p \in Proc, NotFound(p), pc[p] \in {"walk", "union"},
         me[p].call.op = "create"
  PROVE  \/ pc'[p] # "idle" /\ Made(p)'
         \/ pc'[p] = "idle" /\ me'[p].res = me[p].res
<1>1. /\ me[p] \in Locals /\ (me[p].res = "exists" => me[p].retry)
      /\ Shapes /\ me[p].res \in {"none", "exists", "nocreate"}
  BY CreateFacts DEF Making, Control, Locals
<1>2. CASE me[p].retry
  <2>1. End(p, me[p].res)
    BY <1>2 DEF NotFound
  <2>2. pc'[p] = "idle" /\ me'[p].res = me[p].res
    BY <1>1, <2>1, EndFacts, EndIdle
  <2> QED BY <2>2
<1>3. CASE ~me[p].retry
  <2>1. PICK b, r : b = me[p].b /\ r = me[p].res
    OBVIOUS
  <2>2. /\ pc' = [pc EXCEPT ![p] = "find"]
        /\ me' = [me EXCEPT ![p] = [me[p] EXCEPT !.c = Nil, !.m = Nil]]
    BY <1>3 DEF NotFound, Goto, Local
  <2>3. pc'[p] = "find" /\ me'[p].b = b /\ me'[p].c = Nil /\ me'[p].m = Nil /\ me'[p].res = r
    BY <1>1, <2>1, <2>2 DEF Shapes, Locals
  <2>4. r # "exists"
    BY <1>1, <1>3, <2>1
  <2>5. Made(p)'
    BY <2>3, <2>4, MadeNext
  <2> QED BY <2>3, <2>5
<1> QED BY <1>2, <1>3

(* The create.                                                             *)
LEMMA RetryMakes ==
  ASSUME Control, NEW p \in Proc, NEW e \in {"exists", "nocreate"}, Retry(p, e),
         pc[p] \in {"createdir", "create"}, me[p].call.op = "create",
         NEW b, b = me[p].b, e = "exists" => Reach(b), has' = has, Steady(b)
  PROVE  \/ pc'[p] # "idle" /\ Made(p)'
         \/ pc'[p] = "idle" /\ me'[p].res = "none"
<1>1. /\ me[p] \in Locals /\ me[p].b \in Dir /\ Shapes
  BY CreateFacts DEF Making, Control
<1>2. CASE me[p].call.excl
  <2>1. End(p, "none")
    BY <1>2 DEF Retry
  <2>2. pc'[p] = "idle" /\ me'[p].res = "none"
    BY <1>1, <2>1, EndFacts, EndIdle
  <2> QED BY <2>2
<1>3. CASE ~me[p].call.excl
  <2>2. /\ pc' = [pc EXCEPT ![p] = "find"]
        /\ me' = [me EXCEPT ![p] = [me[p] EXCEPT !.c = b, !.m = Nil, !.retry = TRUE, !.res = e]]
    BY <1>3 DEF Retry, Goto, Local
  <2>3. pc'[p] = "find" /\ me'[p].b = b /\ me'[p].c = b /\ me'[p].m = Nil /\ me'[p].res = e
    BY <1>1, <2>2 DEF Shapes, Locals
  <2>4. e = "exists" => Reach(b)'
    BY <1>1, ReachKept
  <2>5. Made(p)'
    BY <2>3, <2>4, MadeNext
  <2> QED BY <2>3, <2>5
<1> QED BY <1>2, <1>3

LEMMA createdirMakes ==
  ASSUME Control, NEW p \in Proc, createdir(p), Made(p), me[p].call.op = "create"
  PROVE  \/ pc'[p] # "idle" /\ Made(p)'
         \/ pc'[p] = "idle" /\ me'[p].res = "none"
<1>1. /\ pc[p] = "createdir" /\ me[p].m # Nil /\ has' = has /\ table' = table /\ list' = list
  BY DEF createdir, At
<1>2. PICK b, m, r, s : b = me[p].b /\ m = me[p].m /\ r = me[p].res /\ s = list[m]
  OBVIOUS
<1>3. me[p] \in Locals /\ b \in Dir /\ m = table[b] /\ s \in Seq(Mount) /\ Shapes
  BY <1>1, <1>2, CreateFacts DEF Making, Made, Entered, Control
<1>4. CASE Retry(p, "nocreate")
  <2>1. Steady(b)
    BY <1>3, CalmSteady DEF Calm, Namec
  <2> QED BY <1>1, <1>2, <1>4, <2>1, RetryMakes
<1>5. CASE ~Retry(p, "nocreate")
  <2>1. PICK i \in Creatable(s) :
          /\ Goto(p, "create")
          /\ Local(p, [me[p] EXCEPT !.c = s[i].to])
    BY <1>2, <1>5 DEF createdir
  <2>2. i \in 1..Len(s)
    BY <1>3, <2>1 DEF Creatable
  <2>3. PICK d : d = s[i].to
    OBVIOUS
  <2>4. pc'[p] = "create" /\ me'[p].b = b /\ me'[p].c = d /\ me'[p].m = m /\ me'[p].res = r
    BY <1>2, <1>3, <2>1, <2>3 DEF Goto, Local, Shapes, Locals
  <2>5. m = table'[b] /\ \E j \in 1..Len(list'[m]) : list'[m][j].to = d
    BY <1>1, <1>2, <1>3, <2>2, <2>3
  <2>6. Made(p)'
    BY <1>1, <1>2, <2>4, <2>5, MadeNext
  <2> QED BY <2>4, <2>6
<1> QED BY <1>4, <1>5

LEMMA CreateMakes ==
  ASSUME Control, NEW p \in Proc, Create(p), Made(p), me[p].call.op = "create"
  PROVE  \/ pc'[p] # "idle" /\ Made(p)'
         \/ pc'[p] = "idle" /\ me'[p].res = "none"
<1>1. /\ pc[p] = "create" \/ (pc[p] = "createdir" /\ me[p].m = Nil)
      /\ \/ End(p, "none")
         \/ me[p].c \in has /\ Retry(p, "exists") /\ has' = has
  BY DEF Create, At
<1>2. PICK b, c, m : b = me[p].b /\ c = me[p].c /\ m = me[p].m
  OBVIOUS
<1>3. b \in Dir /\ Shapes /\ (pc[p] = "create" => m # Nil)
  BY <1>1, <1>2, CreateFacts DEF Making, Control
<1>4. CASE End(p, "none")
  <2>1. pc'[p] = "idle" /\ me'[p].res = "none"
    BY <1>3, <1>4, EndFacts, EndIdle
  <2> QED BY <2>1
<1>5. CASE me[p].c \in has /\ Retry(p, "exists") /\ has' = has
  <2>1. ASSUME pc[p] = "create" PROVE Reach(b)
    <3>1. m = table[b] /\ m # Nil /\ \E i \in 1..Len(list[m]) : list[m][i].to = c
      BY <1>2, <1>3, <2>1 DEF Made, Entered
    <3> QED BY <1>2, <1>5, <3>1 DEF Reach, Some
  <2>2. ASSUME pc[p] = "createdir", m = Nil PROVE Reach(b)
    <3>1. c = b /\ (table[b] = Nil \/ Pending(b))
      BY <1>2, <2>2 DEF Made, Unmounted
    <3> QED BY <1>2, <1>5, <3>1 DEF Reach, Pending
  <2>3. Reach(b)
    BY <1>1, <1>2, <2>1, <2>2
  <2>4. Steady(b)
    BY CalmSteady DEF Calm, Namec
  <2> QED BY <1>1, <1>2, <1>5, <2>3, <2>4, RetryMakes
<1> QED BY <1>1, <1>4, <1>5

LEMMA BeginMakes ==
  ASSUME Control, NEW p \in Proc, Begin(p)
  PROVE  pc[p] = "idle" /\ (pc'[p] # "idle" /\ me'[p].call.op = "create" => Made(p)')
<1>1. PICK a \in Call :
        LET c0 == IF a.op \in {"bind", "unmount", "dotdot"} THEN a.x ELSE a.b
            b0 == IF a.op \in {"bind", "unmount", "create"} THEN a.b ELSE Nil
            skip == a.op = "fork"
        IN /\ pc[p] = "idle"
           /\ Goto(p, IF c0 = Nil THEN "um.ns" ELSE First(a.op))
           /\ Local(p, [Idle EXCEPT !.call = a, !.b = b0, !.c = IF skip THEN Nil ELSE c0])
  BY DEF Begin, At
<1>2. a.b \in Dir /\ a.b # Nil /\ Shapes
  BY CallFacts, Names DEF Control
<1>3. CASE a.op = "create"
  <2>1. First(a.op) = "find"
    BY <1>3 DEF First
  <2>2. Goto(p, "find") /\ Local(p, [Idle EXCEPT !.call = a, !.b = a.b, !.c = a.b])
    BY <1>1, <1>2, <1>3, <2>1
  <2>3. /\ pc'[p] = "find" /\ me'[p].b = a.b /\ me'[p].c = a.b /\ me'[p].m = Nil
        /\ me'[p].res = "none"
    BY <1>2, <2>2 DEF Goto, Local, Shapes, Idle
  <2>4. Made(p)'
    BY <2>3, MadeNext
  <2> QED BY <1>1, <2>4
<1>4. CASE a.op # "create"
  <2>1. me'[p].call = a
    BY <1>1, <1>2 DEF Local, Shapes, Idle
  <2> QED BY <1>1, <1>4, <2>1
<1> QED BY <1>3, <1>4

(* Whether p has been disturbed is not forgotten while its call lasts.     *)
LEMMA ChangedKept ==
  ASSUME Control, NEW p \in Proc, Step(p), pc'[p] # "idle", pc[p] \in Making,
         me[p].call.op = "create", ~changed'[p]
  PROVE  ~changed[p]
<1>1. changed' = changed \/ End(p, me[p].res) \/ End(p, "none")
  <2>1. CASE findmount(p)
    BY <2>1 DEF findmount, FindNs, FindNone, Find
  <2>2. CASE Walk(p)
    BY <2>2 DEF Walk, Return
  <2>3. CASE WalkUnion(p)
    BY <2>3 DEF WalkUnion
  <2>4. CASE WalkFails(p)
    BY <2>4 DEF WalkFails, NotFound
  <2>5. CASE UnionSearch(p)
    BY <2>5 DEF UnionSearch, NotFound
  <2>6. CASE createdir(p)
    BY <2>6 DEF createdir, Retry
  <2>7. CASE Create(p)
    BY <2>7 DEF Create, Retry
  <2>8. CASE UndoNs(p) \/ undomount(p) \/ Back(p) \/ Open(p) \/ unionread(p) \/ ReadDone(p) \/ Close(p)
    BY <2>8 DEF UndoNs, undomount, Back, Open, unionread, ReadDone, Close, At, Making
  <2>9. CASE cmount(p)
    BY <2>9 DEF cmount, Check, BindNs, BindLock, BindLink, At, Making
  <2>10. CASE cunmount(p)
    BY <2>10 DEF cunmount, UnmountNs, UnmountOne, UnmountAll, UnmountFree, At, Making
  <2>11. CASE pgrpcpy(p)
    BY <2>11 DEF pgrpcpy, ForkNs, ForkCopy, ForkIds, ForkOut, closepgrp, At, Making
  <2> QED BY <2>1, <2>2, <2>3, <2>4, <2>5, <2>6, <2>7, <2>8, <2>9, <2>10, <2>11
          DEF Step, Lookup, Namec
<1>2. Shapes
  BY DEF Control
<1> QED BY <1>1, <1>2, EndIdle

LEMMA FindGoes ==
  ASSUME Control, NEW p \in Proc, findmount(p)
  PROVE  pc'[p] # "idle"
<1>1. pc \in [Proc -> PC]
  BY DEF Control, Shapes
<1>2. CASE FindNs(p)
  BY <1>1, <1>2 DEF FindNs, Goto
<1>3. CASE FindNone(p) \/ Find(p)
  <2>1. Goto(p, Asked(p)) /\ pc[p] \in {"find", "findlk"}
    BY <1>3 DEF FindNone, Find, At
  <2> QED BY <1>1, <2>1, KeyFacts DEF Goto
<1> QED BY <1>2, <1>3 DEF findmount

(* A call stays the same until it ends.                                    *)
LEMMA OtherCalls ==
  ASSUME Control, NEW p \in Proc, pc[p] \in Making, me[p].call.op # "create",
         \/ findmount(p) \/ WalkUnion(p) \/ WalkFails(p) \/ UnionSearch(p) \/ createdir(p) \/ Create(p)
  PROVE  (pc'[p] # "idle" /\ me'[p].call = me[p].call) \/ (pc'[p] = "idle" /\ me'[p].res # "exists")
<1>1. /\ me[p] \in Locals /\ Shapes /\ me \in [Proc -> Locals]
      /\ me[p].res \in {"none", "nocreate"} /\ pc[p] \notin {"createdir", "create", "idle"}
  <2>1. me[p] \in Locals /\ Placed(p) /\ Shapes /\ pc[p] # "idle" /\ me \in [Proc -> Locals]
    BY Here DEF Control, Shapes, Making
  <2>2. Serves(pc[p], me[p].call.op) /\ Tries(pc[p], me[p])
    BY <2>1 DEF Placed
  <2>3. me[p].res \in {"none", "exists", "nocreate"}
    BY <2>1 DEF Locals
  <2> QED BY <2>1, <2>2, <2>3 DEF Serves, Tries
<1>2. CASE findmount(p)
  <2>1. me'[p].call = me[p].call
    <3>1. \A m \in Locals : Local(p, m) => me'[p] = m
      BY <1>1 DEF Local
    <3>2. CASE FindNs(p)
      BY <1>1, <3>2 DEF FindNs, Local, Locals
    <3>3. CASE FindNone(p)
      BY <1>1, <3>3 DEF FindNone, Local, Locals
    <3>4. CASE Find(p)
      BY <1>1, <3>4 DEF Find, Local, Locals
    <3> QED BY <1>2, <3>2, <3>3, <3>4 DEF findmount
  <2> QED BY <1>2, <2>1, FindGoes
<1>3. CASE WalkUnion(p)
  BY <1>1, <1>3 DEF WalkUnion, Goto, Shapes
<1>4. ASSUME NEW e \in {"none", "nocreate"}, End(p, e)
      PROVE  pc'[p] = "idle" /\ me'[p].res # "exists"
  BY <1>1, <1>4, EndFacts, EndIdle
<1>5. CASE WalkFails(p)
  <2>1. End(p, me[p].res)
    BY <1>5 DEF WalkFails, NotFound
  <2> QED BY <1>1, <1>4, <2>1
<1>6. CASE UnionSearch(p)
  <2>1. (pc' = pc /\ me' = me) \/ End(p, "none") \/ End(p, me[p].res)
    BY <1>6 DEF UnionSearch, NotFound
  <2> QED BY <1>1, <1>4, <2>1
<1>7. ~createdir(p) /\ ~Create(p)
  BY <1>1 DEF createdir, Create, At
<1> QED BY <1>2, <1>3, <1>5, <1>6, <1>7

(* Only an end, and a change, touch changed.                               *)
LEMMA OthersChanged ==
  ASSUME Control, NEW p \in Proc, NEW q \in Proc \ {p}, Begin(q) \/ Step(q)
  PROVE  Change \/ changed'[p] = changed[p]
<1>1. changed \in [Proc -> BOOLEAN]
  BY DEF Control, Shapes
<1>2. ASSUME NEW e, End(q, e) PROVE changed'[p] = changed[p]
  BY <1>1, <1>2 DEF End
<1>3. CASE Begin(q)
  BY <1>3 DEF Begin
<1>4. CASE Lookup(q)
  BY <1>2, <1>4 DEF Lookup, findmount, FindNs, FindNone, Find, Walk, WalkUnion, WalkFails,
                    UnionSearch, NotFound, UndoNs, undomount, Back, Return
<1>5. CASE Namec(q)
  BY <1>2, <1>5 DEF Namec, Open, unionread, ReadDone, Close, createdir, Create, Retry, Return
<1>6. CASE cmount(q)
  BY <1>2, <1>6 DEF cmount, Check, BindNs, BindLock, BindLink, Return
<1>7. CASE cunmount(q)
  BY <1>7 DEF cunmount, UnmountNs, UnmountOne, UnmountAll, UnmountFree
<1>8. CASE pgrpcpy(q)
  BY <1>1, <1>8 DEF pgrpcpy, ForkNs, ForkCopy, ForkIds, ForkOut, closepgrp
<1> QED BY <1>3, <1>4, <1>5, <1>6, <1>7, <1>8 DEF Step

(* A step of p's own.                                                      *)
LEMMA CreatingMine ==
  ASSUME Control, NEW p \in Proc, Begin(p) \/ Step(p), Creating(p)
  PROVE  /\ Creating(p)'
         /\ pc[p] # "idle" /\ pc'[p] = "idle" /\ me'[p].res = "exists" => changed[p]
<1>1. CASE Begin(p)
  BY <1>1, BeginMakes DEF Creating, Made
<1>2. CASE Step(p) /\ pc'[p] \notin Making /\ (pc'[p] = "idle" => me'[p].res # "exists")
  BY <1>2 DEF Creating, Starting, Entered, Unmounted, Making
<1>3. CASE Step(p) /\ ~(pc'[p] \notin Making /\ (pc'[p] = "idle" => me'[p].res # "exists"))
  <2>1. \/ findmount(p) \/ WalkUnion(p) \/ WalkFails(p) \/ UnionSearch(p) \/ createdir(p) \/ Create(p)
    BY <1>3, NotMaking
  <2>2. pc[p] \in Making
    BY <2>1 DEF findmount, FindNs, FindNone, Find, WalkUnion, WalkFails, UnionSearch, createdir,
                Create, At, Making
  <2>3. pc[p] # "idle" /\ me[p] \in Locals /\ Shapes /\ Placed(p) /\ Tries(pc[p], me[p])
    BY <2>2, Here DEF Making, Control, Placed
  <2>4. CASE me[p].call.op # "create"
    <3>1. \/ pc'[p] # "idle" /\ me'[p].call = me[p].call
          \/ pc'[p] = "idle" /\ me'[p].res # "exists"
      BY <2>1, <2>2, <2>4, OtherCalls
    <3> QED BY <2>4, <3>1 DEF Creating
  <2>5. CASE me[p].call.op = "create" /\ changed[p]
    <3>1. pc'[p] # "idle" => changed'[p]
      BY <1>3, <2>2, <2>5, ChangedKept
    <3> QED BY <2>5, <3>1 DEF Creating
  <2>6. CASE me[p].call.op = "create" /\ ~changed[p]
    <3>1. Made(p)
      BY <2>3, <2>6 DEF Creating, Made
    <3>2. Made(p)' => Creating(p)'
      BY DEF Made, Creating
    <3>3. pc'[p] = "idle" => Creating(p)'
      BY DEF Creating
    <3>4. CASE findmount(p)
      <4>1. Made(p)'
        BY <2>6, <3>1, <3>4, FindNsMakes, FindNoneMakes, FindMakes DEF findmount
      <4>2. pc'[p] # "idle"
        BY <2>3, <3>4, FindGoes
      <4> QED BY <3>2, <4>1, <4>2
    <3>5. CASE WalkUnion(p)
      <4>1. Made(p)'
        BY <2>6, <3>1, <3>5, WalkUnionMakes
      <4>2. pc'[p] # "idle"
        BY <2>3, <3>5 DEF WalkUnion, Goto, Shapes
      <4> QED BY <3>2, <4>1, <4>2
    <3>6. CASE createdir(p) \/ Create(p)
      BY <2>6, <3>1, <3>2, <3>3, <3>6, createdirMakes, CreateMakes
    <3>7. CASE WalkFails(p)
      <4>1. pc[p] = "walk" /\ me[p].c \notin has /\ me[p].m = Nil /\ NotFound(p)
        BY <3>7 DEF WalkFails, At
      <4>2. me[p].res # "exists"
        BY <3>1, <4>1 DEF Made, Unmounted
      <4> QED BY <2>6, <3>2, <3>3, <4>1, <4>2, NotFoundMakes
    <3>8. CASE UnionSearch(p)
      <4>1. pc[p] = "union"
        BY <3>8 DEF UnionSearch, At
      <4>2. CASE list[me[p].m] = <<>>
        <5>1. me[p].m # Nil
          BY <2>6, <4>1, CreateFacts DEF Making
        <5> QED BY <3>1, <4>1, <4>2, <5>1 DEF Made, Entered
      <4>3. CASE End(p, "none")
        <5>1. pc'[p] = "idle" /\ me'[p].res = "none"
          BY <2>3, <4>3, EndFacts, EndIdle
        <5> QED BY <3>3, <5>1
      <4>4. CASE NotFound(p) /\ ~\E i \in 2..Len(list[me[p].m]) : list[me[p].m][i].to \in has
        <5>1. me[p].m # Nil
          BY <2>6, <4>1, CreateFacts DEF Making
        <5>2. me[p].res # "exists"
          BY <3>1, <4>1, <4>4, <5>1 DEF Made, Entered, Some
        <5> QED BY <2>6, <3>2, <3>3, <4>1, <4>4, <5>2, NotFoundMakes
      <4> QED BY <3>8, <4>2, <4>3, <4>4 DEF UnionSearch
    <3> QED BY <2>1, <3>4, <3>5, <3>6, <3>7, <3>8
  <2> QED BY <2>4, <2>5, <2>6
<1> QED BY <1>1, <1>2, <1>3

LEMMA NextCreating ==
  ASSUME Control, Counts, \A p \in Proc : Creating(p), [Next]_vars
  PROVE  /\ (\A p \in Proc : Creating(p))'
         /\ \A p \in Proc : pc[p] # "idle" /\ pc'[p] = "idle" /\ me'[p].res = "exists" => changed[p]
<1> SUFFICES ASSUME NEW p \in Proc
             PROVE  /\ Creating(p)'
                    /\ pc[p] # "idle" /\ pc'[p] = "idle" /\ me'[p].res = "exists" => changed[p]
  OBVIOUS
<1>b. PICK b : b = me[p].b
  OBVIOUS
<1>1. ASSUME pc'[p] = pc[p], me'[p] = me[p], has \subseteq has', ~changed'[p] => ~changed[p],
             b \in Dir /\ ~changed'[p] /\ pc[p] # "idle" /\ me[p].call.op = "create" => Steady(b)
      PROVE  Creating(p)'
  <2>1. SUFFICES ASSUME pc[p] # "idle", me[p].call.op = "create", ~changed'[p] PROVE Creating(p)'
    BY <1>1 DEF Creating
  <2>2. Starting(p) /\ Entered(p) /\ Unmounted(p)
    BY <1>1, <2>1 DEF Creating
  <2>3. b \in Dir /\ b # Nil
    <3>1. Placed(p) /\ me[p].call.b \in Dir
      BY <2>1, Here
    <3>2. b = me[p].call.b
      BY <1>b, <2>1, <3>1 DEF Placed, Chans, Keeps
    <3> QED BY <3>1, <3>2, Names
  <2>4. Starting(p)' /\ Entered(p)' /\ Unmounted(p)'
    BY <1>1, <1>b, <2>1, <2>2, <2>3, CreatingKept
  <2> QED BY <2>4 DEF Creating
<1>2. ASSUME Change
      PROVE  /\ pc[p] # "idle" /\ me[p].call.op = "create" => changed'[p]
             /\ ~changed'[p] => ~changed[p]
  BY <1>2 DEF Change
<1>3. CASE UNCHANGED vars
  <2>1. pc' = pc /\ me' = me /\ has' = has /\ changed' = changed /\ table' = table /\ list' = list
    BY <1>3 DEF vars, heads, world
  <2>2. Steady(b)
    BY <2>1 DEF Steady, Pending
  <2> QED BY <1>1, <2>1, <2>2
<1>4. CASE Removed
  <2>1. pc' = pc /\ me' = me /\ Change
    BY <1>4 DEF Removed
  <2> QED BY <1>2, <2>1 DEF Creating
<1>5. ASSUME NEW q \in Proc \ {p}, Begin(q) \/ Step(q)
      PROVE  /\ Creating(p)'
             /\ pc[p] # "idle" /\ pc'[p] = "idle" /\ me'[p].res = "exists" => changed[p]
  <2>1. pc'[p] = pc[p] /\ me'[p] = me[p]
    BY <1>5, StepMoves DEF Moves, Others
  <2>2. has \subseteq has'
    BY <1>5, FilesGrow
  <2>3. Change \/ changed'[p] = changed[p]
    BY <1>5, OthersChanged
  <2>4. b \in Dir => Change \/ Steady(b)
    BY <1>5, StepSteady
  <2> QED BY <1>1, <1>2, <2>1, <2>2, <2>3, <2>4
<1>6. ASSUME Begin(p) \/ Step(p)
      PROVE  /\ Creating(p)'
             /\ pc[p] # "idle" /\ pc'[p] = "idle" /\ me'[p].res = "exists" => changed[p]
  BY <1>6, CreatingMine
<1> QED BY <1>3, <1>4, <1>5, <1>6 DEF Next, Rest

(* A create that finds the file there opens it, if nothing is mounted,     *)
(* unmounted or removed meanwhile.                                         *)
THEOREM SecondCreateOpens == Spec => CreateOpens
<1> DEFINE CreateInv == \A p \in Proc : Creating(p)
<1>1. Init => CreateInv
  <2> SUFFICES ASSUME Init, NEW p \in Proc PROVE Creating(p)
    OBVIOUS
  <2>1. pc[p] = "idle"
    BY DEF Init
  <2> QED BY <2>1 DEF Creating
<1>2. Control /\ Counts /\ CreateInv /\ [Next]_vars =>
        /\ CreateInv'
        /\ [\A p \in Proc : (pc[p] # "idle" /\ pc'[p] = "idle" /\ me'[p].res = "exists") => changed[p]]_vars
  BY NextCreating
<1> HIDE DEF CreateInv
<1> QED BY <1>1, <1>2, SpecControl, PTL DEF Spec, CreateOpens
=============================================================================
