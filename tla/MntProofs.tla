------------------------------ MODULE MntProofs ------------------------------
(***************************************************************************)
(* What holds of Mnt for any number of processes, requests, interrupts and *)
(* calls: ListedOnce, RepliesExpected and GateHeld of MCMnt's run,         *)
(* NoRpcLost of MCMntFlush's, and that the multiplexer implements          *)
(* RemoteCall.                                                             *)
(*                                                                         *)
(* The messages on their way to being demultiplexed, Flight, are the one   *)
(* the reader has in hand, those received by nobody yet and those the      *)
(* server has yet to answer, in this order: reading, answering and         *)
(* completing a request takes them from the front or moves them forward.   *)
(***************************************************************************)
EXTENDS Mnt, SequenceTheorems, WellFoundedInduction, FiniteSetTheorems, TLAPS

(* Linking p in leaves everybody else's place alone. *)
LEMMA AppendOrder ==
  ASSUME NEW P, NEW s \in Seq(P), NEW p \in P
  PROVE  /\ Append(s, p) \in Seq(P)
         /\ Append(s, p) # <<>>
         /\ Len(Append(s, p)) = Len(s) + 1
         /\ Append(s, p)[Len(s) + 1] = p
         /\ \A i \in 1..Len(s) : Append(s, p)[i] = s[i]
OBVIOUS

(* Unlinking the head moves everybody else up by one. *)
LEMMA TailOrder ==
  ASSUME NEW P, NEW s \in Seq(P), s # <<>>
  PROVE  /\ Tail(s) \in Seq(P)
         /\ Len(s) \in Nat \ {0}
         /\ Len(Tail(s)) = Len(s) - 1
         /\ Tail(s) = <<>> <=> Len(s) = 1
         /\ \A i \in 1..Len(s) - 1 : Tail(s)[i] = s[i + 1]
         /\ Head(s) = s[1]
         /\ s[1] \in P
<1>1. Len(s) \in Nat \ {0}
  BY EmptySeq
<1>2. Len(Tail(s)) = Len(s) - 1 /\ Tail(s) \in Seq(P)
  BY HeadTailProperties
<1>3. \A i \in 1..Len(s) - 1 : Tail(s)[i] = s[i + 1]
  BY <1>2, HeadTailProperties
<1>4. ASSUME Tail(s) = <<>> PROVE Len(s) = 1
  <2>1. Len(Tail(s)) = 0
    BY <1>4, EmptySeq, Zenon
  <2>2. Len(s) - 1 = 0
    BY <1>2, <2>1, Zenon
  <2> QED BY <1>1, <2>2
<1>5. ASSUME Len(s) = 1 PROVE Tail(s) = <<>>
  <2>1. Len(Tail(s)) \notin Nat \ {0}
    BY <1>2, <1>5
  <2> QED BY <1>2, <2>1, EmptySeq
<1>6. Head(s) = s[1] /\ s[1] \in P
  BY <1>1, ElementOfSeq
<1> QED BY <1>1, <1>2, <1>3, <1>4, <1>5, <1>6

(* A queue without repeats stays one, and the process taken off its head   *)
(* is no longer in it.                                                     *)
Distinct(s) == \A i, j \in 1..Len(s) : s[i] = s[j] => i = j

LEMMA TailDistinct ==
  ASSUME NEW P, NEW s \in Seq(P), s # <<>>, Distinct(s)
  PROVE  /\ Distinct(Tail(s))
         /\ \A i \in 1..Len(Tail(s)) : Tail(s)[i] # Head(s)
<1>1. \A i \in 1..Len(Tail(s)) : /\ i \in 1..Len(s) - 1
                                 /\ i + 1 \in 2..Len(s)
                                 /\ Tail(s)[i] = s[i + 1]
  BY TailOrder
<1>2. Head(s) = s[1] /\ 1 \in 1..Len(s)
  BY TailOrder
<1> QED BY <1>1, <1>2 DEF Distinct

LEMMA HandedOver ==
  ASSUME NEW P, NEW s \in Seq(P), s # <<>>, Distinct(s)
  PROVE  /\ Head(s) \in P /\ Tail(s) \in Seq(P) /\ Distinct(Tail(s))
         /\ \E j \in 1..Len(s) : Head(s) = s[j]
         /\ \A i \in 1..Len(Tail(s)) : /\ Tail(s)[i] # Head(s)
                                       /\ \E j \in 1..Len(s) : Tail(s)[i] = s[j]
<1>1. Head(s) \in P /\ Tail(s) \in Seq(P) /\ \E j \in 1..Len(s) : Head(s) = s[j]
  BY TailOrder
<1>2. \A i \in 1..Len(Tail(s)) : \E j \in 1..Len(s) : Tail(s)[i] = s[j]
  BY TailOrder
<1> QED BY <1>1, <1>2, TailDistinct

(* Every nonempty set of places in a queue, or of counts, has a least one. *)
LEMMA Least ==
  ASSUME NEW T \in SUBSET Nat, T # {}
  PROVE  \E x \in T : \A y \in T : x <= y
<1>1. PICK x \in T : \A y \in T : ~(<<y, x>> \in OpToRel(<, Nat))
  BY WFMin, NatLessThanWellFounded
<1>2. \A y \in T : ~(y < x)
  BY <1>1 DEF OpToRel
<1> QED BY <1>2

Waiting == {"gate", "sleep", "asleep", "woken", "reading", "mux", "notify"}
Leaving == {"free", "mark", "remove", "return"}

Reply == [tag : Rpc \cup {Nil}, kind : Kind \cup {"none"},
          old : Rpc \cup {Nil}, call : CallId \cup {Nil}]

Types == /\ free \in Seq(Rpc) /\ queue \in Seq(Rpc)
         /\ rip \in Proc \cup {Nil}
         /\ request \in [Rpc -> Message \cup {Blank}]
         /\ reply \in [Rpc -> Reply]
         /\ done \in [Rpc -> BOOLEAN]
         /\ flushed \in [Rpc -> Rpc \cup {Nil}]
         /\ rend \in [Rpc -> Proc \cup {Nil}]
         /\ pc \in [Proc -> PC]
         /\ cur \in [Proc -> Rpc \cup {Nil}]
         /\ orig \in [Proc -> Rpc \cup {Nil}]
         /\ peer \in [Proc -> Rpc \cup {Nil}]
         /\ err \in [Proc -> BOOLEAN]
         /\ calls \in [Proc -> 0..MaxCalls]
         /\ intrs \in 0..MaxIntr
         /\ srv \in Seq(Message) /\ rx \in Seq(Message)
         /\ hung \in BOOLEAN
         /\ served \in [Proc -> BOOLEAN]
         /\ got \in [Proc -> CallId \cup {Nil}]

(* A structure in use, and whose it is.                                    *)
Used(r)    == request[r].kind # "none"
Owns(p, r) == Used(r) /\ request[r].call = <<p, calls[p]>>

FreeInv == /\ Distinct(free)
           /\ \A r \in Rpc : (\E i \in 1..Len(free) : free[i] = r) <=> ~Used(r)
           /\ \A r \in Rpc : ~Used(r) => ~done[r] /\ flushed[r] = Nil

(* A process in a call has its request and the latest of its flushes.      *)
CallOf(p) ==
  /\ pc[p] # "idle" => /\ cur[p] \in Rpc /\ orig[p] \in Rpc
                       /\ Owns(p, cur[p]) /\ Owns(p, orig[p])
                       /\ calls[p] \in 1..MaxCalls /\ got[p] = Nil
  /\ pc[p] = "return" => cur[p] = orig[p] /\ done[cur[p]]
  /\ pc[p] = "flush" => ~err[p]
  /\ err[p] => hung

(* Every other structure is part of the chain of a call in progress: its   *)
(* request, or a flush of it that leads to another part.                   *)
OwnerOf(r) ==
  \E p \in Proc : /\ pc[p] # "idle" /\ Owns(p, r) /\ request[r].tag = r
                  /\ \/ request[r].kind = "T" /\ r = orig[p] /\ flushed[r] = Nil
                     \/ /\ request[r].kind = "Tflush" /\ r # orig[p]
                        /\ request[r].old = orig[p]
                        /\ flushed[r] \in Rpc /\ Owns(p, flushed[r])

(* d[r] is how many steps it is from r to the request.                     *)
Chain(d) ==
  \A p \in Proc : \A r, s \in Rpc : Owns(p, r) /\ Owns(p, s) =>
    /\ d[r] = d[s] => r = s
    /\ flushed[r] = s => d[r] = d[s] + 1
    /\ flushed[r] = Nil => d[r] = 0
    /\ d[r] <= d[cur[p]]

CallInv  == \A p \in Proc : CallOf(p)
OwnInv   == \A r \in Rpc : Used(r) => OwnerOf(r)
ChainInv == \E d \in [Rpc -> Nat] : Chain(d)

(* m->queue, and who can still expect to be found there.                   *)
ListOf(p) == /\ pc[p] \in Waiting \cup {"write"} => OnQueue(cur[p]) \/ done[cur[p]]
             /\ pc[p] = "link" => ~OnQueue(cur[p]) /\ ~done[cur[p]]
             /\ pc[p] = "write" /\ ~hung => ~done[cur[p]]
ListInv   == /\ Distinct(queue)
             /\ \A i \in 1..Len(queue) : Used(queue[i]) /\ ~done[queue[i]]
             /\ \A p \in Proc : ListOf(p)

ReadOf(p) == /\ rip = p => pc[p] \in {"reading", "mux", "notify", "caught"}
             /\ pc[p] \in {"reading", "mux", "notify"} => rip = p
             /\ pc[p] = "mux" => reply[cur[p]] \in Message
ReadInv   == \A p \in Proc : ReadOf(p)
RendInv   == \A r \in Rpc : rend[r] # Nil => pc[rend[r]] = "asleep" /\ cur[rend[r]] = r

(* Somebody sleeps; somebody is on his way to becoming the reader.         *)
Sleepers   == \E r \in Rpc : rend[r] # Nil /\ ~done[r]
Excused    == intrs > 0 /\ hung
Witness(p) == /\ \/ pc[p] \in {"gate", "sleep", "asleep", "woken"}
                 \/ pc[p] \in {"link", "write", "caught", "flush"} /\ intrs > 0
              /\ ~done[cur[p]] /\ rend[cur[p]] # p
GateInv    == rip = Nil /\ Sleepers => Excused \/ \E p \in Proc : Witness(p)

Muxed  == IF rip # Nil /\ pc[rip] = "mux" THEN <<reply[cur[rip]]>> ELSE <<>>
Flight == Muxed \o (rx \o srv)

ServerInv == /\ hung => srv = <<>>
             /\ \A i \in 1..Len(srv) : srv[i] = request[srv[i].tag]

(* While the connection lasts everybody is Good.  Later those are who have *)
(* sent all they need and had no error: only they may get a reply, and     *)
(* they have kept their tags since.                                        *)
Good(p) == ~err[p] /\ (hung => pc[p] \in Waiting \cup Leaving)

(* A message for p finds its request; none is left when p's latest is done.*)
Expected(p, m) == /\ m.call = <<p, calls[p]>> /\ OnQueue(m.tag)
                  /\ m.kind = "R" => served[p]
                  /\ ~done[cur[p]] /\ pc[p] \notin Leaving
                  /\ pc[p] \in {"link", "write"} => m.tag # cur[p]

(* p's messages have different tags, and the latest of its requests comes  *)
(* last.                                                                   *)
FlightOf(p, F) ==
  /\ \A i \in 1..Len(F) : Owns(p, F[i].tag) => Expected(p, F[i])
  /\ \A i, j \in 1..Len(F) : i < j /\ Owns(p, F[i].tag) /\ Owns(p, F[j].tag)
                               => F[i].tag # F[j].tag /\ F[i].tag # cur[p]

FlightInv == /\ ~hung => \A i \in 1..Len(Flight) : Used(Flight[i].tag)
             /\ \A p \in Proc : Good(p) => FlightOf(p, Flight)

(* What mountrpc will find in the reply.                                   *)
ReplyOf(p) ==
  /\ pc[p] # "idle" /\ Good(p) /\ reply[orig[p]].kind = "R"
  /\ done[orig[p]] \/ (pc[p] = "remove" /\ cur[p] = orig[p])
  => reply[orig[p]].call = <<p, calls[p]>> /\ served[p]
ReplyInv == \A p \in Proc : ReplyOf(p)

(* A flush, or one about to be made, for every interrupt.                  *)
Flushes  == {r \in Rpc : request[r].kind = "Tflush"}
Flushing == {p \in Proc : pc[p] \in {"caught", "flush"} /\ ~err[p]}
CountInv == Cardinality(Flushes) + Cardinality(Flushing) <= intrs

IInv == /\ Types /\ FreeInv /\ CallInv /\ OwnInv /\ ChainInv /\ ListInv
        /\ ReadInv /\ RendInv /\ GateInv /\ ServerInv /\ FlightInv
        /\ ReplyInv /\ CountInv

-----------------------------------------------------------------------------
(* Sequences: taking one element out, and the messages in flight.          *)

(* RemoveAt moves what is behind up by one.                                *)
LEMMA RemoveAtOrder ==
  ASSUME NEW P, NEW s \in Seq(P), NEW k \in 1..Len(s)
  PROVE  /\ RemoveAt(s, k) \in Seq(P)
         /\ Len(RemoveAt(s, k)) = Len(s) - 1
         /\ \A i \in 1..Len(s) - 1 : RemoveAt(s, k)[i] = IF i < k THEN s[i] ELSE s[i + 1]
<1> DEFINE a == SubSeq(s, 1, k - 1)
           b == SubSeq(s, k + 1, Len(s))
<1>1. /\ Len(s) \in Nat /\ k \in Nat /\ 1 <= k /\ k <= Len(s)
      /\ \A i \in 1..Len(s) : s[i] \in P
  BY LenProperties, ElementOfSeq
<1>2. /\ a \in Seq(P) /\ Len(a) = k - 1
      /\ \A i \in 1..k - 1 : a[i] = s[i]
  <2>1. \A i \in 1..k - 1 : s[i] \in P
    BY <1>1
  <2>2. /\ a \in Seq(P) /\ Len(a) = IF 1 <= k - 1 THEN k - 1 - 1 + 1 ELSE 0
        /\ \A i \in 1..k - 1 - 1 + 1 : a[i] = s[1 + i - 1]
    BY <1>1, <2>1, SubSeqProperties
  <2> HIDE DEF a
  <2>3. Len(a) = k - 1
    BY <1>1, <2>2
  <2>4. ASSUME NEW i \in 1..k - 1 PROVE a[i] = s[i]
    <3>1. i \in 1..k - 1 - 1 + 1 /\ 1 + i - 1 = i
      BY <1>1
    <3> QED BY <2>2, <3>1
  <2> QED BY <2>2, <2>3, <2>4
<1>3. /\ b \in Seq(P) /\ Len(b) = Len(s) - k
      /\ \A i \in 1..Len(s) - k : b[i] = s[k + i]
  <2>1. \A i \in k + 1..Len(s) : s[i] \in P
    BY <1>1
  <2>2. k + 1 \in Int /\ Len(s) \in Int
    BY <1>1
  <2>3. /\ b \in Seq(P) /\ Len(b) = IF k + 1 <= Len(s) THEN Len(s) - (k + 1) + 1 ELSE 0
        /\ \A i \in 1..Len(s) - (k + 1) + 1 : b[i] = s[k + 1 + i - 1]
    BY <2>1, <2>2, SubSeqProperties
  <2> HIDE DEF b
  <2>4. Len(b) = Len(s) - k
    BY <1>1, <2>3
  <2>5. ASSUME NEW i \in 1..Len(s) - k PROVE b[i] = s[k + i]
    <3>1. i \in 1..Len(s) - (k + 1) + 1 /\ k + 1 + i - 1 = k + i
      BY <1>1
    <3> QED BY <2>3, <3>1
  <2> QED BY <2>3, <2>4, <2>5
<1>4. RemoveAt(s, k) = a \o b
  BY DEF RemoveAt
<1> HIDE DEF a, b
<1>5. /\ a \o b \in Seq(P) /\ Len(a \o b) = Len(a) + Len(b)
      /\ \A i \in 1..Len(a) + Len(b) : (a \o b)[i] = IF i <= Len(a) THEN a[i] ELSE b[i - Len(a)]
  BY <1>2, <1>3, ConcatProperties
<1>6. Len(a) + Len(b) = Len(s) - 1
  BY <1>1, <1>2, <1>3
<1>7. ASSUME NEW i \in 1..Len(s) - 1
      PROVE  (a \o b)[i] = IF i < k THEN s[i] ELSE s[i + 1]
  <2>1. CASE i < k
    <3>1. i \in 1..k - 1 /\ i <= Len(a)
      BY <1>1, <1>2, <2>1
    <3>2. (a \o b)[i] = a[i]
      BY <1>5, <1>6, <3>1
    <3> QED BY <1>2, <2>1, <3>1, <3>2
  <2>2. CASE ~(i < k)
    <3>1. i - (k - 1) \in 1..Len(s) - k /\ ~(i <= Len(a)) /\ k + (i - (k - 1)) = i + 1
      BY <1>1, <1>2, <2>2
    <3>2. (a \o b)[i] = b[i - Len(a)]
      BY <1>5, <1>6, <3>1
    <3>3. i - Len(a) = i - (k - 1)
      BY <1>2
    <3>4. b[i - (k - 1)] = s[i + 1]
      BY <1>3, <3>1
    <3> QED BY <2>2, <3>2, <3>3, <3>4
  <2> QED BY <2>1, <2>2
<1> QED BY <1>4, <1>5, <1>6, <1>7

(* Which indexes they come from.                                           *)
LEMMA RemoveAtElements ==
  ASSUME NEW P, NEW s \in Seq(P), NEW k \in 1..Len(s), Distinct(s)
  PROVE  /\ Distinct(RemoveAt(s, k))
         /\ \A i \in 1..Len(RemoveAt(s, k)) :
              \E j \in 1..Len(s) : RemoveAt(s, k)[i] = s[j] /\ s[j] # s[k]
         /\ \A j \in 1..Len(s) : s[j] # s[k] =>
              \E i \in 1..Len(RemoveAt(s, k)) : RemoveAt(s, k)[i] = s[j]
<1> DEFINE t == RemoveAt(s, k)
<1>1. Len(s) \in Nat /\ k \in Nat
  BY LenProperties
<1>2. /\ Len(t) = Len(s) - 1
      /\ \A i \in 1..Len(s) - 1 : t[i] = IF i < k THEN s[i] ELSE s[i + 1]
  BY RemoveAtOrder
<1> HIDE DEF t
<1>3. ASSUME NEW i \in 1..Len(t)
      PROVE  \E j \in 1..Len(s) : /\ t[i] = s[j] /\ j # k
                                  /\ j = IF i < k THEN i ELSE i + 1
  <2>1. CASE i < k
    BY <1>1, <1>2, <2>1
  <2>2. CASE ~(i < k)
    BY <1>1, <1>2, <2>2
  <2> QED BY <2>1, <2>2
<1>4. Distinct(t)
  <2> SUFFICES ASSUME NEW i \in 1..Len(t), NEW j \in 1..Len(t), t[i] = t[j] PROVE i = j
    BY DEF Distinct
  <2>1. PICK x \in 1..Len(s) : t[i] = s[x] /\ x = IF i < k THEN i ELSE i + 1
    BY <1>3
  <2>2. PICK y \in 1..Len(s) : t[j] = s[y] /\ y = IF j < k THEN j ELSE j + 1
    BY <1>3
  <2>3. x = y
    BY <2>1, <2>2 DEF Distinct
  <2> QED BY <1>1, <1>2, <2>1, <2>2, <2>3
<1>5. \A i \in 1..Len(t) : \E j \in 1..Len(s) : t[i] = s[j] /\ s[j] # s[k]
  BY <1>3 DEF Distinct
<1>6. ASSUME NEW j \in 1..Len(s), s[j] # s[k]
      PROVE  \E i \in 1..Len(t) : t[i] = s[j]
  <2>1. CASE j < k
    <3>1. j \in 1..Len(t) /\ t[j] = s[j]
      BY <1>1, <1>2, <2>1
    <3> QED BY <3>1
  <2>2. CASE ~(j < k)
    <3>1. j # k
      BY <1>6
    <3>2. j - 1 \in 1..Len(t) /\ ~(j - 1 < k) /\ j - 1 + 1 = j
      BY <1>1, <1>2, <2>2, <3>1
    <3>3. t[j - 1] = s[j]
      BY <1>2, <3>2
    <3> QED BY <3>2, <3>3
  <2> QED BY <2>1, <2>2
<1> QED BY <1>4, <1>5, <1>6 DEF t

(* Without(r) takes r off m->queue and nothing else.                       *)
LEMMA WithoutQueue ==
  ASSUME Types, Distinct(queue), NEW r
  PROVE  /\ Without(r) \in Seq(Rpc) /\ Distinct(Without(r))
         /\ \A x : (\E i \in 1..Len(Without(r)) : Without(r)[i] = x) <=> OnQueue(x) /\ x # r
<1>1. queue \in Seq(Rpc)
  BY DEF Types
<1>2. CASE ~OnQueue(r)
  <2>1. Without(r) = queue
    BY <1>2 DEF Without, RemoveFirst, OnQueue
  <2> QED BY <1>1, <1>2, <2>1 DEF OnQueue
<1>3. CASE OnQueue(r)
  <2> DEFINE I == {i \in 1..Len(queue) : queue[i] = r}
             k == SelectInSeq(queue, LAMBDA v : v = r)
  <2>1. k = IF I # {} THEN Min(I) ELSE 0
    BY DEF SelectInSeq
  <2>2. PICK w \in I : \A y \in I : w <= y
    <3>1. I # {} /\ I \in SUBSET Nat
      BY <1>3 DEF OnQueue
    <3> HIDE DEF I
    <3> QED BY <3>1, Least
  <2>3. Min(I) \in I
    BY <2>2 DEF Min
  <2>4. k \in 1..Len(queue) /\ queue[k] = r
    BY <2>1, <2>3
  <2>5. Without(r) = RemoveAt(queue, k)
    BY <1>3 DEF Without, RemoveFirst, OnQueue
  <2> HIDE DEF k, I
  <2>6. /\ Distinct(RemoveAt(queue, k)) /\ RemoveAt(queue, k) \in Seq(Rpc)
        /\ \A i \in 1..Len(RemoveAt(queue, k)) :
             \E j \in 1..Len(queue) : RemoveAt(queue, k)[i] = queue[j] /\ queue[j] # queue[k]
        /\ \A j \in 1..Len(queue) : queue[j] # queue[k] =>
             \E i \in 1..Len(RemoveAt(queue, k)) : RemoveAt(queue, k)[i] = queue[j]
    BY <1>1, <2>4, RemoveAtElements, RemoveAtOrder
  <2> DEFINE u == Without(r)
  <2>7. /\ Distinct(u) /\ u \in Seq(Rpc)
        /\ \A i \in 1..Len(u) : \E j \in 1..Len(queue) : u[i] = queue[j] /\ queue[j] # r
        /\ \A j \in 1..Len(queue) : queue[j] # r => \E i \in 1..Len(u) : u[i] = queue[j]
    BY <2>4, <2>5, <2>6
  <2> HIDE DEF u
  <2>8. \A x : (\E i \in 1..Len(u) : u[i] = x) <=> OnQueue(x) /\ x # r
    BY <2>7 DEF OnQueue
  <2> QED BY <2>7, <2>8 DEF u
<1> QED BY <1>2, <1>3

(* The server drops at most one request, the first with the tag.           *)
LEMMA DropFirst ==
  ASSUME NEW P, NEW s \in Seq(P), NEW t
  PROVE  LET e == RemoveFirstMatch(s, LAMBDA x : x.tag = t)
         IN \/ e = s /\ \A i \in 1..Len(s) : s[i].tag # t
            \/ \E k \in 1..Len(s) : s[k].tag = t /\ e = RemoveAt(s, k)
<1> DEFINE e == RemoveFirstMatch(s, LAMBDA x : x.tag = t)
<1>1. CASE \A i \in 1..Len(s) : s[i].tag # t
  <2>1. e = s
    BY <1>1 DEF RemoveFirstMatch
  <2> QED BY <1>1, <2>1
<1>2. CASE \E i \in 1..Len(s) : s[i].tag = t
  <2> DEFINE I == {i \in 1..Len(s) : s[i].tag = t}
             k == SelectInSeq(s, LAMBDA x : x.tag = t)
  <2>1. k = IF I # {} THEN Min(I) ELSE 0
    BY DEF SelectInSeq
  <2>2. PICK w \in I : \A y \in I : w <= y
    <3>1. I # {} /\ I \in SUBSET Nat
      BY <1>2
    <3> HIDE DEF I
    <3> QED BY <3>1, Least
  <2>3. Min(I) \in I
    BY <2>2 DEF Min
  <2>4. k \in 1..Len(s) /\ s[k].tag = t
    BY <2>1, <2>3
  <2>5. e = RemoveAt(s, k)
    BY <1>2 DEF RemoveFirstMatch
  <2> QED BY <2>4, <2>5
<1> QED BY <1>1, <1>2

(* Three sequences after one another, index by index.                      *)
LEMMA Concat3 ==
  ASSUME NEW P, NEW h \in Seq(P), NEW a \in Seq(P), NEW b \in Seq(P)
  PROVE  LET F == h \o (a \o b)
         IN /\ F \in Seq(P) /\ a \o b \in Seq(P)
            /\ Len(F) = Len(h) + Len(a) + Len(b)
            /\ Len(h) \in Nat /\ Len(a) \in Nat /\ Len(b) \in Nat
            /\ \A i \in 1..Len(F) :
                 /\ i <= Len(h) => F[i] = h[i]
                 /\ i > Len(h) /\ i <= Len(h) + Len(a) => F[i] = a[i - Len(h)]
                 /\ i > Len(h) + Len(a) => F[i] = b[i - Len(h) - Len(a)]
<1> DEFINE t == a \o b
<1>1. Len(h) \in Nat /\ Len(a) \in Nat /\ Len(b) \in Nat
  BY LenProperties
<1>2. /\ t \in Seq(P) /\ Len(t) = Len(a) + Len(b)
      /\ \A i \in 1..Len(a) + Len(b) : t[i] = IF i <= Len(a) THEN a[i] ELSE b[i - Len(a)]
  BY ConcatProperties
<1> HIDE DEF t
<1>a. t \in Seq(P)
  BY <1>2
<1>b. /\ h \o t \in Seq(P) /\ Len(h \o t) = Len(h) + Len(t)
      /\ \A i \in 1..Len(h) + Len(t) : (h \o t)[i] = IF i <= Len(h) THEN h[i] ELSE t[i - Len(h)]
  BY <1>a, ConcatProperties
<1> DEFINE F == h \o t
<1>3. /\ F \in Seq(P) /\ Len(F) = Len(h) + Len(t)
      /\ \A i \in 1..Len(h) + Len(t) : F[i] = IF i <= Len(h) THEN h[i] ELSE t[i - Len(h)]
  BY <1>b
<1> HIDE DEF F
<1>4. Len(F) = Len(h) + Len(a) + Len(b)
  BY <1>1, <1>2, <1>3
<1>5. ASSUME NEW i \in 1..Len(F)
      PROVE  /\ i <= Len(h) => F[i] = h[i]
             /\ i > Len(h) /\ i <= Len(h) + Len(a) => F[i] = a[i - Len(h)]
             /\ i > Len(h) + Len(a) => F[i] = b[i - Len(h) - Len(a)]
  <2>1. i \in 1..Len(h) + Len(t)
    BY <1>3
  <2>2. F[i] = IF i <= Len(h) THEN h[i] ELSE t[i - Len(h)]
    BY <1>3, <2>1
  <2>3. CASE i <= Len(h)
    BY <1>1, <2>2, <2>3
  <2>4. CASE i > Len(h)
    <3>1. i - Len(h) \in 1..Len(a) + Len(b) /\ ~(i <= Len(h))
      BY <1>1, <1>2, <2>1, <2>4
    <3>2. F[i] = IF i - Len(h) <= Len(a) THEN a[i - Len(h)] ELSE b[i - Len(h) - Len(a)]
      BY <1>2, <2>2, <3>1
    <3>3. i \in Int
      OBVIOUS
    <3> QED BY <1>1, <2>4, <3>2, <3>3
  <2>5. i \in Int
    OBVIOUS
  <2> QED BY <1>1, <2>3, <2>4, <2>5
<1> QED BY <1>1, <1>2, <1>3, <1>4, <1>5 DEF F, t

(* Nil is neither a process nor a structure.                               *)
LEMMA NilRpc == Nil \notin Rpc /\ Nil \notin Proc
BY BoundAssumption, RpcAssumption DEF Rpc

-----------------------------------------------------------------------------
(* Who owns what.                                                          *)

(* A structure in use holds a message, a free one none.                    *)
LEMMA RequestOf ==
  ASSUME Types, NEW r \in Rpc
  PROVE  /\ Used(r) <=> request[r] \in Message
         /\ ~Used(r) <=> request[r] = Blank
<1>1. request[r] \in Message \/ request[r] = Blank
  BY DEF Types
<1>2. Blank.kind = "none" /\ \A m \in Message : m.kind # "none"
  BY DEF Blank, Message, Kind
<1> QED BY <1>1, <1>2 DEF Used

(* Calls of different processes are different.                             *)
LEMMA OneOwner ==
  ASSUME NEW p, NEW q, NEW r, Owns(p, r), Owns(q, r)
  PROVE  p = q
BY DEF Owns

(* The owner is in the call, and knows the request of the chain.           *)
LEMMA Owned ==
  ASSUME OwnInv, NEW p \in Proc, NEW r \in Rpc, Owns(p, r)
  PROVE  /\ pc[p] # "idle" /\ request[r].tag = r
         /\ \/ request[r].kind = "T" /\ r = orig[p] /\ flushed[r] = Nil
            \/ /\ request[r].kind = "Tflush" /\ r # orig[p]
               /\ request[r].old = orig[p]
               /\ flushed[r] \in Rpc /\ Owns(p, flushed[r])
<1>1. PICK q \in Proc : /\ pc[q] # "idle" /\ Owns(q, r) /\ request[r].tag = r
                        /\ \/ request[r].kind = "T" /\ r = orig[q] /\ flushed[r] = Nil
                           \/ /\ request[r].kind = "Tflush" /\ r # orig[q]
                              /\ request[r].old = orig[q]
                              /\ flushed[r] \in Rpc /\ Owns(q, flushed[r])
  BY DEF OwnInv, OwnerOf, Owns
<1>2. q = p
  BY <1>1, OneOwner
<1> QED BY <1>1, <1>2

(* A process without flushes has one structure.                            *)
LEMMA NoFlush ==
  ASSUME Types, CallInv, OwnInv, ChainInv, NEW p \in Proc, NEW r \in Rpc, Owns(p, r),
         flushed[cur[p]] = Nil
  PROVE  r = cur[p] /\ cur[p] = orig[p]
<1>1. pc[p] # "idle"
  BY Owned
<1>2. cur[p] \in Rpc /\ Owns(p, cur[p])
  BY <1>1 DEF CallInv, CallOf
<1>3. PICK d \in [Rpc -> Nat] : Chain(d)
  BY DEF ChainInv
<1>4. d[cur[p]] = 0 /\ d[r] <= d[cur[p]] /\ (d[r] = d[cur[p]] => r = cur[p])
  BY <1>2, <1>3 DEF Chain
<1>5. r = cur[p]
  BY <1>3, <1>4
<1>6. cur[p] = orig[p]
  <2>1. \/ request[cur[p]].kind = "T" /\ cur[p] = orig[p]
        \/ flushed[cur[p]] \in Rpc
    BY <1>2, Owned
  <2>2. Nil \notin Rpc
    BY NilRpc
  <2> QED BY <2>1, <2>2
<1> QED BY <1>5, <1>6

(* While the connection lasts everybody is Good.                           *)
LEMMA GoodWhenUp ==
  ASSUME CallInv, ~hung, NEW p \in Proc
  PROVE  Good(p)
BY DEF CallInv, CallOf, Good

-----------------------------------------------------------------------------
(* Where the messages in flight are.                                       *)
LEMMA FlightSeq ==
  ASSUME Types, ReadInv
  PROVE  /\ Flight \in Seq(Message) /\ Muxed \in Seq(Message) /\ rx \o srv \in Seq(Message)
         /\ Len(Flight) = Len(Muxed) + Len(rx) + Len(srv)
         /\ Len(Muxed) \in {0, 1} /\ Len(rx) \in Nat /\ Len(srv) \in Nat
         /\ \A i \in 1..Len(Flight) :
              /\ i <= Len(Muxed) => Flight[i] = Muxed[i]
              /\ i > Len(Muxed) /\ i <= Len(Muxed) + Len(rx) => Flight[i] = rx[i - Len(Muxed)]
              /\ i > Len(Muxed) + Len(rx) => Flight[i] = srv[i - Len(Muxed) - Len(rx)]
<1>1. rx \in Seq(Message) /\ srv \in Seq(Message) /\ Len(rx) \in Nat /\ Len(srv) \in Nat
  BY LenProperties DEF Types
<1>2. Muxed \in Seq(Message) /\ Len(Muxed) \in {0, 1}
  <2>1. CASE rip # Nil /\ pc[rip] = "mux"
    <3>1. reply[cur[rip]] \in Message
      BY <2>1 DEF Types, ReadInv, ReadOf
    <3> QED BY <2>1, <3>1 DEF Muxed
  <2>2. CASE ~(rip # Nil /\ pc[rip] = "mux")
    BY <2>2 DEF Muxed
  <2> QED BY <2>1, <2>2
<1> QED BY <1>1, <1>2, Concat3 DEF Flight

(* A step of p that neither begins nor ends with a message in hand.        *)
LEMMA MuxedKept ==
  ASSUME ReadInv, NEW p \in Proc, pc[p] # "mux", pc'[p] # "mux",
         \A q \in Proc \ {p} : pc'[q] = pc[q] /\ cur'[q] = cur[q],
         \A q \in Proc \ {p} : pc[q] = "mux" => reply'[cur[q]] = reply[cur[q]],
         rip \in Proc \cup {Nil}, rip' \in Proc \cup {Nil},
         rip' = rip \/ {rip, rip'} \subseteq {p, Nil}
  PROVE  Muxed' = Muxed
<1>1. CASE rip' = rip /\ rip \notin {p, Nil}
  <2>1. rip \in Proc \ {p}
    BY <1>1
  <2> QED BY <1>1, <2>1 DEF Muxed
<1>2. CASE {rip, rip'} \subseteq {p, Nil}
  BY <1>2 DEF Muxed
<1> QED BY <1>1, <1>2

-----------------------------------------------------------------------------
(* What a step of p alone leaves of each part of the invariant.            *)
Alone(p) == \A q \in Proc \ {p} :
              /\ pc'[q] = pc[q] /\ cur'[q] = cur[q] /\ orig'[q] = orig[q]
              /\ err'[q] = err[q] /\ calls'[q] = calls[q] /\ got'[q] = got[q]

(* Nothing is allocated, freed or chained.                                 *)
LEMMA ChainsKept ==
  ASSUME OwnInv, ChainInv, UNCHANGED <<request, flushed, cur, orig, calls>>,
         \A q \in Proc : pc[q] # "idle" => pc'[q] # "idle"
  PROVE  OwnInv' /\ ChainInv'
<1>1. OwnInv'
  <2> SUFFICES ASSUME NEW r \in Rpc, Used(r) PROVE OwnerOf(r)'
    BY DEF OwnInv, Used
  <2>1. OwnerOf(r)
    BY DEF OwnInv
  <2> QED BY <2>1 DEF OwnerOf, Owns, Used
<1>2. ChainInv'
  <2>1. PICK d \in [Rpc -> Nat] : Chain(d)
    BY DEF ChainInv
  <2>2. Chain(d)'
    BY <2>1 DEF Chain, Owns, Used
  <2> QED BY <2>2 DEF ChainInv
<1> QED BY <1>1, <1>2

(* The free list and its structures are as they were.                      *)
LEMMA FreeKept ==
  ASSUME FreeInv, UNCHANGED <<free, request, flushed>>,
         \A r \in Rpc : ~Used(r) => done'[r] = done[r]
  PROVE  FreeInv'
BY DEF FreeInv, Used, Distinct

(* Only the call of p has to be looked at,                                 *)
LEMMA CallKept ==
  ASSUME CallInv, NEW p \in Proc, Alone(p), CallOf(p)', hung => hung',
         \A q \in Proc \ {p} : \A r \in Rpc : Owns(q, r) => Owns(q, r)',
         \A q \in Proc \ {p} : pc[q] = "return" => done'[cur[q]]
  PROVE  CallInv'
<1> SUFFICES ASSUME NEW q \in Proc \ {p} PROVE CallOf(q)'
  BY DEF CallInv
<1>1. CallOf(q)
  BY DEF CallInv
<1>2. /\ pc'[q] = pc[q] /\ cur'[q] = cur[q] /\ orig'[q] = orig[q]
      /\ err'[q] = err[q] /\ calls'[q] = calls[q] /\ got'[q] = got[q]
  BY DEF Alone
<1>3. pc[q] # "idle" => Owns(q, cur[q])' /\ Owns(q, orig[q])'
  <2>1. ASSUME pc[q] # "idle" PROVE /\ cur[q] \in Rpc /\ orig[q] \in Rpc
                                    /\ Owns(q, cur[q]) /\ Owns(q, orig[q])
    BY <1>1, <2>1 DEF CallOf
  <2>2. ASSUME pc[q] # "idle" PROVE request'[cur[q]].kind # "none" /\ request'[orig[q]].kind # "none"
                                 /\ request'[cur[q]].call = <<q, calls'[q]>>
                                 /\ request'[orig[q]].call = <<q, calls'[q]>>
    BY <2>1, <2>2 DEF Owns, Used
  <2> QED BY <1>2, <2>2 DEF Owns, Used
<1> QED BY <1>1, <1>2, <1>3 DEF CallOf

(* its place on m->queue, which nobody leaves or joins,                    *)
LEMMA ListKept ==
  ASSUME ListInv, NEW p \in Proc, Alone(p), ListOf(p)', queue' = queue,
         \A i \in 1..Len(queue) : Used(queue[i])' /\ ~done'[queue[i]],
         hung => hung',
         \A q \in Proc \ {p} : pc[q] \in Waiting \cup {"link", "write"} => done'[cur[q]] = done[cur[q]]
  PROVE  ListInv'
<1>1. ASSUME NEW q \in Proc \ {p} PROVE ListOf(q)'
  <2>1. ListOf(q) /\ pc'[q] = pc[q] /\ cur'[q] = cur[q]
    BY DEF ListInv, Alone
  <2> QED BY <2>1 DEF ListOf, OnQueue
<1>2. \A i \in 1..Len(queue') : request'[queue'[i]].kind # "none" /\ ~done'[queue'[i]]
  BY DEF Used
<1>3. Distinct(queue')
  BY DEF ListInv
<1>4. \A q \in Proc : ListOf(q)'
  BY <1>1
<1> QED BY <1>2, <1>3, <1>4 DEF ListInv, Used

(* what it has of the connection,                                          *)
LEMMA ReadKept ==
  ASSUME ReadInv, NEW p \in Proc, Alone(p), ReadOf(p)',
         rip' = rip \/ {rip, rip'} \subseteq {p, Nil},
         \A q \in Proc \ {p} : pc[q] = "mux" => reply'[cur[q]] = reply[cur[q]]
  PROVE  ReadInv'
<1> SUFFICES ASSUME NEW q \in Proc \ {p} PROVE ReadOf(q)'
  BY DEF ReadInv
<1>1. ReadOf(q) /\ pc'[q] = pc[q] /\ cur'[q] = cur[q] /\ q # Nil
  BY NilRpc DEF ReadInv, Alone
<1>2. rip' = q <=> rip = q
  BY <1>1
<1> QED BY <1>1, <1>2 DEF ReadOf

(* where it is posted,                                                     *)
LEMMA RendKept ==
  ASSUME RendInv, NEW p \in Proc, Alone(p), rend \in [Rpc -> Proc \cup {Nil}],
         \A r \in Rpc : \/ rend'[r] = Nil
                        \/ rend'[r] = rend[r] /\ rend[r] # p
                        \/ rend'[r] = p /\ pc'[p] = "asleep" /\ cur'[p] = r
  PROVE  RendInv'
<1> SUFFICES ASSUME NEW r \in Rpc, rend'[r] # Nil
             PROVE  pc'[rend'[r]] = "asleep" /\ cur'[rend'[r]] = r
  BY DEF RendInv
<1>1. CASE rend'[r] = rend[r] /\ rend[r] # p
  <2>1. rend[r] \in Proc \ {p} /\ pc[rend[r]] = "asleep" /\ cur[rend[r]] = r
    BY <1>1 DEF RendInv
  <2> QED BY <1>1, <2>1 DEF Alone
<1> QED BY <1>1

(* whether the gate still has its witness,                                 *)
LEMMA GateKept ==
  ASSUME GateInv, rip' = Nil /\ Sleepers' => rip = Nil /\ Sleepers,
         Excused => Excused',
         \A q \in Proc : rip' = Nil /\ Witness(q) => Excused' \/ \E x \in Proc : Witness(x)'
  PROVE  GateInv'
BY DEF GateInv

(* A witness other than p stays one.                                       *)
LEMMA WitnessKept ==
  ASSUME NEW p \in Proc, NEW q \in Proc \ {p}, Alone(p), Witness(q),
         intrs > 0 => intrs' > 0, ~done'[cur[q]],
         rend'[cur[q]] # q
  PROVE  Witness(q)'
<1>1. pc'[q] = pc[q] /\ cur'[q] = cur[q]
  BY DEF Alone
<1> QED BY <1>1 DEF Witness

(* and its reply.                                                          *)
LEMMA ReplyKept ==
  ASSUME ReplyInv, NEW p \in Proc, Alone(p), ReplyOf(p)', hung => hung',
         \A q \in Proc \ {p} : pc[q] # "idle" =>
           /\ reply'[orig[q]] = reply[orig[q]] /\ done'[orig[q]] = done[orig[q]]
           /\ served[q] => served'[q]
  PROVE  ReplyInv'
<1> SUFFICES ASSUME NEW q \in Proc \ {p} PROVE ReplyOf(q)'
  BY DEF ReplyInv
<1>1. /\ ReplyOf(q) /\ pc'[q] = pc[q] /\ cur'[q] = cur[q] /\ orig'[q] = orig[q]
      /\ err'[q] = err[q] /\ calls'[q] = calls[q]
  BY DEF ReplyInv, Alone
<1>2. Good(q)' => Good(q)
  BY <1>1 DEF Good
<1> QED BY <1>1, <1>2 DEF ReplyOf

(* The constants and counters, from RpcAssumption and Types.               *)
LEMMA Counts ==
  /\ IsFiniteSet(Rpc) /\ Cardinality(Rpc) = NRpc /\ IsFiniteSet(Flushes)
  /\ IsFiniteSet(Flushing) /\ IsFiniteSet(Proc)
  /\ Cardinality(Flushes) \in Nat /\ Cardinality(Flushing) \in Nat
  /\ Cardinality(Proc) \in Nat /\ NRpc \in Nat
  /\ NRpc >= Cardinality(Proc) + MaxIntr /\ MaxIntr \in Nat
<1>1. IsFiniteSet(Rpc) /\ Cardinality(Rpc) = NRpc
  BY RpcAssumption, FS_Interval DEF Rpc
<1>2. IsFiniteSet(Flushes) /\ IsFiniteSet(Flushing)
  BY <1>1, RpcAssumption, FS_Subset DEF Flushes, Flushing
<1> QED BY <1>1, <1>2, FS_CardinalityType, RpcAssumption, BoundAssumption

(* No interrupt becomes a flush.                                           *)
LEMMA CountKept ==
  ASSUME Types, Types', CountInv, request' = request, Flushing' \subseteq Flushing, intrs <= intrs'
  PROVE  CountInv'
<1>1. Flushes' = Flushes
  BY DEF Flushes
<1>2. Cardinality(Flushing') <= Cardinality(Flushing) /\ Cardinality(Flushing') \in Nat
  BY Counts, FS_Subset, FS_CardinalityType
<1>3. Cardinality(Flushes') + Cardinality(Flushing') <= intrs'
  <2>1. intrs \in Nat /\ intrs' \in Nat
    BY BoundAssumption DEF Types
  <2> QED BY <1>1, <1>2, <2>1, Counts DEF CountInv
<1> QED BY <1>3 DEF CountInv

(* The messages in flight are those that were, or those but the first.     *)
LEMMA FlightKept ==
  ASSUME FlightInv, NEW F, F = Flight, NEW G, G = Flight', NEW k \in {0, 1},
         Len(F) \in Nat, Len(G) \in Nat, Len(G) + k <= Len(F),
         \A i \in 1..Len(G) : G[i] = F[i + k],
         hung => hung',
         ~hung' => \A i \in 1..Len(F) : Used(F[i].tag) => Used(F[i].tag)',
         \A q \in Proc : \A i \in 1..Len(F) :
           i > k /\ Good(q)' /\ Owns(q, F[i].tag)' =>
             /\ Good(q) /\ Owns(q, F[i].tag) /\ (F[i].tag = cur'[q] => F[i].tag = cur[q])
             /\ Expected(q, F[i]) /\ FlightOf(q, F) => Expected(q, F[i])'
  PROVE  FlightInv'
<1>1. \A i \in 1..Len(G) : i + k \in 1..Len(F) /\ i + k > k
  OBVIOUS
<1>2. ASSUME ~hung' PROVE \A i \in 1..Len(G) : Used(G[i].tag)'
  BY <1>1, <1>2 DEF FlightInv
<1>3. ASSUME NEW q \in Proc, Good(q)' PROVE FlightOf(q, G)'
  <2>1. ASSUME NEW i \in 1..Len(G), Owns(q, G[i].tag)'
        PROVE  /\ Good(q) /\ Owns(q, F[i + k].tag) /\ Expected(q, G[i])'
               /\ FlightOf(q, F) /\ (G[i].tag = cur'[q] => G[i].tag = cur[q])
    <3>1. G[i] = F[i + k] /\ i + k \in 1..Len(F) /\ i + k > k
      BY <1>1
    <3>2. Owns(q, F[i + k].tag)'
      BY <2>1, <3>1
    <3>3. Good(q) /\ Owns(q, F[i + k].tag) /\ (F[i + k].tag = cur'[q] => F[i + k].tag = cur[q])
          /\ (Expected(q, F[i + k]) /\ FlightOf(q, F) => Expected(q, F[i + k])')
      BY <1>3, <3>1, <3>2
    <3>4. FlightOf(q, F)
      BY <3>3 DEF FlightInv
    <3>5. Expected(q, F[i + k])
      BY <3>1, <3>3, <3>4 DEF FlightOf
    <3> QED BY <3>1, <3>3, <3>4, <3>5
  <2>2. ASSUME NEW i \in 1..Len(G), NEW j \in 1..Len(G), i < j,
               Owns(q, G[i].tag)', Owns(q, G[j].tag)'
        PROVE  G[i].tag # G[j].tag /\ G[i].tag # cur'[q]
    <3>1. /\ Owns(q, F[i + k].tag) /\ Owns(q, F[j + k].tag) /\ FlightOf(q, F)
          /\ (G[i].tag = cur'[q] => G[i].tag = cur[q])
      BY <2>1, <2>2
    <3>2. i + k \in 1..Len(F) /\ j + k \in 1..Len(F) /\ i + k < j + k
      BY <1>1, <2>2
    <3>3. F[i + k].tag # F[j + k].tag /\ F[i + k].tag # cur[q]
      BY <3>1, <3>2 DEF FlightOf
    <3>4. G[i] = F[i + k] /\ G[j] = F[j + k]
      OBVIOUS
    <3> QED BY <3>1, <3>3, <3>4
  <2> QED BY <2>1, <2>2 DEF FlightOf
<1>4. ~hung' => \A i \in 1..Len(Flight') : request'[Flight'[i].tag].kind # "none"
  BY <1>2 DEF Used
<1>5. \A q \in Proc : Good(q)' => FlightOf(q, Flight)'
  BY <1>3 DEF FlightOf
<1> QED BY <1>4, <1>5 DEF FlightInv, Used

-----------------------------------------------------------------------------
(* Steps that only move p along, and perhaps the reader and who sleeps.    *)
LEMMA MoveStep ==
  ASSUME IInv, NEW p \in Proc,
         NEW to \in {"gate", "sleep", "asleep", "woken", "reading", "notify",
                     "caught", "flush", "free", "mark"},
         pc[p] \notin {"idle", "mux"}, pc' = [pc EXCEPT ![p] = to],
         UNCHANGED <<free, queue, request, reply, done, flushed, cur, orig, err,
                     calls, intrs, wire, got>>,
         rip' \in Proc \cup {Nil}, rend' \in [Rpc -> Proc \cup {Nil}],
         peer' \in [Proc -> Rpc \cup {Nil}],
         rip' = rip \/ {rip, rip'} \subseteq {p, Nil},
         to = "flush" => ~err[p],
         to \in Waiting => pc[p] \in Waiting \cup {"write"} /\ (pc[p] = "write" => ~hung),
         to \in {"caught", "flush"} => pc[p] \in {"caught", "flush"},
         to \in Leaving => \/ pc[p] \in Leaving
                           \/ pc[p] \in Waiting /\ done[cur[p]]
                           \/ err[p],
         ReadOf(p)', RendInv', GateInv'
  PROVE  IInv'
<1>0. /\ Types /\ FreeInv /\ CallInv /\ OwnInv /\ ChainInv /\ ListInv
      /\ ReadInv /\ GateInv /\ ServerInv /\ FlightInv
      /\ ReplyInv /\ CountInv /\ CallOf(p) /\ ListOf(p) /\ ReplyOf(p)
  BY DEF IInv, CallInv, ListInv, ReplyInv
<1>1. /\ pc'[p] = to /\ to \in PC /\ to \notin {"idle", "mux", "link", "write", "return", "remove"}
      /\ \A q \in Proc \ {p} : pc'[q] = pc[q]
      /\ pc' \in [Proc -> PC]
  BY <1>0 DEF Types, PC
<1>2. /\ srv' = srv /\ rx' = rx /\ hung' = hung /\ served' = served
  BY DEF wire
<1>3. Types'
  BY <1>0, <1>1, <1>2 DEF Types
<1>4. Alone(p)
  BY <1>1 DEF Alone
<1>5. \A q \in Proc, r \in Rpc : Owns(q, r)' = Owns(q, r)
  BY DEF Owns, Used
<1>6. OwnInv' /\ ChainInv' /\ FreeInv'
  BY <1>0, <1>1, ChainsKept, FreeKept
<1>7. CallInv'
  <2>1. CallOf(p)'
    BY <1>0, <1>1, <1>2 DEF CallOf, Owns, Used
  <2>2. \A q \in Proc \ {p} : pc[q] = "return" => done'[cur[q]]
    BY <1>0 DEF CallInv, CallOf
  <2> QED BY <1>0, <1>2, <1>4, <1>5, <2>1, <2>2, CallKept
<1>8. ListInv'
  <2>1. ListOf(p)'
    BY <1>0, <1>1 DEF ListOf, OnQueue, Waiting
  <2>2. \A i \in 1..Len(queue) : Used(queue[i])' /\ ~done'[queue[i]]
    BY <1>0 DEF ListInv, Used
  <2>3. \A q \in Proc \ {p} : pc[q] \in Waiting \cup {"link", "write"} => done'[cur[q]] = done[cur[q]]
    OBVIOUS
  <2> QED BY <1>0, <1>2, <1>4, <2>1, <2>2, <2>3, ListKept
<1>9. ReadInv'
  BY <1>0, <1>4, ReadKept
<1>10. ServerInv'
  BY <1>0, <1>2 DEF ServerInv
<1>11. Good(p)' => Good(p)
  BY <1>1, <1>2 DEF Good, Waiting, Leaving
<1>12. ReplyInv'
  <2>1. ReplyOf(p)'
    BY <1>0, <1>1, <1>2, <1>11 DEF ReplyOf
  <2> QED BY <1>0, <1>2, <1>4, <2>1, ReplyKept
<1>13. CountInv'
  <2>1. Flushing' \subseteq Flushing
    BY <1>1 DEF Flushing
  <2>2. intrs <= intrs'
    BY <1>0, BoundAssumption DEF Types
  <2> QED BY <1>0, <1>3, <2>1, <2>2, CountKept
<1>14. FlightInv'
  <2>1. Flight' = Flight
    <3>1. Muxed' = Muxed
      BY <1>0, <1>1, MuxedKept DEF Types
    <3> QED BY <1>2, <3>1 DEF Flight
  <2>2. PICK F : F = Flight
    OBVIOUS
  <2>3. F = Flight' /\ Len(F) \in Nat /\ Len(F) + 0 <= Len(F)
    BY <1>0, <2>1, <2>2, FlightSeq
  <2>4. \A i \in 1..Len(F) : F[i] = F[i + 0]
    BY <2>3
  <2>5. ASSUME NEW q \in Proc, NEW m, Good(q)', Owns(q, m.tag)'
        PROVE  /\ Good(q) /\ Owns(q, m.tag) /\ (m.tag = cur'[q] => m.tag = cur[q])
               /\ Expected(q, m) => Expected(q, m)'
    <3>1. Owns(q, m.tag)
      BY <2>5 DEF Owns, Used
    <3>2. Good(q)
      BY <1>1, <1>2, <1>11, <2>5 DEF Good
    <3>3. ASSUME Expected(q, m) PROVE Expected(q, m)'
      <4>1. CASE q # p
        BY <1>1, <1>2, <3>3, <4>1 DEF Expected, OnQueue
      <4>2. CASE q = p
        <5>1. to \notin Leaving
          BY <2>5, <3>3, <4>2 DEF Good, Expected
        <5> QED BY <1>1, <1>2, <3>3, <4>2, <5>1 DEF Expected, OnQueue
      <4> QED BY <4>1, <4>2
    <3> QED BY <3>1, <3>2, <3>3
  <2>6. ~hung' => \A i \in 1..Len(F) : Used(F[i].tag) => Used(F[i].tag)'
    BY DEF Used
  <2> QED BY <1>0, <1>2, <2>2, <2>3, <2>4, <2>5, <2>6, FlightKept
<1> QED BY <1>3, <1>6, <1>7, <1>8, <1>9, <1>10, <1>12, <1>13, <1>14 DEF IInv

(* These steps keep everything but where p is.                             *)
LEMMA MovesAlone ==
  ASSUME Types, NEW p \in Proc, NEW to, pc' = [pc EXCEPT ![p] = to],
         UNCHANGED <<cur, orig, err, calls, got>>
  PROVE  Alone(p) /\ pc'[p] = to
BY DEF Types, Alone

(* Only those asleep are posted.                                           *)
LEMMA NotPosted ==
  ASSUME RendInv, NEW p \in Proc, pc[p] # "asleep", NEW r \in Rpc
  PROVE  rend[r] # p
BY NilRpc DEF RendInv

(* A step of p that leaves the reader, the sleepers and their requests.    *)
LEMMA GateSame ==
  ASSUME GateInv, NEW p \in Proc, Alone(p), UNCHANGED <<rip, rend, done, intrs, hung>>,
         Witness(p) => Witness(p)' \/ Excused
  PROVE  GateInv'
<1>1. \A q \in Proc : q # p /\ Witness(q) => Witness(q)'
  <2> SUFFICES ASSUME NEW q \in Proc \ {p}, Witness(q) PROVE Witness(q)'
    OBVIOUS
  <2>1. ~done[cur[q]] /\ rend[cur[q]] # q
    BY DEF Witness
  <2> QED BY <2>1, WitnessKept
<1>2. Excused' = Excused /\ Sleepers' = Sleepers
  BY DEF Excused, Sleepers
<1> QED BY <1>1, <1>2 DEF GateInv

(* mntgate: if somebody still sleeps, somebody else was woken.             *)
LEMMA GateOpens ==
  ASSUME Types, ListInv, RendInv, mntgate
  PROVE  /\ rip' = Nil /\ rend' \in [Rpc -> Proc \cup {Nil}]
         /\ \A r \in Rpc : rend'[r] \in {rend[r], Nil}
         /\ (\E r \in Rpc : rend'[r] # Nil /\ ~done[r]) =>
              \E q \in Proc : /\ pc[q] = "asleep" /\ ~done[cur[q]]
                              /\ cur[q] \in Rpc /\ rend'[cur[q]] = Nil
<1> DEFINE asleep == {i \in 1..Len(queue) : ~done[queue[i]] /\ rend[queue[i]] # Nil}
<1>1. /\ rip' = Nil
      /\ rend' = [r \in Rpc |-> IF \E i \in asleep : r = queue[i] /\ \A j \in asleep : i <= j
                                THEN Nil ELSE rend[r]]
  BY DEF mntgate
<1>2. rend' \in [Rpc -> Proc \cup {Nil}] /\ \A r \in Rpc : rend'[r] \in {rend[r], Nil}
  BY <1>1 DEF Types
<1>3. ASSUME NEW r \in Rpc, rend'[r] # Nil, ~done[r]
      PROVE  \E q \in Proc : /\ pc[q] = "asleep" /\ ~done[cur[q]]
                             /\ cur[q] \in Rpc /\ rend'[cur[q]] = Nil
  <2>1. rend[r] \in Proc /\ pc[rend[r]] = "asleep" /\ cur[rend[r]] = r
    BY <1>2, <1>3 DEF RendInv, Types
  <2>2. OnQueue(r)
    BY <1>3, <2>1 DEF ListInv, ListOf, Waiting
  <2>3. asleep # {} /\ asleep \in SUBSET Nat
    BY <1>2, <1>3, <2>2 DEF OnQueue
  <2>4. PICK i \in asleep : \A j \in asleep : i <= j
    <3> HIDE DEF asleep
    <3> QED BY <2>3, Least
  <2>5. queue[i] \in Rpc
    BY <2>4, ElementOfSeq DEF Types
  <2>6. rend'[queue[i]] = Nil
    <3> HIDE DEF asleep
    <3> QED BY <1>1, <2>4, <2>5
  <2>7. ~done[queue[i]] /\ rend[queue[i]] \in Proc
    BY <2>4, <2>5 DEF Types
  <2> DEFINE q == rend[queue[i]]
  <2>8. pc[q] = "asleep" /\ cur[q] = queue[i]
    BY <2>5, <2>7, NilRpc DEF RendInv
  <2> QED BY <2>5, <2>6, <2>7, <2>8
<1> QED BY <1>1, <1>2, <1>3

(* ... who is not the one that opened it.                                  *)
LEMMA GateOpened ==
  ASSUME Types, ListInv, RendInv, mntgate, UNCHANGED <<cur, done>>,
         NEW p \in Proc, pc[p] # "asleep", Alone(p)
  PROVE  GateInv'
<1>1. /\ rip' = Nil
      /\ (\E r \in Rpc : rend'[r] # Nil /\ ~done[r]) =>
              \E q \in Proc : /\ pc[q] = "asleep" /\ ~done[cur[q]]
                              /\ cur[q] \in Rpc /\ rend'[cur[q]] = Nil
  BY GateOpens
<1>2. ASSUME Sleepers' PROVE \E q \in Proc : Witness(q)'
  <2>1. PICK q \in Proc : pc[q] = "asleep" /\ ~done[cur[q]] /\ rend'[cur[q]] = Nil
    BY <1>1, <1>2 DEF Sleepers
  <2>2. q # p /\ q # Nil
    BY <2>1, NilRpc
  <2>3. pc'[q] = "asleep" /\ cur'[q] = cur[q]
    BY <2>1, <2>2 DEF Alone
  <2> QED BY <2>1, <2>2, <2>3 DEF Witness
<1> QED BY <1>2 DEF GateInv

(* p finds m->rip empty and becomes the reader, or goes to sleep.          *)
LEMMA GateStep ==
  ASSUME IInv, NEW p \in Proc, Gate(p)
  PROVE  IInv'
<1>0. Types /\ ReadOf(p) /\ GateInv /\ RendInv
  BY DEF IInv, ReadInv
<1>1. UNCHANGED <<free, queue, request, reply, done, flushed, cur, orig, peer, err,
                  calls, intrs, wire, got, rend>>
  BY DEF Gate, fields, locals, count
<1>2. PICK to \in {"reading", "sleep"} :
        /\ pc[p] = "gate" /\ pc' = [pc EXCEPT ![p] = to]
        /\ \/ to = "reading" /\ rip = Nil /\ rip' = p
           \/ to = "sleep" /\ rip # Nil /\ rip' = rip
  BY DEF Gate, Goto
<1>3. Alone(p) /\ pc'[p] = to
  BY <1>0, <1>1, <1>2, MovesAlone
<1>4. ReadOf(p)' /\ rip' # Nil
  BY <1>0, <1>2, <1>3, NilRpc DEF ReadOf
<1>5. GateInv'
  BY <1>4 DEF GateInv
<1>6. RendInv'
  <2>1. \A r \in Rpc : rend'[r] = rend[r] /\ rend[r] # p
    BY <1>0, <1>1, <1>2, NotPosted
  <2> QED BY <1>0, <1>3, <2>1, RendKept DEF Types
<1>7. rip' = rip \/ {rip, rip'} \subseteq {p, Nil}
  BY <1>2
<1>8. /\ rip' \in Proc \cup {Nil} /\ rend' \in [Rpc -> Proc \cup {Nil}]
      /\ peer' \in [Proc -> Rpc \cup {Nil}]
  BY <1>0, <1>1, <1>2 DEF Types
<1>9. /\ pc[p] \notin {"idle", "mux"} /\ pc[p] \in Waiting
      /\ to \notin {"flush", "caught"} /\ to \notin Leaving
      /\ to \in {"gate", "sleep", "asleep", "woken", "reading", "notify",
                 "caught", "flush", "free", "mark"}
  BY <1>2 DEF Waiting, Leaving
<1> QED BY <1>1, <1>2, <1>4, <1>5, <1>6, <1>7, <1>8, <1>9, MoveStep

(* p is posted, or finds its condition true already.                       *)
LEMMA SleepStep ==
  ASSUME IInv, NEW p \in Proc, Sleep(p)
  PROVE  IInv'
<1>0. Types /\ ReadOf(p) /\ GateInv /\ RendInv /\ CallOf(p)
  BY DEF IInv, ReadInv, CallInv
<1>1. UNCHANGED <<free, queue, request, reply, done, flushed, cur, orig, peer, err,
                  calls, intrs, wire, got, rip>>
  BY DEF Sleep, fields, locals, count, mount
<1>2. PICK to \in {"woken", "asleep"} :
        /\ pc' = [pc EXCEPT ![p] = to]
        /\ \/ pc[p] = "sleep" /\ to = "woken" /\ rend' = rend
           \/ pc[p] = "sleep" /\ to = "asleep" /\ rip # Nil /\ rend' = [rend EXCEPT ![cur[p]] = p]
           \/ pc[p] = "asleep" /\ to = "woken" /\ rend[cur[p]] # p /\ rend' = rend
  BY DEF Sleep, Goto, rpcattn
<1>3. Alone(p) /\ pc'[p] = to /\ cur[p] \in Rpc /\ cur'[p] = cur[p]
  BY <1>0, <1>1, <1>2, MovesAlone DEF CallOf
<1>4. ReadOf(p)'
  BY <1>0, <1>1, <1>2, <1>3 DEF ReadOf
<1>5. GateInv'
  <2>1. CASE rip # Nil
    BY <1>1, <2>1 DEF GateInv
  <2>2. CASE rip = Nil
    <3>1. rend' = rend /\ to = "woken" /\ pc[p] \in {"sleep", "asleep"}
      BY <1>2, <2>2
    <3>2. Witness(p) => Witness(p)'
      BY <1>1, <1>3, <3>1 DEF Witness
    <3>3. hung' = hung
      BY <1>1 DEF wire
    <3> QED BY <1>0, <1>1, <1>3, <3>1, <3>2, <3>3, GateSame
  <2> QED BY <2>1, <2>2
<1>6. RendInv'
  <2>1. \A r \in Rpc : \/ rend'[r] = rend[r] /\ rend[r] # p
                       \/ rend'[r] = p /\ pc'[p] = "asleep" /\ cur'[p] = r
    <3>1. CASE pc[p] = "sleep"
      <4>1. \A r \in Rpc : rend[r] # p
        BY <1>0, <3>1, NotPosted
      <4> QED BY <1>0, <1>2, <1>3, <3>1, <4>1 DEF Types
    <3>2. CASE pc[p] = "asleep"
      BY <1>0, <1>2, <3>2, NilRpc DEF RendInv
    <3> QED BY <1>2, <3>1, <3>2
  <2> QED BY <1>0, <1>3, <2>1, RendKept DEF Types
<1>8. /\ rip' \in Proc \cup {Nil} /\ rend' \in [Rpc -> Proc \cup {Nil}]
      /\ peer' \in [Proc -> Rpc \cup {Nil}]
  BY <1>0, <1>1, <1>2, <1>3 DEF Types
<1>9. /\ pc[p] \notin {"idle", "mux"} /\ pc[p] \in Waiting
      /\ to \notin {"flush", "caught"} /\ to \notin Leaving
      /\ to \in {"gate", "sleep", "asleep", "woken", "reading", "notify",
                 "caught", "flush", "free", "mark"}
  BY <1>2 DEF Waiting, Leaving
<1>10. pc[p] # "write"
  BY <1>2
<1> QED BY <1>1, <1>2, <1>4, <1>5, <1>6, <1>8, <1>9, <1>10, MoveStep

(* p was woken: its request is done, or it is to read.                     *)
LEMMA WokenStep ==
  ASSUME IInv, NEW p \in Proc, Woken(p)
  PROVE  IInv'
<1>0. Types /\ ReadOf(p) /\ GateInv /\ RendInv
  BY DEF IInv, ReadInv
<1>1. UNCHANGED <<free, queue, request, reply, done, flushed, cur, orig, peer, err,
                  calls, intrs, wire, got, rip, rend>>
  BY DEF Woken, fields, locals, count, mount
<1>2. PICK to \in {"free", "gate"} :
        /\ pc[p] = "woken" /\ pc' = [pc EXCEPT ![p] = to]
        /\ \/ to = "free" /\ done[cur[p]]
           \/ to = "gate" /\ ~done[cur[p]]
  BY DEF Woken, Goto
<1>3. Alone(p) /\ pc'[p] = to
  BY <1>0, <1>1, <1>2, MovesAlone
<1>4. ReadOf(p)'
  BY <1>0, <1>1, <1>2, <1>3 DEF ReadOf
<1>5. GateInv'
  <2>1. Witness(p) => Witness(p)'
    BY <1>1, <1>2, <1>3 DEF Witness
  <2>2. hung' = hung
    BY <1>1 DEF wire
  <2> QED BY <1>0, <1>1, <1>3, <2>1, <2>2, GateSame
<1>6. RendInv'
  <2>1. \A r \in Rpc : rend'[r] = rend[r] /\ rend[r] # p
    BY <1>0, <1>1, <1>2, NotPosted
  <2> QED BY <1>0, <1>3, <2>1, RendKept DEF Types
<1>8. /\ rip' \in Proc \cup {Nil} /\ rend' \in [Rpc -> Proc \cup {Nil}]
      /\ peer' \in [Proc -> Rpc \cup {Nil}]
  BY <1>0, <1>1 DEF Types
<1>9. /\ pc[p] \notin {"idle", "mux", "write"} /\ pc[p] \in Waiting
      /\ to \notin {"flush", "caught"} /\ (to \in Leaving => done[cur[p]])
      /\ to \in {"gate", "sleep", "asleep", "woken", "reading", "notify",
                 "caught", "flush", "free", "mark"}
  BY <1>2 DEF Waiting, Leaving
<1> QED BY <1>1, <1>2, <1>4, <1>5, <1>6, <1>8, <1>9, MoveStep

(* The Wakeup of mountmux, perhaps of a later owner.                       *)
LEMMA NotifyStep ==
  ASSUME IInv, NEW p \in Proc, Notify(p)
  PROVE  IInv'
<1>0. Types /\ ReadOf(p) /\ GateInv /\ RendInv
  BY DEF IInv, ReadInv
<1>1. UNCHANGED <<free, queue, request, reply, done, flushed, cur, orig, err,
                  calls, intrs, wire, got, rip>>
  BY DEF Notify, fields, count, mount
<1>2. /\ pc[p] = "notify" /\ pc' = [pc EXCEPT ![p] = "reading"]
      /\ rend' = [rend EXCEPT ![peer[p]] = Nil] /\ peer' = [peer EXCEPT ![p] = Nil]
  BY DEF Notify, Goto
<1>3. Alone(p) /\ pc'[p] = "reading"
  BY <1>0, <1>1, <1>2, MovesAlone
<1>4. ReadOf(p)' /\ rip = p /\ rip # Nil
  BY <1>0, <1>1, <1>2, <1>3, NilRpc DEF ReadOf
<1>5. GateInv'
  BY <1>1, <1>4 DEF GateInv
<1>6. RendInv'
  <2>1. ASSUME NEW r \in Rpc PROVE rend'[r] = Nil \/ (rend'[r] = rend[r] /\ rend[r] # p)
    <3>1. rend[r] # p
      BY <1>0, <1>2, NotPosted
    <3> QED BY <1>0, <1>2, <3>1 DEF Types
  <2> QED BY <1>0, <1>3, <2>1, RendKept DEF Types
<1>8. /\ rip' \in Proc \cup {Nil} /\ rend' \in [Rpc -> Proc \cup {Nil}]
      /\ peer' \in [Proc -> Rpc \cup {Nil}]
  BY <1>0, <1>1, <1>2 DEF Types
<1>9. /\ pc[p] \notin {"idle", "mux", "write"} /\ pc[p] \in Waiting
      /\ "reading" \notin Leaving
  BY <1>2 DEF Waiting, Leaving
<1> QED BY <1>1, <1>2, <1>4, <1>5, <1>6, <1>8, <1>9, MoveStep

(* The reader is done and passes the gate on.                              *)
LEMMA PassStep ==
  ASSUME IInv, NEW p \in Proc, Pass(p)
  PROVE  IInv'
<1>0. Types /\ ReadOf(p) /\ ListInv /\ RendInv
  BY DEF IInv, ReadInv
<1>1. UNCHANGED <<free, queue, request, reply, done, flushed, cur, orig, peer, err,
                  calls, intrs, wire, got>>
  BY DEF Pass, fields, count, locals
<1>2. /\ pc[p] = "reading" /\ pc' = [pc EXCEPT ![p] = "free"] /\ done[cur[p]] /\ mntgate
  BY DEF Pass, Goto
<1>3. Alone(p) /\ pc'[p] = "free"
  BY <1>0, <1>1, <1>2, MovesAlone
<1>4. /\ rip' = Nil /\ rend' \in [Rpc -> Proc \cup {Nil}]
      /\ \A r \in Rpc : rend'[r] \in {rend[r], Nil}
  BY <1>0, <1>2, GateOpens
<1>5. GateInv'
  BY <1>0, <1>1, <1>2, <1>3, GateOpened
<1>6. RendInv'
  <2>1. \A r \in Rpc : rend'[r] = Nil \/ (rend'[r] = rend[r] /\ rend[r] # p)
    BY <1>0, <1>2, <1>4, NotPosted
  <2> QED BY <1>0, <1>3, <2>1, RendKept DEF Types
<1>7. ReadOf(p)' /\ {rip, rip'} \subseteq {p, Nil}
  BY <1>0, <1>2, <1>3, <1>4, NilRpc DEF ReadOf
<1>8. /\ rip' \in Proc \cup {Nil} /\ rend' \in [Rpc -> Proc \cup {Nil}]
      /\ peer' \in [Proc -> Rpc \cup {Nil}]
  BY <1>0, <1>1, <1>4 DEF Types
<1>9. pc[p] \notin {"idle", "mux"} /\ pc[p] \in Waiting /\ "free" \notin Waiting
  BY <1>2 DEF Waiting
<1> QED BY <1>1, <1>2, <1>5, <1>6, <1>7, <1>8, <1>9, MoveStep

(* p has an error: it gives up m->rip if that is its own.                  *)
LEMMA CaughtStep ==
  ASSUME IInv, NEW p \in Proc, Caught(p)
  PROVE  IInv'
<1>0. Types /\ ReadOf(p) /\ ListInv /\ RendInv /\ GateInv /\ CallOf(p)
  BY DEF IInv, ReadInv, CallInv
<1>1. UNCHANGED <<free, queue, request, reply, done, flushed, cur, orig, peer, err,
                  calls, intrs, wire, got>> /\ hung' = hung
  BY DEF Caught, fields, count, locals, wire
<1>2. PICK to \in {"free", "flush"} :
        /\ pc[p] = "caught" /\ pc' = [pc EXCEPT ![p] = to]
        /\ to = "free" => err[p]
        /\ to = "flush" => ~err[p]
  BY DEF Caught, Goto
<1>3. Alone(p) /\ pc'[p] = to
  BY <1>0, <1>1, <1>2, MovesAlone
<1>4. \/ rip = p /\ mntgate
      \/ rip # p /\ rip' = rip /\ rend' = rend
  BY DEF Caught
<1>5. /\ rip' \in Proc \cup {Nil} /\ rend' \in [Rpc -> Proc \cup {Nil}]
      /\ \A r \in Rpc : rend'[r] \in {rend[r], Nil}
      /\ rip' = rip \/ {rip, rip'} \subseteq {p, Nil}
      /\ rip' # p
  <2>1. CASE rip = p /\ mntgate
    BY <1>0, <2>1, GateOpens, NilRpc
  <2>2. CASE rip # p /\ rip' = rip /\ rend' = rend
    BY <1>0, <2>2 DEF Types
  <2> QED BY <1>4, <2>1, <2>2
<1>6. GateInv'
  <2>1. CASE rip = p /\ mntgate
    BY <1>0, <1>1, <1>2, <1>3, <2>1, GateOpened
  <2>2. CASE rip # p /\ rip' = rip /\ rend' = rend
    <3>1. Witness(p) => Witness(p)' \/ Excused
      BY <1>0, <1>1, <1>2, <1>3, <2>2 DEF Witness, Excused, CallOf
    <3> QED BY <1>0, <1>1, <1>3, <2>2, <3>1, GateSame
  <2> QED BY <1>4, <2>1, <2>2
<1>7. RendInv'
  <2>1. \A r \in Rpc : rend'[r] = Nil \/ (rend'[r] = rend[r] /\ rend[r] # p)
    BY <1>0, <1>2, <1>5, NotPosted
  <2> QED BY <1>0, <1>3, <2>1, RendKept DEF Types
<1>8. ReadOf(p)' /\ peer' \in [Proc -> Rpc \cup {Nil}]
  BY <1>0, <1>1, <1>2, <1>3, <1>5 DEF ReadOf, Types
<1>9. /\ pc[p] \notin {"idle", "mux"} /\ to \notin Waiting
      /\ to \in {"caught", "flush"} => pc[p] \in {"caught", "flush"}
      /\ to \in Leaving => err[p]
      /\ to \in {"gate", "sleep", "asleep", "woken", "reading", "notify",
                 "caught", "flush", "free", "mark"}
  BY <1>2 DEF Waiting, Leaving
<1> QED BY <1>1, <1>2, <1>5, <1>6, <1>7, <1>8, <1>9, MoveStep

(* The chain is not at an end, and its latest part is unanswered.          *)
LEMMA FlushTestStep ==
  ASSUME IInv, NEW p \in Proc, FlushTest(p), ~done[cur[p]]
  PROVE  IInv'
<1>0. Types /\ ReadOf(p) /\ GateInv /\ RendInv
  BY DEF IInv, ReadInv
<1>1. UNCHANGED <<free, queue, request, reply, done, flushed, cur, orig, peer, err,
                  calls, intrs, wire, got, rip, rend>> /\ hung' = hung
  BY DEF FlushTest, fields, count, mount, wire
<1>2. pc[p] = "free" /\ pc' = [pc EXCEPT ![p] = "mark"]
  BY DEF FlushTest, Goto
<1>3. Alone(p) /\ pc'[p] = "mark"
  BY <1>0, <1>1, <1>2, MovesAlone
<1>4. ReadOf(p)'
  BY <1>0, <1>1, <1>2, <1>3 DEF ReadOf
<1>5. GateInv'
  <2>1. ~Witness(p)
    BY <1>2 DEF Witness
  <2> QED BY <1>0, <1>1, <1>3, <2>1, GateSame
<1>6. RendInv'
  <2>1. \A r \in Rpc : rend'[r] = rend[r] /\ rend[r] # p
    BY <1>0, <1>1, <1>2, NotPosted
  <2> QED BY <1>0, <1>3, <2>1, RendKept DEF Types
<1>8. /\ rip' \in Proc \cup {Nil} /\ rend' \in [Rpc -> Proc \cup {Nil}]
      /\ peer' \in [Proc -> Rpc \cup {Nil}]
  BY <1>0, <1>1 DEF Types
<1>9. /\ pc[p] \notin {"idle", "mux"} /\ pc[p] \in Leaving /\ "mark" \notin Waiting
  BY <1>2 DEF Waiting, Leaving
<1> QED BY <1>1, <1>2, <1>4, <1>5, <1>6, <1>8, <1>9, MoveStep

-----------------------------------------------------------------------------
(* Steps in which nobody's structures change hands.                        *)
LEMMA OwnedSame ==
  ASSUME IInv, NEW p \in Proc, Alone(p), hung => hung',
         UNCHANGED <<free, request, done, flushed, cur, orig, calls, got>>,
         pc[p] # "idle", pc'[p] \notin {"idle", "return"},
         pc'[p] = "flush" => ~err'[p], err'[p] => hung'
  PROVE  FreeInv' /\ CallInv' /\ OwnInv' /\ ChainInv'
<1>0. FreeInv /\ CallInv /\ OwnInv /\ ChainInv /\ CallOf(p)
  BY DEF IInv, CallInv
<1>1. \A q \in Proc, r \in Rpc : Owns(q, r)' = Owns(q, r)
  BY DEF Owns, Used
<1>2. OwnInv' /\ ChainInv' /\ FreeInv'
  <2>1. \A q \in Proc : pc[q] # "idle" => pc'[q] # "idle"
    BY DEF Alone
  <2> QED BY <1>0, <2>1, ChainsKept, FreeKept
<1>3. CallOf(p)'
  BY <1>0 DEF CallOf, Owns, Used
<1>4. \A q \in Proc \ {p} : pc[q] = "return" => done'[cur[q]]
  BY <1>0 DEF CallInv, CallOf
<1> QED BY <1>0, <1>1, <1>2, <1>3, <1>4, CallKept

(* The messages in flight are the same.                                    *)
LEMMA FlightSame ==
  ASSUME Types, ReadInv, FlightInv, Flight' = Flight, UNCHANGED <<request, calls, cur, hung>>,
         \A q \in Proc : Good(q)' => Good(q),
         \A q \in Proc : \A m : Good(q)' /\ Expected(q, m) => Expected(q, m)'
  PROVE  FlightInv'
<1>1. PICK F : F = Flight
  OBVIOUS
<1>2. F = Flight' /\ Len(F) \in Nat /\ Len(F) + 0 <= Len(F)
  BY <1>1, FlightSeq
<1>3. \A i \in 1..Len(F) : F[i] = F[i + 0]
  BY <1>2
<1>4. ASSUME NEW q \in Proc, NEW m, Good(q)', Owns(q, m.tag)'
      PROVE  /\ Good(q) /\ Owns(q, m.tag) /\ (m.tag = cur'[q] => m.tag = cur[q])
             /\ Expected(q, m) => Expected(q, m)'
  <2>1. Owns(q, m.tag)
    BY <1>4 DEF Owns, Used
  <2> QED BY <1>4, <2>1
<1>5. ~hung' => \A i \in 1..Len(F) : Used(F[i].tag) => Used(F[i].tag)'
  BY DEF Used
<1> QED BY <1>1, <1>2, <1>3, <1>4, <1>5, FlightKept

(* What a step of p that is not about structures need not be asked for.    *)
LEMMA PartsKept ==
  ASSUME IInv, NEW p \in Proc, Alone(p), hung' = hung,
         UNCHANGED <<request, rip, rend, intrs>>,
         pc[p] \notin {"asleep", "mux"}, Types',
         \A q \in Proc \ {p} : pc[q] = "mux" => reply'[cur[q]] = reply[cur[q]],
         ReadOf(p)', Flushing' \subseteq Flushing
  PROVE  ReadInv' /\ RendInv' /\ CountInv'
<1>0. Types /\ ReadInv /\ RendInv /\ CountInv
  BY DEF IInv
<1>1. ReadInv'
  BY <1>0, ReadKept
<1>2. RendInv'
  <2>1. \A r \in Rpc : rend'[r] = rend[r] /\ rend[r] # p
    BY <1>0, NotPosted
  <2> QED BY <1>0, <2>1, RendKept DEF Types
<1>3. CountInv'
  <2>1. intrs <= intrs'
    BY <1>0, BoundAssumption DEF Types
  <2> QED BY <1>0, <2>1, CountKept
<1> QED BY <1>1, <1>2, <1>3

(* p's request, not there yet, becomes the first on m->queue.              *)
LEMMA Linked ==
  ASSUME Types, Distinct(queue), NEW r \in Rpc, ~OnQueue(r)
  PROVE  /\ <<r>> \o queue \in Seq(Rpc) /\ Distinct(<<r>> \o queue)
         /\ \A x : (\E i \in 1..Len(<<r>> \o queue) : (<<r>> \o queue)[i] = x) <=> OnQueue(x) \/ x = r
<1> DEFINE u == <<r>> \o queue
<1>1. queue \in Seq(Rpc) /\ Len(queue) \in Nat /\ <<r>> \in Seq(Rpc) /\ Len(<<r>>) = 1 /\ <<r>>[1] = r
  BY LenProperties DEF Types
<1>2. /\ u \in Seq(Rpc) /\ Len(u) = 1 + Len(queue)
      /\ \A i \in 1..1 + Len(queue) : u[i] = IF i <= 1 THEN r ELSE queue[i - 1]
  <2>1. /\ u \in Seq(Rpc) /\ Len(u) = Len(<<r>>) + Len(queue)
        /\ \A i \in 1..Len(<<r>>) + Len(queue) :
             u[i] = IF i <= Len(<<r>>) THEN <<r>>[i] ELSE queue[i - Len(<<r>>)]
    BY <1>1, ConcatProperties
  <2> HIDE DEF u
  <2>2. \A i \in 1..1 + Len(queue) : i <= 1 => i = 1
    BY <1>1
  <2> QED BY <1>1, <2>1, <2>2
<1> HIDE DEF u
<1>3. ASSUME NEW i \in 1..Len(u)
      PROVE  \/ i = 1 /\ u[i] = r
             \/ i - 1 \in 1..Len(queue) /\ u[i] = queue[i - 1]
  <2>1. CASE i <= 1
    <3>1. i = 1 /\ i \in 1..1 + Len(queue)
      BY <1>1, <1>2, <2>1
    <3> QED BY <1>2, <2>1, <3>1
  <2>2. CASE ~(i <= 1)
    <3>1. i - 1 \in 1..Len(queue) /\ i \in 1..1 + Len(queue)
      BY <1>1, <1>2, <2>2
    <3> QED BY <1>2, <2>2, <3>1
  <2> QED BY <2>1, <2>2
<1>4. Distinct(u)
  <2> SUFFICES ASSUME NEW i \in 1..Len(u), NEW j \in 1..Len(u), u[i] = u[j] PROVE i = j
    BY DEF Distinct
  <2>1. \/ i = 1 /\ u[i] = r
        \/ i - 1 \in 1..Len(queue) /\ u[i] = queue[i - 1] /\ u[i] # r
    BY <1>3 DEF OnQueue
  <2>2. \/ j = 1 /\ u[j] = r
        \/ j - 1 \in 1..Len(queue) /\ u[j] = queue[j - 1] /\ u[j] # r
    BY <1>3 DEF OnQueue
  <2>3. CASE i = 1
    BY <2>1, <2>2, <2>3, <1>1
  <2>4. CASE i # 1
    <3>1. i - 1 = j - 1
      BY <2>1, <2>2, <2>4 DEF Distinct
    <3>2. i \in Int /\ j \in Int
      OBVIOUS
    <3> QED BY <3>1, <3>2
  <2> QED BY <2>3, <2>4
<1>5. \A x : (\E i \in 1..Len(u) : u[i] = x) <=> OnQueue(x) \/ x = r
  <2>1. ASSUME NEW x, OnQueue(x) PROVE \E i \in 1..Len(u) : u[i] = x
    <3>1. PICK j \in 1..Len(queue) : queue[j] = x
      BY <2>1 DEF OnQueue
    <3>2. j + 1 \in 1..Len(u) /\ ~(j + 1 <= 1) /\ j + 1 - 1 = j
      BY <1>1, <1>2
    <3>3. u[j + 1] = x
      BY <1>2, <3>1, <3>2
    <3> QED BY <3>2, <3>3
  <2>2. 1 \in 1..Len(u) /\ u[1] = r
    BY <1>1, <1>2
  <2>3. ASSUME NEW x, NEW i \in 1..Len(u), u[i] = x PROVE OnQueue(x) \/ x = r
    BY <1>3, <2>3 DEF OnQueue
  <2> HIDE DEF u
  <2> QED BY <2>1, <2>2, <2>3
<1> QED BY <1>2, <1>4, <1>5 DEF u

(* The request joins m->queue.                                             *)
LEMMA LinkStep ==
  ASSUME IInv, NEW p \in Proc, Link(p)
  PROVE  IInv'
<1>0. /\ Types /\ CallInv /\ OwnInv /\ ListInv /\ ReadInv /\ RendInv /\ GateInv /\ ServerInv
      /\ FlightInv /\ ReplyInv /\ CallOf(p) /\ ListOf(p) /\ ReadOf(p) /\ ReplyOf(p)
  BY DEF IInv, CallInv, ListInv, ReadInv, ReplyInv
<1>1. /\ UNCHANGED <<free, request, reply, done, flushed, cur, orig, peer, err,
                     calls, intrs, wire, got, rip, rend>>
      /\ hung' = hung /\ srv' = srv /\ rx' = rx /\ served' = served
  BY DEF Link, fields, count, locals, wire
<1>2. pc[p] = "link" /\ pc' = [pc EXCEPT ![p] = "write"] /\ queue' = <<cur[p]>> \o queue
  BY DEF Link, Goto
<1>3. Alone(p) /\ pc'[p] = "write"
  BY <1>0, <1>1, <1>2, MovesAlone
<1>4. /\ queue' \in Seq(Rpc) /\ Distinct(queue')
      /\ \A x : (\E i \in 1..Len(queue') : queue'[i] = x) <=> OnQueue(x) \/ x = cur[p]
  <2>1. cur[p] \in Rpc /\ ~OnQueue(cur[p]) /\ Distinct(queue)
    BY <1>0, <1>2 DEF CallOf, ListOf, ListInv
  <2> QED BY <1>0, <1>2, <2>1, Linked
<1>5. Types'
  <2>1. pc' \in [Proc -> PC]
    BY <1>0, <1>2 DEF Types, PC
  <2> QED BY <1>0, <1>1, <1>4, <2>1 DEF Types
<1>6. FreeInv' /\ CallInv' /\ OwnInv' /\ ChainInv'
  <2>1. err'[p] => hung'
    BY <1>0, <1>1 DEF CallOf
  <2> QED BY <1>1, <1>2, <1>3, <2>1, OwnedSame
<1>7. ListInv'
  <2>1. ~done[cur[p]] /\ Used(cur[p])
    BY <1>0, <1>2 DEF ListOf, CallOf, Owns
  <2>2. \A i \in 1..Len(queue') : Used(queue'[i]) /\ ~done[queue'[i]]
    <3>1. ASSUME NEW i \in 1..Len(queue') PROVE OnQueue(queue'[i]) \/ queue'[i] = cur[p]
      BY <1>4
    <3> QED BY <1>0, <2>1, <3>1 DEF ListInv, OnQueue
  <2>3. ASSUME NEW q \in Proc PROVE ListOf(q)'
    <3>1. ListOf(q)
      BY <1>0 DEF ListInv
    <3>2. CASE q = p
      BY <1>1, <1>3, <1>4, <2>1, <3>2 DEF ListOf, OnQueue, Waiting
    <3>3. CASE q # p
      <4>1. pc'[q] = pc[q] /\ cur'[q] = cur[q]
        BY <1>3, <3>3 DEF Alone
      <4>2. pc[q] = "link" => cur[q] # cur[p]
        BY <1>0, <1>2, <3>3, OneOwner DEF CallInv, CallOf
      <4> QED BY <1>1, <1>4, <3>1, <4>1, <4>2 DEF ListOf, OnQueue
    <3> QED BY <3>2, <3>3
  <2>4. \A i \in 1..Len(queue') : request'[queue'[i]].kind # "none" /\ ~done'[queue'[i]]
    BY <1>1, <2>2 DEF Used
  <2> QED BY <1>4, <2>3, <2>4 DEF ListInv, Used
<1>8. ReadInv' /\ RendInv' /\ CountInv'
  <2>1. ReadOf(p)'
    BY <1>0, <1>1, <1>2, <1>3 DEF ReadOf
  <2>2. Flushing' \subseteq Flushing
    BY <1>1, <1>2, <1>3 DEF Flushing, Alone
  <2> QED BY <1>1, <1>2, <1>3, <1>5, <2>1, <2>2, PartsKept
<1>9. GateInv'
  <2>1. Witness(p) => Witness(p)'
    BY <1>1, <1>2, <1>3 DEF Witness
  <2> QED BY <1>0, <1>1, <1>3, <2>1, GateSame
<1>10. ServerInv'
  BY <1>0, <1>1 DEF ServerInv
<1>11. \A q \in Proc : Good(q)' => Good(q)
  BY <1>1, <1>2, <1>3 DEF Good, Alone, Waiting, Leaving
<1>12. ReplyInv'
  <2>1. ReplyOf(p)'
    BY <1>0, <1>1, <1>2, <1>3, <1>11 DEF ReplyOf
  <2> QED BY <1>0, <1>1, <1>3, <2>1, ReplyKept
<1>13. FlightInv'
  <2>1. Flight' = Flight
    <3>1. Muxed' = Muxed
      BY <1>0, <1>1, <1>2, <1>3, MuxedKept DEF Types, Alone
    <3> QED BY <1>1, <3>1 DEF Flight
  <2>2. ASSUME NEW q \in Proc, NEW m, Expected(q, m) PROVE Expected(q, m)'
    <3>1. \/ pc'[q] = pc[q]
          \/ pc[q] = "link" /\ pc'[q] = "write"
      <4>1. CASE q = p
        BY <1>2, <1>3, <4>1
      <4>2. CASE q # p
        BY <1>3, <4>2 DEF Alone
      <4> QED BY <4>1, <4>2
    <3>2. "write" \notin Leaving
      BY DEF Leaving
    <3> QED BY <1>1, <1>4, <2>2, <3>1, <3>2 DEF Expected, OnQueue
  <2> QED BY <1>0, <1>1, <1>11, <2>1, <2>2, FlightSame
<1> QED BY <1>5, <1>6, <1>7, <1>8, <1>9, <1>10, <1>12, <1>13 DEF IInv

(* The connection has gone, and p finds out.                               *)
LEMMA FailsStep ==
  ASSUME IInv, NEW p \in Proc, Fails(p)
  PROVE  IInv'
<1>0. /\ Types /\ CallInv /\ OwnInv /\ ListInv /\ ReadInv /\ RendInv /\ GateInv /\ ServerInv
      /\ FlightInv /\ ReplyInv /\ CallOf(p) /\ ListOf(p) /\ ReadOf(p)
  BY DEF IInv, CallInv, ListInv, ReadInv
<1>1. /\ UNCHANGED <<free, queue, request, reply, done, flushed, cur, orig, peer,
                     calls, intrs, wire, got, rip, rend>>
      /\ hung /\ hung' = hung /\ srv' = srv /\ rx' = rx /\ served' = served
  BY DEF Fails, fields, count, mount, wire
<1>2. /\ pc[p] \in {"write", "reading"} /\ pc' = [pc EXCEPT ![p] = "caught"]
      /\ err' = [err EXCEPT ![p] = TRUE]
  BY DEF Fails, Goto
<1>3. Alone(p) /\ pc'[p] = "caught" /\ err'[p]
  BY <1>0, <1>1, <1>2 DEF Types, Alone
<1>4. Types'
  <2>1. pc' \in [Proc -> PC] /\ err' \in [Proc -> BOOLEAN]
    BY <1>0, <1>2 DEF Types, PC
  <2> QED BY <1>0, <1>1, <2>1 DEF Types
<1>5. FreeInv' /\ CallInv' /\ OwnInv' /\ ChainInv'
  BY <1>1, <1>2, <1>3, OwnedSame
<1>6. ListInv'
  <2>1. ListOf(p)'
    BY <1>3 DEF ListOf, Waiting
  <2>2. \A i \in 1..Len(queue) : Used(queue[i])' /\ ~done'[queue[i]]
    BY <1>0, <1>1 DEF ListInv, Used
  <2> QED BY <1>0, <1>1, <1>3, <2>1, <2>2, ListKept
<1>7. ReadInv' /\ RendInv' /\ CountInv'
  <2>1. ReadOf(p)'
    BY <1>0, <1>1, <1>2, <1>3 DEF ReadOf
  <2>2. Flushing' \subseteq Flushing
    BY <1>3 DEF Flushing, Alone
  <2> QED BY <1>1, <1>2, <1>3, <1>4, <2>1, <2>2, PartsKept
<1>8. GateInv'
  <2>1. Witness(p) => Excused
    BY <1>1, <1>2 DEF Witness, Excused
  <2> QED BY <1>0, <1>1, <1>3, <2>1, GateSame
<1>9. ServerInv'
  BY <1>0, <1>1 DEF ServerInv
<1>10. \A q \in Proc : Good(q)' => Good(q) /\ q # p
  BY <1>1, <1>3 DEF Good, Alone
<1>11. ReplyInv'
  <2>1. ReplyOf(p)'
    BY <1>10 DEF ReplyOf
  <2> QED BY <1>0, <1>1, <1>3, <2>1, ReplyKept
<1>12. FlightInv'
  <2>1. Flight' = Flight
    <3>1. Muxed' = Muxed
      BY <1>0, <1>1, <1>2, <1>3, MuxedKept DEF Types, Alone
    <3> QED BY <1>1, <3>1 DEF Flight
  <2>2. ASSUME NEW q \in Proc, NEW m, Good(q)', Expected(q, m) PROVE Expected(q, m)'
    <3>1. pc'[q] = pc[q]
      BY <1>3, <1>10, <2>2 DEF Alone
    <3> QED BY <1>1, <2>2, <3>1 DEF Expected, OnQueue
  <2> QED BY <1>0, <1>1, <1>10, <2>1, <2>2, FlightSame
<1> QED BY <1>4, <1>5, <1>6, <1>7, <1>8, <1>9, <1>11, <1>12 DEF IInv

(* Its flush was answered and p was not: the reply is made an Rflush.      *)
LEMMA FlushMarkStep ==
  ASSUME IInv, NEW p \in Proc, FlushMark(p)
  PROVE  IInv'
<1>0. /\ Types /\ CallInv /\ OwnInv /\ ListInv /\ ReadInv /\ RendInv /\ GateInv /\ ServerInv
      /\ FlightInv /\ ReplyInv /\ CallOf(p) /\ ListOf(p) /\ ReadOf(p) /\ ReplyOf(p)
  BY DEF IInv, CallInv, ListInv, ReadInv, ReplyInv
<1>1. /\ UNCHANGED <<free, queue, request, done, flushed, cur, orig, peer, err,
                     calls, intrs, wire, got, rip, rend>>
      /\ hung' = hung /\ srv' = srv /\ rx' = rx /\ served' = served
  BY DEF FlushMark, locals, count, mount, wire
<1>2. /\ pc[p] = "mark" /\ pc' = [pc EXCEPT ![p] = "remove"]
      /\ reply' = [reply EXCEPT ![cur[p]].kind = "Rflush"]
  BY DEF FlushMark, Goto
<1>3. Alone(p) /\ pc'[p] = "remove" /\ cur[p] \in Rpc
  BY <1>0, <1>1, <1>2, MovesAlone DEF CallOf
<1>4. /\ reply' \in [Rpc -> Reply] /\ reply'[cur[p]].kind = "Rflush"
      /\ \A r \in Rpc : r # cur[p] => reply'[r] = reply[r]
  <2>1. reply[cur[p]] \in Reply /\ reply \in [Rpc -> Reply]
    BY <1>0, <1>3 DEF Types
  <2>2. [reply[cur[p]] EXCEPT !.kind = "Rflush"] \in Reply
    BY <2>1 DEF Reply, Kind
  <2>3. reply' = [reply EXCEPT ![cur[p]] = [reply[cur[p]] EXCEPT !.kind = "Rflush"]]
    BY <1>2
  <2>4. [reply[cur[p]] EXCEPT !.kind = "Rflush"].kind = "Rflush"
    BY <2>1 DEF Reply
  <2> QED BY <1>3, <2>1, <2>2, <2>3, <2>4
<1>5. Types'
  <2>1. pc' \in [Proc -> PC]
    BY <1>0, <1>2 DEF Types, PC
  <2> QED BY <1>0, <1>1, <1>4, <2>1 DEF Types
<1>6. FreeInv' /\ CallInv' /\ OwnInv' /\ ChainInv'
  <2>1. err'[p] => hung'
    BY <1>0, <1>1 DEF CallOf
  <2> QED BY <1>1, <1>2, <1>3, <2>1, OwnedSame
<1>7. ListInv'
  <2>1. ListOf(p)'
    BY <1>3 DEF ListOf, Waiting
  <2>2. \A i \in 1..Len(queue) : Used(queue[i])' /\ ~done'[queue[i]]
    BY <1>0, <1>1 DEF ListInv, Used
  <2> QED BY <1>0, <1>1, <1>3, <2>1, <2>2, ListKept
<1>8. \A q \in Proc \ {p} : pc[q] # "idle" =>
        reply'[cur[q]] = reply[cur[q]] /\ reply'[orig[q]] = reply[orig[q]]
  <2> SUFFICES ASSUME NEW q \in Proc \ {p}, pc[q] # "idle"
               PROVE  reply'[cur[q]] = reply[cur[q]] /\ reply'[orig[q]] = reply[orig[q]]
    OBVIOUS
  <2>1. /\ cur[q] \in Rpc /\ orig[q] \in Rpc /\ Owns(q, cur[q]) /\ Owns(q, orig[q])
        /\ Owns(p, cur[p])
    BY <1>0, <1>2 DEF CallInv, CallOf
  <2>2. cur[q] # cur[p] /\ orig[q] # cur[p]
    BY <2>1, OneOwner
  <2> QED BY <1>4, <2>1, <2>2
<1>9. ReadInv' /\ RendInv' /\ CountInv'
  <2>1. ReadOf(p)'
    BY <1>0, <1>1, <1>2, <1>3 DEF ReadOf
  <2>2. Flushing' \subseteq Flushing
    BY <1>1, <1>3 DEF Flushing, Alone
  <2> QED BY <1>1, <1>2, <1>3, <1>5, <1>8, <2>1, <2>2, PartsKept
<1>10. GateInv'
  <2>1. ~Witness(p)
    BY <1>2 DEF Witness
  <2> QED BY <1>0, <1>1, <1>3, <2>1, GateSame
<1>11. ServerInv'
  BY <1>0, <1>1 DEF ServerInv
<1>12. \A q \in Proc : Good(q)' => Good(q)
  BY <1>1, <1>2, <1>3 DEF Good, Alone, Waiting, Leaving
<1>13. ReplyInv'
  <2>1. ReplyOf(p)'
    <3>1. CASE cur[p] = orig[p]
      BY <1>1, <1>4, <3>1 DEF ReplyOf
    <3>2. CASE cur[p] # orig[p]
      <4>1. reply'[orig[p]] = reply[orig[p]]
        BY <1>0, <1>2, <1>4, <3>2 DEF CallOf
      <4> QED BY <1>0, <1>1, <1>2, <1>3, <1>12, <3>2, <4>1 DEF ReplyOf
    <3> QED BY <3>1, <3>2
  <2> QED BY <1>0, <1>1, <1>3, <1>8, <2>1, ReplyKept
<1>14. FlightInv'
  <2>1. Flight' = Flight
    <3>1. Muxed' = Muxed
      BY <1>0, <1>1, <1>2, <1>3, <1>8, MuxedKept DEF Types, Alone
    <3> QED BY <1>1, <3>1 DEF Flight
  <2>2. ASSUME NEW q \in Proc, NEW m, Expected(q, m) PROVE Expected(q, m)'
    <3>1. CASE q = p
      BY <1>2, <2>2, <3>1 DEF Expected, Leaving
    <3>2. CASE q # p
      <4>1. pc'[q] = pc[q]
        BY <1>3, <3>2 DEF Alone
      <4> QED BY <1>1, <2>2, <4>1 DEF Expected, OnQueue
    <3> QED BY <3>1, <3>2
  <2> QED BY <1>0, <1>1, <1>12, <2>1, <2>2, FlightSame
<1> QED BY <1>5, <1>6, <1>7, <1>9, <1>10, <1>11, <1>13, <1>14 DEF IInv
-----------------------------------------------------------------------------
(* Reading and demultiplexing.                                             *)

(* The reader takes the first of the messages received.                    *)
LEMMA ReadStep ==
  ASSUME IInv, NEW p \in Proc, Read(p)
  PROVE  IInv'
<1>0. /\ Types /\ CallInv /\ OwnInv /\ ListInv /\ ReadInv /\ RendInv /\ GateInv /\ ServerInv
      /\ FlightInv /\ ReplyInv /\ CallOf(p) /\ ListOf(p) /\ ReadOf(p) /\ ReplyOf(p)
  BY DEF IInv, CallInv, ListInv, ReadInv, ReplyInv
<1>1. /\ UNCHANGED <<free, queue, request, done, flushed, cur, orig, peer, err,
                     calls, intrs, srv, hung, served, got, rip, rend>>
  BY DEF Read, locals, count, mount
<1>2. /\ pc[p] = "reading" /\ pc' = [pc EXCEPT ![p] = "mux"] /\ ~done[cur[p]]
      /\ rx # <<>> /\ reply' = [reply EXCEPT ![cur[p]] = Head(rx)] /\ rx' = Tail(rx)
  BY DEF Read, Goto
<1>3. /\ Alone(p) /\ pc'[p] = "mux" /\ cur[p] \in Rpc /\ orig[p] \in Rpc
      /\ rip = p /\ p # Nil
  BY <1>0, <1>1, <1>2, MovesAlone, NilRpc DEF CallOf, ReadOf
<1>4. /\ Head(rx) \in Message /\ Tail(rx) \in Seq(Message) /\ rx = <<Head(rx)>> \o Tail(rx)
      /\ srv \in Seq(Message) /\ rx \in Seq(Message)
  <2>1. rx \in Seq(Message) /\ srv \in Seq(Message)
    BY <1>0 DEF Types
  <2>2. Head(rx) \in Message /\ Tail(rx) \in Seq(Message)
    BY <1>2, <2>1, HeadTailProperties
  <2>3. rx = <<Head(rx)>> \o Tail(rx)
    BY <1>2, <2>1
  <2> QED BY <2>1, <2>2, <2>3
<1>5. /\ reply' \in [Rpc -> Reply] /\ reply'[cur[p]] = Head(rx)
      /\ \A r \in Rpc : r # cur[p] => reply'[r] = reply[r]
  <2>1. Message \subseteq Reply
    BY DEF Message, Reply
  <2> QED BY <1>0, <1>2, <1>3, <1>4, <2>1 DEF Types
<1>6. Types'
  <2>1. pc' \in [Proc -> PC]
    BY <1>0, <1>2 DEF Types, PC
  <2> QED BY <1>0, <1>1, <1>2, <1>4, <1>5, <2>1 DEF Types
<1>7. FreeInv' /\ CallInv' /\ OwnInv' /\ ChainInv'
  <2>1. err'[p] => hung'
    BY <1>0, <1>1 DEF CallOf
  <2> QED BY <1>1, <1>2, <1>3, <2>1, OwnedSame
<1>8. ListInv'
  <2>1. ListOf(p)'
    BY <1>0, <1>1, <1>2, <1>3 DEF ListOf, Waiting, OnQueue
  <2>2. \A i \in 1..Len(queue) : Used(queue[i])' /\ ~done'[queue[i]]
    BY <1>0, <1>1 DEF ListInv, Used
  <2> QED BY <1>0, <1>1, <1>3, <2>1, <2>2, ListKept
<1>9. \A q \in Proc \ {p} : pc[q] # "idle" =>
        reply'[cur[q]] = reply[cur[q]] /\ reply'[orig[q]] = reply[orig[q]]
  <2> SUFFICES ASSUME NEW q \in Proc \ {p}, pc[q] # "idle"
               PROVE  reply'[cur[q]] = reply[cur[q]] /\ reply'[orig[q]] = reply[orig[q]]
    OBVIOUS
  <2>1. /\ cur[q] \in Rpc /\ orig[q] \in Rpc /\ Owns(q, cur[q]) /\ Owns(q, orig[q])
        /\ Owns(p, cur[p])
    BY <1>0, <1>2 DEF CallInv, CallOf
  <2>2. cur[q] # cur[p] /\ orig[q] # cur[p]
    BY <2>1, OneOwner
  <2> QED BY <1>5, <2>1, <2>2
<1>10. ReadInv' /\ RendInv' /\ CountInv'
  <2>1. ReadOf(p)'
    BY <1>0, <1>1, <1>3, <1>4, <1>5 DEF ReadOf
  <2>2. Flushing' \subseteq Flushing
    BY <1>1, <1>3 DEF Flushing, Alone
  <2> QED BY <1>1, <1>2, <1>3, <1>6, <1>9, <2>1, <2>2, PartsKept
<1>11. GateInv'
  BY <1>1, <1>3 DEF GateInv
<1>12. ServerInv'
  BY <1>0, <1>1 DEF ServerInv
<1>13. \A q \in Proc : Good(q)' => Good(q)
  BY <1>1, <1>2, <1>3 DEF Good, Alone, Waiting, Leaving
<1>14. ReplyInv'
  <2>1. ReplyOf(p)'
    <3>1. CASE cur[p] = orig[p]
      BY <1>1, <1>2, <1>3, <3>1 DEF ReplyOf
    <3>2. CASE cur[p] # orig[p]
      <4>1. reply'[orig[p]] = reply[orig[p]]
        BY <1>3, <1>5, <3>2
      <4> QED BY <1>0, <1>1, <1>2, <1>3, <1>13, <3>2, <4>1 DEF ReplyOf
    <3> QED BY <3>1, <3>2
  <2> QED BY <1>0, <1>1, <1>3, <1>9, <2>1, ReplyKept
<1>15. FlightInv'
  <2>1. Flight' = Flight
    <3>1. Muxed = <<>> /\ Muxed' = <<Head(rx)>>
      BY <1>1, <1>2, <1>3, <1>5 DEF Muxed
    <3>2. Flight = rx \o srv
      <4>1. rx \o srv \in Seq(Message)
        BY <1>4, ConcatProperties
      <4> QED BY <3>1, <4>1, ConcatEmptySeq DEF Flight
    <3>3. Flight' = <<Head(rx)>> \o (Tail(rx) \o srv)
      BY <1>1, <1>2, <3>1 DEF Flight
    <3>4. <<Head(rx)>> \in Seq(Message)
      BY <1>4
    <3>5. (<<Head(rx)>> \o Tail(rx)) \o srv = <<Head(rx)>> \o (Tail(rx) \o srv)
      BY <1>4, <3>4, ConcatAssociative
    <3> QED BY <1>4, <3>2, <3>3, <3>5
  <2>2. ASSUME NEW q \in Proc, NEW m, Expected(q, m) PROVE Expected(q, m)'
    <3>1. CASE q = p
      BY <1>1, <1>2, <1>3, <2>2, <3>1 DEF Expected, OnQueue, Leaving
    <3>2. CASE q # p
      <4>1. pc'[q] = pc[q]
        BY <1>3, <3>2 DEF Alone
      <4> QED BY <1>1, <2>2, <4>1 DEF Expected, OnQueue
    <3> QED BY <3>1, <3>2
  <2> QED BY <1>0, <1>1, <1>13, <2>1, <2>2, FlightSame
<1> QED BY <1>6, <1>7, <1>8, <1>10, <1>11, <1>12, <1>14, <1>15 DEF IInv

(* The message in hand is the first one in flight.                         *)
LEMMA InHand ==
  ASSUME Types, ReadInv, NEW p \in Proc, pc[p] = "mux"
  PROVE  /\ rip = p /\ reply[cur[p]] \in Message
         /\ Muxed = <<reply[cur[p]]>> /\ Len(Muxed) = 1
         /\ Len(Flight) \in Nat /\ 1 <= Len(Flight) /\ Flight[1] = reply[cur[p]]
<1>1. rip = p /\ reply[cur[p]] \in Message /\ p # Nil
  BY NilRpc DEF ReadInv, ReadOf
<1>2. Muxed = <<reply[cur[p]]>>
  BY <1>1 DEF Muxed
<1>3. Len(Muxed) = 1 /\ Muxed[1] = reply[cur[p]]
  BY <1>2
<1>4. Len(Flight) \in Nat /\ 1 <= Len(Flight)
  BY <1>3, FlightSeq
<1>5. Flight[1] = Muxed[1]
  <2>1. 1 \in 1..Len(Flight) /\ 1 <= Len(Muxed)
    BY <1>3, <1>4
  <2> QED BY <2>1, FlightSeq
<1> QED BY <1>1, <1>2, <1>3, <1>4, <1>5

(* It has been dealt with: the others move up by one.                      *)
LEMMA HandEmptied ==
  ASSUME Types, ReadInv, NEW p \in Proc, pc[p] = "mux", pc'[p] # "mux",
         UNCHANGED <<rip, rx, srv>>, Types', ReadInv',
         NEW F, F = Flight, NEW G, G = Flight'
  PROVE  /\ Len(F) \in Nat /\ Len(G) \in Nat /\ Len(G) + 1 <= Len(F)
         /\ \A i \in 1..Len(G) : G[i] = F[i + 1]
<1>1. rip = p /\ p # Nil /\ Muxed = <<reply[cur[p]]>> /\ reply[cur[p]] \in Message
  BY InHand, NilRpc
<1>2. Muxed' = <<>>
  BY <1>1 DEF Muxed
<1> DEFINE t == rx \o srv
           h == <<reply[cur[p]]>>
<1>3. rx \in Seq(Message) /\ srv \in Seq(Message) /\ h \in Seq(Message) /\ Len(h) = 1
  BY <1>1 DEF Types
<1>4. t \in Seq(Message) /\ Len(t) \in Nat
  BY <1>3, ConcatProperties, LenProperties
<1>5. F = h \o t
  BY <1>1 DEF Flight
<1>6. G = t
  <2>1. G = <<>> \o t
    BY <1>2 DEF Flight
  <2> HIDE DEF t
  <2> QED BY <1>4, <2>1, ConcatEmptySeq
<1> HIDE DEF t, h
<1>7. /\ Len(h \o t) = Len(h) + Len(t)
      /\ \A i \in 1..Len(h) + Len(t) : (h \o t)[i] = IF i <= Len(h) THEN h[i] ELSE t[i - Len(h)]
  BY <1>3, <1>4, ConcatProperties
<1>8. Len(F) = 1 + Len(G) /\ Len(G) \in Nat
  BY <1>3, <1>4, <1>5, <1>6, <1>7
<1>9. ASSUME NEW i \in 1..Len(G) PROVE G[i] = F[i + 1]
  <2>1. i + 1 \in 1..Len(h) + Len(t) /\ ~(i + 1 <= Len(h)) /\ i + 1 - Len(h) = i
    BY <1>3, <1>4, <1>6
  <2>2. (h \o t)[i + 1] = t[i + 1 - Len(h)]
    BY <1>7, <2>1
  <2> QED BY <1>5, <1>6, <2>1, <2>2
<1> QED BY <1>8, <1>9

(* "unexpected reply"                                                      *)
LEMMA StrayStep ==
  ASSUME IInv, NEW p \in Proc, mountmux(p), ~OnQueue(reply[cur[p]].tag)
  PROVE  IInv'
<1>0. /\ Types /\ CallInv /\ OwnInv /\ ListInv /\ ReadInv /\ RendInv /\ GateInv /\ ServerInv
      /\ FlightInv /\ ReplyInv /\ CallOf(p) /\ ListOf(p) /\ ReadOf(p) /\ ReplyOf(p) /\ CountInv
  BY DEF IInv, CallInv, ListInv, ReadInv, ReplyInv
<1>1. /\ UNCHANGED <<free, queue, request, reply, done, flushed, cur, orig, peer, err,
                     calls, intrs, wire, got, rip, rend>>
      /\ hung' = hung /\ srv' = srv /\ rx' = rx /\ served' = served
  BY DEF mountmux, count, wire
<1>2. pc[p] = "mux" /\ pc' = [pc EXCEPT ![p] = "reading"]
  BY DEF mountmux, Goto
<1>3. Alone(p) /\ pc'[p] = "reading" /\ rip = p /\ p # Nil
  BY <1>0, <1>1, <1>2, MovesAlone, InHand, NilRpc
<1>4. Types'
  <2>1. pc' \in [Proc -> PC]
    BY <1>0, <1>2 DEF Types, PC
  <2> QED BY <1>0, <1>1, <2>1 DEF Types
<1>5. FreeInv' /\ CallInv' /\ OwnInv' /\ ChainInv'
  <2>1. err'[p] => hung'
    BY <1>0, <1>1 DEF CallOf
  <2> QED BY <1>1, <1>2, <1>3, <2>1, OwnedSame
<1>6. ListInv'
  <2>1. ListOf(p)'
    BY <1>0, <1>1, <1>2, <1>3 DEF ListOf, Waiting, OnQueue
  <2>2. \A i \in 1..Len(queue) : Used(queue[i])' /\ ~done'[queue[i]]
    BY <1>0, <1>1 DEF ListInv, Used
  <2> QED BY <1>0, <1>1, <1>3, <2>1, <2>2, ListKept
<1>7. ReadInv'
  <2>1. ReadOf(p)'
    BY <1>1, <1>3 DEF ReadOf
  <2> QED BY <1>0, <1>1, <1>3, <2>1, ReadKept
<1>8. RendInv'
  <2>1. \A r \in Rpc : rend'[r] = rend[r] /\ rend[r] # p
    BY <1>0, <1>1, <1>2, NotPosted
  <2> QED BY <1>0, <1>3, <2>1, RendKept DEF Types
<1>9. CountInv'
  <2>1. Flushing' \subseteq Flushing
    BY <1>1, <1>3 DEF Flushing, Alone
  <2>2. intrs <= intrs'
    BY <1>0, <1>1, BoundAssumption DEF Types
  <2> QED BY <1>0, <1>1, <1>4, <2>1, <2>2, CountKept
<1>10. GateInv'
  BY <1>1, <1>3 DEF GateInv
<1>11. ServerInv'
  BY <1>0, <1>1 DEF ServerInv
<1>12. \A q \in Proc : Good(q)' => Good(q)
  BY <1>1, <1>2, <1>3 DEF Good, Alone, Waiting, Leaving
<1>13. ReplyInv'
  <2>1. ReplyOf(p)'
    BY <1>0, <1>1, <1>2, <1>3, <1>12 DEF ReplyOf
  <2> QED BY <1>0, <1>1, <1>3, <2>1, ReplyKept
<1>14. FlightInv'
  <2>1. PICK F : F = Flight
    OBVIOUS
  <2>2. PICK G : G = Flight'
    OBVIOUS
  <2>3. /\ Len(F) \in Nat /\ Len(G) \in Nat /\ Len(G) + 1 <= Len(F)
        /\ \A i \in 1..Len(G) : G[i] = F[i + 1]
    <3>1. pc'[p] # "mux"
      BY <1>3
    <3> QED BY <1>0, <1>1, <1>2, <1>4, <1>7, <2>1, <2>2, <3>1, HandEmptied
  <2>4. ~hung' => \A i \in 1..Len(F) : Used(F[i].tag) => Used(F[i].tag)'
    BY <1>1 DEF Used
  <2>5. ASSUME NEW q \in Proc, NEW m, Good(q)', Owns(q, m.tag)'
        PROVE  /\ Good(q) /\ Owns(q, m.tag) /\ (m.tag = cur'[q] => m.tag = cur[q])
               /\ Expected(q, m) => Expected(q, m)'
    <3>1. Owns(q, m.tag)
      BY <1>1, <2>5 DEF Owns, Used
    <3>2. ASSUME Expected(q, m) PROVE Expected(q, m)'
      <4>1. CASE q = p
        BY <1>1, <1>2, <1>3, <3>2, <4>1 DEF Expected, OnQueue, Leaving
      <4>2. CASE q # p
        <5>1. pc'[q] = pc[q]
          BY <1>3, <4>2 DEF Alone
        <5> QED BY <1>1, <3>2, <5>1 DEF Expected, OnQueue
      <4> QED BY <4>1, <4>2
    <3> QED BY <1>1, <1>12, <2>5, <3>1, <3>2
  <2> QED BY <1>0, <1>1, <2>1, <2>2, <2>3, <2>4, <2>5, FlightKept
<1> QED BY <1>4, <1>5, <1>6, <1>7, <1>8, <1>9, <1>10, <1>11, <1>13, <1>14 DEF IInv

(* The reply is given to its request, t of the process q.                  *)
LEMMA AnswerStep ==
  ASSUME IInv, NEW p \in Proc, mountmux(p), OnQueue(reply[cur[p]].tag)
  PROVE  IInv'
<1>0. /\ Types /\ CallInv /\ OwnInv /\ ChainInv /\ ListInv /\ ReadInv /\ RendInv /\ GateInv
      /\ ServerInv /\ FlightInv /\ ReplyInv /\ CallOf(p) /\ FreeInv /\ CountInv
  BY DEF IInv, CallInv
<1> DEFINE m == reply[cur[p]]
           t == m.tag
<1>1. /\ UNCHANGED <<free, request, flushed, cur, orig, err, calls, intrs, wire, got, rip, rend>>
      /\ hung' = hung /\ srv' = srv /\ rx' = rx /\ served' = served
  BY DEF mountmux, count, wire
<1>2. PICK to \in {"reading", "notify"} : pc[p] = "mux" /\ pc' = [pc EXCEPT ![p] = to]
  BY DEF mountmux, Goto
<1>3. Alone(p) /\ pc'[p] = to /\ rip = p /\ p # Nil /\ m \in Message /\ t \in Rpc
  <2>1. m \in Message /\ rip = p
    BY <1>0, <1>2, InHand
  <2>2. t \in Rpc
    BY <2>1 DEF Message
  <2> QED BY <1>0, <1>1, <1>2, <2>1, <2>2, MovesAlone, NilRpc
<1>4. /\ queue' = Without(t) /\ done' = [done EXCEPT ![t] = TRUE]
      /\ reply' = [reply EXCEPT ![t] = m]
      /\ peer' \in [Proc -> Rpc \cup {Nil}]
  <2>1. /\ queue' = Without(t) /\ done' = [done EXCEPT ![t] = TRUE]
        /\ reply' = [reply EXCEPT ![t] = m]
        /\ peer' = [peer EXCEPT ![p] = IF t = cur[p] THEN Nil ELSE t]
    BY DEF mountmux
  <2> QED BY <1>0, <1>3, <2>1 DEF Types
<1>5. /\ queue' \in Seq(Rpc) /\ Distinct(queue')
      /\ \A x : (\E i \in 1..Len(queue') : queue'[i] = x) <=> OnQueue(x) /\ x # t
  <2>1. Distinct(queue)
    BY <1>0 DEF ListInv
  <2> HIDE DEF t
  <2> QED BY <1>0, <1>4, <2>1, WithoutQueue
<1>6. /\ done'[t] /\ done' \in [Rpc -> BOOLEAN] /\ reply'[t] = m /\ reply' \in [Rpc -> Reply]
      /\ \A r \in Rpc : r # t => done'[r] = done[r] /\ reply'[r] = reply[r]
  <2>1. Message \subseteq Reply
    BY DEF Message, Reply
  <2>2. m \in Reply /\ done \in [Rpc -> BOOLEAN] /\ reply \in [Rpc -> Reply]
    BY <1>0, <1>3, <2>1 DEF Types
  <2> HIDE DEF m, t
  <2> QED BY <1>3, <1>4, <2>2
<1>7. Used(t) /\ ~done[t]
  BY DEF IInv, ListInv, OnQueue
<1> HIDE DEF m, t
<1>8. \A r \in Rpc : done[r] => done'[r]
  BY <1>6
<1>9. Types'
  <2>1. pc' \in [Proc -> PC]
    BY <1>0, <1>2 DEF Types, PC
  <2> QED BY <1>0, <1>1, <1>4, <1>5, <1>6, <2>1 DEF Types
<1>10. FreeInv'
  BY <1>0, <1>1, <1>6, <1>7, FreeKept
<1>11. OwnInv' /\ ChainInv'
  <2>1. \A q \in Proc : pc[q] # "idle" => pc'[q] # "idle"
    BY <1>3 DEF Alone
  <2> QED BY <1>0, <1>1, <2>1, ChainsKept
<1>12. CallInv'
  <2>1. CallOf(p)'
    BY <1>0, <1>1, <1>2, <1>3 DEF CallOf, Owns, Used
  <2>2. \A q \in Proc \ {p} : pc[q] = "return" => done'[cur[q]]
    BY <1>0, <1>8 DEF CallInv, CallOf
  <2>3. \A q \in Proc \ {p} : \A r \in Rpc : Owns(q, r) => Owns(q, r)'
    BY <1>1 DEF Owns, Used
  <2> QED BY <1>0, <1>1, <1>3, <2>1, <2>2, <2>3, CallKept
<1>13. PICK F : F = Flight
  OBVIOUS
<1>14. 1 \in 1..Len(F) /\ F[1] = m /\ Len(F) \in Nat
  BY <1>0, <1>2, <1>13, InHand DEF m
<1>15. ASSUME NEW q \in Proc, Good(q), Owns(q, t)
       PROVE  /\ Expected(q, m) /\ FlightOf(q, F)
              /\ \A i \in 1..Len(F) : i > 1 /\ Owns(q, F[i].tag) =>
                                        F[i].tag # t /\ t # cur[q]
  <2>1. FlightOf(q, F)
    BY <1>0, <1>13, <1>15 DEF FlightInv
  <2>2. Expected(q, m)
    BY <1>14, <1>15, <2>1 DEF FlightOf, t
  <2>3. ASSUME NEW i \in 1..Len(F), i > 1, Owns(q, F[i].tag)
        PROVE  F[i].tag # t /\ t # cur[q]
    BY <1>14, <1>15, <2>1, <2>3 DEF FlightOf, t
  <2> QED BY <2>1, <2>2, <2>3
<1>16. ListInv'
  <2>1. ASSUME NEW i \in 1..Len(queue')
        PROVE  request'[queue'[i]].kind # "none" /\ ~done'[queue'[i]]
    <3>1. OnQueue(queue'[i]) /\ queue'[i] # t /\ queue'[i] \in Rpc
      BY <1>5, ElementOfSeq
    <3>2. Used(queue'[i]) /\ ~done[queue'[i]]
      BY <1>0, <3>1 DEF ListInv, OnQueue
    <3> QED BY <1>1, <1>6, <3>1, <3>2 DEF Used
  <2>2. ASSUME NEW q \in Proc PROVE ListOf(q)'
    <3>1. ListOf(q) /\ (pc[q] # "idle" => cur[q] \in Rpc /\ Owns(q, cur[q])) /\ cur'[q] = cur[q]
      BY <1>0, <1>1 DEF ListInv, CallInv, CallOf
    <3>2. (pc'[q] = "link" => pc[q] = "link") /\ (pc'[q] = "write" => pc[q] = "write")
      <4>1. CASE q = p
        BY <1>3, <4>1
      <4>2. CASE q # p
        BY <1>3, <4>2 DEF Alone
      <4> QED BY <4>1, <4>2
    <3>3. pc'[q] \in Waiting \cup {"write"} => pc[q] \in Waiting \cup {"write"}
      <4>1. CASE q = p
        BY <1>2, <4>1 DEF Waiting
      <4>2. CASE q # p
        BY <1>3, <4>2 DEF Alone
      <4> QED BY <4>1, <4>2
    <3>4. "idle" \notin Waiting \cup {"write"}
      BY DEF Waiting
    <3>5. pc'[q] \in Waiting \cup {"write"} => OnQueue(cur[q])' \/ done'[cur[q]]
      <4> SUFFICES ASSUME pc[q] \in Waiting \cup {"write"}
                   PROVE  OnQueue(cur[q])' \/ done'[cur[q]]
        BY <3>3
      <4>1. cur[q] \in Rpc /\ cur'[q] = cur[q] /\ (OnQueue(cur[q]) \/ done[cur[q]])
        BY <3>1, <3>4 DEF ListOf
      <4>2. OnQueue(cur[q]) /\ cur[q] # t => OnQueue(cur[q])'
        BY <1>5, <4>1 DEF OnQueue
      <4> QED BY <1>6, <1>8, <4>1, <4>2
    <3>6. pc'[q] = "link" => ~OnQueue(cur[q])' /\ ~done'[cur[q]]
      <4> SUFFICES ASSUME pc[q] = "link" PROVE ~OnQueue(cur[q])' /\ ~done'[cur[q]]
        BY <3>2
      <4>1. cur[q] \in Rpc /\ ~OnQueue(cur[q]) /\ ~done[cur[q]]
        BY <3>1 DEF ListOf
      <4>2. cur[q] # t
        BY <4>1 DEF t, m
      <4> QED BY <1>1, <1>5, <1>6, <4>1, <4>2 DEF OnQueue
    <3>7. pc'[q] = "write" /\ ~hung' => ~done'[cur[q]]
      <4> SUFFICES ASSUME pc[q] = "write", ~hung PROVE ~done'[cur[q]]
        BY <1>1, <3>2
      <4>1. cur[q] \in Rpc /\ ~done[cur[q]] /\ Owns(q, cur[q])
        BY <3>1 DEF ListOf
      <4>2. Good(q)
        BY <1>0, GoodWhenUp
      <4>3. cur[q] # t
        <5> SUFFICES ASSUME cur[q] = t PROVE FALSE
          OBVIOUS
        <5>1. Expected(q, m)
          BY <1>15, <4>1, <4>2
        <5> QED BY <5>1 DEF Expected, t
      <4> QED BY <1>6, <4>1, <4>3
    <3>8. OnQueue(cur[q])' = (\E i \in 1..Len(queue') : queue'[i] = cur'[q])
      BY DEF OnQueue
    <3> QED BY <3>1, <3>5, <3>6, <3>7, <3>8 DEF ListOf
  <2>3. \A q \in Proc : ListOf(q)'
    BY <2>2
  <2> QED BY <1>5, <2>1, <2>3 DEF ListInv, Used
<1>17. ReadInv'
  <2>1. ReadOf(p)'
    BY <1>1, <1>3 DEF ReadOf
  <2>2. \A q \in Proc \ {p} : pc[q] # "mux"
    BY <1>0, <1>3 DEF ReadInv, ReadOf
  <2> QED BY <1>0, <1>1, <1>3, <2>1, <2>2, ReadKept
<1>18. RendInv'
  <2>1. \A r \in Rpc : rend'[r] = rend[r] /\ rend[r] # p
    BY <1>0, <1>1, <1>2, NotPosted
  <2> QED BY <1>0, <1>3, <2>1, RendKept DEF Types
<1>19. CountInv'
  <2>1. Flushing' \subseteq Flushing
    BY <1>1, <1>3 DEF Flushing, Alone
  <2>2. intrs <= intrs'
    BY <1>0, <1>1, BoundAssumption DEF Types
  <2> QED BY <1>0, <1>1, <1>9, <2>1, <2>2, CountKept
<1>20. GateInv'
  BY <1>1, <1>3 DEF GateInv
<1>21. ServerInv'
  BY <1>0, <1>1 DEF ServerInv
<1>22. \A q \in Proc : Good(q)' => Good(q)
  BY <1>1, <1>2, <1>3 DEF Good, Alone, Waiting, Leaving
<1>23. ReplyInv'
  <2> SUFFICES ASSUME NEW q \in Proc, pc'[q] # "idle", Good(q)', reply'[orig'[q]].kind = "R",
                      done'[orig'[q]] \/ (pc'[q] = "remove" /\ cur'[q] = orig'[q])
               PROVE  reply'[orig'[q]].call = <<q, calls'[q]>> /\ served'[q]
    BY DEF ReplyInv, ReplyOf
  <2>1. pc[q] # "idle" /\ (pc'[q] = "remove" => pc[q] = "remove") /\ Good(q)
    BY <1>2, <1>3, <1>22 DEF Alone
  <2>2. orig[q] \in Rpc /\ Owns(q, orig[q]) /\ orig'[q] = orig[q] /\ cur'[q] = cur[q]
    BY <1>0, <1>1, <2>1 DEF CallInv, CallOf
  <2>3. CASE orig[q] = t
    <3>1. Expected(q, m)
      BY <1>15, <2>1, <2>2, <2>3
    <3> QED BY <1>1, <1>6, <2>2, <2>3, <3>1 DEF Expected
  <2>4. CASE orig[q] # t
    <3>1. done'[orig[q]] = done[orig[q]] /\ reply'[orig[q]] = reply[orig[q]]
      BY <1>6, <2>2, <2>4
    <3>2. ReplyOf(q)
      BY <1>0 DEF ReplyInv
    <3> QED BY <1>1, <2>1, <2>2, <3>1, <3>2 DEF ReplyOf
  <2> QED BY <2>3, <2>4
<1>24. FlightInv'
  <2>2. PICK G : G = Flight'
    OBVIOUS
  <2>3. /\ Len(F) \in Nat /\ Len(G) \in Nat /\ Len(G) + 1 <= Len(F)
        /\ \A i \in 1..Len(G) : G[i] = F[i + 1]
    <3>1. pc'[p] # "mux"
      BY <1>3
    <3> QED BY <1>0, <1>1, <1>2, <1>9, <1>13, <1>17, <2>2, <3>1, HandEmptied
  <2>4. ~hung' => \A i \in 1..Len(F) : Used(F[i].tag) => Used(F[i].tag)'
    BY <1>1 DEF Used
  <2>5. ASSUME NEW q \in Proc, NEW i \in 1..Len(F), i > 1, Good(q)', Owns(q, F[i].tag)'
        PROVE  /\ Good(q) /\ Owns(q, F[i].tag) /\ (F[i].tag = cur'[q] => F[i].tag = cur[q])
               /\ Expected(q, F[i]) => Expected(q, F[i])'
    <3>1. Owns(q, F[i].tag) /\ Good(q)
      BY <1>1, <1>22, <2>5 DEF Owns, Used
    <3>2. ASSUME Expected(q, F[i]) PROVE Expected(q, F[i])'
      <4>1. F[i].tag # t /\ t # cur[q]
        <5>1. CASE Owns(q, t)
          BY <1>15, <2>5, <3>1, <5>1
        <5>2. CASE ~Owns(q, t)
          <6>1. pc[q] # "idle"
            <7>1. Used(F[i].tag) /\ request[F[i].tag].call = <<q, calls[q]>>
              BY <3>1 DEF Owns
            <7>2. F[i].tag \in Rpc
              <8>1. OnQueue(F[i].tag) /\ queue \in Seq(Rpc)
                BY <1>0, <3>2 DEF Expected, Types
              <8> QED BY <8>1, ElementOfSeq DEF OnQueue
            <7> QED BY <1>0, <3>1, <7>2, Owned
          <6>2. Owns(q, cur[q])
            BY <1>0, <6>1 DEF CallInv, CallOf
          <6> QED BY <3>1, <5>2, <6>2
        <5> QED BY <5>1, <5>2
      <4>2. OnQueue(F[i].tag)'
        BY <1>5, <3>2, <4>1 DEF Expected, OnQueue
      <4>3. ~done'[cur[q]]
        BY <1>4, <3>2, <4>1 DEF Expected
      <4>4. pc'[q] \notin Leaving /\ (pc'[q] \in {"link", "write"} => pc[q] = pc'[q])
        <5>1. CASE q = p
          BY <1>3, <5>1 DEF Leaving
        <5>2. CASE q # p
          BY <1>3, <3>2, <5>2 DEF Alone, Expected
        <5> QED BY <5>1, <5>2
      <4> QED BY <1>1, <3>2, <4>2, <4>3, <4>4 DEF Expected, OnQueue
    <3> QED BY <1>1, <3>1, <3>2
  <2> QED BY <1>0, <1>1, <1>13, <2>2, <2>3, <2>4, <2>5, FlightKept
<1> QED BY <1>9, <1>10, <1>11, <1>12, <1>16, <1>17, <1>18, <1>19, <1>20, <1>21, <1>23, <1>24 DEF IInv
-----------------------------------------------------------------------------
(* p's request is the last message in flight.                              *)
LEMMA FlightAppended ==
  ASSUME IInv, NEW p \in Proc, pc[p] = "write", pc'[p] \in {"gate", "caught"}, Alone(p),
         ~hung, ~hung', Muxed' = Muxed, rx' = rx, srv' = Append(srv, request[cur[p]]),
         UNCHANGED <<queue, request, done, cur, calls, served>>
  PROVE  FlightInv' /\ ServerInv' /\ srv' \in Seq(Message)
<1>0. /\ Types /\ CallInv /\ OwnInv /\ ListInv /\ ReadInv /\ ServerInv /\ FlightInv
      /\ CallOf(p) /\ ListOf(p)
  BY DEF IInv, CallInv, ListInv
<1>a. PICK r : r = cur[p]
  OBVIOUS
<1>b. PICK m : m = request[r]
  OBVIOUS
<1>1. r \in Rpc /\ Owns(p, r)
  BY <1>0, <1>a DEF CallOf
<1>2. /\ m \in Message /\ m.tag = r /\ m.call = <<p, calls[p]>> /\ m.kind \in {"T", "Tflush"}
  BY <1>0, <1>1, <1>b, Owned, RequestOf DEF Owns
<1>3. ~done[r] /\ OnQueue(r)
  BY <1>0, <1>a DEF ListOf
<1>4. PICK F : F = Flight
  OBVIOUS
<1>5. F \in Seq(Message) /\ Len(F) \in Nat /\ srv \in Seq(Message)
  BY <1>0, <1>4, FlightSeq DEF Types
<1>6. Flight' = Append(F, m)
  <2>1. <<m>> \in Seq(Message) /\ rx \in Seq(Message) /\ Muxed \in Seq(Message)
    BY <1>0, <1>2, FlightSeq DEF Types
  <2>2. srv' = srv \o <<m>>
    <3>1. srv' = Append(srv, m)
      BY <1>a, <1>b
    <3> QED BY <1>2, <1>5, <3>1, AppendIsConcat
  <2>3. Flight' = Muxed \o (rx \o (srv \o <<m>>))
    BY <2>2 DEF Flight
  <2> DEFINE u == Muxed
  <2>4. u \in Seq(Message) /\ Flight' = u \o (rx \o (srv \o <<m>>)) /\ F = u \o (rx \o srv)
    BY <1>4, <2>1, <2>3 DEF Flight
  <2> HIDE DEF u
  <2>5. rx \o (srv \o <<m>>) = (rx \o srv) \o <<m>> /\ rx \o srv \in Seq(Message)
    BY <1>5, <2>1, ConcatAssociative, ConcatProperties
  <2>6. u \o ((rx \o srv) \o <<m>>) = (u \o (rx \o srv)) \o <<m>>
    <3>1. PICK t : t = rx \o srv
      OBVIOUS
    <3>2. t \in Seq(Message)
      BY <2>5, <3>1
    <3>3. u \o (t \o <<m>>) = (u \o t) \o <<m>>
      BY <2>1, <2>4, <3>2, ConcatAssociative
    <3> QED BY <3>1, <3>3
  <2>7. F \o <<m>> = Append(F, m)
    BY <1>2, <1>5, AppendIsConcat
  <2> QED BY <2>4, <2>5, <2>6, <2>7
<1>c. PICK G : G = Append(F, m)
  OBVIOUS
<1>d. PICK n : n = Len(F) + 1
  OBVIOUS
<1>7. Len(G) = n /\ G[n] = m /\ (\A i \in 1..Len(F) : G[i] = F[i])
  BY <1>2, <1>5, <1>c, <1>d, AppendOrder
<1>8. \A i \in 1..Len(G) : i \in 1..Len(F) \/ i = n
  BY <1>5, <1>7, <1>d
<1>9. \A i \in 1..Len(G) : Used(G[i].tag)'
  <2>1. Used(m.tag)
    BY <1>1, <1>2 DEF Owns
  <2>2. \A i \in 1..Len(F) : Used(F[i].tag)
    BY <1>0, <1>4 DEF FlightInv
  <2> QED BY <1>7, <1>8, <2>1, <2>2 DEF Used
<1>10. ASSUME NEW q \in Proc PROVE FlightOf(q, G)'
  <2>1. FlightOf(q, F)
    BY <1>0, <1>4, GoodWhenUp DEF FlightInv
  <2>2. \A x : Owns(q, x)' <=> Owns(q, x)
    BY DEF Owns, Used
  <2>3. ASSUME NEW x, Expected(q, x) PROVE Expected(q, x)'
    <3>1. CASE q = p
      BY <2>3, <3>1 DEF Expected, OnQueue, Leaving
    <3>2. CASE q # p
      <4>1. pc'[q] = pc[q]
        BY <3>2 DEF Alone
      <4> QED BY <2>3, <4>1 DEF Expected, OnQueue
    <3> QED BY <3>1, <3>2
  <2>4. Owns(q, m.tag) => q = p
    BY <1>1, <1>2, OneOwner
  <2>5. Expected(p, m)'
    BY <1>2, <1>3, <1>a DEF Expected, OnQueue, Leaving
  <2>6. ASSUME NEW i \in 1..Len(G), Owns(q, G[i].tag) PROVE Expected(q, G[i])'
    <3>1. CASE i \in 1..Len(F)
      <4>1. Expected(q, F[i])
        BY <1>7, <2>1, <2>6, <3>1 DEF FlightOf
      <4> QED BY <1>7, <2>3, <3>1, <4>1
    <3>2. CASE i = n
      <4>1. q = p /\ G[i] = m
        BY <1>7, <2>4, <2>6, <3>2
      <4> QED BY <2>5, <4>1
    <3> QED BY <1>8, <3>1, <3>2
  <2>7. ASSUME NEW i \in 1..Len(G), NEW j \in 1..Len(G), i < j,
               Owns(q, G[i].tag), Owns(q, G[j].tag)
        PROVE  G[i].tag # G[j].tag /\ G[i].tag # cur[q]
    <3>1. i \in 1..Len(F) /\ G[i] = F[i]
      <4>1. i # n
        BY <1>5, <1>7, <1>d, <2>7
      <4> QED BY <1>7, <1>8, <4>1
    <3>2. CASE j \in 1..Len(F)
      <4>1. G[j] = F[j]
        BY <1>7, <3>2
      <4> QED BY <2>1, <2>7, <3>1, <3>2, <4>1 DEF FlightOf
    <3>3. CASE j = n
      <4>1. q = p /\ G[j] = m
        BY <1>7, <2>4, <2>7, <3>3
      <4>2. Expected(q, F[i])
        BY <2>1, <2>7, <3>1 DEF FlightOf
      <4> QED BY <1>2, <1>a, <3>1, <4>1, <4>2 DEF Expected
    <3> QED BY <1>8, <3>2, <3>3
  <2> QED BY <2>2, <2>6, <2>7 DEF FlightOf
<1>11. FlightInv'
  <2>1. Flight' = G
    BY <1>6, <1>c
  <2>2. \A i \in 1..Len(Flight') : request'[Flight'[i].tag].kind # "none"
    BY <1>9, <2>1 DEF Used
  <2>3. \A q \in Proc : FlightOf(q, Flight)'
    BY <1>10, <2>1 DEF FlightOf
  <2> QED BY <2>2, <2>3 DEF FlightInv, Used
<1>12. srv' \in Seq(Message) /\ ServerInv'
  <2>1. srv' = Append(srv, m)
    BY <1>a, <1>b
  <2>2. /\ srv' \in Seq(Message) /\ Len(srv') = Len(srv) + 1 /\ srv'[Len(srv) + 1] = m
        /\ \A i \in 1..Len(srv) : srv'[i] = srv[i]
    BY <1>2, <1>5, <2>1, AppendOrder
  <2>3. \A i \in 1..Len(srv') : i \in 1..Len(srv) \/ i = Len(srv) + 1
    BY <1>5, <2>2, LenProperties
  <2>4. m = request[m.tag]
    BY <1>2, <1>b
  <2>5. \A i \in 1..Len(srv') : srv'[i] = request'[srv'[i].tag]
    BY <1>0, <2>2, <2>3, <2>4 DEF ServerInv
  <2> QED BY <2>2, <2>5 DEF ServerInv
<1> QED BY <1>11, <1>12

(* The request goes to the server.                                         *)
LEMMA WriteStep ==
  ASSUME IInv, NEW p \in Proc, Write(p)
  PROVE  IInv'
<1>0. /\ Types /\ CallInv /\ OwnInv /\ ListInv /\ ReadInv /\ RendInv /\ GateInv
      /\ ReplyInv /\ CallOf(p) /\ ListOf(p) /\ ReadOf(p) /\ ReplyOf(p)
  BY DEF IInv, CallInv, ListInv, ReadInv, ReplyInv
<1>1. /\ UNCHANGED <<free, queue, request, reply, done, flushed, cur, orig, peer, err,
                     calls, intrs, rx, hung, served, got, rip, rend>>
  BY DEF Write, fields, count, mount, locals
<1>2. /\ pc[p] = "write" /\ pc' = [pc EXCEPT ![p] = "gate"] /\ ~hung /\ ~hung'
      /\ srv' = Append(srv, request[cur[p]])
  BY <1>1 DEF Write, Goto
<1>3. Alone(p) /\ pc'[p] = "gate"
  BY <1>0, <1>1, <1>2, MovesAlone
<1>4. FlightInv' /\ ServerInv' /\ srv' \in Seq(Message)
  <2>1. Muxed' = Muxed
    BY <1>0, <1>1, <1>2, <1>3, MuxedKept DEF Types, Alone
  <2> QED BY <1>1, <1>2, <1>3, <2>1, FlightAppended
<1>5. Types'
  <2>1. pc' \in [Proc -> PC]
    BY <1>0, <1>2 DEF Types, PC
  <2> QED BY <1>0, <1>1, <1>4, <2>1 DEF Types
<1>6. FreeInv' /\ CallInv' /\ OwnInv' /\ ChainInv'
  <2>1. err'[p] => hung'
    BY <1>0, <1>1 DEF CallOf
  <2> QED BY <1>1, <1>2, <1>3, <2>1, OwnedSame
<1>7. ListInv'
  <2>1. ListOf(p)'
    BY <1>0, <1>1, <1>2, <1>3 DEF ListOf, Waiting, OnQueue
  <2>2. \A i \in 1..Len(queue) : Used(queue[i])' /\ ~done'[queue[i]]
    BY <1>0, <1>1 DEF ListInv, Used
  <2> QED BY <1>0, <1>1, <1>3, <2>1, <2>2, ListKept
<1>8. ReadInv' /\ RendInv' /\ CountInv'
  <2>1. ReadOf(p)'
    BY <1>0, <1>1, <1>2, <1>3 DEF ReadOf
  <2>2. Flushing' \subseteq Flushing
    BY <1>1, <1>3 DEF Flushing, Alone
  <2> QED BY <1>1, <1>2, <1>3, <1>5, <2>1, <2>2, PartsKept
<1>9. GateInv'
  <2>1. Witness(p) => Witness(p)'
    BY <1>1, <1>2, <1>3 DEF Witness
  <2> QED BY <1>0, <1>1, <1>3, <2>1, GateSame
<1>10. ReplyInv'
  <2>1. ReplyOf(p)'
    BY <1>0, <1>1, <1>2, <1>3 DEF ReplyOf, Good
  <2> QED BY <1>0, <1>1, <1>3, <2>1, ReplyKept
<1> QED BY <1>4, <1>5, <1>6, <1>7, <1>8, <1>9, <1>10 DEF IInv

(* An interrupt.                                                           *)
LEMMA EintrStep ==
  ASSUME IInv, NEW p \in Proc, Eintr(p)
  PROVE  IInv'
<1>0. /\ Types /\ CallInv /\ OwnInv /\ ListInv /\ ReadInv /\ RendInv /\ GateInv /\ ServerInv
      /\ FlightInv /\ ReplyInv /\ CallOf(p) /\ ListOf(p) /\ ReadOf(p) /\ ReplyOf(p) /\ CountInv
  BY DEF IInv, CallInv, ListInv, ReadInv, ReplyInv
<1>1. /\ UNCHANGED <<free, queue, request, reply, done, flushed, cur, orig, peer, err,
                     calls, rx, hung, served, got, rip>>
  BY DEF Eintr, fields, mount, locals
<1>2. /\ pc[p] \in {"sleep", "asleep", "reading", "write"}
      /\ pc' = [pc EXCEPT ![p] = "caught"]
      /\ rend' = [rend EXCEPT ![cur[p]] = IF @ = p THEN Nil ELSE @]
  BY DEF Eintr, Goto
<1>3. intrs \in Nat /\ intrs' = intrs + 1 /\ intrs' \in 0..MaxIntr /\ intrs' > 0
  BY <1>0, BoundAssumption DEF Types, Eintr
<1>4. Alone(p) /\ pc'[p] = "caught" /\ cur[p] \in Rpc
  BY <1>0, <1>1, <1>2, MovesAlone DEF CallOf
<1>5. /\ rend' \in [Rpc -> Proc \cup {Nil}]
      /\ \A r \in Rpc : rend'[r] # p /\ rend'[r] \in {rend[r], Nil}
  <2>1. ASSUME NEW r \in Rpc PROVE rend'[r] # p /\ rend'[r] \in {rend[r], Nil}
    <3>1. rend[r] = p => r = cur[p]
      BY <1>0, NilRpc DEF RendInv
    <3> QED BY <1>0, <1>2, <1>4, <3>1, NilRpc DEF Types
  <2> QED BY <1>0, <1>2, <2>1 DEF Types
<1>6. FlightInv' /\ ServerInv' /\ srv' \in Seq(Message)
  <2>1. Muxed' = Muxed
    BY <1>0, <1>1, <1>2, <1>4, MuxedKept DEF Types, Alone
  <2>2. CASE srv' = srv
    <3>1. Flight' = Flight
      BY <1>1, <2>1, <2>2 DEF Flight
    <3>2. \A q \in Proc : Good(q)' => Good(q)
      BY <1>1, <1>2, <1>4 DEF Good, Alone, Waiting, Leaving
    <3>3. ASSUME NEW q \in Proc, NEW m, Expected(q, m) PROVE Expected(q, m)'
      <4>1. CASE q = p
        BY <1>1, <1>4, <3>3, <4>1 DEF Expected, OnQueue, Leaving
      <4>2. CASE q # p
        <5>1. pc'[q] = pc[q]
          BY <1>4, <4>2 DEF Alone
        <5> QED BY <1>1, <3>3, <5>1 DEF Expected, OnQueue
      <4> QED BY <4>1, <4>2
    <3>4. FlightInv'
      BY <1>0, <1>1, <3>1, <3>2, <3>3, FlightSame
    <3> QED BY <1>0, <1>1, <2>2, <3>4 DEF ServerInv, Types
  <2>3. CASE pc[p] = "write" /\ ~hung /\ srv' = Append(srv, request[cur[p]])
    <3>1. ~hung' /\ pc'[p] \in {"gate", "caught"}
      BY <1>1, <1>4, <2>3
    <3> QED BY <1>1, <1>4, <2>1, <2>3, <3>1, FlightAppended
  <2>4. \/ srv' = srv
        \/ pc[p] = "write" /\ ~hung /\ srv' = Append(srv, request[cur[p]])
    BY DEF Eintr
  <2> QED BY <2>2, <2>3, <2>4
<1>7. Types'
  <2>1. pc' \in [Proc -> PC]
    BY <1>0, <1>2 DEF Types, PC
  <2> QED BY <1>0, <1>1, <1>3, <1>5, <1>6, <2>1 DEF Types
<1>8. FreeInv' /\ CallInv' /\ OwnInv' /\ ChainInv'
  <2>1. err'[p] => hung'
    BY <1>0, <1>1 DEF CallOf
  <2> QED BY <1>1, <1>2, <1>4, <2>1, OwnedSame
<1>9. ListInv'
  <2>1. ListOf(p)'
    BY <1>4 DEF ListOf, Waiting
  <2>2. \A i \in 1..Len(queue) : Used(queue[i])' /\ ~done'[queue[i]]
    BY <1>0, <1>1 DEF ListInv, Used
  <2> QED BY <1>0, <1>1, <1>4, <2>1, <2>2, ListKept
<1>10. ReadInv'
  <2>1. ReadOf(p)'
    BY <1>0, <1>1, <1>2, <1>4 DEF ReadOf
  <2> QED BY <1>0, <1>1, <1>4, <2>1, ReadKept
<1>11. RendInv'
  <2>1. \A r \in Rpc : rend'[r] = Nil \/ (rend'[r] = rend[r] /\ rend[r] # p)
    BY <1>5
  <2> QED BY <1>0, <1>4, <2>1, RendKept DEF Types
<1>12. CountInv'
  <2>1. Flushes' = Flushes
    BY <1>1 DEF Flushes
  <2>2. Flushing' \subseteq Flushing \cup {p} /\ p \notin Flushing
    BY <1>1, <1>2, <1>4 DEF Flushing, Alone
  <2>3. /\ IsFiniteSet(Flushing \cup {p})
        /\ Cardinality(Flushing \cup {p}) = Cardinality(Flushing) + 1
    BY <2>2, Counts, FS_AddElement
  <2>4. Cardinality(Flushing') <= Cardinality(Flushing) + 1 /\ Cardinality(Flushing') \in Nat
    BY <2>2, <2>3, FS_Subset, FS_CardinalityType
  <2>5. Cardinality(Flushes') + Cardinality(Flushing') <= intrs'
    BY <1>0, <1>3, <2>1, <2>4, Counts DEF CountInv
  <2> QED BY <2>5 DEF CountInv
<1>13. GateInv'
  <2> SUFFICES ASSUME rip' = Nil, Sleepers' PROVE Excused' \/ \E q \in Proc : Witness(q)'
    BY DEF GateInv
  <2>1. Sleepers
    BY <1>1, <1>5 DEF Sleepers
  <2>2. Excused \/ \E q \in Proc : Witness(q)
    BY <1>0, <1>1, <2>1 DEF GateInv
  <2>3. Excused => Excused'
    BY <1>1, <1>3 DEF Excused
  <2>4. ASSUME Witness(p) PROVE Witness(p)'
    BY <1>1, <1>3, <1>4, <1>5, <2>4 DEF Witness
  <2>5. ASSUME NEW q \in Proc \ {p}, Witness(q) PROVE Witness(q)'
    <3>1. ~done'[cur[q]] /\ rend[cur[q]] # q
      BY <1>1, <2>5 DEF Witness
    <3>2. pc[q] # "idle"
      BY <2>5 DEF Witness
    <3>3. cur[q] \in Rpc
      BY <1>0, <3>2 DEF CallInv, CallOf
    <3>4. rend'[cur[q]] # q
      BY <1>5, <3>1, <3>3, NilRpc
    <3> QED BY <1>3, <1>4, <2>5, <3>1, <3>4, WitnessKept
  <2> QED BY <2>2, <2>3, <2>4, <2>5
<1>14. ReplyInv'
  <2>1. ReplyOf(p)'
    BY <1>0, <1>1, <1>2, <1>4 DEF ReplyOf, Good, Waiting, Leaving
  <2> QED BY <1>0, <1>1, <1>4, <2>1, ReplyKept
<1> QED BY <1>6, <1>7, <1>8, <1>9, <1>10, <1>11, <1>12, <1>13, <1>14 DEF IInv
-----------------------------------------------------------------------------
(* Taking a structure.                                                     *)

(* There is one: they are the requests of at most the processes in a call, *)
(* and at most as many flushes as there were interrupts.                   *)
LEMMA FreeLeft ==
  ASSUME IInv, NEW p \in Proc, pc[p] = "idle" \/ p \in Flushing
  PROVE  free # <<>>
<1> SUFFICES ASSUME free = <<>> PROVE FALSE
  OBVIOUS
<1>0. Types /\ FreeInv /\ OwnInv /\ CountInv
  BY DEF IInv
<1> DEFINE A == {q \in Proc : pc[q] # "idle"}
           T == {orig[q] : q \in A}
           f == [q \in A |-> orig[q]]
<1>1. IsFiniteSet(A) /\ Cardinality(A) <= Cardinality(Proc) /\ Cardinality(A) \in Nat
  BY Counts, FS_Subset, FS_CardinalityType
<1>2. pc[p] = "idle" => Cardinality(A) <= Cardinality(Proc) - 1
  <2> SUFFICES ASSUME pc[p] = "idle" PROVE Cardinality(A) <= Cardinality(Proc) - 1
    OBVIOUS
  <2>1. A \in SUBSET (Proc \ {p})
    OBVIOUS
  <2>2. IsFiniteSet(Proc \ {p}) /\ Cardinality(Proc \ {p}) = Cardinality(Proc) - 1
    BY Counts, FS_RemoveElement
  <2> HIDE DEF A
  <2> QED BY <2>1, <2>2, FS_Subset
<1>3. IsFiniteSet(T) /\ Cardinality(T) <= Cardinality(A) /\ Cardinality(T) \in Nat
  <2>1. f \in Surjection(A, T)
    BY DEF Surjection
  <2> HIDE DEF A, T, f
  <2> QED BY <1>1, <2>1, FS_Surjection, FS_CardinalityType
<1>4. Rpc \subseteq Flushes \cup T
  <2> SUFFICES ASSUME NEW r \in Rpc PROVE r \in Flushes \cup T
    OBVIOUS
  <2>1. Used(r)
    <3>1. Len(free) = 0
      OBVIOUS
    <3>2. ~(\E i \in 1..Len(free) : free[i] = r)
      BY <3>1
    <3> QED BY <1>0, <3>2 DEF FreeInv
  <2>2. OwnerOf(r)
    BY <1>0, <2>1 DEF OwnInv
  <2> QED BY <2>2 DEF OwnerOf, Flushes
<1> HIDE DEF A, T, f
<1>5. Cardinality(Rpc) <= Cardinality(Flushes) + Cardinality(T)
  <2>1. /\ IsFiniteSet(Flushes \cup T)
        /\ Cardinality(Flushes \cup T) = Cardinality(Flushes) + Cardinality(T) - Cardinality(Flushes \cap T)
    BY <1>3, Counts, FS_Union
  <2>2. Cardinality(Flushes \cap T) \in Nat
    BY Counts, FS_Intersection, FS_CardinalityType
  <2>3. Cardinality(Rpc) <= Cardinality(Flushes \cup T)
    BY <1>4, <2>1, FS_Subset
  <2> QED BY <1>3, <2>1, <2>2, <2>3, Counts
<1>6. Cardinality(Flushes) + Cardinality(Flushing) <= MaxIntr
  <2>1. intrs \in Nat /\ intrs <= MaxIntr
    BY <1>0, BoundAssumption DEF Types
  <2> QED BY <1>0, <2>1, Counts DEF CountInv
<1>7. p \in Flushing => Cardinality(Flushing) >= 1
  <2> SUFFICES ASSUME p \in Flushing PROVE Cardinality(Flushing) >= 1
    OBVIOUS
  <2>1. Cardinality(Flushing) # 0
    BY Counts, FS_EmptySet
  <2> QED BY <2>1, Counts
<1> QED BY <1>1, <1>2, <1>3, <1>5, <1>6, <1>7, Counts

(* What mntralloc leaves behind.                                           *)
Allocated(n, kind, old, call) ==
  /\ n \in Rpc /\ ~Used(n) /\ ~done[n] /\ flushed[n] = Nil /\ ~OnQueue(n)
  /\ free' \in Seq(Rpc) /\ Distinct(free')
  /\ request' \in [Rpc -> Message \cup {Blank}]
  /\ request'[n] = [tag |-> n, kind |-> kind, old |-> old, call |-> call]
  /\ \A r \in Rpc : r # n => request'[r] = request[r]
  /\ \A r \in Rpc : Used(r)' <=> Used(r) \/ r = n
  /\ \A r \in Rpc : (\E i \in 1..Len(free') : free'[i] = r) <=> ~Used(r)'
  /\ ServerInv'

(* mntralloc finds a structure.                                            *)
LEMMA Alloc ==
  ASSUME IInv, NEW kind \in {"T", "Tflush"}, NEW old \in Rpc \cup {Nil}, NEW call \in CallId,
         mntralloc(kind, old, call), free # <<>>, srv' = srv, hung' = hung,
         NEW n, n = New
  PROVE  Allocated(n, kind, old, call)
<1>0. Types /\ FreeInv /\ ListInv /\ ServerInv
  BY DEF IInv
<1>1. /\ free' = Tail(free)
      /\ request' = [request EXCEPT ![n] = [tag |-> n, kind |-> kind, old |-> old, call |-> call]]
  BY DEF mntralloc
<1>2. /\ free \in Seq(Rpc) /\ Head(free) \in Rpc /\ Tail(free) \in Seq(Rpc) /\ Distinct(Tail(free))
      /\ \E j \in 1..Len(free) : Head(free) = free[j]
      /\ \A i \in 1..Len(Tail(free)) : /\ Tail(free)[i] # Head(free)
                                       /\ \E j \in 1..Len(free) : Tail(free)[i] = free[j]
  <2>1. free \in Seq(Rpc) /\ Distinct(free)
    BY <1>0 DEF Types, FreeInv
  <2> QED BY <2>1, HandedOver
<1>3. /\ Len(free) \in Nat /\ Head(free) = free[1] /\ Len(Tail(free)) = Len(free) - 1
      /\ \A i \in 1..Len(free) - 1 : Tail(free)[i] = free[i + 1]
  BY <1>2, TailOrder
<1>4. n \in Rpc /\ ~Used(n) /\ ~done[n] /\ flushed[n] = Nil
  BY <1>0, <1>2 DEF FreeInv, New
<1>5. ~OnQueue(n)
  BY <1>0, <1>4 DEF ListInv, OnQueue
<1> DEFINE m == [tag |-> n, kind |-> kind, old |-> old, call |-> call]
<1>6. m \in Message /\ m.kind # "none"
  BY <1>4 DEF Message, Kind
<1> HIDE DEF m
<1>7. /\ request' \in [Rpc -> Message \cup {Blank}] /\ request'[n] = m
      /\ \A r \in Rpc : r # n => request'[r] = request[r]
  <2>1. request' = [request EXCEPT ![n] = m]
    BY <1>1 DEF m
  <2> QED BY <1>0, <1>4, <1>6, <2>1 DEF Types
<1>8. \A r \in Rpc : Used(r)' <=> Used(r) \/ r = n
  BY <1>6, <1>7 DEF Used
<1>9. ASSUME NEW r \in Rpc PROVE (\E i \in 1..Len(free') : free'[i] = r) <=> ~Used(r)'
  <2>1. (\E j \in 1..Len(free) : free[j] = r) <=> ~Used(r)
    BY <1>0 DEF FreeInv
  <2>2. ASSUME NEW i \in 1..Len(free'), free'[i] = r PROVE ~Used(r) /\ r # n
    BY <1>1, <1>2, <2>1, <2>2 DEF New
  <2>3. ASSUME ~Used(r), r # n PROVE \E i \in 1..Len(free') : free'[i] = r
    <3>1. PICK j \in 1..Len(free) : free[j] = r
      BY <2>1, <2>3
    <3>2. j # 1
      BY <1>3, <2>3, <3>1 DEF New
    <3>3. j - 1 \in 1..Len(free) - 1 /\ j - 1 + 1 = j
      BY <1>3, <3>1, <3>2
    <3>4. Tail(free)[j - 1] = free[j]
      BY <1>3, <3>3
    <3> QED BY <1>1, <1>3, <3>1, <3>3, <3>4
  <2> QED BY <1>8, <2>2, <2>3
<1>10. ServerInv'
  <2>1. ASSUME NEW i \in 1..Len(srv) PROVE srv[i] = request'[srv[i].tag]
    <3>1. srv[i] = request[srv[i].tag] /\ srv[i] \in Message
      BY <1>0, ElementOfSeq DEF ServerInv, Types
    <3>2. srv[i].tag \in Rpc /\ srv[i].kind # "none"
      BY <3>1 DEF Message, Kind
    <3>3. srv[i].tag # n
      BY <1>4, <3>1, <3>2 DEF Used
    <3> QED BY <1>7, <3>1, <3>2, <3>3
  <2> QED BY <1>0, <2>1 DEF ServerInv
<1> QED BY <1>1, <1>2, <1>4, <1>5, <1>7, <1>8, <1>9, <1>10 DEF m, Allocated

(* p takes n for a call, or for a flush of its latest request.             *)
LEMMA Taken ==
  ASSUME IInv, NEW p \in Proc, pc[p] \in {"idle", "flush"}, Alone(p), pc'[p] = "link",
         NEW kind \in {"T", "Tflush"}, NEW old \in Rpc \cup {Nil}, NEW call \in CallId,
         NEW n, Allocated(n, kind, old, call),
         call = <<p, calls'[p]>>, cur'[p] = n,
         UNCHANGED <<queue, rip, reply, done, rend, intrs, srv, rx, hung>>,
         \A q \in Proc \ {p} : served'[q] = served[q],
         pc[p] = "idle"  => /\ orig'[p] = n /\ kind = "T" /\ flushed' = flushed
                            /\ calls'[p] = calls[p] + 1 /\ calls[p] \in Nat,
         pc[p] = "flush" => /\ orig'[p] = orig[p] /\ kind = "Tflush" /\ old = orig[p]
                            /\ flushed' = [flushed EXCEPT ![n] = cur[p]]
                            /\ calls'[p] = calls[p] /\ served'[p] = served[p]
  PROVE  /\ FreeInv' /\ OwnInv' /\ ChainInv' /\ ListInv' /\ ReadInv' /\ RendInv' /\ GateInv'
         /\ ServerInv' /\ FlightInv'
         /\ Owns(p, n)'
         /\ \A q \in Proc : \A r \in Rpc : Owns(q, r) => Owns(q, r)'
<1>0. /\ Types /\ FreeInv /\ CallInv /\ OwnInv /\ ChainInv /\ ListInv /\ ReadInv /\ RendInv
      /\ GateInv /\ FlightInv /\ CallOf(p) /\ ReadOf(p)
  BY DEF IInv, CallInv, ReadInv
<1>1. /\ n \in Rpc /\ ~Used(n) /\ ~done[n] /\ flushed[n] = Nil /\ ~OnQueue(n)
      /\ free' \in Seq(Rpc) /\ Distinct(free')
      /\ request' \in [Rpc -> Message \cup {Blank}]
      /\ request'[n] = [tag |-> n, kind |-> kind, old |-> old, call |-> call]
      /\ \A r \in Rpc : r # n => request'[r] = request[r]
      /\ \A r \in Rpc : Used(r)' <=> Used(r) \/ r = n
      /\ \A r \in Rpc : (\E i \in 1..Len(free') : free'[i] = r) <=> ~Used(r)'
      /\ ServerInv'
  BY DEF Allocated
<1>2. /\ request'[n].tag = n /\ request'[n].kind = kind /\ request'[n].old = old
      /\ request'[n].call = <<p, calls'[p]>>
  BY <1>1
<1>3. \A q \in Proc \ {p} : /\ pc'[q] = pc[q] /\ cur'[q] = cur[q] /\ orig'[q] = orig[q]
                            /\ err'[q] = err[q] /\ calls'[q] = calls[q]
  BY DEF Alone
<1>4. ASSUME NEW r \in Rpc, Owns(p, r) PROVE pc[p] = "flush"
  BY <1>0, <1>4, Owned
<1>5. ASSUME NEW q \in Proc, NEW r \in Rpc
      PROVE  Owns(q, r)' <=> Owns(q, r) \/ (q = p /\ r = n)
  <2>1. CASE r = n
    <3>1. ~Owns(q, r)
      BY <1>1, <2>1 DEF Owns
    <3>2. Owns(q, r)' <=> request'[n].call = <<q, calls'[q]>>
      BY <1>1, <2>1 DEF Owns
    <3>3. Owns(q, r)' <=> q = p
      BY <1>2, <3>2
    <3> QED BY <2>1, <3>1, <3>3
  <2>2. CASE r # n
    <3>1. Owns(q, r)' <=> Used(r) /\ request[r].call = <<q, calls'[q]>>
      BY <1>1, <2>2 DEF Owns, Used
    <3>2. CASE q # p \/ pc[p] = "flush"
      <4>1. calls'[q] = calls[q]
        BY <1>3, <3>2
      <4> QED BY <2>2, <3>1, <4>1 DEF Owns
    <3>3. CASE q = p /\ pc[p] = "idle"
      <4>1. ~Owns(q, r)
        BY <1>4, <3>3
      <4>2. Used(r) => request[r].call # <<p, calls[p] + 1>>
        <5> SUFFICES ASSUME Used(r), request[r].call = <<p, calls[p] + 1>> PROVE FALSE
          OBVIOUS
        <5>1. PICK x \in Proc : request[r].call = <<x, calls[x]>>
          BY <1>0 DEF OwnInv, OwnerOf, Owns
        <5>2. x = p /\ calls[p] = calls[p] + 1
          BY <5>1
        <5>3. calls[p] \in Nat
          BY <3>3
        <5> QED BY <5>2, <5>3
      <4> QED BY <2>2, <3>1, <3>3, <4>1, <4>2
    <3> QED BY <3>2, <3>3
  <2> QED BY <2>1, <2>2
<1>6. /\ \A r \in Rpc : r # n => flushed'[r] = flushed[r]
      /\ flushed'[n] = IF pc[p] = "idle" THEN Nil ELSE cur[p]
  BY <1>0, <1>1 DEF Types
<1>7. FreeInv'
  <2>1. \A r \in Rpc : ~Used(r)' => ~done'[r] /\ flushed'[r] = Nil
    BY <1>0, <1>1, <1>6 DEF FreeInv
  <2> QED BY <1>1, <2>1 DEF FreeInv, Used
<1>8. OwnInv'
  <2> SUFFICES ASSUME NEW r \in Rpc, Used(r)' PROVE OwnerOf(r)'
    BY DEF OwnInv, Used
  <2>1. CASE r = n /\ pc[p] = "idle"
    <3>1. /\ pc'[p] # "idle" /\ Owns(p, r)' /\ request'[r].tag = r
          /\ request'[r].kind = "T" /\ r = orig'[p] /\ flushed'[r] = Nil
      BY <1>1, <1>2, <1>5, <1>6, <2>1
    <3> QED BY <3>1 DEF OwnerOf, Owns, Used
  <2>2. CASE r = n /\ pc[p] = "flush"
    <3>1. cur[p] \in Rpc /\ Owns(p, cur[p]) /\ Owns(p, orig[p])
      BY <1>0, <2>2 DEF CallOf
    <3>2. n # orig[p]
      BY <1>1, <3>1 DEF Owns
    <3>3. PICK s \in Rpc : s = cur[p]
      BY <3>1
    <3>4. flushed'[n] = s /\ Owns(p, s)'
      BY <1>5, <1>6, <2>2, <3>1, <3>3
    <3>5. /\ pc'[p] # "idle" /\ Owns(p, r)' /\ request'[r].tag = r
          /\ request'[r].kind = "Tflush" /\ r # orig'[p] /\ request'[r].old = orig'[p]
          /\ flushed'[r] \in Rpc
      BY <1>1, <1>2, <1>5, <2>2, <3>1, <3>2, <3>4
    <3> QED BY <2>2, <3>4, <3>5 DEF OwnerOf, Owns, Used
  <2>3. CASE r # n
    <3>1. Used(r)
      BY <1>1, <2>3
    <3>2. PICK q \in Proc : /\ pc[q] # "idle" /\ Owns(q, r) /\ request[r].tag = r
                            /\ \/ request[r].kind = "T" /\ r = orig[q] /\ flushed[r] = Nil
                               \/ /\ request[r].kind = "Tflush" /\ r # orig[q]
                                  /\ request[r].old = orig[q]
                                  /\ flushed[r] \in Rpc /\ Owns(q, flushed[r])
      BY <1>0, <3>1 DEF OwnInv, OwnerOf
    <3>3. /\ pc'[q] # "idle" /\ Owns(q, r)' /\ request'[r] = request[r]
          /\ orig'[q] = orig[q] /\ flushed'[r] = flushed[r]
      BY <1>1, <1>3, <1>5, <1>6, <2>3, <3>2
    <3>4. PICK s : s = flushed[r]
      OBVIOUS
    <3>5. s \in Rpc /\ Owns(q, s) => Owns(q, s)'
      BY <1>5
    <3> QED BY <3>2, <3>3, <3>4, <3>5 DEF OwnerOf, Owns, Used
  <2> QED BY <2>1, <2>2, <2>3
<1>9. ChainInv'
  <2>1. PICK d \in [Rpc -> Nat] : Chain(d)
    BY <1>0 DEF ChainInv
  <2>2. PICK e \in [Rpc -> Nat] : /\ e[n] = IF pc[p] = "idle" THEN 0 ELSE d[cur[p]] + 1
                                  /\ \A r \in Rpc : r # n => e[r] = d[r]
    <3>1. pc[p] = "flush" => cur[p] \in Rpc
      BY <1>0 DEF CallOf
    <3> DEFINE k == IF pc[p] = "idle" THEN 0 ELSE d[cur[p]] + 1
    <3>2. k \in Nat
      BY <3>1
    <3> HIDE DEF k
    <3>3. [d EXCEPT ![n] = k] \in [Rpc -> Nat]
      BY <3>2
    <3>4. [d EXCEPT ![n] = k][n] = k /\ \A r \in Rpc : r # n => [d EXCEPT ![n] = k][r] = d[r]
      BY <1>1
    <3> QED BY <3>3, <3>4 DEF k
  <2>3. ASSUME NEW q \in Proc, NEW r \in Rpc, NEW s \in Rpc, Owns(q, r)', Owns(q, s)'
        PROVE  /\ e[r] = e[s] => r = s
               /\ flushed'[r] = s => e[r] = e[s] + 1
               /\ flushed'[r] = Nil => e[r] = 0
               /\ e[r] <= e[cur'[q]]
    <3>1. CASE q # p
      <4>1. Owns(q, r) /\ Owns(q, s) /\ r # n /\ s # n
        BY <1>1, <1>5, <2>3, <3>1 DEF Owns
      <4>2. cur'[q] = cur[q] /\ cur[q] \in Rpc /\ cur[q] # n
        <5>1. pc[q] # "idle"
          BY <1>0, <4>1, Owned
        <5>2. cur[q] \in Rpc /\ Owns(q, cur[q])
          BY <1>0, <5>1 DEF CallInv, CallOf
        <5> QED BY <1>1, <1>3, <3>1, <5>2 DEF Owns
      <4>3. e[r] = d[r] /\ e[s] = d[s] /\ e[cur'[q]] = d[cur[q]] /\ flushed'[r] = flushed[r]
        BY <1>6, <2>2, <4>1, <4>2
      <4> QED BY <2>1, <4>1, <4>3 DEF Chain
    <3>2. CASE q = p /\ pc[p] = "idle"
      <4>1. r = n /\ s = n
        BY <1>4, <1>5, <2>3, <3>2
      <4>2. e[n] = 0 /\ flushed'[n] = Nil /\ cur'[q] = n
        BY <1>6, <2>2, <3>2
      <4> QED BY <1>1, <4>1, <4>2, NilRpc
    <3>3. CASE q = p /\ pc[p] = "flush"
      <4>1. cur[p] \in Rpc /\ Owns(p, cur[p]) /\ cur[p] # n
        BY <1>0, <1>1, <3>3 DEF CallOf, Owns
      <4>2. e[n] = d[cur[p]] + 1 /\ flushed'[n] = cur[p] /\ cur'[q] = n
        BY <1>6, <2>2, <3>3
      <4>3. \A x \in Rpc : Owns(q, x)' => x = n \/ Owns(p, x)
        BY <1>5, <3>3
      <4>4. ASSUME NEW x \in Rpc, Owns(p, x)
            PROVE  /\ x # n /\ e[x] = d[x] /\ e[x] < e[n] /\ flushed'[x] = flushed[x]
                   /\ flushed[x] # n
        <5>1. x # n
          BY <1>1, <4>4 DEF Owns
        <5>2. d[x] <= d[cur[p]]
          BY <2>1, <4>1, <4>4 DEF Chain
        <5>3. e[x] = d[x] /\ d[x] \in Nat /\ d[cur[p]] \in Nat
          BY <2>2, <4>1, <5>1
        <5>4. e[x] < e[n]
          BY <4>2, <5>2, <5>3
        <5>5. flushed[x] # n
          <6>1. flushed[x] = Nil \/ Owns(p, flushed[x])
            BY <1>0, <4>4, Owned
          <6> QED BY <1>1, <6>1, NilRpc DEF Owns
        <5> QED BY <1>6, <5>1, <5>3, <5>4, <5>5
      <4>5. CASE r = n /\ s = n
        BY <1>1, <4>1, <4>2, <4>5, NilRpc
      <4>6. CASE r = n /\ s # n
        <5>1. Owns(p, s)
          BY <2>3, <4>3, <4>6
        <5>2. e[s] = d[s] /\ e[s] < e[n] /\ e[s] \in Nat /\ e[n] \in Nat
          BY <1>1, <4>4, <5>1
        <5>3. flushed'[n] = s => e[n] = e[s] + 1
          BY <4>2, <5>2
        <5> QED BY <4>1, <4>2, <4>6, <5>2, <5>3, NilRpc
      <4>7. CASE r # n
        <5>1. Owns(p, r)
          BY <2>3, <4>3, <4>7
        <5>2. /\ e[r] = d[r] /\ e[r] < e[n] /\ e[r] \in Nat /\ e[n] \in Nat
              /\ flushed'[r] = flushed[r] /\ flushed[r] # n
          BY <1>1, <4>4, <5>1
        <5>3. CASE s = n
          <6>1. flushed[r] = Nil => d[r] = 0
            BY <2>1, <5>1 DEF Chain
          <6> QED BY <4>2, <5>2, <5>3, <6>1
        <5>4. CASE s # n
          <6>1. Owns(p, s)
            BY <2>3, <4>3, <5>4
          <6>2. e[s] = d[s]
            BY <4>4, <6>1
          <6>3. /\ d[r] = d[s] => r = s
                /\ flushed[r] = s => d[r] = d[s] + 1
                /\ flushed[r] = Nil => d[r] = 0
            BY <2>1, <5>1, <6>1 DEF Chain
          <6> QED BY <4>2, <5>2, <6>2, <6>3
        <5> QED BY <5>3, <5>4
      <4> QED BY <4>5, <4>6, <4>7
    <3> QED BY <3>1, <3>2, <3>3
  <2>4. Chain(e)'
    BY <2>3 DEF Chain
  <2> QED BY <2>4 DEF ChainInv
<1>10. ListInv'
  <2>1. ListOf(p)'
    BY <1>1 DEF ListOf, OnQueue, Waiting
  <2>2. \A i \in 1..Len(queue) : Used(queue[i])' /\ ~done'[queue[i]]
    <3> SUFFICES ASSUME NEW i \in 1..Len(queue) PROVE Used(queue[i])' /\ ~done'[queue[i]]
      OBVIOUS
    <3>1. queue[i] \in Rpc /\ Used(queue[i]) /\ ~done[queue[i]]
      BY <1>0, ElementOfSeq DEF ListInv, Types
    <3> QED BY <1>1, <3>1
  <2> QED BY <1>0, <2>1, <2>2, ListKept
<1>11. ReadInv'
  <2>1. ReadOf(p)'
    BY <1>0 DEF ReadOf
  <2> QED BY <1>0, <2>1, ReadKept
<1>12. RendInv'
  <2>1. \A r \in Rpc : rend'[r] = rend[r] /\ rend[r] # p
    BY <1>0, NotPosted
  <2> QED BY <1>0, <2>1, RendKept DEF Types
<1>13. GateInv'
  <2>1. rend[n] # p
    BY <1>0, <1>1, NotPosted
  <2>2. Witness(p) => Witness(p)'
    BY <1>1, <2>1 DEF Witness
  <2> QED BY <1>0, <2>2, GateSame
<1>14. FlightInv'
  <2>1. Flight' = Flight
    <3>1. Muxed' = Muxed
      BY <1>0, MuxedKept DEF Types, Alone
    <3> QED BY <3>1 DEF Flight
  <2>2. PICK F : F = Flight
    OBVIOUS
  <2>3. F = Flight' /\ Len(F) \in Nat /\ Len(F) + 0 <= Len(F)
    BY <1>0, <2>1, <2>2, FlightSeq
  <2>4. \A i \in 1..Len(F) : F[i] = F[i + 0] /\ F[i] \in Message
    BY <1>0, <2>2, <2>3, FlightSeq, ElementOfSeq
  <2>5. \A i \in 1..Len(F) : F[i].tag \in Rpc
    BY <2>4 DEF Message
  <2>6. ~hung' => \A i \in 1..Len(F) : Used(F[i].tag) => Used(F[i].tag)'
    BY <1>1, <2>5
  <2>7. ASSUME NEW q \in Proc, NEW i \in 1..Len(F), Good(q)', Owns(q, F[i].tag)'
        PROVE  /\ Good(q) /\ Owns(q, F[i].tag) /\ (F[i].tag = cur'[q] => F[i].tag = cur[q])
               /\ Expected(q, F[i]) => Expected(q, F[i])'
    <3>1. CASE q # p
      <4>1. Owns(q, F[i].tag) /\ Good(q)
        BY <1>3, <1>5, <2>5, <2>7, <3>1 DEF Good
      <4>2. Expected(q, F[i]) => Expected(q, F[i])'
        BY <1>3, <3>1 DEF Expected, OnQueue
      <4> QED BY <1>3, <3>1, <4>1, <4>2
    <3>2. CASE q = p
      <4>1. ~hung
        BY <2>7, <3>2 DEF Good, Waiting, Leaving
      <4>2. Used(F[i].tag) /\ F[i].tag # n
        BY <1>0, <1>1, <2>2, <4>1 DEF FlightInv
      <4>3. Owns(p, F[i].tag) /\ pc[p] = "flush" /\ Good(p)
        BY <1>0, <1>4, <1>5, <2>5, <2>7, <3>2, <4>1, <4>2, GoodWhenUp
      <4>4. Expected(p, F[i]) => Expected(p, F[i])'
        BY <1>1, <4>2, <4>3 DEF Expected, OnQueue, Leaving
      <4> QED BY <3>2, <4>2, <4>3, <4>4
    <3> QED BY <3>1, <3>2
  <2> QED BY <1>0, <2>2, <2>3, <2>4, <2>6, <2>7, FlightKept
<1>15. Owns(p, n)' /\ \A q \in Proc : \A r \in Rpc : Owns(q, r) => Owns(q, r)'
  BY <1>1, <1>5
<1> QED BY <1>1, <1>7, <1>8, <1>9, <1>10, <1>11, <1>12, <1>13, <1>14, <1>15

(* A call begins with a structure of its own.                              *)
LEMMA CallStep ==
  ASSUME IInv, NEW p \in Proc, Call(p)
  PROVE  IInv'
<1>0. /\ Types /\ CallInv /\ OwnInv /\ ReplyInv /\ CallOf(p) /\ CountInv
  BY DEF IInv, CallInv
<1>1. UNCHANGED <<queue, rip, reply, done, flushed, rend, peer, intrs, srv, rx, hung>>
  BY DEF Call, mount
<1>2. /\ pc[p] = "idle" /\ pc' = [pc EXCEPT ![p] = "link"]
      /\ calls[p] < MaxCalls /\ calls' = [calls EXCEPT ![p] = calls[p] + 1]
      /\ cur' = [cur EXCEPT ![p] = New] /\ orig' = [orig EXCEPT ![p] = New]
      /\ err' = [err EXCEPT ![p] = FALSE] /\ served' = [served EXCEPT ![p] = FALSE]
      /\ got' = [got EXCEPT ![p] = Nil]
  BY DEF Call, Goto
<1>3. PICK n : n = New
  OBVIOUS
<1>4. PICK call : call = <<p, calls[p] + 1>>
  OBVIOUS
<1>5. calls[p] \in Nat /\ calls[p] + 1 \in 1..MaxCalls /\ call \in CallId
  <2>1. calls[p] \in 0..MaxCalls
    BY <1>0 DEF Types
  <2>2. calls[p] \in Nat /\ calls[p] + 1 \in 1..MaxCalls
    BY <1>2, <2>1, BoundAssumption
  <2> QED BY <1>4, <2>2 DEF CallId
<1>6. Allocated(n, "T", Nil, call)
  <2>1. mntralloc("T", Nil, call)
    BY <1>4 DEF Call
  <2>2. free # <<>>
    BY <1>2, FreeLeft
  <2> QED BY <1>1, <1>3, <1>5, <2>1, <2>2, Alloc
<1>7. n \in Rpc /\ free' \in Seq(Rpc) /\ request' \in [Rpc -> Message \cup {Blank}]
      /\ request'[n] = [tag |-> n, kind |-> "T", old |-> Nil, call |-> call]
      /\ ~done[n] /\ \A r \in Rpc : r # n => request'[r] = request[r]
  BY <1>6 DEF Allocated
<1>8. /\ Alone(p) /\ pc'[p] = "link" /\ calls'[p] = calls[p] + 1 /\ cur'[p] = n
      /\ orig'[p] = n /\ err'[p] = FALSE /\ got'[p] = Nil
      /\ \A q \in Proc \ {p} : served'[q] = served[q]
  BY <1>0, <1>2, <1>3 DEF Types, Alone
<1>9. Types'
  <2>1. pc' \in [Proc -> PC]
    BY <1>0, <1>2 DEF Types, PC
  <2>2. calls' \in [Proc -> 0..MaxCalls]
    BY <1>0, <1>2, <1>5 DEF Types
  <2>3. cur' \in [Proc -> Rpc \cup {Nil}] /\ orig' \in [Proc -> Rpc \cup {Nil}]
    BY <1>0, <1>2, <1>3, <1>7 DEF Types
  <2>4. err' \in [Proc -> BOOLEAN] /\ served' \in [Proc -> BOOLEAN]
        /\ got' \in [Proc -> CallId \cup {Nil}]
    BY <1>0, <1>2 DEF Types
  <2> QED BY <1>0, <1>1, <1>7, <2>1, <2>2, <2>3, <2>4 DEF Types
<1>10. /\ FreeInv' /\ OwnInv' /\ ChainInv' /\ ListInv' /\ ReadInv' /\ RendInv' /\ GateInv'
       /\ ServerInv' /\ FlightInv'
       /\ Owns(p, n)'
       /\ \A q \in Proc : \A r \in Rpc : Owns(q, r) => Owns(q, r)'
  <2>1. call = <<p, calls'[p]>>
    BY <1>4, <1>8
  <2>2. pc[p] \in {"idle", "flush"} /\ pc[p] # "flush"
    BY <1>2
  <2> QED BY <1>1, <1>5, <1>6, <1>8, <2>1, <2>2, Taken
<1>11. CallInv'
  <2>1. CallOf(p)'
    <3>1. Owns(p, cur[p])' /\ Owns(p, orig[p])'
      BY <1>8, <1>10 DEF Owns, Used
    <3> QED BY <1>5, <1>7, <1>8, <3>1 DEF CallOf
  <2>2. \A q \in Proc \ {p} : pc[q] = "return" => done'[cur[q]]
    BY <1>0, <1>1 DEF CallInv, CallOf
  <2> QED BY <1>0, <1>1, <1>8, <1>10, <2>1, <2>2, CallKept
<1>12. ReplyInv'
  <2>1. ReplyOf(p)'
    BY <1>1, <1>7, <1>8 DEF ReplyOf
  <2> QED BY <1>0, <1>1, <1>8, <2>1, ReplyKept
<1>13. CountInv'
  <2>1. Flushes' = Flushes
    <3>1. request[n].kind # "Tflush"
      BY <1>6 DEF Allocated, Used
    <3>2. request'[n].kind # "Tflush"
      BY <1>7
    <3> QED BY <1>7, <3>1, <3>2 DEF Flushes
  <2>2. Flushing' \subseteq Flushing
    BY <1>8 DEF Flushing, Alone
  <2>3. Cardinality(Flushing') <= Cardinality(Flushing) /\ Cardinality(Flushing') \in Nat
    BY <2>2, Counts, FS_Subset, FS_CardinalityType
  <2>4. intrs \in Nat
    BY <1>0, BoundAssumption DEF Types
  <2>5. Cardinality(Flushes') + Cardinality(Flushing') <= intrs'
    BY <1>0, <1>1, <2>1, <2>3, <2>4, Counts DEF CountInv
  <2> QED BY <2>5 DEF CountInv
<1> QED BY <1>9, <1>10, <1>11, <1>12, <1>13 DEF IInv

(* An interrupted call begins a flush of its latest request.               *)
LEMMA FlushAllocStep ==
  ASSUME IInv, NEW p \in Proc, mntflushalloc(p)
  PROVE  IInv'
<1>0. /\ Types /\ CallInv /\ OwnInv /\ ReplyInv /\ CallOf(p) /\ CountInv /\ ReplyOf(p)
  BY DEF IInv, CallInv, ReplyInv
<1>1. /\ UNCHANGED <<queue, rip, reply, done, rend, orig, peer, err, calls, intrs, wire, got>>
      /\ srv' = srv /\ rx' = rx /\ hung' = hung /\ served' = served
  BY DEF mntflushalloc, mount, count, wire
<1>2. /\ pc[p] = "flush" /\ pc' = [pc EXCEPT ![p] = "link"]
      /\ cur' = [cur EXCEPT ![p] = New] /\ flushed' = [flushed EXCEPT ![New] = cur[p]]
  BY DEF mntflushalloc, Goto
<1>3. PICK n : n = New
  OBVIOUS
<1>4. PICK call : call = request[cur[p]].call
  OBVIOUS
<1>5. /\ cur[p] \in Rpc /\ orig[p] \in Rpc /\ Owns(p, cur[p]) /\ Owns(p, orig[p])
      /\ calls[p] \in 1..MaxCalls /\ got[p] = Nil /\ ~err[p]
  BY <1>0, <1>2 DEF CallOf
<1>6. call = <<p, calls[p]>> /\ call \in CallId
  BY <1>4, <1>5 DEF Owns, CallId
<1>7. Allocated(n, "Tflush", orig[p], call)
  <2>1. (IF request[cur[p]].kind = "Tflush" THEN request[cur[p]].old ELSE cur[p]) = orig[p]
    <3>1. \/ request[cur[p]].kind = "T" /\ cur[p] = orig[p]
          \/ request[cur[p]].kind = "Tflush" /\ request[cur[p]].old = orig[p]
      BY <1>0, <1>5, Owned
    <3> QED BY <3>1
  <2>2. mntralloc("Tflush", orig[p], call)
    BY <1>4, <2>1 DEF mntflushalloc
  <2>3. p \in Flushing
    BY <1>2, <1>5 DEF Flushing
  <2>4. free # <<>>
    BY <2>3, FreeLeft
  <2>5. PICK old \in Rpc \cup {Nil} : old = orig[p]
    BY <1>5
  <2>6. mntralloc("Tflush", old, call)
    BY <2>2, <2>5
  <2>7. Allocated(n, "Tflush", old, call)
    BY <1>1, <1>3, <1>6, <2>4, <2>6, Alloc
  <2> QED BY <2>5, <2>7
<1>8. /\ n \in Rpc /\ free' \in Seq(Rpc) /\ request' \in [Rpc -> Message \cup {Blank}]
      /\ request'[n] = [tag |-> n, kind |-> "Tflush", old |-> orig[p], call |-> call]
      /\ ~done[n] /\ ~Used(n) /\ \A r \in Rpc : r # n => request'[r] = request[r]
  BY <1>7 DEF Allocated
<1>9. /\ Alone(p) /\ pc'[p] = "link" /\ cur'[p] = n
  BY <1>0, <1>1, <1>2, <1>3 DEF Types, Alone
<1>10. Types'
  <2>1. pc' \in [Proc -> PC]
    BY <1>0, <1>2 DEF Types, PC
  <2>2. cur' \in [Proc -> Rpc \cup {Nil}] /\ flushed' \in [Rpc -> Rpc \cup {Nil}]
    BY <1>0, <1>2, <1>3, <1>5, <1>8 DEF Types
  <2> QED BY <1>0, <1>1, <1>8, <2>1, <2>2 DEF Types
<1>11. /\ FreeInv' /\ OwnInv' /\ ChainInv' /\ ListInv' /\ ReadInv' /\ RendInv' /\ GateInv'
       /\ ServerInv' /\ FlightInv'
       /\ Owns(p, n)'
       /\ \A q \in Proc : \A r \in Rpc : Owns(q, r) => Owns(q, r)'
  <2>1. call = <<p, calls'[p]>> /\ flushed' = [flushed EXCEPT ![n] = cur[p]]
    BY <1>1, <1>2, <1>3, <1>6
  <2>2. pc[p] \in {"idle", "flush"} /\ pc[p] # "idle"
    BY <1>2
  <2>3. PICK old \in Rpc \cup {Nil} : old = orig[p]
    BY <1>5
  <2>4. Allocated(n, "Tflush", old, call)
    BY <1>7, <2>3
  <2> QED BY <1>1, <1>6, <1>9, <2>1, <2>2, <2>3, <2>4, Taken
<1>12. CallInv'
  <2>1. CallOf(p)'
    <3>1. Owns(p, cur[p])'
      BY <1>9, <1>11 DEF Owns, Used
    <3>2. orig'[p] = orig[p] /\ orig[p] # n
      BY <1>1, <1>5, <1>8 DEF Owns
    <3>3. Owns(p, orig[p])'
      BY <1>1, <1>5, <1>8, <3>2 DEF Owns, Used
    <3> QED BY <1>1, <1>5, <1>8, <1>9, <3>1, <3>3 DEF CallOf
  <2>2. \A q \in Proc \ {p} : pc[q] = "return" => done'[cur[q]]
    BY <1>0, <1>1 DEF CallInv, CallOf
  <2> QED BY <1>0, <1>1, <1>9, <1>11, <2>1, <2>2, CallKept
<1>13. ReplyInv'
  <2>1. ReplyOf(p)'
    <3>1. Good(p)' => Good(p)
      BY <1>1, <1>9 DEF Good, Waiting, Leaving
    <3> QED BY <1>0, <1>1, <1>2, <1>9, <3>1 DEF ReplyOf
  <2> QED BY <1>0, <1>1, <1>9, <2>1, ReplyKept
<1>14. CountInv'
  <2>1. Flushes' = Flushes \cup {n} /\ n \notin Flushes
    <3>1. request[n].kind # "Tflush"
      BY <1>8 DEF Used
    <3>2. request'[n].kind = "Tflush"
      BY <1>8
    <3> QED BY <1>8, <3>1, <3>2 DEF Flushes
  <2>2. Cardinality(Flushes') = Cardinality(Flushes) + 1
    BY <2>1, Counts, FS_AddElement
  <2>3. Flushing' \subseteq Flushing \ {p} /\ p \in Flushing
    BY <1>1, <1>2, <1>5, <1>9 DEF Flushing, Alone
  <2>4. /\ IsFiniteSet(Flushing \ {p})
        /\ Cardinality(Flushing \ {p}) = Cardinality(Flushing) - 1
    BY <2>3, Counts, FS_RemoveElement
  <2>5. Cardinality(Flushing') <= Cardinality(Flushing) - 1 /\ Cardinality(Flushing') \in Nat
    BY <2>3, <2>4, FS_Subset, FS_CardinalityType
  <2>6. intrs \in Nat
    BY <1>0, BoundAssumption DEF Types
  <2>7. Cardinality(Flushes') + Cardinality(Flushing') <= intrs'
    BY <1>0, <1>1, <2>2, <2>5, <2>6, Counts DEF CountInv
  <2> QED BY <2>7 DEF CountInv
<1> QED BY <1>10, <1>11, <1>12, <1>13, <1>14 DEF IInv
-----------------------------------------------------------------------------
(* Giving structures back.                                                 *)

(* Nothing is in flight to a process that leaves, unless a failure has     *)
(* made it leave.                                                          *)
LEMMA NoMessage ==
  ASSUME FlightInv, NEW p \in Proc, Good(p), pc[p] \in Leaving,
         NEW F, F = Flight, NEW i \in 1..Len(F)
  PROVE  ~Owns(p, F[i].tag)
BY DEF FlightInv, FlightOf, Expected

(* p's latest structure is freed.                                          *)
LEMMA Freed ==
  ASSUME IInv, NEW p \in Proc, pc[p] \in Leaving, pc'[p] \in {"free", "idle"}, Alone(p),
         NEW r, r = cur[p], mntfree(r),
         queue' \in Seq(Rpc), Distinct(queue'),
         \A x : (\E i \in 1..Len(queue') : queue'[i] = x) <=> OnQueue(x) /\ x # r,
         err'[p] = err[p],
         UNCHANGED <<rip, rend, srv, rx, hung, served, calls, intrs>>
  PROVE  /\ FreeInv' /\ ListInv' /\ ReadInv' /\ RendInv' /\ GateInv' /\ ServerInv'
         /\ FlightInv' /\ CountInv' /\ r \in Rpc
         /\ free' \in Seq(Rpc) /\ request' \in [Rpc -> Message \cup {Blank}]
         /\ reply' \in [Rpc -> Reply] /\ done' \in [Rpc -> BOOLEAN]
         /\ flushed' \in [Rpc -> Rpc \cup {Nil}]
         /\ \A x \in Rpc : x # r => /\ request'[x] = request[x] /\ reply'[x] = reply[x]
                                    /\ done'[x] = done[x] /\ flushed'[x] = flushed[x]
         /\ \A q \in Proc, x \in Rpc : Owns(q, x)' <=> Owns(q, x) /\ x # r
<1>0. /\ Types /\ FreeInv /\ CallInv /\ OwnInv /\ ListInv /\ ReadInv /\ RendInv
      /\ GateInv /\ ServerInv /\ FlightInv /\ CountInv /\ CallOf(p) /\ ReadOf(p)
  BY DEF IInv, CallInv, ReadInv
<1>1. /\ free' = <<r>> \o free /\ request' = [request EXCEPT ![r] = Blank]
      /\ reply' = [reply EXCEPT ![r] = Blank] /\ done' = [done EXCEPT ![r] = FALSE]
      /\ flushed' = [flushed EXCEPT ![r] = Nil]
  BY DEF mntfree
<1>2. r \in Rpc /\ Owns(p, r) /\ Used(r) /\ pc[p] \notin {"idle", "mux", "asleep"}
  BY <1>0 DEF CallOf, Owns, Leaving
<1>3. Blank \in Reply /\ Blank.kind = "none" /\ Blank \in Message \cup {Blank}
  BY DEF Blank, Reply
<1>4. /\ request' \in [Rpc -> Message \cup {Blank}]
      /\ reply' \in [Rpc -> Reply] /\ done' \in [Rpc -> BOOLEAN]
      /\ flushed' \in [Rpc -> Rpc \cup {Nil}]
      /\ request'[r] = Blank /\ ~done'[r] /\ flushed'[r] = Nil
      /\ \A x \in Rpc : x # r => /\ request'[x] = request[x] /\ reply'[x] = reply[x]
                                 /\ done'[x] = done[x] /\ flushed'[x] = flushed[x]
  BY <1>0, <1>1, <1>2, <1>3 DEF Types
<1>5. \A x \in Rpc : Used(x)' <=> Used(x) /\ x # r
  BY <1>3, <1>4 DEF Used
<1>6. \A q \in Proc, x \in Rpc : Owns(q, x)' <=> Owns(q, x) /\ x # r
  BY <1>3, <1>4, <1>5 DEF Owns, Used
<1>7. \A q \in Proc \ {p} : /\ pc'[q] = pc[q] /\ cur'[q] = cur[q] /\ orig'[q] = orig[q]
                            /\ err'[q] = err[q]
  BY DEF Alone
<1>8. ASSUME NEW q \in Proc \ {p}, pc[q] # "idle"
      PROVE  cur[q] \in Rpc /\ cur[q] # r /\ done'[cur[q]] = done[cur[q]]
             /\ reply'[cur[q]] = reply[cur[q]]
  <2>1. cur[q] \in Rpc /\ Owns(q, cur[q])
    BY <1>0, <1>8 DEF CallInv, CallOf
  <2>2. cur[q] # r
    BY <1>2, <2>1, OneOwner
  <2> QED BY <1>4, <2>1, <2>2
<1>9. free' \in Seq(Rpc) /\ FreeInv'
  <2> DEFINE u == <<r>> \o free
  <2>1. free \in Seq(Rpc) /\ Len(free) \in Nat /\ <<r>> \in Seq(Rpc) /\ Len(<<r>>) = 1 /\ <<r>>[1] = r
    BY <1>0, <1>2, LenProperties DEF Types
  <2>2. /\ u \in Seq(Rpc) /\ Len(u) = 1 + Len(free)
        /\ \A i \in 1..1 + Len(free) : u[i] = IF i <= 1 THEN <<r>>[i] ELSE free[i - 1]
    <3>1. /\ u \in Seq(Rpc) /\ Len(u) = Len(<<r>>) + Len(free)
          /\ \A i \in 1..Len(<<r>>) + Len(free) :
               u[i] = IF i <= Len(<<r>>) THEN <<r>>[i] ELSE free[i - Len(<<r>>)]
      BY <2>1, ConcatProperties
    <3> HIDE DEF u
    <3> QED BY <2>1, <3>1
  <2> HIDE DEF u
  <2>3. \A i \in 1..Len(free) : free[i] # r
    BY <1>0, <1>2 DEF FreeInv
  <2>4. ASSUME NEW i \in 1..Len(u)
        PROVE  \/ i = 1 /\ u[i] = r
               \/ i - 1 \in 1..Len(free) /\ u[i] = free[i - 1] /\ u[i] # r
    <3>1. CASE i <= 1
      <4>1. i = 1 /\ i \in 1..1 + Len(free)
        BY <2>1, <2>2, <3>1
      <4> QED BY <2>1, <2>2, <3>1, <4>1
    <3>2. CASE ~(i <= 1)
      <4>1. i - 1 \in 1..Len(free) /\ i \in 1..1 + Len(free)
        BY <2>1, <2>2, <3>2
      <4>2. u[i] = free[i - 1]
        BY <2>2, <3>2, <4>1
      <4> QED BY <2>3, <4>1, <4>2
    <3> QED BY <3>1, <3>2
  <2>5. Distinct(u)
    <3> SUFFICES ASSUME NEW i \in 1..Len(u), NEW j \in 1..Len(u), u[i] = u[j] PROVE i = j
      BY DEF Distinct
    <3>1. CASE i = 1
      BY <2>1, <2>3, <2>4, <3>1
    <3>2. CASE i # 1
      <4>1. u[i] # r /\ i - 1 \in 1..Len(free) /\ u[i] = free[i - 1]
        BY <2>4, <3>2
      <4>2. j - 1 \in 1..Len(free) /\ u[j] = free[j - 1]
        BY <2>4, <4>1
      <4>3. i - 1 = j - 1
        <5>1. \A x, y \in 1..Len(free) : free[x] = free[y] => x = y
          BY <1>0 DEF FreeInv, Distinct
        <5>2. free[i - 1] = free[j - 1]
          BY <4>1, <4>2
        <5> QED BY <4>1, <4>2, <5>1, <5>2
      <4>4. i \in Int /\ j \in Int
        OBVIOUS
      <4> QED BY <4>3, <4>4
    <3> QED BY <3>1, <3>2
  <2>6. ASSUME NEW x \in Rpc PROVE (\E i \in 1..Len(u) : u[i] = x) <=> ~Used(x)'
    <3>1. (\E i \in 1..Len(free) : free[i] = x) <=> ~Used(x)
      BY <1>0 DEF FreeInv
    <3>2. ASSUME NEW i \in 1..Len(u), u[i] = x PROVE ~Used(x) \/ x = r
      BY <2>4, <3>1, <3>2
    <3>3. ASSUME ~Used(x) PROVE \E i \in 1..Len(u) : u[i] = x
      <4>1. PICK j \in 1..Len(free) : free[j] = x
        BY <3>1, <3>3
      <4>2. j + 1 \in 1..1 + Len(free) /\ ~(j + 1 <= 1) /\ j + 1 - 1 = j
        BY <2>1
      <4>3. u[j + 1] = x
        BY <2>2, <4>1, <4>2
      <4> QED BY <2>2, <4>2, <4>3
    <3>4. ASSUME x = r PROVE \E i \in 1..Len(u) : u[i] = x
      <4>1. 1 \in 1..1 + Len(free) /\ 1 <= 1
        BY <2>1
      <4>2. u[1] = r
        BY <2>1, <2>2, <4>1
      <4> QED BY <2>2, <3>4, <4>1, <4>2
    <3> QED BY <1>5, <3>2, <3>3, <3>4
  <2>7. \A x \in Rpc : ~Used(x)' => ~done'[x] /\ flushed'[x] = Nil
    BY <1>0, <1>4, <1>5 DEF FreeInv
  <2>8. free' = u
    BY <1>1 DEF u
  <2> QED BY <2>2, <2>5, <2>6, <2>7, <2>8 DEF FreeInv, Used
<1>10. ListInv'
  <2>1. ASSUME NEW i \in 1..Len(queue')
        PROVE  request'[queue'[i]].kind # "none" /\ ~done'[queue'[i]]
    <3>1. OnQueue(queue'[i]) /\ queue'[i] # r /\ queue'[i] \in Rpc
      BY ElementOfSeq
    <3>2. Used(queue'[i]) /\ ~done[queue'[i]]
      BY <1>0, <3>1 DEF ListInv, OnQueue
    <3> QED BY <1>4, <3>1, <3>2 DEF Used
  <2>2. ASSUME NEW q \in Proc PROVE ListOf(q)'
    <3>1. CASE q = p
      BY <3>1 DEF ListOf, Waiting
    <3>2. CASE q # p
      <4>1. ListOf(q) /\ pc'[q] = pc[q] /\ cur'[q] = cur[q]
        BY <1>0, <1>7, <3>2 DEF ListInv
      <4>2. CASE pc[q] = "idle"
        BY <4>1, <4>2 DEF ListOf, Waiting
      <4>3. CASE pc[q] # "idle"
        <5>1. cur[q] # r /\ done'[cur[q]] = done[cur[q]]
          BY <1>8, <3>2, <4>3
        <5>2. OnQueue(cur[q])' <=> OnQueue(cur[q])
          BY <4>1, <5>1 DEF OnQueue
        <5> QED BY <4>1, <5>1, <5>2 DEF ListOf
      <4> QED BY <4>2, <4>3
    <3> QED BY <3>1, <3>2
  <2>3. \A q \in Proc : ListOf(q)'
    BY <2>2
  <2> QED BY <2>1, <2>3 DEF ListInv, Used
<1>11. ReadInv'
  <2>1. ReadOf(p)'
    BY <1>0 DEF ReadOf, Leaving
  <2>2. \A q \in Proc \ {p} : pc[q] = "mux" => reply'[cur[q]] = reply[cur[q]]
    BY <1>8
  <2> QED BY <1>0, <2>1, <2>2, ReadKept
<1>12. \A x \in Rpc : rend[x] # p
  BY <1>0, <1>2, NotPosted
<1>13. RendInv'
  <2>1. \A x \in Rpc : rend'[x] = rend[x] /\ rend[x] # p
    BY <1>12
  <2> QED BY <1>0, <2>1, RendKept DEF Types
<1>14. GateInv'
  <2>1. ASSUME Sleepers' PROVE Sleepers
    <3>1. PICK x \in Rpc : rend[x] # Nil /\ ~done'[x]
      BY <2>1 DEF Sleepers
    <3>2. rend[x] \in Proc \ {p} /\ pc[rend[x]] = "asleep" /\ cur[rend[x]] = x
      BY <1>0, <1>12, <3>1 DEF RendInv, Types
    <3>3. done'[x] = done[x]
      BY <1>8, <3>2
    <3> QED BY <3>1, <3>3 DEF Sleepers
  <2>2. ASSUME NEW q \in Proc, Witness(q) PROVE Witness(q)'
    <3>1. q # p /\ pc[q] # "idle"
      BY <2>2 DEF Witness, Leaving
    <3>2. ~done'[cur[q]] /\ rend'[cur[q]] # q
      BY <1>8, <2>2, <3>1 DEF Witness
    <3> QED BY <2>2, <3>1, <3>2, WitnessKept
  <2>3. Excused' = Excused
    BY DEF Excused
  <2> QED BY <1>0, <2>1, <2>2, <2>3 DEF GateInv
<1>15. PICK F : F = Flight
  OBVIOUS
<1>16. /\ F \in Seq(Message) /\ Len(F) \in Nat
       /\ \A i \in 1..Len(F) : F[i].tag \in Rpc
  <2>1. F \in Seq(Message) /\ Len(F) \in Nat
    BY <1>0, <1>15, FlightSeq, LenProperties
  <2>2. \A i \in 1..Len(F) : F[i] \in Message
    BY <2>1, ElementOfSeq
  <2> QED BY <2>1, <2>2 DEF Message
<1>17. Good(p) => \A i \in 1..Len(F) : F[i].tag # r
  BY <1>0, <1>2, <1>15, NoMessage
<1>18. ServerInv'
  <2> SUFFICES ASSUME ~hung, NEW i \in 1..Len(srv) PROVE srv[i] = request'[srv[i].tag]
    BY <1>0 DEF ServerInv
  <2>1. srv[i] = request[srv[i].tag] /\ srv[i] \in Message
    BY <1>0, ElementOfSeq DEF ServerInv, Types
  <2>2. \E j \in 1..Len(F) : F[j] = srv[i]
    <3> DEFINE j == Len(Muxed) + Len(rx) + i
    <3>1. /\ Len(Muxed) \in Nat /\ Len(rx) \in Nat /\ Len(srv) \in Nat
          /\ Len(F) = Len(Muxed) + Len(rx) + Len(srv)
      BY <1>0, <1>15, FlightSeq
    <3>2. j \in 1..Len(F) /\ j > Len(Muxed) + Len(rx) /\ j - Len(Muxed) - Len(rx) = i
      BY <3>1
    <3> HIDE DEF j
    <3>3. F[j] = srv[j - Len(Muxed) - Len(rx)]
      BY <1>0, <1>15, <3>2, FlightSeq
    <3> QED BY <3>2, <3>3
  <2>3. srv[i].tag # r
    BY <1>0, <1>17, <2>2, GoodWhenUp
  <2>4. srv[i].tag \in Rpc
    BY <2>1 DEF Message
  <2> QED BY <1>4, <2>1, <2>3, <2>4
<1>19. FlightInv'
  <2>1. Flight' = Flight
    <3>1. Muxed' = Muxed
      <4>1. \A q \in Proc \ {p} : pc[q] = "mux" => reply'[cur[q]] = reply[cur[q]]
        BY <1>8
      <4> QED BY <1>0, <1>2, <1>7, <4>1, MuxedKept DEF Types
    <3> QED BY <3>1 DEF Flight
  <2>2. F = Flight' /\ Len(F) + 0 <= Len(F)
    BY <1>15, <1>16, <2>1
  <2>3. \A i \in 1..Len(F) : F[i] = F[i + 0]
    BY <1>16
  <2>4. ~hung' => \A i \in 1..Len(F) : Used(F[i].tag) => Used(F[i].tag)'
    BY <1>0, <1>5, <1>16, <1>17, GoodWhenUp
  <2>5. ASSUME NEW q \in Proc, NEW i \in 1..Len(F), Good(q)', Owns(q, F[i].tag)'
        PROVE  /\ Good(q) /\ Owns(q, F[i].tag) /\ (F[i].tag = cur'[q] => F[i].tag = cur[q])
               /\ Expected(q, F[i]) => Expected(q, F[i])'
    <3>1. Owns(q, F[i].tag) /\ F[i].tag # r
      BY <1>6, <1>16, <2>5
    <3>2. CASE q = p
      <4>1. Good(p)
        BY <2>5, <3>2 DEF Good, Leaving
      <4>2. ~Owns(p, F[i].tag)
        BY <1>0, <1>15, <4>1, NoMessage
      <4> QED BY <3>1, <3>2, <4>2
    <3>3. CASE q # p
      <4>1. Good(q)
        BY <1>7, <2>5, <3>3 DEF Good
      <4>2. pc[q] # "idle"
        BY <1>0, <1>16, <3>1, Owned
      <4>3. done'[cur[q]] = done[cur[q]] /\ cur'[q] = cur[q] /\ pc'[q] = pc[q]
        BY <1>7, <1>8, <3>3, <4>2
      <4>4. Expected(q, F[i]) => Expected(q, F[i])'
        BY <3>1, <4>3 DEF Expected, OnQueue
      <4> QED BY <3>1, <4>1, <4>3, <4>4
    <3> QED BY <3>2, <3>3
  <2> QED BY <1>0, <1>15, <1>16, <2>2, <2>3, <2>4, <2>5, FlightKept
<1>20. CountInv'
  <2>1. Flushes' \subseteq Flushes
    BY <1>3, <1>4 DEF Flushes
  <2>2. Flushing' \subseteq Flushing
    BY <1>7 DEF Flushing
  <2>3. /\ Cardinality(Flushing') <= Cardinality(Flushing) /\ Cardinality(Flushing') \in Nat
        /\ Cardinality(Flushes') <= Cardinality(Flushes) /\ Cardinality(Flushes') \in Nat
    BY <2>1, <2>2, Counts, FS_Subset, FS_CardinalityType
  <2>4. intrs \in Nat
    BY <1>0, BoundAssumption DEF Types
  <2>5. Cardinality(Flushes') + Cardinality(Flushing') <= intrs'
    BY <1>0, <2>3, <2>4, Counts DEF CountInv
  <2> QED BY <2>5 DEF CountInv
<1> QED BY <1>2, <1>4, <1>6, <1>9, <1>10, <1>11, <1>13, <1>14, <1>18, <1>19, <1>20

(* A flush is freed, and p goes back to what it flushed.                   *)
LEMMA FlushFreeStep ==
  ASSUME IInv, NEW p \in Proc, pc[p] \in {"free", "remove"}, pc' = [pc EXCEPT ![p] = "free"],
         flushed[cur[p]] # Nil, mntfree(cur[p]), cur' = [cur EXCEPT ![p] = flushed[cur[p]]],
         queue' \in Seq(Rpc), Distinct(queue'),
         \A x : (\E i \in 1..Len(queue') : queue'[i] = x) <=> OnQueue(x) /\ x # cur[p],
         UNCHANGED <<rip, rend, orig, peer, err, calls, intrs, wire, got>>
  PROVE  IInv'
<1>0. /\ Types /\ CallInv /\ OwnInv /\ ChainInv /\ ReplyInv /\ CallOf(p) /\ ReplyOf(p)
  BY DEF IInv, CallInv, ReplyInv
<1>1. srv' = srv /\ rx' = rx /\ hung' = hung /\ served' = served
  BY DEF wire
<1>2. PICK r : r = cur[p]
  OBVIOUS
<1>3. PICK s : s = flushed[r]
  OBVIOUS
<1>4. /\ Owns(p, r) /\ r \in Rpc /\ orig[p] \in Rpc /\ Owns(p, orig[p]) /\ got[p] = Nil
      /\ calls[p] \in 1..MaxCalls
  BY <1>0, <1>2 DEF CallOf
<1>5. r # orig[p] /\ s \in Rpc /\ Owns(p, s)
  BY <1>0, <1>2, <1>3, <1>4, Owned
<1>6. Alone(p) /\ pc'[p] = "free" /\ cur'[p] = s /\ cur' \in [Proc -> Rpc \cup {Nil}]
      /\ pc' \in [Proc -> PC]
  BY <1>0, <1>2, <1>3, <1>5 DEF Types, Alone, PC
<1>7. /\ FreeInv' /\ ListInv' /\ ReadInv' /\ RendInv' /\ GateInv' /\ ServerInv'
      /\ FlightInv' /\ CountInv'
      /\ free' \in Seq(Rpc) /\ request' \in [Rpc -> Message \cup {Blank}]
      /\ reply' \in [Rpc -> Reply] /\ done' \in [Rpc -> BOOLEAN]
      /\ flushed' \in [Rpc -> Rpc \cup {Nil}]
      /\ \A x \in Rpc : x # r => /\ request'[x] = request[x] /\ reply'[x] = reply[x]
                                 /\ done'[x] = done[x] /\ flushed'[x] = flushed[x]
      /\ \A q \in Proc, x \in Rpc : Owns(q, x)' <=> Owns(q, x) /\ x # r
  <2>1. pc[p] \in Leaving /\ pc'[p] \in {"free", "idle"} /\ mntfree(r)
    BY <1>2, <1>6 DEF Leaving
  <2>2. \A x : (\E i \in 1..Len(queue') : queue'[i] = x) <=> OnQueue(x) /\ x # r
    BY <1>2
  <2> QED BY <1>1, <1>2, <1>6, <2>1, <2>2, Freed
<1>8. PICK d \in [Rpc -> Nat] : Chain(d)
  BY <1>0 DEF ChainInv
<1>9. d[r] = d[s] + 1 /\ d[r] \in Nat /\ d[s] \in Nat /\ s # r
  <2>1. d[r] = d[s] + 1
    BY <1>3, <1>4, <1>5, <1>8 DEF Chain
  <2> QED BY <1>4, <1>5, <2>1
<1>10. Types'
  BY <1>0, <1>1, <1>6, <1>7 DEF Types
<1>11. OwnInv'
  <2> SUFFICES ASSUME NEW x \in Rpc, Used(x)' PROVE OwnerOf(x)'
    BY DEF OwnInv, Used
  <2>1. x # r /\ Used(x)
    <3>1. x # r
      BY <1>4, <1>7 DEF FreeInv, Owns, mntfree, Used, Blank, Types
    <3> QED BY <1>7, <3>1 DEF Used
  <2>2. PICK q \in Proc : /\ pc[q] # "idle" /\ Owns(q, x) /\ request[x].tag = x
                          /\ \/ request[x].kind = "T" /\ x = orig[q] /\ flushed[x] = Nil
                             \/ /\ request[x].kind = "Tflush" /\ x # orig[q]
                                /\ request[x].old = orig[q]
                                /\ flushed[x] \in Rpc /\ Owns(q, flushed[x])
    BY <1>0, <2>1 DEF OwnInv, OwnerOf
  <2>3. /\ pc'[q] # "idle" /\ Owns(q, x)' /\ request'[x] = request[x]
        /\ orig'[q] = orig[q] /\ flushed'[x] = flushed[x]
    BY <1>6, <1>7, <2>1, <2>2 DEF Alone
  <2>4. PICK y : y = flushed[x]
    OBVIOUS
  <2>5. ASSUME y \in Rpc, Owns(q, y) PROVE Owns(q, y)'
    <3>1. y # r
      <4> SUFFICES ASSUME y = r PROVE FALSE
        OBVIOUS
      <4>1. q = p
        BY <1>4, <2>5, OneOwner
      <4>2. d[x] = d[r] + 1 /\ d[x] <= d[r]
        BY <1>2, <1>4, <1>8, <2>2, <2>4, <4>1 DEF Chain
      <4> QED BY <1>9, <4>2
    <3> QED BY <1>7, <2>5, <3>1
  <2> QED BY <2>2, <2>3, <2>4, <2>5 DEF OwnerOf, Owns, Used
<1>12. ChainInv'
  <2>1. ASSUME NEW q \in Proc, NEW x \in Rpc, NEW y \in Rpc, Owns(q, x)', Owns(q, y)'
        PROVE  /\ d[x] = d[y] => x = y
               /\ flushed'[x] = y => d[x] = d[y] + 1
               /\ flushed'[x] = Nil => d[x] = 0
               /\ d[x] <= d[cur'[q]]
    <3>1. Owns(q, x) /\ Owns(q, y) /\ x # r /\ y # r /\ flushed'[x] = flushed[x]
      BY <1>7, <2>1
    <3>2. /\ d[x] = d[y] => x = y
          /\ flushed[x] = y => d[x] = d[y] + 1
          /\ flushed[x] = Nil => d[x] = 0
          /\ d[x] <= d[cur[q]]
      BY <1>8, <3>1 DEF Chain
    <3>3. d[x] <= d[cur'[q]]
      <4>1. CASE q # p
        BY <1>6, <3>2, <4>1 DEF Alone
      <4>2. CASE q = p
        <5>1. d[x] = d[r] => x = r
          BY <1>4, <1>8, <3>1, <4>2 DEF Chain
        <5>2. d[x] <= d[r] /\ d[x] # d[r] /\ d[x] \in Nat
          BY <1>2, <3>1, <3>2, <4>2, <5>1
        <5>3. d[x] <= d[s]
          BY <1>9, <5>2
        <5> QED BY <1>6, <4>2, <5>3
      <4> QED BY <4>1, <4>2
    <3> QED BY <3>1, <3>2, <3>3
  <2>2. Chain(d)'
    BY <2>1 DEF Chain
  <2> QED BY <2>2 DEF ChainInv
<1>13. \A q \in Proc \ {p} : pc[q] # "idle" => /\ cur[q] \in Rpc /\ cur[q] # r
                                               /\ orig[q] \in Rpc /\ orig[q] # r
  BY <1>0, <1>4, OneOwner DEF CallInv, CallOf
<1>14. CallInv'
  <2>1. CallOf(p)'
    <3>1. Owns(p, s)' /\ Owns(p, orig[p])'
      <4>1. PICK o : o = orig[p]
        OBVIOUS
      <4>2. Owns(p, s)' /\ Owns(p, o)'
        BY <1>4, <1>5, <1>7, <1>9, <4>1
      <4> QED BY <4>1, <4>2 DEF Owns, Used
    <3>2. Owns(p, cur[p])'
      BY <1>6, <3>1 DEF Owns, Used
    <3>3. err'[p] => hung'
      BY <1>0, <1>1 DEF CallOf
    <3> QED BY <1>4, <1>5, <1>6, <3>1, <3>2, <3>3 DEF CallOf
  <2>2. \A q \in Proc \ {p} : pc[q] = "return" => done'[cur[q]]
    <3> SUFFICES ASSUME NEW q \in Proc \ {p}, pc[q] = "return" PROVE done'[cur[q]]
      OBVIOUS
    <3>1. done[cur[q]]
      BY <1>0 DEF CallInv, CallOf
    <3> QED BY <1>7, <1>13, <3>1
  <2>3. \A q \in Proc \ {p} : \A x \in Rpc : Owns(q, x) => Owns(q, x)'
    BY <1>4, <1>7, OneOwner
  <2> QED BY <1>0, <1>1, <1>6, <2>1, <2>2, <2>3, CallKept
<1>15. ReplyInv'
  <2>1. ReplyOf(p)'
    <3>1. Good(p)' => Good(p)
      BY <1>1 DEF Good, Leaving
    <3>2. reply'[orig[p]] = reply[orig[p]] /\ done'[orig[p]] = done[orig[p]]
      BY <1>4, <1>5, <1>7
    <3> QED BY <1>0, <1>1, <1>6, <3>1, <3>2 DEF ReplyOf
  <2>2. \A q \in Proc \ {p} : pc[q] # "idle" =>
           /\ reply'[orig[q]] = reply[orig[q]] /\ done'[orig[q]] = done[orig[q]]
           /\ served[q] => served'[q]
    BY <1>1, <1>7, <1>13
  <2> QED BY <1>0, <1>1, <1>6, <2>1, <2>2, ReplyKept
<1> QED BY <1>7, <1>10, <1>11, <1>12, <1>14, <1>15 DEF IInv

(* The request itself is done, and off m->queue.                           *)
LEMMA FlushEndStep ==
  ASSUME IInv, NEW p \in Proc, pc[p] \in {"free", "remove"}, pc' = [pc EXCEPT ![p] = "return"],
         flushed[cur[p]] = Nil, done' = [done EXCEPT ![cur[p]] = TRUE],
         done[cur[p]] \/ pc[p] = "remove",
         queue' \in Seq(Rpc), Distinct(queue'),
         \A x : (\E i \in 1..Len(queue') : queue'[i] = x) <=> OnQueue(x) /\ x # cur[p],
         UNCHANGED <<free, request, reply, flushed, cur,
                     rip, rend, orig, peer, err, calls, intrs, wire, got>>
  PROVE  IInv'
<1>0. /\ Types /\ FreeInv /\ CallInv /\ OwnInv /\ ChainInv /\ ListInv /\ ReadInv /\ RendInv
      /\ GateInv /\ ServerInv /\ FlightInv /\ ReplyInv /\ CountInv
      /\ CallOf(p) /\ ReadOf(p) /\ ReplyOf(p)
  BY DEF IInv, CallInv, ReadInv, ReplyInv
<1>1. srv' = srv /\ rx' = rx /\ hung' = hung /\ served' = served
  BY DEF wire
<1>2. PICK r : r = cur[p]
  OBVIOUS
<1>3. r \in Rpc /\ Owns(p, r) /\ Used(r)
  BY <1>0, <1>2 DEF CallOf, Owns
<1>4. r = orig[p]
  BY <1>0, <1>2, <1>3, NoFlush
<1>5. Alone(p) /\ pc'[p] = "return"
  BY <1>0, <1>1, <1>2, MovesAlone
<1>6. done'[r] /\ done' \in [Rpc -> BOOLEAN] /\ \A x \in Rpc : x # r => done'[x] = done[x]
  BY <1>0, <1>2, <1>3 DEF Types
<1>7. Types'
  <2>1. pc' \in [Proc -> PC]
    BY <1>0 DEF Types, PC
  <2> QED BY <1>0, <1>1, <1>6, <2>1 DEF Types
<1>8. \A q \in Proc \ {p} : /\ pc'[q] = pc[q] /\ cur'[q] = cur[q]
                            /\ pc[q] # "idle" => /\ cur[q] \in Rpc /\ cur[q] # r
                                                 /\ orig[q] \in Rpc /\ orig[q] # r
  BY <1>0, <1>3, <1>5, OneOwner DEF CallInv, CallOf, Alone
<1>9. OwnInv' /\ ChainInv' /\ FreeInv'
  <2>1. \A q \in Proc : pc[q] # "idle" => pc'[q] # "idle"
    BY <1>5, <1>8
  <2>2. \A x \in Rpc : ~Used(x) => done'[x] = done[x]
    BY <1>3, <1>6
  <2> QED BY <1>0, <2>1, <2>2, ChainsKept, FreeKept
<1>10. CallInv'
  <2>1. CallOf(p)'
    BY <1>0, <1>1, <1>2, <1>4, <1>5, <1>6 DEF CallOf, Owns, Used
  <2>2. \A q \in Proc \ {p} : pc[q] = "return" => done'[cur[q]]
    BY <1>0, <1>6, <1>8 DEF CallInv, CallOf
  <2>3. \A q \in Proc \ {p} : \A x \in Rpc : Owns(q, x) => Owns(q, x)'
    BY DEF Owns, Used
  <2> QED BY <1>0, <1>1, <1>5, <2>1, <2>2, <2>3, CallKept
<1>11. ListInv'
  <2>1. ASSUME NEW i \in 1..Len(queue')
        PROVE  request'[queue'[i]].kind # "none" /\ ~done'[queue'[i]]
    <3>1. OnQueue(queue'[i]) /\ queue'[i] # r /\ queue'[i] \in Rpc
      BY <1>2, ElementOfSeq
    <3>2. Used(queue'[i]) /\ ~done[queue'[i]]
      BY <1>0, <3>1 DEF ListInv, OnQueue
    <3> QED BY <1>6, <3>1, <3>2 DEF Used
  <2>2. ASSUME NEW q \in Proc PROVE ListOf(q)'
    <3>1. CASE q = p
      BY <1>5, <3>1 DEF ListOf, Waiting
    <3>2. CASE q # p
      <4>1. ListOf(q) /\ pc'[q] = pc[q] /\ cur'[q] = cur[q]
        BY <1>0, <1>8, <3>2 DEF ListInv
      <4>2. CASE pc[q] = "idle"
        BY <4>1, <4>2 DEF ListOf, Waiting
      <4>3. CASE pc[q] # "idle"
        <5>1. cur[q] # r /\ done'[cur[q]] = done[cur[q]]
          BY <1>6, <1>8, <3>2, <4>3
        <5>2. OnQueue(cur[q])' <=> OnQueue(cur[q])
          BY <1>2, <4>1, <5>1 DEF OnQueue
        <5> QED BY <1>1, <4>1, <5>1, <5>2 DEF ListOf
      <4> QED BY <4>2, <4>3
    <3> QED BY <3>1, <3>2
  <2>3. \A q \in Proc : ListOf(q)'
    BY <2>2
  <2> QED BY <2>1, <2>3 DEF ListInv, Used
<1>12. ReadInv' /\ RendInv' /\ CountInv'
  <2>1. ReadOf(p)'
    BY <1>0, <1>5 DEF ReadOf
  <2>2. Flushing' \subseteq Flushing
    BY <1>5, <1>8 DEF Flushing
  <2> QED BY <1>1, <1>5, <1>7, <2>1, <2>2, PartsKept
<1>13. GateInv'
  <2>1. ASSUME NEW x \in Rpc, ~done'[x] PROVE ~done[x]
    BY <1>6, <2>1
  <2>2. Sleepers' => Sleepers
    BY <2>1 DEF Sleepers
  <2>3. ASSUME NEW q \in Proc, Witness(q) PROVE Witness(q)'
    <3>1. q # p /\ pc[q] # "idle"
      BY <2>3 DEF Witness
    <3>2. ~done'[cur[q]] /\ rend'[cur[q]] # q
      BY <1>6, <1>8, <2>3, <3>1 DEF Witness
    <3> QED BY <1>5, <2>3, <3>1, <3>2, WitnessKept
  <2>4. Excused' = Excused
    BY <1>1 DEF Excused
  <2> QED BY <1>0, <2>2, <2>3, <2>4 DEF GateInv
<1>14. ServerInv'
  BY <1>0, <1>1 DEF ServerInv
<1>15. \A q \in Proc : Good(q)' => Good(q)
  <2> SUFFICES ASSUME NEW q \in Proc, Good(q)' PROVE Good(q)
    OBVIOUS
  <2>1. pc[q] = pc'[q] \/ pc[q] \in Leaving
    BY <1>5, <1>8 DEF Leaving
  <2> QED BY <1>1, <2>1 DEF Good
<1>16. ReplyInv'
  <2>1. ReplyOf(p)'
    <3>1. Good(p)' => Good(p)
      BY <1>15
    <3> QED BY <1>0, <1>1, <1>2, <1>4, <3>1 DEF ReplyOf
  <2>2. \A q \in Proc \ {p} : pc[q] # "idle" =>
           /\ reply'[orig[q]] = reply[orig[q]] /\ done'[orig[q]] = done[orig[q]]
           /\ served[q] => served'[q]
    BY <1>1, <1>6, <1>8
  <2> QED BY <1>0, <1>1, <1>5, <2>1, <2>2, ReplyKept
<1>17. FlightInv'
  <2>1. PICK F : F = Flight
    OBVIOUS
  <2>2. /\ F \in Seq(Message) /\ Len(F) \in Nat
        /\ \A i \in 1..Len(F) : F[i].tag \in Rpc
    <3>1. F \in Seq(Message) /\ Len(F) \in Nat
      BY <1>0, <2>1, FlightSeq, LenProperties
    <3>2. \A i \in 1..Len(F) : F[i] \in Message
      BY <3>1, ElementOfSeq
    <3> QED BY <3>1, <3>2 DEF Message
  <2>3. F = Flight' /\ Len(F) + 0 <= Len(F)
    <3>1. Muxed' = Muxed
      <4>1. pc[p] # "mux" /\ pc'[p] # "mux"
        BY <1>5
      <4>2. \A q \in Proc \ {p} : pc[q] = "mux" => reply'[cur[q]] = reply[cur[q]]
        OBVIOUS
      <4> QED BY <1>0, <1>8, <4>1, <4>2, MuxedKept DEF Types
    <3> QED BY <1>1, <2>1, <2>2, <3>1 DEF Flight
  <2>4. \A i \in 1..Len(F) : F[i] = F[i + 0]
    BY <2>2
  <2>5. ~hung' => \A i \in 1..Len(F) : Used(F[i].tag) => Used(F[i].tag)'
    BY DEF Used
  <2>6. ASSUME NEW q \in Proc, NEW i \in 1..Len(F), Good(q)', Owns(q, F[i].tag)'
        PROVE  /\ Good(q) /\ Owns(q, F[i].tag) /\ (F[i].tag = cur'[q] => F[i].tag = cur[q])
               /\ Expected(q, F[i]) => Expected(q, F[i])'
    <3>1. Owns(q, F[i].tag) /\ Good(q)
      BY <1>15, <2>6 DEF Owns, Used
    <3>2. CASE q = p
      <4>1. pc[p] \in Leaving /\ Good(p)
        BY <3>1, <3>2 DEF Leaving
      <4>2. ~Owns(p, F[i].tag)
        BY <1>0, <2>1, <4>1, NoMessage
      <4> QED BY <3>1, <3>2, <4>2
    <3>3. CASE q # p
      <4>1. pc[q] # "idle" /\ F[i].tag # r
        BY <1>0, <1>3, <2>2, <3>1, <3>3, Owned, OneOwner
      <4>2. done'[cur[q]] = done[cur[q]] /\ cur'[q] = cur[q] /\ pc'[q] = pc[q]
        BY <1>6, <1>8, <3>3, <4>1
      <4>3. Expected(q, F[i]) => Expected(q, F[i])'
        BY <1>1, <1>2, <4>1, <4>2 DEF Expected, OnQueue
      <4> QED BY <3>1, <4>2, <4>3
    <3> QED BY <3>2, <3>3
  <2> QED BY <1>0, <1>1, <2>1, <2>2, <2>3, <2>4, <2>5, <2>6, FlightKept
<1> QED BY <1>7, <1>9, <1>10, <1>11, <1>12, <1>13, <1>14, <1>16, <1>17 DEF IInv

(* The end of either test of mntflushfree.                                 *)
LEMMA FlushNextStep ==
  ASSUME IInv, NEW p \in Proc, NEW from \in {"free", "remove"}, FlushNext(p, from),
         done[cur[p]] \/ pc[p] = "remove",
         queue' \in Seq(Rpc), Distinct(queue'),
         \A x : (\E i \in 1..Len(queue') : queue'[i] = x) <=> OnQueue(x) /\ x # cur[p],
         UNCHANGED <<rip, rend, orig, peer, err, calls, intrs, wire, got>>
  PROVE  IInv'
<1>1. CASE flushed[cur[p]] # Nil
  <2>1. /\ pc[p] \in {"free", "remove"} /\ pc' = [pc EXCEPT ![p] = "free"]
        /\ mntfree(cur[p]) /\ cur' = [cur EXCEPT ![p] = flushed[cur[p]]]
    BY <1>1 DEF FlushNext, Goto
  <2> QED BY <1>1, <2>1, FlushFreeStep
<1>2. CASE flushed[cur[p]] = Nil
  <2>1. /\ pc[p] \in {"free", "remove"} /\ pc' = [pc EXCEPT ![p] = "return"]
        /\ done' = [done EXCEPT ![cur[p]] = TRUE]
        /\ UNCHANGED <<free, request, reply, flushed, cur>>
    BY <1>2 DEF FlushNext, Goto
  <2> QED BY <1>2, <2>1, FlushEndStep
<1> QED BY <1>1, <1>2

(* The flush loop frees a flush, or is at its end.                         *)
LEMMA FlushDoneStep ==
  ASSUME IInv, NEW p \in Proc, FlushTest(p), done[cur[p]]
  PROVE  IInv'
<1>1. Types /\ ListInv
  BY DEF IInv
<1>2. /\ FlushNext(p, "free")
      /\ UNCHANGED <<queue, rip, rend, orig, peer, err, calls, intrs, wire, got>>
  BY DEF FlushTest, mount, count
<1>3. queue' \in Seq(Rpc) /\ Distinct(queue')
  BY <1>1, <1>2 DEF Types, ListInv, Distinct
<1>4. \A x : (\E i \in 1..Len(queue') : queue'[i] = x) <=> OnQueue(x) /\ x # cur[p]
  BY <1>1, <1>2 DEF ListInv, OnQueue
<1> QED BY <1>2, <1>3, <1>4, FlushNextStep

(* mntqrm: the server dropped this request, nobody expects its reply.      *)
LEMMA mntqrmStep ==
  ASSUME IInv, NEW p \in Proc, mntqrm(p)
  PROVE  IInv'
<1>1. Types /\ Distinct(queue)
  BY DEF IInv, ListInv
<1>2. /\ FlushNext(p, "remove") /\ queue' = Without(cur[p])
      /\ UNCHANGED <<rip, rend, orig, peer, err, calls, intrs, wire, got>>
  BY DEF mntqrm, count
<1>3. pc[p] = "remove"
  BY <1>2 DEF FlushNext, Goto
<1>4. /\ queue' \in Seq(Rpc) /\ Distinct(queue')
      /\ \A x : (\E i \in 1..Len(queue') : queue'[i] = x) <=> OnQueue(x) /\ x # cur[p]
  <2>1. PICK r : r = cur[p]
    OBVIOUS
  <2>2. /\ Without(r) \in Seq(Rpc) /\ Distinct(Without(r))
        /\ \A x : (\E i \in 1..Len(Without(r)) : Without(r)[i] = x) <=> OnQueue(x) /\ x # r
    BY <1>1, WithoutQueue
  <2>3. queue' = Without(r)
    BY <1>2, <2>1
  <2> QED BY <2>1, <2>2, <2>3
<1> QED BY <1>2, <1>3, <1>4, FlushNextStep

(* The request is given back: p owned nothing else.                        *)
LEMMA ReturnStep ==
  ASSUME IInv, NEW p \in Proc, Return(p)
  PROVE  IInv'
<1>0. /\ Types /\ CallInv /\ OwnInv /\ ChainInv /\ ListInv /\ ReplyInv /\ CallOf(p)
  BY DEF IInv, CallInv, ReplyInv
<1>1. /\ pc[p] = "return" /\ pc' = [pc EXCEPT ![p] = "idle"]
      /\ got' = [got EXCEPT ![p] = IF ~err[p] /\ reply[orig[p]].kind = "R"
                                   THEN reply[orig[p]].call ELSE Nil]
      /\ mntfree(orig[p]) /\ cur' = [cur EXCEPT ![p] = Nil] /\ orig' = [orig EXCEPT ![p] = Nil]
      /\ UNCHANGED <<queue, rip, rend, peer, err, calls, intrs, wire>>
      /\ srv' = srv /\ rx' = rx /\ hung' = hung /\ served' = served
  BY DEF Return, Goto, mount, count, wire
<1>2. PICK r : r = cur[p]
  OBVIOUS
<1>3. /\ r = orig[p] /\ r \in Rpc /\ Owns(p, r) /\ done[r]
  BY <1>0, <1>1, <1>2 DEF CallOf
<1>4. \A x \in Rpc : Owns(p, x) => x = r
  <2>1. flushed[cur[p]] = Nil
    BY <1>0, <1>2, <1>3, Owned
  <2> QED BY <1>0, <1>2, <2>1, NoFlush
<1>5. Alone(p) /\ pc'[p] = "idle"
  BY <1>0, <1>1 DEF Types, Alone
<1>6. /\ pc' \in [Proc -> PC] /\ cur' \in [Proc -> Rpc \cup {Nil}]
      /\ orig' \in [Proc -> Rpc \cup {Nil}] /\ got' \in [Proc -> CallId \cup {Nil}]
  <2>1. reply[r].call \in CallId \cup {Nil}
    BY <1>0, <1>3 DEF Types, Reply
  <2> QED BY <1>0, <1>1, <1>3, <2>1 DEF Types, PC
<1>7. /\ FreeInv' /\ ListInv' /\ ReadInv' /\ RendInv' /\ GateInv' /\ ServerInv'
      /\ FlightInv' /\ CountInv'
      /\ free' \in Seq(Rpc) /\ request' \in [Rpc -> Message \cup {Blank}]
      /\ reply' \in [Rpc -> Reply] /\ done' \in [Rpc -> BOOLEAN]
      /\ flushed' \in [Rpc -> Rpc \cup {Nil}]
      /\ \A x \in Rpc : x # r => /\ request'[x] = request[x] /\ reply'[x] = reply[x]
                                 /\ done'[x] = done[x] /\ flushed'[x] = flushed[x]
      /\ \A q \in Proc, x \in Rpc : Owns(q, x)' <=> Owns(q, x) /\ x # r
  <2>1. pc[p] \in Leaving /\ pc'[p] \in {"free", "idle"} /\ mntfree(r) /\ err'[p] = err[p]
    BY <1>1, <1>3, <1>5 DEF Leaving
  <2>2. ~OnQueue(r)
    BY <1>0, <1>3 DEF ListInv, OnQueue
  <2>3. queue' \in Seq(Rpc) /\ Distinct(queue')
    BY <1>0, <1>1 DEF Types, ListInv, Distinct
  <2>4. \A x : (\E i \in 1..Len(queue') : queue'[i] = x) <=> OnQueue(x) /\ x # r
    BY <1>1, <2>2 DEF OnQueue
  <2> QED BY <1>1, <1>2, <1>5, <2>1, <2>3, <2>4, Freed
<1>8. Types'
  BY <1>0, <1>1, <1>6, <1>7 DEF Types
<1>9. OwnInv'
  <2> SUFFICES ASSUME NEW x \in Rpc, Used(x)' PROVE OwnerOf(x)'
    BY DEF OwnInv, Used
  <2>1. x # r /\ Used(x)
    <3>1. x # r
      BY <1>0, <1>1, <1>3 DEF mntfree, Used, Blank, Types
    <3> QED BY <1>7, <3>1 DEF Used
  <2>2. PICK q \in Proc : /\ pc[q] # "idle" /\ Owns(q, x) /\ request[x].tag = x
                          /\ \/ request[x].kind = "T" /\ x = orig[q] /\ flushed[x] = Nil
                             \/ /\ request[x].kind = "Tflush" /\ x # orig[q]
                                /\ request[x].old = orig[q]
                                /\ flushed[x] \in Rpc /\ Owns(q, flushed[x])
    BY <1>0, <2>1 DEF OwnInv, OwnerOf
  <2>3. q # p
    BY <1>4, <2>1, <2>2
  <2>4. /\ pc'[q] # "idle" /\ Owns(q, x)' /\ request'[x] = request[x]
        /\ orig'[q] = orig[q] /\ flushed'[x] = flushed[x]
    BY <1>5, <1>7, <2>1, <2>2, <2>3 DEF Alone
  <2>5. PICK y : y = flushed[x]
    OBVIOUS
  <2>6. y \in Rpc /\ Owns(q, y) => Owns(q, y)'
    BY <1>3, <1>7, <2>3, OneOwner
  <2> QED BY <2>2, <2>4, <2>5, <2>6 DEF OwnerOf, Owns, Used
<1>10. ChainInv'
  <2>1. PICK d \in [Rpc -> Nat] : Chain(d)
    BY <1>0 DEF ChainInv
  <2>2. ASSUME NEW q \in Proc, NEW x \in Rpc, NEW y \in Rpc, Owns(q, x)', Owns(q, y)'
        PROVE  /\ d[x] = d[y] => x = y
               /\ flushed'[x] = y => d[x] = d[y] + 1
               /\ flushed'[x] = Nil => d[x] = 0
               /\ d[x] <= d[cur'[q]]
    <3>1. Owns(q, x) /\ Owns(q, y) /\ x # r /\ flushed'[x] = flushed[x]
      BY <1>7, <2>2
    <3>2. cur'[q] = cur[q]
      BY <1>4, <1>5, <3>1 DEF Alone
    <3> QED BY <2>1, <3>1, <3>2 DEF Chain
  <2>3. Chain(d)'
    BY <2>2 DEF Chain
  <2> QED BY <2>3 DEF ChainInv
<1>11. \A q \in Proc \ {p} : pc[q] # "idle" => /\ cur[q] \in Rpc /\ cur[q] # r
                                               /\ orig[q] \in Rpc /\ orig[q] # r
  BY <1>0, <1>3, OneOwner DEF CallInv, CallOf
<1>12. CallInv'
  <2>1. CallOf(p)'
    BY <1>0, <1>1, <1>5 DEF CallOf
  <2>2. \A q \in Proc \ {p} : pc[q] = "return" => done'[cur[q]]
    <3> SUFFICES ASSUME NEW q \in Proc \ {p}, pc[q] = "return" PROVE done'[cur[q]]
      OBVIOUS
    <3>1. done[cur[q]]
      BY <1>0 DEF CallInv, CallOf
    <3> QED BY <1>7, <1>11, <3>1
  <2>3. \A q \in Proc \ {p} : \A x \in Rpc : Owns(q, x) => Owns(q, x)'
    BY <1>3, <1>7, OneOwner
  <2> QED BY <1>0, <1>1, <1>5, <2>1, <2>2, <2>3, CallKept
<1>13. ReplyInv'
  <2>1. ReplyOf(p)'
    BY <1>5 DEF ReplyOf
  <2>2. \A q \in Proc \ {p} : pc[q] # "idle" =>
           /\ reply'[orig[q]] = reply[orig[q]] /\ done'[orig[q]] = done[orig[q]]
           /\ served[q] => served'[q]
    BY <1>1, <1>7, <1>11
  <2> QED BY <1>0, <1>1, <1>5, <2>1, <2>2, ReplyKept
<1> QED BY <1>7, <1>8, <1>9, <1>10, <1>12, <1>13 DEF IInv

-----------------------------------------------------------------------------
(* Steps of the server and of the connection: no process moves.            *)
LEMMA WireStep ==
  ASSUME IInv, UNCHANGED <<free, mount, fields, rend, pc, locals, count, got>>,
         hung => hung', \A q \in Proc : served[q] => served'[q],
         Types', ServerInv', FlightInv'
  PROVE  IInv'
<1>0. /\ Types /\ FreeInv /\ CallInv /\ OwnInv /\ ChainInv /\ ListInv /\ ReadInv /\ RendInv
      /\ GateInv /\ ReplyInv /\ CountInv
  BY DEF IInv
<1>1. UNCHANGED <<free, queue, rip, request, reply, done, flushed, rend, pc, cur, orig, peer, err,
                  calls, intrs, got>>
  BY DEF mount, fields, locals, count
<1>2. FreeInv' /\ OwnInv' /\ ChainInv'
  BY <1>0, <1>1, ChainsKept, FreeKept
<1>3. CallInv'
  BY <1>0, <1>1 DEF CallInv, CallOf, Owns, Used
<1>4. ListInv'
  BY <1>0, <1>1 DEF ListInv, ListOf, OnQueue, Distinct, Used
<1>5. ReadInv' /\ RendInv'
  BY <1>0, <1>1 DEF ReadInv, ReadOf, RendInv
<1>6. GateInv'
  <2>1. \A q \in Proc : Witness(q) => Witness(q)'
    BY <1>1 DEF Witness
  <2>2. Sleepers' => Sleepers
    BY <1>1 DEF Sleepers
  <2>3. Excused => Excused'
    BY <1>1 DEF Excused
  <2> QED BY <1>0, <1>1, <2>1, <2>2, <2>3 DEF GateInv
<1>7. ReplyInv'
  <2> SUFFICES ASSUME NEW q \in Proc PROVE ReplyOf(q)'
    BY DEF ReplyInv
  <2>1. ReplyOf(q) /\ (Good(q)' => Good(q))
    BY <1>0, <1>1 DEF ReplyInv, Good
  <2> QED BY <1>1, <2>1 DEF ReplyOf
<1>8. CountInv'
  BY <1>0, <1>1 DEF CountInv, Flushes, Flushing
<1> QED BY <1>2, <1>3, <1>4, <1>5, <1>6, <1>7, <1>8 DEF IInv

(* The connection fails: some of the last messages in flight are lost.     *)
LEMMA HangupStep ==
  ASSUME IInv, Hangup
  PROVE  IInv'
<1>0. Types /\ CallInv /\ ReadInv /\ FlightInv
  BY DEF IInv
<1>1. /\ ~hung /\ hung' = TRUE /\ srv' = <<>>
      /\ UNCHANGED <<free, queue, rip, request, reply, done, flushed, rend, pc, cur, orig, peer, err,
                     calls, intrs, served, got>>
      /\ UNCHANGED <<free, mount, fields, rend, pc, locals, count, got>>
  BY DEF Hangup, mount, fields, locals, count
<1>2. PICK k \in 0..Len(rx) : rx' = SubSeq(rx, 1, k)
  BY DEF Hangup
<1>3. rx \in Seq(Message) /\ Len(rx) \in Nat /\ srv \in Seq(Message)
  BY <1>0, LenProperties DEF Types
<1> DEFINE u == SubSeq(rx, 1, k)
<1>4. u \in Seq(Message) /\ Len(u) = k /\ \A i \in 1..k : u[i] = rx[i]
  <2>1. \A i \in 1..k : rx[i] \in Message
    <3>1. \A i \in 1..Len(rx) : rx[i] \in Message
      BY <1>3, ElementOfSeq
    <3> QED BY <1>3, <3>1
  <2>2. 1 \in Int /\ k \in Int
    OBVIOUS
  <2>3. /\ u \in Seq(Message) /\ Len(u) = IF 1 <= k THEN k - 1 + 1 ELSE 0
        /\ \A i \in 1..k - 1 + 1 : u[i] = rx[1 + i - 1]
    BY <2>1, <2>2, SubSeqProperties
  <2> HIDE DEF u
  <2>4. Len(u) = k
    BY <2>3
  <2>5. \A i \in 1..k : i \in 1..k - 1 + 1 /\ 1 + i - 1 = i
    OBVIOUS
  <2> QED BY <2>3, <2>4, <2>5
<1> HIDE DEF u
<1>5. rx' = u
  BY <1>2 DEF u
<1>6. Types'
  BY <1>0, <1>1, <1>4, <1>5 DEF Types
<1>7. ServerInv'
  BY <1>1 DEF ServerInv
<1>8. FlightInv'
  <2>1. PICK h : h = Muxed
    OBVIOUS
  <2>2. h \in Seq(Message) /\ Muxed' = h
    <3>1. h \in Seq(Message)
      BY <1>0, <2>1, FlightSeq
    <3>2. Muxed' = Muxed
      BY <1>1 DEF Muxed
    <3> QED BY <2>1, <3>1, <3>2
  <2>a. PICK F : F = h \o (rx \o srv)
    OBVIOUS
  <2>b. PICK z : z = <<>>
    OBVIOUS
  <2>c. PICK G : G = h \o (u \o z)
    OBVIOUS
  <2>3. z \in Seq(Message) /\ Len(z) = 0
    BY <2>b
  <2>4. /\ Len(F) = Len(h) + Len(rx) + Len(srv)
        /\ Len(h) \in Nat /\ Len(rx) \in Nat /\ Len(srv) \in Nat
        /\ \A i \in 1..Len(F) :
             /\ i <= Len(h) => F[i] = h[i]
             /\ i > Len(h) /\ i <= Len(h) + Len(rx) => F[i] = rx[i - Len(h)]
    BY <1>3, <2>2, <2>a, Concat3
  <2>d. u \in Seq(Message)
    BY <1>4
  <2>5. /\ Len(G) = Len(h) + Len(u) + Len(z)
        /\ \A i \in 1..Len(G) :
             /\ i <= Len(h) => G[i] = h[i]
             /\ i > Len(h) /\ i <= Len(h) + Len(u) => G[i] = u[i - Len(h)]
    BY <2>d, <2>2, <2>3, <2>c, Concat3
  <2>6. F = Flight /\ G = Flight'
    BY <1>1, <1>5, <2>1, <2>2, <2>a, <2>b, <2>c DEF Flight
  <2>7. Len(F) \in Nat /\ Len(G) \in Nat /\ Len(G) + 0 <= Len(F)
    BY <1>4, <2>3, <2>4, <2>5
  <2>8. ASSUME NEW i \in 1..Len(G) PROVE G[i] = F[i + 0]
    <3>1. i \in 1..Len(F) /\ i + 0 = i /\ i <= Len(h) + Len(u) /\ i <= Len(h) + Len(rx)
      BY <1>3, <1>4, <2>3, <2>4, <2>5, <2>7
    <3>2. CASE i <= Len(h)
      BY <2>4, <2>5, <3>1, <3>2
    <3>3. CASE i > Len(h)
      <4>1. i - Len(h) \in 1..k
        BY <1>4, <2>4, <3>1, <3>3
      <4>2. u[i - Len(h)] = rx[i - Len(h)]
        BY <1>4, <4>1
      <4> QED BY <2>4, <2>5, <3>1, <3>3, <4>2
    <3>4. i \in Int
      OBVIOUS
    <3> QED BY <2>4, <3>2, <3>3, <3>4
  <2>9. ASSUME NEW q \in Proc, NEW i \in 1..Len(F), Good(q)', Owns(q, F[i].tag)'
        PROVE  /\ Good(q) /\ Owns(q, F[i].tag) /\ (F[i].tag = cur'[q] => F[i].tag = cur[q])
               /\ Expected(q, F[i]) => Expected(q, F[i])'
    <3>1. Good(q) /\ Owns(q, F[i].tag)
      BY <1>1, <2>9 DEF Good, Owns, Used
    <3>2. Expected(q, F[i]) => Expected(q, F[i])'
      BY <1>1 DEF Expected, OnQueue
    <3> QED BY <1>1, <3>1, <3>2
  <2>10. hung' /\ 0 \in {0, 1}
    BY <1>1
  <2> QED BY <1>0, <2>6, <2>7, <2>8, <2>9, <2>10, FlightKept
<1> QED BY <1>1, <1>6, <1>7, <1>8, WireStep

(* t is what is left of s without s[k], in the order it was: t[j] is       *)
(* s[f[j]].                                                                *)
Left(t, s, k, f) == /\ \A j \in 1..Len(t) : f[j] \in 1..Len(s) /\ f[j] # k /\ t[j] = s[f[j]]
                    /\ \A i, j \in 1..Len(t) : i < j => f[i] < f[j]

(* Removing one message leaves the others, in order.                       *)
LEMMA RemoveAtLeft ==
  ASSUME NEW P, NEW s \in Seq(P), NEW k \in 1..Len(s)
  PROVE  \E f : Left(RemoveAt(s, k), s, k, f)
<1>1. Len(s) \in Nat /\ k \in Nat
  BY LenProperties
<1> DEFINE t == RemoveAt(s, k)
<1>2. Len(t) = Len(s) - 1 /\ \A i \in 1..Len(s) - 1 : t[i] = IF i < k THEN s[i] ELSE s[i + 1]
  BY RemoveAtOrder
<1> HIDE DEF t
<1>3. PICK f : f = [i \in 1..Len(t) |-> IF i < k THEN i ELSE i + 1]
  OBVIOUS
<1>4. \A i \in 1..Len(t) : f[i] = IF i < k THEN i ELSE i + 1
  BY <1>3
<1>5. ASSUME NEW j \in 1..Len(t) PROVE f[j] \in 1..Len(s) /\ t[j] = s[f[j]] /\ f[j] # k
  <2>1. j \in 1..Len(s) - 1
    BY <1>2
  <2> QED BY <1>1, <1>2, <1>4, <2>1
<1>6. ASSUME NEW i \in 1..Len(t), NEW j \in 1..Len(t), i < j PROVE f[i] < f[j]
  BY <1>1, <1>4, <1>6
<1>7. Left(t, s, k, f)
  BY <1>5, <1>6 DEF Left
<1> QED BY <1>7 DEF t

(* What is left of what is left.                                           *)
LEMMA LeftTwice ==
  ASSUME NEW u, NEW t, NEW s, NEW l, NEW k, NEW g, NEW f, Left(u, t, l, g), Left(t, s, k, f)
  PROVE  \E e : /\ Left(u, s, k, e)
                /\ \A j \in 1..Len(u) : g[j] \in 1..Len(t) /\ e[j] = f[g[j]]
<1>1. PICK e : e = [j \in 1..Len(u) |-> f[g[j]]]
  OBVIOUS
<1>2. \A j \in 1..Len(u) : g[j] \in 1..Len(t) /\ e[j] = f[g[j]] /\ u[j] = t[g[j]]
  BY <1>1 DEF Left
<1>3. \A j \in 1..Len(u) : e[j] \in 1..Len(s) /\ u[j] = s[e[j]] /\ e[j] # k
  BY <1>2 DEF Left
<1>4. \A i, j \in 1..Len(u) : i < j => e[i] < e[j]
  BY <1>2 DEF Left
<1> QED BY <1>2, <1>3, <1>4 DEF Left

(* G is F without some messages and with a for the one at n + k, which may *)
(* overtake some of those left of the ones behind n.                       *)
Overtakes(e, F, G, a, n, k, t, f) ==
  /\ \A x \in 1..Len(G) : /\ e[x] \in 1..Len(F)
                          /\ G[x] = F[e[x]] \/ (G[x] = a /\ e[x] = n + k)
  /\ \A x, y \in 1..Len(G) : x < y =>
       \/ e[x] < e[y]
       \/ /\ G[x] = a /\ e[x] = n + k /\ e[x] # e[y]
          /\ \E j \in 1..Len(t) : G[y] = t[j] /\ f[j] < k

(* A message of s is answered by a: where the messages in flight come      *)
(* from, and that a overtakes only what was before it in s.                *)
Overtaken(h, c, s, t, a, k, f) ==
  LET F == h \o (c \o s)
      G == h \o (Append(c, a) \o t)
      n == Len(h) + Len(c)
  IN /\ F[n + k] = s[k] /\ n + k \in 1..Len(F) /\ Len(F) \in Nat /\ Len(G) \in Nat
     /\ \E e : Overtakes(e, F, G, a, n, k, t, f)

(* Where the messages were, when the answer to one is sent ahead.          *)
LEMMA Overtaking ==
  ASSUME NEW h \in Seq(Message), NEW c \in Seq(Message), NEW s \in Seq(Message),
         NEW t \in Seq(Message), NEW a \in Message, NEW k \in 1..Len(s),
         NEW f, Left(t, s, k, f)
  PROVE  Overtaken(h, c, s, t, a, k, f)
<1>a. PICK F : F = h \o (c \o s)
  OBVIOUS
<1>b. PICK G : G = h \o (Append(c, a) \o t)
  OBVIOUS
<1>c. PICK n : n = Len(h) + Len(c)
  OBVIOUS
<1>1. /\ n = Len(h) + Len(c) /\ Len(F) = n + Len(s) /\ n \in Nat /\ Len(h) \in Nat /\ Len(c) \in Nat /\ Len(s) \in Nat
      /\ \A i \in 1..Len(F) : /\ i <= Len(h) => F[i] = h[i]
                              /\ i > Len(h) /\ i <= n => F[i] = c[i - Len(h)]
                              /\ i > n => F[i] = s[i - Len(h) - Len(c)]
  BY <1>a, <1>c, Concat3
<1>2. PICK ca : ca = Append(c, a)
  OBVIOUS
<1>3. /\ ca \in Seq(Message) /\ Len(ca) = Len(c) + 1 /\ ca[Len(c) + 1] = a
      /\ \A i \in 1..Len(c) : ca[i] = c[i]
  BY <1>2, AppendOrder
<1>4. /\ Len(G) = Len(h) + Len(ca) + Len(t) /\ Len(t) \in Nat
      /\ \A i \in 1..Len(G) : /\ i <= Len(h) => G[i] = h[i]
                              /\ i > Len(h) /\ i <= Len(h) + Len(ca) => G[i] = ca[i - Len(h)]
                              /\ i > Len(h) + Len(ca) => G[i] = t[i - Len(h) - Len(ca)]
  <2>1. ca \in Seq(Message) /\ G = h \o (ca \o t)
    BY <1>2, <1>3, <1>b
  <2> QED BY <2>1, Concat3
<1>5. Len(G) = n + 1 + Len(t) /\ Len(h) + Len(ca) = n + 1
  BY <1>1, <1>3, <1>4
<1>6. ASSUME NEW i \in 1..Len(s) PROVE n + i \in 1..Len(F) /\ F[n + i] = s[i]
  <2>1. n + i \in 1..Len(F) /\ n + i > n /\ n + i - Len(h) - Len(c) = i
    BY <1>1
  <2>2. F[n + i] = s[n + i - Len(h) - Len(c)]
    BY <1>1, <2>1
  <2> QED BY <2>1, <2>2
<1>7. PICK e : e = [x \in 1..Len(G) |-> IF x <= n THEN x
                                        ELSE IF x = n + 1 THEN n + k ELSE n + f[x - n - 1]]
  OBVIOUS
<1>8. ASSUME NEW x \in 1..Len(G)
      PROVE  \/ x <= n /\ e[x] = x /\ G[x] = F[x] /\ x \in 1..Len(F)
             \/ x = n + 1 /\ e[x] = n + k /\ G[x] = a
             \/ /\ x > n + 1 /\ x - n - 1 \in 1..Len(t) /\ e[x] = n + f[x - n - 1]
                /\ G[x] = t[x - n - 1]
  <2>0. x \in Int /\ e[x] = IF x <= n THEN x ELSE IF x = n + 1 THEN n + k ELSE n + f[x - n - 1]
    BY <1>7
  <2>1. CASE x <= Len(h)
    <3>1. x <= n /\ x \in 1..Len(F) /\ G[x] = h[x] /\ F[x] = h[x]
      BY <1>1, <1>4, <2>1
    <3> QED BY <2>0, <3>1
  <2>2. CASE x > Len(h) /\ x <= n
    <3>1. x \in 1..Len(F) /\ x <= Len(h) + Len(ca) /\ x - Len(h) \in 1..Len(c)
      BY <1>1, <1>5, <2>2
    <3>2. G[x] = ca[x - Len(h)] /\ F[x] = c[x - Len(h)]
      BY <1>1, <1>4, <2>2, <3>1
    <3>3. ca[x - Len(h)] = c[x - Len(h)]
      BY <1>3, <3>1
    <3> QED BY <2>0, <2>2, <3>1, <3>2, <3>3
  <2>3. CASE x = n + 1
    <3>1. x > Len(h) /\ x <= Len(h) + Len(ca) /\ x - Len(h) = Len(c) + 1
      BY <1>1, <1>5, <2>3
    <3>2. G[x] = ca[x - Len(h)]
      BY <1>4, <3>1
    <3>3. ~(x <= n)
      BY <1>1, <2>3
    <3> QED BY <1>3, <2>0, <2>3, <3>1, <3>2, <3>3
  <2>4. CASE x > n + 1
    <3>1. /\ x > Len(h) + Len(ca) /\ x - Len(h) - Len(ca) = x - n - 1
          /\ x - n - 1 \in 1..Len(t) /\ ~(x <= n) /\ x # n + 1
      BY <1>1, <1>3, <1>4, <1>5, <2>4
    <3>2. G[x] = t[x - n - 1]
      BY <1>4, <3>1
    <3> QED BY <2>0, <2>4, <3>1, <3>2
  <2>5. x <= Len(h) \/ (x > Len(h) /\ x <= n) \/ x = n + 1 \/ x > n + 1
    <3>1. n \in Int /\ Len(h) \in Int
      BY <1>1
    <3> QED BY <2>0, <3>1
  <2> QED BY <2>1, <2>2, <2>3, <2>4, <2>5
<1>9. \A j \in 1..Len(t) : f[j] \in 1..Len(s) /\ t[j] = s[f[j]] /\ f[j] # k
  BY DEF Left
<1>10. ASSUME NEW x \in 1..Len(G)
       PROVE  e[x] \in 1..Len(F) /\ (G[x] = F[e[x]] \/ (G[x] = a /\ e[x] = n + k))
  <2>1. CASE x - n - 1 \in 1..Len(t) /\ e[x] = n + f[x - n - 1] /\ G[x] = t[x - n - 1]
    <3>1. PICK j \in 1..Len(t) : e[x] = n + f[j] /\ G[x] = t[j]
      BY <2>1
    <3> QED BY <1>6, <1>9, <3>1
  <2>2. n + k \in 1..Len(F)
    BY <1>6
  <2> QED BY <1>8, <2>1, <2>2
<1>11. ASSUME NEW x \in 1..Len(G), NEW y \in 1..Len(G), x < y
       PROVE  \/ e[x] < e[y]
              \/ /\ G[x] = a /\ e[x] = n + k /\ e[x] # e[y]
                 /\ \E j \in 1..Len(t) : G[y] = t[j] /\ f[j] < k
  <2>0. x \in Int /\ y \in Int /\ n \in Int /\ k \in 1..Len(s) /\ Len(s) \in Nat
    BY <1>1
  <2>1. CASE x <= n /\ e[x] = x
    <3>1. CASE y <= n /\ e[y] = y
      BY <1>11, <2>1, <3>1
    <3>2. CASE y = n + 1 /\ e[y] = n + k
      BY <2>0, <2>1, <3>2
    <3>3. CASE y - n - 1 \in 1..Len(t) /\ e[y] = n + f[y - n - 1]
      <4>1. f[y - n - 1] \in 1..Len(s)
        BY <1>9, <3>3
      <4> QED BY <2>0, <2>1, <3>3, <4>1
    <3> QED BY <1>8, <3>1, <3>2, <3>3
  <2>2. CASE x = n + 1 /\ e[x] = n + k /\ G[x] = a
    <3>1. y > n + 1
      BY <1>11, <2>0, <2>2
    <3>2. PICK j \in 1..Len(t) : e[y] = n + f[j] /\ G[y] = t[j]
      <4>1. ~(y <= n) /\ y # n + 1
        BY <2>0, <3>1
      <4> QED BY <1>8, <4>1
    <3>3. f[j] \in 1..Len(s) /\ f[j] # k
      BY <1>9
    <3>4. CASE f[j] < k
      <4>1. e[x] # e[y]
        BY <2>0, <2>2, <3>2, <3>3
      <4> QED BY <2>2, <3>2, <3>4, <4>1
    <3>5. CASE f[j] > k
      BY <2>0, <2>2, <3>2, <3>3, <3>5
    <3>6. f[j] < k \/ f[j] > k
      <4>1. \A i \in 1..Len(s) : i # k => i < k \/ i > k
        BY <2>0
      <4> QED BY <3>3, <4>1
    <3> QED BY <3>4, <3>5, <3>6
  <2>3. CASE x > n + 1 /\ x - n - 1 \in 1..Len(t) /\ e[x] = n + f[x - n - 1]
    <3>1. ~(y <= n) /\ y # n + 1 /\ x - n - 1 < y - n - 1
      BY <1>11, <2>0, <2>3
    <3>2. y - n - 1 \in 1..Len(t) /\ e[y] = n + f[y - n - 1]
      BY <1>8, <3>1
    <3>3. f[x - n - 1] < f[y - n - 1]
      BY <2>3, <3>1, <3>2 DEF Left
    <3>4. f[x - n - 1] \in 1..Len(s) /\ f[y - n - 1] \in 1..Len(s)
      BY <1>9, <2>3, <3>2
    <3> QED BY <2>0, <2>3, <3>2, <3>3, <3>4
  <2> QED BY <1>8, <2>1, <2>2, <2>3
<1>12. Len(F) \in Nat /\ Len(G) \in Nat
  BY <1>1, <1>4, <1>5
<1>14. Overtakes(e, F, G, a, n, k, t, f)
  BY <1>10, <1>11 DEF Overtakes
<1>15. F[n + k] = s[k] /\ n + k \in 1..Len(F)
  BY <1>6
<1> QED BY <1>12, <1>14, <1>15, <1>a, <1>b, <1>c DEF Overtaken

(* The server answers the message at k; t is what it has still to do.      *)
Answers(k, kind, t, f) ==
  /\ ~hung /\ UNCHANGED <<free, mount, fields, rend, pc, locals, count, hung, got>>
  /\ Left(t, srv, k, f)
  /\ \A q \in Proc : \A j \in 1..Len(t) :
       Owns(q, srv[k].tag) /\ Owns(q, t[j].tag) /\ f[j] < k => srv[k].tag # cur[q]
  /\ srv' = t /\ rx' = Append(rx, [srv[k] EXCEPT !.kind = kind])
  /\ served' \in [Proc -> BOOLEAN]
  /\ \A q \in Proc : /\ served[q] => served'[q]
                     /\ kind = "R" /\ srv[k].call = <<q, calls[q]>> => served'[q]

(* An answer leaves the requests of everybody else where they were.        *)
LEMMA AnswerSent ==
  ASSUME IInv, NEW k \in 1..Len(srv), NEW kind \in {"R", "Rflush"},
         NEW t \in Seq(Message), NEW f, Answers(k, kind, t, f)
  PROVE  IInv'
<1>m. PICK m : m = srv[k]
  OBVIOUS
<1>n. PICK a : a = [m EXCEPT !.kind = kind]
  OBVIOUS
<1>l. /\ ~hung /\ UNCHANGED <<free, mount, fields, rend, pc, locals, count, hung, got>>
      /\ Left(t, srv, k, f)
      /\ \A q \in Proc : \A j \in 1..Len(t) :
           Owns(q, m.tag) /\ Owns(q, t[j].tag) /\ f[j] < k => m.tag # cur[q]
      /\ srv' = t /\ rx' = Append(rx, a)
      /\ served' \in [Proc -> BOOLEAN]
      /\ \A q \in Proc : /\ served[q] => served'[q]
                         /\ kind = "R" /\ m.call = <<q, calls[q]>> => served'[q]
  BY <1>m, <1>n DEF Answers
<1>0. Types /\ CallInv /\ ReadInv /\ ServerInv /\ FlightInv
  BY DEF IInv
<1>1. /\ UNCHANGED <<free, queue, rip, request, reply, done, flushed, rend, pc, cur, orig, peer, err,
                     calls, intrs, got, hung>>
      /\ UNCHANGED <<free, mount, fields, rend, pc, locals, count, got>> /\ ~hung
  BY <1>l DEF mount, fields, locals, count
<1>a. PICK c : c = rx
  OBVIOUS
<1>b. PICK s : s = srv
  OBVIOUS
<1>c. PICK h : h = Muxed
  OBVIOUS
<1>2. /\ c \in Seq(Message) /\ s \in Seq(Message) /\ h \in Seq(Message) /\ Muxed' = h
      /\ k \in 1..Len(s) /\ m = s[k] /\ Left(t, s, k, f)
  <2>1. h \in Seq(Message)
    BY <1>0, <1>c, FlightSeq
  <2>2. Muxed' = Muxed
    BY <1>1 DEF Muxed
  <2> QED BY <1>0, <1>l, <1>m, <1>a, <1>b, <1>c, <2>1, <2>2 DEF Types
<1>3. m \in Message /\ a \in Message /\ a.tag = m.tag /\ a.call = m.call /\ a.kind = kind
  <2>1. m \in Message
    BY <1>2, ElementOfSeq
  <2>2. a \in Message
    BY <2>1, <1>n DEF Message, Kind
  <2>3. a.tag = m.tag /\ a.call = m.call /\ a.kind = kind
    BY <2>1, <1>n DEF Message
  <2> QED BY <2>1, <2>2, <2>3
<1>4. PICK F : F = h \o (c \o s)
  OBVIOUS
<1>5. PICK G : G = h \o (Append(c, a) \o t)
  OBVIOUS
<1>6. F = Flight /\ G = Flight'
  BY <1>l, <1>2, <1>a, <1>b, <1>c, <1>4, <1>5 DEF Flight
<1>7. PICK n : n = Len(h) + Len(c)
  OBVIOUS
<1>8. /\ F[n + k] = m /\ n + k \in 1..Len(F) /\ Len(F) \in Nat /\ Len(G) \in Nat
      /\ \E e : Overtakes(e, F, G, a, n, k, t, f)
  <2>1. Overtaken(h, c, s, t, a, k, f)
    BY <1>2, <1>3, Overtaking
  <2> QED BY <1>2, <1>4, <1>5, <1>7, <2>1 DEF Overtaken
<1>9. PICK e : Overtakes(e, F, G, a, n, k, t, f)
  BY <1>8
<1>10. ASSUME NEW x \in 1..Len(G)
       PROVE  /\ e[x] \in 1..Len(F) /\ G[x].tag = F[e[x]].tag
              /\ G[x] = F[e[x]] \/ (G[x] = a /\ F[e[x]] = m)
  BY <1>3, <1>8, <1>9 DEF Overtakes
<1>11. \A q \in Proc : \A x : Owns(q, x)' <=> Owns(q, x)
  BY <1>1 DEF Owns, Used
<1>12. ASSUME NEW q \in Proc, NEW x, Expected(q, x) PROVE Expected(q, x)'
  BY <1>1, <1>12, <1>l DEF Expected, OnQueue
<1>13. ASSUME NEW q \in Proc PROVE FlightOf(q, G)'
  <2>1. FlightOf(q, F)
    BY <1>0, <1>1, <1>6, GoodWhenUp DEF FlightInv
  <2>2. ASSUME NEW i \in 1..Len(G), Owns(q, G[i].tag) PROVE Expected(q, G[i])'
    <3>1. e[i] \in 1..Len(F) /\ Owns(q, F[e[i]].tag)
      BY <1>10, <2>2
    <3>2. Expected(q, F[e[i]])
      BY <2>1, <3>1 DEF FlightOf
    <3>3. CASE G[i] = F[e[i]]
      BY <1>12, <3>2, <3>3
    <3>4. CASE G[i] = a /\ F[e[i]] = m
      <4>1. Expected(q, m)
        BY <3>2, <3>4
      <4>2. m.call = <<q, calls[q]>>
        BY <4>1 DEF Expected
      <4>3. kind = "R" => served'[q]
        BY <4>2, <1>3, <1>l
      <4>4. Expected(q, a)'
        BY <1>1, <1>3, <4>1, <4>3 DEF Expected, OnQueue
      <4> QED BY <3>4, <4>4
    <3> QED BY <1>10, <3>3, <3>4
  <2>3. ASSUME NEW x \in 1..Len(G), NEW y \in 1..Len(G), x < y,
               Owns(q, G[x].tag), Owns(q, G[y].tag)
        PROVE  G[x].tag # G[y].tag /\ G[x].tag # cur[q]
    <3>1. /\ e[x] \in 1..Len(F) /\ G[x].tag = F[e[x]].tag /\ Owns(q, F[e[x]].tag)
          /\ e[y] \in 1..Len(F) /\ G[y].tag = F[e[y]].tag /\ Owns(q, F[e[y]].tag)
      BY <1>10, <2>3
    <3>2. CASE e[x] < e[y]
      <4>1. F[e[x]].tag # F[e[y]].tag /\ F[e[x]].tag # cur[q]
        BY <2>1, <3>1, <3>2 DEF FlightOf
      <4> QED BY <3>1, <4>1
    <3>3. CASE /\ G[x] = a /\ e[x] = n + k /\ e[x] # e[y]
               /\ \E j \in 1..Len(t) : G[y] = t[j] /\ f[j] < k
      <4>1. PICK j \in 1..Len(t) : G[y] = t[j] /\ f[j] < k
        BY <3>3
      <4>2. m.tag # cur[q] /\ G[x].tag = m.tag
        BY <1>3, <1>l, <2>3, <3>3, <4>1
      <4>3. F[e[x]].tag # F[e[y]].tag
        <5>1. e[x] < e[y] \/ e[y] < e[x]
          <6>1. \A u, v \in 1..Len(F) : u # v => u < v \/ v < u
            BY <1>8
          <6> QED BY <3>1, <3>3, <6>1
        <5> QED BY <2>1, <3>1, <5>1 DEF FlightOf
      <4> QED BY <3>1, <4>2, <4>3
    <3>4. \/ e[x] < e[y]
          \/ /\ G[x] = a /\ e[x] = n + k /\ e[x] # e[y]
             /\ \E j \in 1..Len(t) : G[y] = t[j] /\ f[j] < k
      BY <1>9, <2>3 DEF Overtakes
    <3> QED BY <3>2, <3>3, <3>4
  <2> QED BY <1>1, <1>11, <2>2, <2>3 DEF FlightOf
<1>14. FlightInv'
  <2>1. \A i \in 1..Len(G) : Used(G[i].tag)'
    <3>1. \A i \in 1..Len(F) : Used(F[i].tag)
      BY <1>0, <1>1, <1>6 DEF FlightInv
    <3> QED BY <1>1, <1>10, <3>1 DEF Used
  <2>2. \A i \in 1..Len(Flight') : request'[Flight'[i].tag].kind # "none"
    BY <1>6, <2>1 DEF Used
  <2>3. \A q \in Proc : FlightOf(q, Flight)'
    BY <1>6, <1>13 DEF FlightOf
  <2> QED BY <2>2, <2>3 DEF FlightInv, Used
<1>15. ServerInv'
  <2>1. ASSUME NEW j \in 1..Len(t) PROVE t[j] = request[t[j].tag]
    <3>1. f[j] \in 1..Len(srv) /\ t[j] = srv[f[j]]
      BY <1>l DEF Left
    <3> QED BY <1>0, <3>1 DEF ServerInv
  <2> QED BY <1>1, <1>l, <2>1 DEF ServerInv
<1>16. Types'
  <2>1. rx' \in Seq(Message)
    <3>1. Append(c, a) \in Seq(Message)
      BY <1>2, <1>3, AppendProperties
    <3> QED BY <1>a, <1>l, <3>1
  <2> QED BY <1>0, <1>1, <1>l, <2>1 DEF Types
<1>17. (hung => hung') /\ \A q \in Proc : served[q] => served'[q]
  BY <1>1, <1>l
<1> QED BY <1>1, <1>14, <1>15, <1>16, <1>17, WireStep

(* A request the server has is its owner's, and current.                   *)
LEMMA Asked ==
  ASSUME IInv, ~hung, NEW i \in 1..Len(srv), NEW m, m = srv[i]
  PROVE  /\ m \in Message /\ m = request[m.tag] /\ Used(m.tag)
         /\ \E x \in 1..Len(Flight) : x = Len(Muxed) + Len(rx) + i /\ Flight[x] = m
<1>0. Types /\ ReadInv /\ ServerInv /\ FlightInv
  BY DEF IInv
<1>1. m \in Message /\ m = request[m.tag]
  BY <1>0, ElementOfSeq DEF Types, ServerInv
<1>2. PICK x : x = Len(Muxed) + Len(rx) + i
  OBVIOUS
<1>3. /\ Len(Muxed) \in Nat /\ Len(rx) \in Nat /\ Len(srv) \in Nat
      /\ Len(Flight) = Len(Muxed) + Len(rx) + Len(srv)
  BY <1>0, FlightSeq
<1>4. x \in 1..Len(Flight) /\ x > Len(Muxed) + Len(rx) /\ x - Len(Muxed) - Len(rx) = i
  BY <1>2, <1>3
<1>5. Flight[x] = m
  <2>1. Flight[x] = srv[x - Len(Muxed) - Len(rx)]
    BY <1>0, <1>4, FlightSeq
  <2> QED BY <1>4, <2>1
<1>6. Used(m.tag)
  BY <1>0, <1>4, <1>5 DEF FlightInv
<1> QED BY <1>1, <1>2, <1>4, <1>5, <1>6

(* Two requests of one process that the server has are for different tags. *)
LEMMA AskedOnce ==
  ASSUME IInv, ~hung, NEW i \in 1..Len(srv), NEW j \in 1..Len(srv), i < j,
         NEW q \in Proc, Owns(q, srv[i].tag), Owns(q, srv[j].tag)
  PROVE  srv[i].tag # srv[j].tag
<1>1. PICK x \in 1..Len(Flight) : x = Len(Muxed) + Len(rx) + i /\ Flight[x] = srv[i]
  BY Asked
<1>2. PICK y \in 1..Len(Flight) : y = Len(Muxed) + Len(rx) + j /\ Flight[y] = srv[j]
  BY Asked
<1>3. x < y
  <2>1. Len(Muxed) \in Nat /\ Len(rx) \in Nat
    BY FlightSeq DEF IInv
  <2>2. i \in Int /\ j \in Int
    OBVIOUS
  <2> QED BY <1>1, <1>2, <2>1, <2>2
<1>4. FlightOf(q, Flight)
  BY GoodWhenUp DEF IInv, FlightInv
<1> QED BY <1>1, <1>2, <1>3, <1>4 DEF FlightOf

(* The server answers one request, and may drop another.                   *)
LEMMA ServeStep ==
  ASSUME IInv, NEW r \in Rpc, Serve(r)
  PROVE  IInv'
<1>0. Types /\ CallInv /\ OwnInv /\ ChainInv
  BY DEF IInv
<1>1. PICK i \in 1..Len(srv) :
        /\ ~hung
        /\ \/ /\ srv[i].kind = "T"
              /\ srv' = RemoveAt(srv, i)
              /\ rx' = Append(rx, [srv[i] EXCEPT !.kind = "R"])
              /\ served' = [served EXCEPT ![srv[i].call[1]] =
                              (srv[i].call[2] = calls[srv[i].call[1]]) \/ @]
           \/ /\ srv[i].kind = "Tflush"
              /\ \A j \in 1..i - 1 : srv[j].old # srv[i].old
              /\ srv' = RemoveFirstMatch(RemoveAt(srv, i), LAMBDA x : x.tag = srv[i].old)
              /\ rx' = Append(rx, [srv[i] EXCEPT !.kind = "Rflush"])
              /\ UNCHANGED served
        /\ UNCHANGED <<free, mount, fields, rend, pc, locals, count, hung, got>>
  BY DEF Serve
<1>2. PICK m : m = srv[i]
  OBVIOUS
<1>3. m \in Message /\ m = request[m.tag] /\ Used(m.tag) /\ m.tag \in Rpc
  BY <1>1, <1>2, Asked DEF Message
<1>4. srv \in Seq(Message) /\ served \in [Proc -> BOOLEAN]
  BY <1>0 DEF Types
<1> DEFINE t == RemoveAt(srv, i)
<1>5. PICK u : u = t
  OBVIOUS
<1>6. u \in Seq(Message)
  BY <1>4, <1>5, RemoveAtOrder
<1>7. PICK f : Left(u, srv, i, f)
  BY <1>4, <1>5, RemoveAtLeft
<1> HIDE DEF t
<1>8. CASE /\ m.kind = "T" /\ srv' = u
           /\ rx' = Append(rx, [m EXCEPT !.kind = "R"])
           /\ served' = [served EXCEPT ![m.call[1]] = (m.call[2] = calls[m.call[1]]) \/ @]
  <2>2. m.call[1] \in Proc
    BY <1>3 DEF Message, CallId
  <2>3. /\ served' \in [Proc -> BOOLEAN]
        /\ \A q \in Proc : /\ served[q] => served'[q]
                           /\ m.call = <<q, calls[q]>> => served'[q]
    <3>1. served'[m.call[1]] = ((m.call[2] = calls[m.call[1]]) \/ served[m.call[1]])
      BY <1>4, <1>8, <2>2
    <3>2. \A q \in Proc : q # m.call[1] => served'[q] = served[q]
      BY <1>4, <1>8
    <3>3. served' \in [Proc -> BOOLEAN]
      BY <1>4, <1>8, <2>2
    <3>4. \A q : m.call = <<q, calls[q]>> => m.call[1] = q /\ m.call[2] = calls[m.call[1]]
      OBVIOUS
    <3> QED BY <2>2, <3>1, <3>2, <3>3, <3>4
  <2>4. ASSUME NEW q \in Proc, NEW j \in 1..Len(u),
               Owns(q, m.tag), Owns(q, u[j].tag), f[j] < i
        PROVE  m.tag # cur[q]
    <3> SUFFICES ASSUME m.tag = cur[q] PROVE FALSE
      OBVIOUS
    <3>1. f[j] \in 1..Len(srv) /\ u[j] = srv[f[j]]
      BY <1>7 DEF Left
    <3>2. request[m.tag].kind = "T"
      BY <1>3, <1>8
    <3>3. flushed[cur[q]] = Nil
      BY <1>0, <1>3, <2>4, <3>2, Owned
    <3>4. u[j].tag \in Rpc
      <4>1. u[j] \in Message
        BY <1>6, ElementOfSeq
      <4> QED BY <4>1 DEF Message
    <3>5. u[j].tag = cur[q]
      BY <1>0, <2>4, <3>3, <3>4, NoFlush
    <3>6. srv[f[j]].tag # srv[i].tag
      BY <1>1, <1>2, <2>4, <3>1, AskedOnce
    <3> QED BY <1>2, <3>1, <3>5, <3>6
  <2>5. Answers(i, "R", u, f)
    BY <1>1, <1>2, <1>7, <1>8, <2>3, <2>4 DEF Answers
  <2> QED BY <1>6, <2>5, AnswerSent
<1>9. CASE /\ m.kind = "Tflush" /\ \A j \in 1..i - 1 : srv[j].old # m.old
           /\ srv' = RemoveFirstMatch(u, LAMBDA x : x.tag = m.old)
           /\ rx' = Append(rx, [m EXCEPT !.kind = "Rflush"])
           /\ served' = served
  <2>2. PICK w : w = srv'
    OBVIOUS
  <2>3. \/ w = u /\ \A j \in 1..Len(u) : u[j].tag # m.old
        \/ \E k \in 1..Len(u) : u[k].tag = m.old /\ w = RemoveAt(u, k)
    BY <1>6, <1>9, <2>2, DropFirst
  <2>4. PICK z, g : /\ Left(w, u, z, g)
                    /\ \A j \in 1..Len(w) : u[g[j]].tag = m.old => z \in 1..Len(u) /\ u[z].tag = m.old
    <3>1. CASE w = u /\ \A j \in 1..Len(u) : u[j].tag # m.old
      <4>1. PICK g : g = [j \in 1..Len(u) |-> j]
        OBVIOUS
      <4>2. Left(w, u, 0, g)
        BY <3>1, <4>1 DEF Left
      <4>3. \A j \in 1..Len(w) : u[g[j]].tag # m.old
        BY <3>1, <4>1
      <4> QED BY <4>2, <4>3
    <3>2. CASE \E k \in 1..Len(u) : u[k].tag = m.old /\ w = RemoveAt(u, k)
      <4>1. PICK k \in 1..Len(u) : u[k].tag = m.old /\ w = RemoveAt(u, k)
        BY <3>2
      <4>2. PICK g : Left(w, u, k, g)
        BY <1>6, <4>1, RemoveAtLeft
      <4> QED BY <4>1, <4>2
    <3> QED BY <2>3, <3>1, <3>2
  <2>5. w \in Seq(Message)
    <3>1. CASE w = u
      BY <1>6, <3>1
    <3>2. CASE \E k \in 1..Len(u) : w = RemoveAt(u, k)
      BY <1>6, <3>2, RemoveAtOrder
    <3> QED BY <2>3, <3>1, <3>2
  <2>6. PICK e : /\ Left(w, srv, i, e)
                 /\ \A j \in 1..Len(w) : g[j] \in 1..Len(u) /\ e[j] = f[g[j]]
    <3>1. PICK s : s = srv
      OBVIOUS
    <3>2. Left(u, s, i, f)
      BY <1>7, <3>1
    <3>3. \E e : /\ Left(w, s, i, e)
                 /\ \A j \in 1..Len(w) : g[j] \in 1..Len(u) /\ e[j] = f[g[j]]
      BY <1>7, <2>4, <3>2, LeftTwice
    <3> QED BY <3>1, <3>3
  <2>7. ASSUME NEW q \in Proc, NEW j \in 1..Len(w),
               Owns(q, m.tag), Owns(q, w[j].tag), e[j] < i
        PROVE  m.tag # cur[q]
    <3> SUFFICES FALSE
      OBVIOUS
    <3>1. PICK y \in 1..Len(srv) : y = e[j] /\ w[j] = srv[y] /\ y \in 1..i - 1
      <4>1. e[j] \in 1..Len(srv) /\ w[j] = srv[e[j]]
        BY <2>6 DEF Left
      <4>2. e[j] \in 1..i - 1
        BY <2>7, <4>1
      <4> QED BY <4>1, <4>2
    <3>2. /\ srv[y] \in Message /\ srv[y] = request[srv[y].tag] /\ Owns(q, srv[y].tag)
          /\ srv[y].tag \in Rpc
      BY <1>1, <2>7, <3>1, Asked DEF Message
    <3>3. m.old = orig[q]
      BY <1>0, <1>3, <1>9, <2>7, Owned
    <3>4. srv[y].tag = orig[q]
      <4>1. srv[y].old # m.old
        BY <1>9, <3>1
      <4> QED BY <1>0, <3>2, <3>3, <4>1, Owned
    <3>5. \A x \in 1..Len(srv) : srv[x].tag = orig[q] => x = y
      <4> SUFFICES ASSUME NEW x \in 1..Len(srv), srv[x].tag = orig[q], x # y PROVE FALSE
        OBVIOUS
      <4>1. Owns(q, srv[x].tag)
        BY <3>2, <3>4
      <4>2. x < y \/ y < x
        <5>1. Len(srv) \in Nat
          BY <1>4, LenProperties
        <5> QED BY <5>1
      <4> QED BY <1>1, <3>2, <3>4, <4>1, <4>2, AskedOnce
    <3>6. g[j] \in 1..Len(u) /\ u[g[j]] = w[j] /\ f[g[j]] = y
      BY <2>4, <2>6, <3>1 DEF Left
    <3>7. u[g[j]].tag = m.old
      BY <3>1, <3>3, <3>4, <3>6
    <3>8. PICK l \in 1..Len(u) : l # g[j] /\ u[l].tag = m.old
      BY <2>4, <3>6, <3>7 DEF Left
    <3>9. f[l] \in 1..Len(srv) /\ u[l] = srv[f[l]]
      BY <1>7 DEF Left
    <3>10. f[l] = y
      BY <3>3, <3>5, <3>8, <3>9
    <3>11. Len(u) \in Nat
      BY <1>6, LenProperties
    <3>12. l < g[j] \/ g[j] < l
      BY <3>6, <3>8, <3>11
    <3>13. f[l] < f[g[j]] \/ f[g[j]] < f[l]
      BY <1>7, <3>6, <3>12 DEF Left
    <3> QED BY <3>1, <3>6, <3>10, <3>13
  <2>8. /\ served' \in [Proc -> BOOLEAN]
        /\ \A q \in Proc : /\ served[q] => served'[q]
                           /\ "Rflush" = "R" /\ m.call = <<q, calls[q]>> => served'[q]
    BY <1>4, <1>9
  <2>9. Answers(i, "Rflush", w, e)
    BY <1>1, <1>2, <1>9, <2>2, <2>6, <2>7, <2>8 DEF Answers
  <2> QED BY <2>5, <2>9, AnswerSent
<1> QED BY <1>1, <1>2, <1>5, <1>8, <1>9 DEF t

-----------------------------------------------------------------------------
(* The invariant holds throughout.                                         *)
LEMMA InitIInv == Init => IInv
<1> SUFFICES ASSUME Init PROVE IInv
  OBVIOUS
<1> USE DEF Init
<1>1. Blank.kind = "none" /\ Blank \in Reply
  BY DEF Blank, Reply
<1>2. NRpc \in Nat /\ Rpc = 1..NRpc /\ MaxCalls \in Nat /\ MaxIntr \in Nat
  BY Counts, BoundAssumption DEF Rpc
<1>3. \A r \in Rpc : ~Used(r)
  BY <1>1 DEF Used
<1>4. \A p \in Proc : pc[p] = "idle" /\ ~err[p] /\ p # Nil
  BY NilRpc
<1>5. free \in Seq(Rpc) /\ Len(free) = NRpc /\ \A i \in 1..NRpc : free[i] = i
  BY <1>2
<1>6. Types
  <2>1. /\ request \in [Rpc -> Message \cup {Blank}] /\ reply \in [Rpc -> Reply]
        /\ done \in [Rpc -> BOOLEAN] /\ flushed \in [Rpc -> Rpc \cup {Nil}]
        /\ rend \in [Rpc -> Proc \cup {Nil}]
    BY <1>1
  <2>2. /\ pc \in [Proc -> PC] /\ cur \in [Proc -> Rpc \cup {Nil}]
        /\ orig \in [Proc -> Rpc \cup {Nil}] /\ peer \in [Proc -> Rpc \cup {Nil}]
        /\ err \in [Proc -> BOOLEAN] /\ calls \in [Proc -> 0..MaxCalls]
        /\ served \in [Proc -> BOOLEAN] /\ got \in [Proc -> CallId \cup {Nil}]
    BY <1>2 DEF PC
  <2>3. /\ queue \in Seq(Rpc) /\ srv \in Seq(Message) /\ rx \in Seq(Message)
        /\ rip \in Proc \cup {Nil} /\ intrs \in 0..MaxIntr /\ hung \in BOOLEAN
    <3>1. queue \in Seq(Rpc) /\ srv \in Seq(Message) /\ rx \in Seq(Message)
      BY EmptySeq
    <3>2. rip \in Proc \cup {Nil} /\ hung \in BOOLEAN
      OBVIOUS
    <3>3. intrs \in 0..MaxIntr
      BY <1>2
    <3> QED BY <3>1, <3>2, <3>3
  <2> QED BY <1>5, <2>1, <2>2, <2>3 DEF Types
<1>7. FreeInv
  <2>1. Distinct(free)
    BY <1>5 DEF Distinct
  <2>2. \A r \in Rpc : \E i \in 1..Len(free) : free[i] = r
    BY <1>2, <1>5
  <2>3. \A r \in Rpc : ~done[r] /\ flushed[r] = Nil
    OBVIOUS
  <2> QED BY <1>3, <2>1, <2>2, <2>3 DEF FreeInv
<1>8. CallInv /\ OwnInv /\ ReplyInv
  BY <1>3, <1>4 DEF CallInv, CallOf, OwnInv, ReplyInv, ReplyOf
<1>9. ChainInv
  <2>1. PICK d : d = [r \in Rpc |-> 0]
    OBVIOUS
  <2>2. d \in [Rpc -> Nat]
    BY <2>1
  <2>3. Chain(d)
    BY <1>3 DEF Chain, Owns
  <2> QED BY <2>2, <2>3 DEF ChainInv
<1>10. ListInv
  <2>1. \A i \in 1..Len(queue) : FALSE
    OBVIOUS
  <2> QED BY <1>4, <2>1 DEF ListInv, ListOf, Distinct, Waiting
<1>11. ReadInv /\ RendInv /\ GateInv /\ ServerInv
  BY <1>4 DEF ReadInv, ReadOf, RendInv, GateInv, Sleepers, ServerInv
<1>12. FlightInv
  <2>1. \A i \in 1..Len(Flight) : FALSE
    BY <1>6, <1>11, FlightSeq DEF Muxed
  <2> QED BY <2>1 DEF FlightInv, FlightOf
<1>13. CountInv
  <2>1. Flushes = {} /\ Flushing = {}
    BY <1>1, <1>4 DEF Flushes, Flushing
  <2> QED BY <1>2, <2>1, FS_EmptySet DEF CountInv
<1> QED BY <1>6, <1>7, <1>8, <1>9, <1>10, <1>11, <1>12, <1>13 DEF IInv

(* Nothing happens.                                                        *)
LEMMA StutterStep ==
  ASSUME IInv, UNCHANGED vars
  PROVE  IInv'
<1>0. Types /\ ReadInv /\ ServerInv /\ FlightInv
  BY DEF IInv
<1>1. /\ UNCHANGED <<free, mount, fields, rend, pc, locals, count, wire, got>>
      /\ UNCHANGED <<free, queue, rip, request, reply, done, flushed, rend, pc, cur, orig, peer, err,
                     calls, intrs, srv, rx, hung, served, got>>
  BY DEF vars, mount, fields, locals, count, wire
<1>2. Types' /\ ServerInv'
  BY <1>0, <1>1 DEF Types, ServerInv
<1>3. FlightInv'
  <2>1. Flight' = Flight
    BY <1>1 DEF Flight, Muxed
  <2>2. \A q \in Proc : Good(q)' => Good(q)
    BY <1>1 DEF Good
  <2>3. ASSUME NEW q \in Proc, NEW m, Expected(q, m) PROVE Expected(q, m)'
    BY <1>1, <2>3 DEF Expected, OnQueue
  <2> QED BY <1>0, <1>1, <2>1, <2>2, <2>3, FlightSame
<1> QED BY <1>1, <1>2, <1>3, WireStep

(* Every step keeps the inductive invariant.                               *)
LEMMA NextIInv == IInv /\ [Next]_vars => IInv'
<1> SUFFICES ASSUME IInv, [Next]_vars PROVE IInv'
  OBVIOUS
<1>1. ASSUME NEW p \in Proc, Call(p) \/ Step(p) \/ Eintr(p) PROVE IInv'
  <2>1. CASE Call(p) \/ Eintr(p)
    BY <2>1, CallStep, EintrStep
  <2>2. CASE Link(p) \/ Write(p) \/ Gate(p) \/ Sleep(p) \/ Woken(p) \/ Read(p)
    BY <2>2, LinkStep, WriteStep, GateStep, SleepStep, WokenStep, ReadStep
  <2>3. CASE mountmux(p) \/ Notify(p) \/ Pass(p) \/ Fails(p) \/ Caught(p)
    BY <2>3, StrayStep, AnswerStep, NotifyStep, PassStep, FailsStep, CaughtStep
  <2>4. CASE \/ mntflushalloc(p) \/ FlushTest(p) \/ FlushMark(p)
             \/ mntqrm(p) \/ Return(p)
    BY <2>4, FlushAllocStep, FlushTestStep, FlushDoneStep, FlushMarkStep, mntqrmStep, ReturnStep
  <2> QED BY <1>1, <2>1, <2>2, <2>3, <2>4 DEF Step
<1> QED BY <1>1, ServeStep, HangupStep, StutterStep DEF Next

(* The invariant of the multiplexer.                                       *)
THEOREM Invariance == Spec => []IInv
BY InitIInv, NextIInv, PTL DEF Spec

-----------------------------------------------------------------------------
(* m->queue holds the unanswered requests of calls in progress, each once. *)
THEOREM QueueListsUnanswered == Spec => []ListedOnce
<1>1. IInv => ListedOnce
  <2> SUFFICES ASSUME IInv PROVE ListedOnce
    OBVIOUS
  <2>0. Types /\ FreeInv /\ CallInv /\ ListInv
    BY DEF IInv
  <2>1. TypeOK
    <3>1. \A r \in Rpc : reply[r].kind \in Kind \cup {"none"}
      BY <2>0 DEF Types, Reply
    <3>2. \A p \in Proc : pc[p] # "idle" => cur[p] # Nil
      BY <2>0, NilRpc DEF CallInv, CallOf
    <3> QED BY <2>0, <3>1, <3>2 DEF TypeOK, Types
  <2>2. IsInjective(queue)
    <3>1. DOMAIN queue = 1..Len(queue)
      BY <2>0, LenProperties DEF Types
    <3> QED BY <2>0, <3>1 DEF ListInv, Distinct, IsInjective
  <2>3. ASSUME NEW i \in 1..Len(queue) PROVE queue[i] \notin ToSet(free) /\ ~done[queue[i]]
    <3>1. queue[i] \in Rpc /\ Used(queue[i]) /\ ~done[queue[i]]
      BY <2>0, ElementOfSeq DEF Types, ListInv
    <3>2. DOMAIN free = 1..Len(free)
      BY <2>0, LenProperties DEF Types
    <3> QED BY <2>0, <3>1, <3>2 DEF FreeInv, ToSet
  <2> QED BY <2>1, <2>2, <2>3 DEF ListedOnce
<1> QED BY <1>1, Invariance, PTL

(* While the connection lasts every message on its way, either way, is for *)
(* a request still on m->queue.                                            *)
THEOREM RepliesAreExpected == Spec => []RepliesExpected
<1>1. IInv => RepliesExpected
  <2> SUFFICES ASSUME IInv, ~hung, NEW m \in ToSet(srv \o rx)
               PROVE  OnQueue(m.tag) /\ request[m.tag].call = m.call
    BY DEF RepliesExpected
  <2>0. Types /\ CallInv /\ OwnInv /\ ReadInv /\ FlightInv
    BY DEF IInv
  <2>1. srv \in Seq(Message) /\ rx \in Seq(Message)
    BY <2>0 DEF Types
  <2>2. (\E i \in 1..Len(srv) : m = srv[i]) \/ (\E i \in 1..Len(rx) : m = rx[i])
    <3>1. PICK b : b = srv \o rx
      OBVIOUS
    <3>2. /\ b \in Seq(Message) /\ Len(b) = Len(srv) + Len(rx)
          /\ \A i \in 1..Len(srv) + Len(rx) : b[i] = IF i <= Len(srv) THEN srv[i] ELSE rx[i - Len(srv)]
      BY <2>1, <3>1, ConcatProperties
    <3>3. Len(srv) \in Nat /\ Len(rx) \in Nat /\ DOMAIN b = 1..Len(b)
      BY <2>1, <3>2, LenProperties
    <3>4. PICK i \in 1..Len(b) : m = b[i]
      BY <3>1, <3>3 DEF ToSet
    <3>5. CASE i <= Len(srv)
      BY <3>2, <3>3, <3>4, <3>5
    <3>6. CASE ~(i <= Len(srv))
      <4>1. i - Len(srv) \in 1..Len(rx) /\ i \in 1..Len(srv) + Len(rx)
        BY <3>2, <3>3, <3>6
      <4> QED BY <3>2, <3>4, <3>6, <4>1
    <3> QED BY <3>5, <3>6
  <2>3. PICK F : F = Flight
    OBVIOUS
  <2>4. /\ Len(F) = Len(Muxed) + Len(rx) + Len(srv) /\ F \in Seq(Message)
        /\ Len(Muxed) \in Nat /\ Len(rx) \in Nat /\ Len(srv) \in Nat
        /\ \A i \in 1..Len(F) :
             /\ i > Len(Muxed) /\ i <= Len(Muxed) + Len(rx) => F[i] = rx[i - Len(Muxed)]
             /\ i > Len(Muxed) + Len(rx) => F[i] = srv[i - Len(Muxed) - Len(rx)]
    BY <2>0, <2>3, FlightSeq
  <2>5. \E x \in 1..Len(F) : F[x] = m
    <3>1. CASE \E i \in 1..Len(srv) : m = srv[i]
      <4>1. PICK i \in 1..Len(srv) : m = srv[i]
        BY <3>1
      <4>2. PICK x : x = Len(Muxed) + Len(rx) + i
        OBVIOUS
      <4>3. x \in 1..Len(F) /\ x > Len(Muxed) + Len(rx) /\ x - Len(Muxed) - Len(rx) = i
        BY <2>4, <4>2
      <4>4. F[x] = srv[x - Len(Muxed) - Len(rx)]
        BY <2>4, <4>3
      <4> QED BY <4>1, <4>3, <4>4
    <3>2. CASE \E i \in 1..Len(rx) : m = rx[i]
      <4>1. PICK i \in 1..Len(rx) : m = rx[i]
        BY <3>2
      <4>2. PICK x : x = Len(Muxed) + i
        OBVIOUS
      <4>3. x \in 1..Len(F) /\ x > Len(Muxed) /\ x <= Len(Muxed) + Len(rx) /\ x - Len(Muxed) = i
        BY <2>4, <4>2
      <4>4. F[x] = rx[x - Len(Muxed)]
        BY <2>4, <4>3
      <4> QED BY <4>1, <4>3, <4>4
    <3> QED BY <2>2, <3>1, <3>2
  <2>6. PICK x \in 1..Len(F) : F[x] = m
    BY <2>5
  <2>7. m.tag \in Rpc
    <3>1. m \in Message
      BY <2>4, <2>6, ElementOfSeq
    <3> QED BY <3>1 DEF Message
  <2>8. Used(m.tag)
    BY <2>0, <2>3, <2>6 DEF FlightInv
  <2>9. PICK q \in Proc : Owns(q, m.tag)
    BY <2>0, <2>7, <2>8 DEF OwnInv, OwnerOf
  <2>10. FlightOf(q, F)
    BY <2>0, <2>3, GoodWhenUp DEF FlightInv
  <2>11. Expected(q, m)
    BY <2>6, <2>9, <2>10 DEF FlightOf
  <2> QED BY <2>9, <2>11 DEF Expected, Owns
<1> QED BY <1>1, Invariance, PTL

(* If nobody reads and somebody sleeps, a process is on its way to reading *)
(* (but for an interrupt on a failing connection).                         *)
THEOREM SomebodyHasTheGate == Spec => []GateHeld
<1>1. IInv => GateHeld
  <2> SUFFICES ASSUME IInv, rip = Nil, \E r \in Rpc : rend[r] # Nil /\ ~done[r], ~(intrs > 0 /\ hung)
               PROVE  \E p \in Proc : /\ pc[p] \in {"link", "write", "gate", "sleep", "asleep", "woken",
                                                    "caught", "flush"}
                                      /\ ~done[cur[p]] /\ rend[cur[p]] # p
    BY DEF GateHeld
  <2>1. PICK p \in Proc : Witness(p)
    BY DEF IInv, GateInv, Sleepers, Excused
  <2> QED BY <2>1 DEF Witness
<1> QED BY <1>1, Invariance, PTL

(* When nobody is in a call, every structure is free and m->queue empty.   *)
THEOREM StructuresComeBack == Spec => []NoRpcLost
<1>1. IInv => NoRpcLost
  <2> SUFFICES ASSUME IInv, \A p \in Proc : pc[p] = "idle" PROVE ToSet(free) = Rpc /\ queue = <<>>
    BY DEF NoRpcLost
  <2>0. Types /\ FreeInv /\ OwnInv /\ ListInv
    BY DEF IInv
  <2>1. \A r \in Rpc : ~Used(r)
    BY <2>0 DEF OwnInv, OwnerOf
  <2>2. ToSet(free) = Rpc
    <3>1. free \in Seq(Rpc) /\ DOMAIN free = 1..Len(free) /\ \A i \in 1..Len(free) : free[i] \in Rpc
      BY <2>0, LenProperties, ElementOfSeq DEF Types
    <3>2. \A r \in Rpc : \E i \in 1..Len(free) : free[i] = r
      BY <2>0, <2>1 DEF FreeInv
    <3> QED BY <3>1, <3>2 DEF ToSet
  <2>3. queue = <<>>
    <3> SUFFICES ASSUME queue # <<>> PROVE FALSE
      OBVIOUS
    <3>1. queue \in Seq(Rpc) /\ 1 \in 1..Len(queue)
      BY <2>0, EmptySeq DEF Types
    <3>2. queue[1] \in Rpc /\ Used(queue[1])
      BY <2>0, <3>1, ElementOfSeq DEF ListInv
    <3> QED BY <2>1, <3>2
  <2> QED BY <2>2, <2>3
<1> QED BY <1>1, Invariance, PTL

-----------------------------------------------------------------------------
(* The multiplexer implements remote calls: each step is one of RemoteCall *)
(* or shows nothing to the callers.                                        *)
State == [p \in Proc |-> IF pc[p] = "idle" THEN "ended"
                         ELSE IF served[p] THEN "served" ELSE "called"]

(* A step inside a call is not seen by the remote call,                    *)
LEMMA Quiet ==
  ASSUME NEW p \in Proc, pc \in [Proc -> PC], NEW to, pc[p] # "idle", to # "idle",
         pc' = [pc EXCEPT ![p] = to] \/ pc' = pc, served' = served
  PROVE  State' = State
<1>1. \A q \in Proc : pc'[q] = "idle" <=> pc[q] = "idle"
  OBVIOUS
<1> QED BY <1>1 DEF State

(* and all but Call, Return and Serve are such steps.                      *)
LEMMA QuietStep ==
  ASSUME Types, NEW p \in Proc,
         \/ Link(p) \/ Write(p) \/ Gate(p) \/ Sleep(p) \/ Woken(p) \/ Read(p)
         \/ mountmux(p) \/ Notify(p) \/ Pass(p) \/ Fails(p) \/ Caught(p)
         \/ mntflushalloc(p) \/ FlushTest(p) \/ FlushMark(p) \/ mntqrm(p) \/ Eintr(p)
  PROVE  UNCHANGED <<calls, State, got>>
<1>1. pc \in [Proc -> PC]
  BY DEF Types
<1>2. UNCHANGED <<calls, served, got>>
  BY DEF Link, Write, Gate, Sleep, Woken, Read, mountmux, Notify, Pass, Fails, Caught,
         mntflushalloc, FlushTest, FlushMark, mntqrm, Eintr, count, wire
<1>3. pc[p] # "idle" /\ \E to : to # "idle" /\ pc' = [pc EXCEPT ![p] = to]
  <2>1. CASE Link(p) \/ Write(p) \/ Gate(p) \/ Sleep(p) \/ Woken(p) \/ Read(p)
    BY <2>1 DEF Link, Write, Gate, Sleep, Woken, Read, Goto
  <2>2. CASE mountmux(p) \/ Notify(p) \/ Pass(p) \/ Fails(p) \/ Caught(p)
    <3>1. \E to \in {"reading", "notify", "free", "caught", "flush"} : pc' = [pc EXCEPT ![p] = to]
      BY <2>2 DEF mountmux, Notify, Pass, Fails, Caught, Goto
    <3>2. pc[p] # "idle"
      BY <2>2 DEF mountmux, Notify, Pass, Fails, Caught, Goto
    <3> QED BY <3>1, <3>2
  <2>3. CASE mntflushalloc(p) \/ FlushTest(p) \/ FlushMark(p) \/ mntqrm(p) \/ Eintr(p)
    BY <2>3 DEF mntflushalloc, FlushTest, FlushMark, mntqrm, Eintr, FlushNext, Goto
  <2> QED BY <2>1, <2>2, <2>3
<1> QED BY <1>1, <1>2, <1>3, Quiet

(* The multiplexer implements RemoteCall: a step is a step of one call, or *)
(* is not seen.                                                            *)
THEOREM Refinement == Spec => ImplementsRemote
<1>1. Init => Remote!Init
  <2> SUFFICES ASSUME Init PROVE Remote!Init
    OBVIOUS
  <2>1. State = [p \in Proc |-> "ended"]
    BY DEF Init, State
  <2> QED BY <2>1 DEF Init, State, Remote!Init
<1>2. IInv /\ [Next]_vars => [Remote!Next]_<<calls, State, got>>
  <2> SUFFICES ASSUME IInv, [Next]_vars PROVE Remote!Next \/ UNCHANGED <<calls, State, got>>
    OBVIOUS
  <2>0. /\ Types /\ CallInv /\ OwnInv /\ ReplyInv
        /\ pc \in [Proc -> PC] /\ served \in [Proc -> BOOLEAN]
        /\ calls \in [Proc -> 0..MaxCalls] /\ got \in [Proc -> CallId \cup {Nil}]
    BY DEF IInv, Types
  <2>1. ASSUME NEW p \in Proc, Call(p) PROVE Remote!Call(p)
    <3>1. /\ pc[p] = "idle" /\ pc' = [pc EXCEPT ![p] = "link"]
          /\ served' = [served EXCEPT ![p] = FALSE]
          /\ calls' = [calls EXCEPT ![p] = calls[p] + 1] /\ got' = [got EXCEPT ![p] = Nil]
      BY <2>1 DEF Call, Goto
    <3>2. State[p] = "ended" /\ State' = [State EXCEPT ![p] = "called"]
      BY <2>0, <3>1 DEF State
    <3> QED BY <3>1, <3>2 DEF Remote!Call, Remote!Step, State
  <2>2. ASSUME NEW p \in Proc, Return(p) PROVE Remote!Reply(p) \/ Remote!Fail(p)
    <3>1. /\ pc[p] = "return" /\ pc' = [pc EXCEPT ![p] = "idle"]
          /\ got' = [got EXCEPT ![p] = IF ~err[p] /\ reply[orig[p]].kind = "R"
                                       THEN reply[orig[p]].call ELSE Nil]
          /\ calls' = calls /\ served' = served
      BY <2>2 DEF Return, Goto, count, wire
    <3>2. State[p] = (IF served[p] THEN "served" ELSE "called") /\ State' = [State EXCEPT ![p] = "ended"]
      BY <2>0, <3>1 DEF State
    <3>3. got[p] = Nil /\ cur[p] = orig[p] /\ done[orig[p]]
      BY <2>0, <3>1 DEF CallInv, CallOf
    <3>4. CASE ~err[p] /\ reply[orig[p]].kind = "R"
      <4>1. reply[orig[p]].call = <<p, calls[p]>> /\ served[p]
        BY <2>0, <3>1, <3>3, <3>4 DEF ReplyInv, ReplyOf, Good, Leaving
      <4>2. got' = [got EXCEPT ![p] = <<p, calls[p]>>]
        BY <3>1, <3>4, <4>1
      <4>3. State[p] = "served"
        BY <3>2, <4>1
      <4> QED BY <3>1, <3>2, <4>2, <4>3 DEF Remote!Reply, Remote!Step, State
    <3>5. CASE ~(~err[p] /\ reply[orig[p]].kind = "R")
      <4>1. got' = got
        BY <2>0, <3>1, <3>3, <3>5
      <4>2. State[p] \in {"called", "served"}
        BY <3>2
      <4> QED BY <3>1, <3>2, <4>1, <4>2 DEF Remote!Fail, Remote!Step, State
    <3> QED BY <3>4, <3>5
  <2>3. ASSUME NEW r \in Rpc, Serve(r) PROVE (\E p \in Proc : Remote!Serve(p)) \/ UNCHANGED <<calls, State, got>>
    <3>1. PICK i \in 1..Len(srv) :
            /\ ~hung
            /\ \/ served' = [served EXCEPT ![srv[i].call[1]] =
                                (srv[i].call[2] = calls[srv[i].call[1]]) \/ @]
               \/ served' = served
            /\ pc' = pc /\ calls' = calls /\ got' = got
      BY <2>3 DEF Serve, count
    <3>2. PICK m : m = srv[i]
      OBVIOUS
    <3>3. PICK p : p = m.call[1]
      OBVIOUS
    <3>4. /\ m \in Message /\ m = request[m.tag] /\ Used(m.tag) /\ m.tag \in Rpc
          /\ p \in Proc /\ m.call = <<p, m.call[2]>>
      <4>1. m \in Message /\ m = request[m.tag] /\ Used(m.tag)
        BY <3>1, <3>2, Asked
      <4> QED BY <3>3, <4>1 DEF Message, CallId
    <3>5. CASE served' = served
      BY <3>1, <3>5 DEF State
    <3>6. CASE served' = [served EXCEPT ![p] = (m.call[2] = calls[p]) \/ @]
      <4>1. CASE m.call[2] = calls[p] /\ ~served[p]
        <5>1. pc[p] # "idle"
          <6>1. Owns(p, m.tag)
            BY <3>4, <4>1 DEF Owns
          <6> QED BY <2>0, <3>4, <6>1, Owned
        <5>2. served' = [served EXCEPT ![p] = TRUE]
          BY <3>6, <4>1
        <5>3. State[p] = "called" /\ State' = [State EXCEPT ![p] = "served"]
          BY <2>0, <3>1, <3>4, <4>1, <5>1, <5>2 DEF State
        <5>4. Remote!Serve(p)
          BY <3>1, <5>3 DEF Remote!Serve, Remote!Step, State
        <5> QED BY <3>4, <5>4
      <4>2. CASE m.call[2] # calls[p] \/ served[p]
        <5>1. served' = served
          <6>1. ((m.call[2] = calls[p]) \/ served[p]) = served[p]
            BY <2>0, <3>4, <4>2
          <6> QED BY <2>0, <3>4, <3>6, <6>1
        <5> QED BY <3>1, <5>1 DEF State
      <4> QED BY <4>1, <4>2
    <3> QED BY <3>1, <3>2, <3>3, <3>5, <3>6
  <2>4. CASE Hangup \/ UNCHANGED vars
    <3>1. UNCHANGED <<calls, pc, served, got>>
      BY <2>4 DEF Hangup, vars, count, wire
    <3> QED BY <3>1 DEF State
  <2>5. ASSUME NEW p \in Proc, Step(p) \/ Eintr(p), ~Return(p) PROVE UNCHANGED <<calls, State, got>>
    BY <2>0, <2>5, QuietStep DEF Step
  <2> QED BY <2>1, <2>2, <2>3, <2>4, <2>5 DEF Next, Remote!Next, Step
<1>3. IInv /\ [Next]_vars => [Remote!Next]_(Remote!vars)
  BY <1>2 DEF State, Remote!vars
<1> QED BY <1>1, <1>3, Invariance, PTL DEF Spec, ImplementsRemote, Remote!Spec
====
