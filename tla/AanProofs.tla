------------------------------ MODULE AanProofs ------------------------------
(***************************************************************************)
(* Proofs about Aan, for any number of buffers, of messages and of         *)
(* connections that break: the inductive invariant, that an instance keeps *)
(* what its peer does not have, and that the two streams are carried in    *)
(* order and once, by refinement of Stream.                                *)
(***************************************************************************)
EXTENDS Aan, SequenceTheorems, TLAPS

(* Linking p in leaves everybody else's place alone. *)
LEMMA AppendOrder ==
  ASSUME NEW P, NEW s \in Seq(P), NEW p \in P
  PROVE  /\ Append(s, p) \in Seq(P)
         /\ Append(s, p) # <<>>
         /\ Len(Append(s, p)) = Len(s) + 1
         /\ Append(s, p)[Len(s) + 1] = p
         /\ \A n \in 1..Len(s) : Append(s, p)[n] = s[n]
OBVIOUS

(* Unlinking the head moves everybody else up by one. *)
LEMMA TailOrder ==
  ASSUME NEW P, NEW s \in Seq(P), s # <<>>
  PROVE  /\ Tail(s) \in Seq(P)
         /\ Len(s) \in Nat \ {0}
         /\ Len(Tail(s)) = Len(s) - 1
         /\ Tail(s) = <<>> <=> Len(s) = 1
         /\ \A n \in 1..Len(s) - 1 : Tail(s)[n] = s[n + 1]
         /\ Head(s) = s[1]
         /\ s[1] \in P
<1>1. Len(s) \in Nat \ {0}
  BY EmptySeq
<1>2. Len(Tail(s)) = Len(s) - 1 /\ Tail(s) \in Seq(P)
  BY HeadTailProperties
<1>3. \A n \in 1..Len(s) - 1 : Tail(s)[n] = s[n + 1]
  BY <1>2, HeadTailProperties
<1>4. ASSUME Tail(s) = <<>> PROVE Len(s) = 1
  <2>1. Len(Tail(s)) = 0
    BY <1>4, EmptySeq, Zenon
  <2>2. Len(s) - 1 = 0
    BY <1>2, <2>1, Zenon
  <2> QED BY <1>1, <2>2
<1>5. ASSUME Len(s) = 1 PROVE Tail(s) = <<>>
  <2>1. Len(Tail(s)) \notin Nat \ {0}
    BY <1>2, <1>5
  <2> QED BY <1>2, <2>1, EmptySeq
<1>6. Head(s) = s[1] /\ s[1] \in P
  BY <1>1, ElementOfSeq
<1> QED BY <1>1, <1>2, <1>3, <1>4, <1>5, <1>6

-----------------------------------------------------------------------------
(* Sequences of messages with consecutive numbers, from n on, and one that *)
(* does not start after n.  Count is Len by a name of its own: the steps   *)
(* below reason about lengths as numbers, and where one follows from the   *)
(* sequence cite a lemma on it.                                            *)
Count(s)       == Len(s)
Elems(s)       == {s[k] : k \in 1..Len(s)}
Numbered(s, n) == \A k \in 1..Len(s) : s[k].msg = n + k - 1
Feeds(s, n)    == \E b \in Int : b <= n /\ Numbered(s, b)

(* The messages e has put on its way, and those it keeps.                  *)
Written(e) == Elems(tmp[e]) \cup Elems(unacked[e]) \cup Elems(wire[Peer(e)])
                \cup (IF e = "client" THEN Elems(backlog) ELSE {})
Messages(e) == Written(e) \cup Elems(unsent[e])

Pending(e) == net[e] \in {"ack", "recv", "stuck"}
Reading(e) == ~Over(e) /\ net[e] # "gone"

(* How many messages e wrote, the end of the stream included; the first of *)
(* them it keeps; how many it knows received once it has dealt with cur;   *)
(* the message it will take next from the other, and will write next.      *)
Wrote(e)  == sent[e] + (IF user[e] = "ended" THEN 1 ELSE 0)
Base(e)   == lastacked[e] + (IF Pending(e) THEN i[e] ELSE 0)
Known(e)  == IF Pending(e) THEN cur[e].acked ELSE lastacked[e]
Expect(e) == inmsg[e] + (IF Pending(e) THEN 1 ELSE 0)
NextMsg(e) == Base(e) + Count(tmp[e]) + (IF main[e] = "sync" THEN 0 ELSE Count(unacked[e]))

(* The connection e writes to can still be read, and what is on it.        *)
Live(e) == conn = "up" \/ (conn = "half" /\ e = "client")
OnWay(e) == IF conn = "up" THEN wire[Peer(e)] ELSE backlog

-----------------------------------------------------------------------------
(* The buffers of e hold the messages from Base(e) to the last, in order.  *)
KeptInv(e) ==
  ~Over(e) => /\ Numbered(tmp[e], Base(e))
              /\ Numbered(unacked[e], Base(e) + Count(tmp[e]))
              /\ Numbered(unsent[e], Base(e) + Count(tmp[e]) + Count(unacked[e]))
              /\ Base(e) + Count(tmp[e]) + Count(unacked[e]) + Count(unsent[e]) = Wrote(e)
              /\ empty[e] + Count(tmp[e]) + Count(unacked[e]) + Count(unsent[e]) = Nbuf
              /\ tmp[e] # <<>> => main[e] = "sync"

(* A message of e carries what its number says; only the last is an end of *)
(* file.                                                                   *)
Mine(e, m) == \/ m.data = m.msg + 1 /\ m.msg < sent[e]
              \/ m.data = Eof /\ m.msg = sent[e] /\ user[e] = "ended"
MineInv(e) == \A m \in Messages(e) : Mine(e, m)

(* Its count of messages received is one that e had received, and does not *)
(* go back from one message to a later one; those not written come last.   *)
AckInv(e) == /\ \A m \in Written(e) : m.acked <= Count(got[e])
             /\ \A m, n \in Written(e) : m.msg <= n.msg => m.acked <= n.acked
             /\ \A m \in Written(e), n \in Elems(unsent[e]) : m.msg < n.msg

(* What e knows its peer has received, the peer has; the messages still to *)
(* come do not say less.                                                   *)
KnownInv(e) ==
  ~Over(e) => /\ Base(e) <= Known(e) /\ Known(e) <= Count(got[Peer(e)])
              /\ \A m \in Written(Peer(e)) : m.msg >= Expect(e) => m.acked >= Known(e)
              /\ Pending(e) => /\ Mine(Peer(e), cur[e])
                               /\ cur[e].data # Eof /\ cur[e].msg = inmsg[e]

(* The program at e has read the first messages of the other end, in order *)
GotInv(e) == /\ \A k \in 1..Count(got[e]) : got[e][k] = k
             /\ Count(got[e]) <= sent[Peer(e)]
             /\ ~Over(e) => inmsg[e] = Count(got[e])
             /\ net[e] = "gone" => user[Peer(e)] = "ended" /\ Count(got[e]) = sent[Peer(e)]

(* and no message is missing before those it can still read, on the        *)
(* connection it has, the one it has not accepted yet, or the one its peer *)
(* writes to.                                                              *)
WireInv(e) ==
  Reading(e) => /\ Feeds(wire[e], Expect(e))
                /\ conn = "half" /\ e = "server" => Feeds(backlog, Expect(e))

LiveInv(e) == Live(e) /\ ~Over(e) /\ Reading(Peer(e)) =>
                /\ Numbered(OnWay(e), NextMsg(e) - Count(OnWay(e)))
                /\ NextMsg(e) - Count(OnWay(e)) <= Expect(Peer(e))
                /\ main[e] = "sync" => Count(OnWay(e)) <= Count(tmp[e])

(* What the instances believe of the connection.                           *)
NetInv == /\ \A e \in End : ~netfd[e] /\ ~Over(Peer(e)) => ~Live(e)
          /\ \A e \in End : main[e] = "dial" => ~netfd[e]
          /\ ~netfd["client"] \/ conn = "half" => wire["client"] = <<>>

EndInv(e) == /\ KeptInv(e) /\ MineInv(e) /\ AckInv(e) /\ KnownInv(e)
             /\ GotInv(e) /\ WireInv(e) /\ LiveInv(e)
IInv == TypeOK /\ NetInv /\ \A e \in End : EndInv(e)
-----------------------------------------------------------------------------
(* Each end has one peer, the other end. *)
LEMMA PeerOf ==
  ASSUME NEW e \in End
  PROVE  /\ Peer(e) \in End /\ Peer(e) # e /\ Peer(Peer(e)) = e
         /\ \A d \in End : d = e \/ d = Peer(e)
BY DEF End, Peer

(* What appending a message does, *)
LEMMA Appended ==
  ASSUME NEW s \in Seq(Message), NEW m \in Message
  PROVE  /\ Append(s, m) \in Seq(Message) /\ Count(Append(s, m)) = Count(s) + 1
         /\ Append(s, m) # <<>>
         /\ Elems(Append(s, m)) = Elems(s) \cup {m}
         /\ \A n \in Int : Numbered(s, n) /\ m.msg = n + Count(s) => Numbered(Append(s, m), n)
<1>1. /\ Append(s, m) \in Seq(Message) /\ Len(Append(s, m)) = Len(s) + 1
      /\ Append(s, m) # <<>>
      /\ Append(s, m)[Len(s) + 1] = m
      /\ \A k \in 1..Len(s) : Append(s, m)[k] = s[k]
  BY AppendOrder
<1>2. \A k \in 1..Len(s) + 1 : k \in 1..Len(s) \/ k = Len(s) + 1
  OBVIOUS
<1>3. 1..Len(s) \subseteq 1..Len(s) + 1 /\ Len(s) + 1 \in 1..Len(s) + 1
  OBVIOUS
<1>4. Elems(Append(s, m)) = Elems(s) \cup {m}
  BY <1>1, <1>2, <1>3 DEF Elems
<1>5. ASSUME NEW n \in Int, Numbered(s, n), m.msg = n + Len(s)
      PROVE  Numbered(Append(s, m), n)
  BY <1>1, <1>2, <1>5 DEF Numbered
<1> QED BY <1>1, <1>4, <1>5 DEF Count

(* taking the first one off, *)
LEMMA Taken ==
  ASSUME NEW s \in Seq(Message), s # <<>>
  PROVE  /\ Tail(s) \in Seq(Message) /\ Count(Tail(s)) = Count(s) - 1 /\ Count(s) \in Nat \ {0}
         /\ Head(s) \in Message /\ Head(s) \in Elems(s)
         /\ Elems(Tail(s)) \subseteq Elems(s)
         /\ \A n \in Int : Numbered(s, n) => Head(s).msg = n /\ Numbered(Tail(s), n + 1)
<1>1. /\ Tail(s) \in Seq(Message) /\ Len(s) \in Nat \ {0} /\ Len(Tail(s)) = Len(s) - 1
      /\ \A k \in 1..Len(s) - 1 : Tail(s)[k] = s[k + 1]
      /\ Head(s) = s[1] /\ s[1] \in Message
  BY TailOrder
<1>2. 1 \in 1..Len(s) /\ \A k \in 1..Len(s) - 1 : k + 1 \in 1..Len(s)
  BY <1>1
<1>3. Head(s) \in Elems(s) /\ Elems(Tail(s)) \subseteq Elems(s)
  BY <1>1, <1>2 DEF Elems
<1>4. ASSUME NEW n \in Int, Numbered(s, n)
      PROVE  Head(s).msg = n /\ Numbered(Tail(s), n + 1)
  <2>1. Head(s).msg = n + 1 - 1
    BY <1>1, <1>2, <1>4 DEF Numbered
  <2>2. \A k \in 1..Len(s) - 1 : s[k + 1].msg = n + (k + 1) - 1
    BY <1>2, <1>4 DEF Numbered
  <2>3. \A k \in 1..Len(s) - 1 : n + (k + 1) - 1 = n + 1 + k - 1
    OBVIOUS
  <2>4. \A k \in 1..Len(s) - 1 : Tail(s)[k].msg = n + 1 + k - 1
    BY <1>1, <2>2, <2>3
  <2> QED BY <1>1, <2>1, <2>4 DEF Numbered
<1> QED BY <1>1, <1>3, <1>4 DEF Count

(* cutting the end off, *)
LEMMA Cut ==
  ASSUME NEW s \in Seq(Message), NEW k \in 0..Len(s)
  PROVE  /\ SubSeq(s, 1, k) \in Seq(Message) /\ Count(SubSeq(s, 1, k)) = k
         /\ Elems(SubSeq(s, 1, k)) \subseteq Elems(s)
         /\ \A n \in Int : Numbered(s, n) => Numbered(SubSeq(s, 1, k), n)
<1>1. /\ SubSeq(s, 1, k) \in Seq(Message) /\ Len(SubSeq(s, 1, k)) = k
      /\ \A j \in 1..k : SubSeq(s, 1, k)[j] = s[j]
  OBVIOUS
<1>2. \A j \in 1..k : j \in 1..Len(s)
  OBVIOUS
<1> QED BY <1>1, <1>2 DEF Elems, Numbered, Count

(* and having none. *)
LEMMA None ==
  /\ <<>> \in Seq(Message) /\ Count(<<>>) = 0 /\ Elems(<<>>) = {}
  /\ \A n \in Int : Numbered(<<>>, n)
BY DEF Elems, Numbered, Count

(* A channel of length zero is the empty one. *)
LEMMA NoneLeft ==
  ASSUME NEW s \in Seq(Message), Count(s) = 0
  PROVE  s = <<>>
BY EmptySeq DEF Count

(* Writing one message to a connection appends it. *)
LEMMA Joining ==
  ASSUME NEW s \in Seq(Message), NEW m \in Message
  PROVE  s \o <<m>> = Append(s, m)
OBVIOUS

(* Lengths are natural numbers, *)
LEMMA Counts ==
  ASSUME NEW S, NEW s \in Seq(S)
  PROVE  Count(s) \in Nat
BY DEF Count

(* and what is in a channel are messages. *)
LEMMA ElemOf ==
  ASSUME NEW s \in Seq(Message), NEW m \in Elems(s)
  PROVE  m \in Message
BY DEF Elems

-----------------------------------------------------------------------------
(* The kinds of value the definitions above have, now and after a step. *)
LEMMA Kinds ==
  ASSUME TypeOK, NEW d \in End
  PROVE  /\ Base(d) \in Nat /\ Known(d) \in Nat /\ Expect(d) \in Nat
         /\ Wrote(d) \in Nat /\ NextMsg(d) \in Nat
         /\ Count(tmp[d]) \in Nat /\ Count(unacked[d]) \in Nat
         /\ Count(unsent[d]) \in Nat /\ Count(wire[d]) \in Nat
         /\ sent[d] \in Nat /\ Count(got[d]) \in Nat /\ inmsg[d] \in Nat
         /\ lastacked[d] \in Nat /\ i[d] \in Nat /\ empty[d] \in Nat
         /\ tmp[d] \in Seq(Message) /\ unacked[d] \in Seq(Message)
         /\ unsent[d] \in Seq(Message) /\ wire[d] \in Seq(Message)
         /\ backlog \in Seq(Message) /\ cur[d] \in Message /\ got[d] \in Seq(Nat)
<1>1. /\ sent[d] \in Nat /\ inmsg[d] \in Nat /\ cur[d] \in Message /\ got[d] \in Seq(Nat)
      /\ lastacked[d] \in Nat /\ i[d] \in Nat /\ empty[d] \in 0..Nbuf
      /\ wire[d] \in Seq(Message) /\ backlog \in Seq(Message)
  BY DEF TypeOK
<1>2. tmp[d] \in Seq(Message) /\ unacked[d] \in Seq(Message) /\ unsent[d] \in Seq(Message)
  BY DEF TypeOK
<1>3. cur[d].acked \in Nat
  BY <1>1 DEF Message
<1>4. /\ Count(tmp[d]) \in Nat /\ Count(unacked[d]) \in Nat
      /\ Count(unsent[d]) \in Nat /\ Count(wire[d]) \in Nat /\ Count(got[d]) \in Nat
  BY <1>1, <1>2, Counts
<1>5. empty[d] \in Nat
  <2>1. Nbuf \in Nat
    BY AanAssumption
  <2> QED BY <1>1, <2>1
<1>6. Base(d) \in Nat /\ Expect(d) \in Nat /\ Wrote(d) \in Nat
  BY <1>1 DEF Base, Expect, Wrote, Pending
<1>7. Known(d) \in Nat
  BY <1>1, <1>3 DEF Known, Pending
<1>8. NextMsg(d) \in Nat
  BY <1>4, <1>6 DEF NextMsg
<1> QED BY <1>1, <1>2, <1>4, <1>5, <1>6, <1>7, <1>8

(* The same of the state a step leads to. *)
LEMMA KindsNext ==
  ASSUME TypeOK', NEW d \in End
  PROVE  /\ Base(d)' \in Nat /\ Known(d)' \in Nat /\ Expect(d)' \in Nat
         /\ Wrote(d)' \in Nat /\ NextMsg(d)' \in Nat
         /\ Count(tmp'[d]) \in Nat /\ Count(unacked'[d]) \in Nat
         /\ Count(unsent'[d]) \in Nat /\ Count(wire'[d]) \in Nat
         /\ sent'[d] \in Nat /\ Count(got'[d]) \in Nat /\ inmsg'[d] \in Nat
         /\ lastacked'[d] \in Nat /\ i'[d] \in Nat /\ empty'[d] \in Nat
         /\ tmp'[d] \in Seq(Message) /\ unacked'[d] \in Seq(Message)
         /\ unsent'[d] \in Seq(Message) /\ wire'[d] \in Seq(Message)
         /\ backlog' \in Seq(Message) /\ cur'[d] \in Message /\ got'[d] \in Seq(Nat)
<1>1. /\ sent'[d] \in Nat /\ inmsg'[d] \in Nat /\ cur'[d] \in Message /\ got'[d] \in Seq(Nat)
      /\ lastacked'[d] \in Nat /\ i'[d] \in Nat /\ empty'[d] \in 0..Nbuf
      /\ wire'[d] \in Seq(Message) /\ backlog' \in Seq(Message)
  BY DEF TypeOK
<1>2. tmp'[d] \in Seq(Message) /\ unacked'[d] \in Seq(Message) /\ unsent'[d] \in Seq(Message)
  BY DEF TypeOK
<1>3. cur'[d].acked \in Nat
  BY <1>1 DEF Message
<1>4. /\ Count(tmp'[d]) \in Nat /\ Count(unacked'[d]) \in Nat
      /\ Count(unsent'[d]) \in Nat /\ Count(wire'[d]) \in Nat /\ Count(got'[d]) \in Nat
  BY <1>1, <1>2, Counts
<1>5. empty'[d] \in Nat
  <2>1. Nbuf \in Nat
    BY AanAssumption
  <2> QED BY <1>1, <2>1
<1>6. Base(d)' \in Nat /\ Expect(d)' \in Nat /\ Wrote(d)' \in Nat
  BY <1>1 DEF Base, Expect, Wrote, Pending
<1>7. Known(d)' \in Nat
  BY <1>1, <1>3 DEF Known, Pending
<1>8. NextMsg(d)' \in Nat
  BY <1>4, <1>6 DEF NextMsg
<1> QED BY <1>1, <1>2, <1>4, <1>5, <1>6, <1>7, <1>8

(* What an end keeps or has put on its way are messages. *)
LEMMA WrittenKind ==
  ASSUME TypeOK, NEW d \in End
  PROVE  /\ Messages(d) \subseteq Message
         /\ \A m \in Messages(d) : m.data \in Nat /\ m.msg \in Nat /\ m.acked \in Nat
<1>1. /\ tmp[d] \in Seq(Message) /\ unacked[d] \in Seq(Message) /\ unsent[d] \in Seq(Message)
      /\ wire[Peer(d)] \in Seq(Message) /\ backlog \in Seq(Message)
  BY Kinds, PeerOf
<1>2. \A s \in Seq(Message) : Elems(s) \subseteq Message
  BY ElemOf
<1>3. Messages(d) \subseteq Message
  BY <1>1, <1>2 DEF Messages, Written
<1> QED BY <1>3 DEF Message

-----------------------------------------------------------------------------
(* Each part of the invariant survives a step that leaves alone what it is *)
(* about.                                                                  *)
LEMMA KeptKept ==
  ASSUME NEW d \in End, KeptInv(d),
         Over(d) => Over(d)',
         tmp'[d] = tmp[d], unacked'[d] = unacked[d], unsent'[d] = unsent[d],
         empty'[d] = empty[d], Base(d)' = Base(d), Wrote(d)' = Wrote(d),
         main[d] = "sync" => main'[d] = "sync" \/ tmp[d] = <<>> \/ Over(d)'
  PROVE  KeptInv(d)'
BY DEF KeptInv

(* No new message, and the program wrote no less. *)
LEMMA MineKept ==
  ASSUME NEW d \in End, MineInv(d), TypeOK, TypeOK',
         Messages(d)' \subseteq Messages(d),
         sent[d] <= sent'[d],
         user[d] = "ended" => user'[d] = "ended" /\ sent'[d] = sent[d]
  PROVE  MineInv(d)'
<1>1. \A m \in Messages(d) : m.msg \in Nat
  BY WrittenKind
<1>2. sent[d] \in Nat /\ sent'[d] \in Nat
  BY Kinds, KindsNext
<1> QED BY <1>1, <1>2 DEF MineInv, Mine

(* No new message on its way, and none received is forgotten. *)
LEMMA AckKept ==
  ASSUME NEW d \in End, AckInv(d), TypeOK, TypeOK',
         Written(d)' \subseteq Written(d), Count(got[d]) <= Count(got'[d]),
         unsent'[d] = unsent[d]
  PROVE  AckInv(d)'
<1>1. \A m \in Written(d) : m.acked \in Nat
  BY WrittenKind DEF Messages
<1>2. Count(got[d]) \in Nat /\ Count(got'[d]) \in Nat
  BY Kinds, KindsNext
<1> QED BY <1>1, <1>2 DEF AckInv

(* What d knows to be received is received still. *)
LEMMA KnownKept ==
  ASSUME NEW d \in End, NEW p \in End, p = Peer(d), KnownInv(d), TypeOK, TypeOK',
         Over(d) => Over(d)',
         Base(d)' = Base(d), Known(d)' = Known(d), Expect(d)' = Expect(d),
         Pending(d)' => Pending(d) /\ cur'[d] = cur[d] /\ inmsg'[d] = inmsg[d],
         Written(p)' \subseteq Written(p), Count(got[p]) <= Count(got'[p]),
         sent[p] <= sent'[p]
  PROVE  KnownInv(d)'
<1>0. cur[d].msg \in Nat
  BY Kinds DEF Message
<1>1. Known(d) \in Nat /\ Count(got[p]) \in Nat /\ Count(got'[p]) \in Nat
      /\ sent[p] \in Nat /\ sent'[p] \in Nat
  BY Kinds, KindsNext
<1>2. ~Over(d)' => /\ Base(d)' <= Known(d)' /\ Known(d)' <= Count(got'[p])
                   /\ \A m \in Written(p)' : m.msg >= Expect(d)' => m.acked >= Known(d)'
  BY <1>1 DEF KnownInv
<1>3. ~Over(d)' /\ Pending(d)' => /\ Mine(p, cur[d])'
                                  /\ cur'[d].data # Eof /\ cur'[d].msg = inmsg'[d]
  BY <1>0, <1>1 DEF KnownInv, Mine
<1> QED BY <1>2, <1>3 DEF KnownInv

(* What d received is received still, and what its peer wrote written. *)
LEMMA GotKept ==
  ASSUME NEW d \in End, NEW p \in End, p = Peer(d), GotInv(d), TypeOK, TypeOK',
         Over(d) => Over(d)',
         got'[d] = got[d], inmsg'[d] = inmsg[d], net'[d] = "gone" => net[d] = "gone",
         sent[p] <= sent'[p],
         user[p] = "ended" => user'[p] = "ended" /\ sent'[p] = sent[p]
  PROVE  GotInv(d)'
<1>1. Count(got[d]) \in Nat /\ sent[p] \in Nat /\ sent'[p] \in Nat
  BY Kinds, KindsNext
<1> QED BY <1>1 DEF GotInv

(* Nothing more to read, and no less expected. *)
LEMMA WireKept ==
  ASSUME NEW d \in End, WireInv(d), TypeOK, TypeOK',
         Reading(d)' => Reading(d), wire'[d] = wire[d], Expect(d) <= Expect(d)',
         conn' = "half" /\ d = "server" => backlog' = <<>> \/ (conn = "half" /\ backlog' = backlog)
  PROVE  WireInv(d)'
<1>1. Expect(d) \in Nat /\ Expect(d)' \in Nat
  BY Kinds, KindsNext
<1>2. Reading(d)' => Feeds(wire'[d], Expect(d)')
  BY <1>1 DEF WireInv, Feeds
<1>3. Feeds(<<>>, Expect(d)')
  BY <1>1, None DEF Feeds
<1>4. Reading(d)' /\ conn' = "half" /\ d = "server" => Feeds(backlog', Expect(d)')
  BY <1>1, <1>3 DEF WireInv, Feeds
<1> QED BY <1>2, <1>4 DEF WireInv, Feeds

(* Nothing more on its way, and no less expected at the other end. *)
LEMMA LiveKept ==
  ASSUME NEW d \in End, NEW p \in End, p = Peer(d), LiveInv(d), TypeOK, TypeOK',
         Live(d)' => Live(d) /\ OnWay(d)' = OnWay(d),
         OnWay(d) \in Seq(Message),
         Over(d) => Over(d)', Reading(p)' => Reading(p),
         NextMsg(d)' = NextMsg(d), Expect(p) <= Expect(p)',
         main'[d] = "sync" => main[d] = "sync" /\ tmp'[d] = tmp[d]
  PROVE  LiveInv(d)'
<1>1. Count(OnWay(d)) \in Nat
  BY Counts
<1>2. /\ NextMsg(d) \in Nat /\ Expect(p) \in Nat /\ Expect(p)' \in Nat
  BY Kinds, KindsNext
<1> QED BY <1>1, <1>2 DEF LiveInv

(* What is on its way from an end is a sequence of messages. *)
LEMMA OnWayKind ==
  ASSUME TypeOK, NEW d \in End
  PROVE  OnWay(d) \in Seq(Message)
BY Kinds, PeerOf DEF OnWay

(* An end in whose state nothing changes. *)
Untouched(d) == /\ main'[d] = main[d] /\ net'[d] = net[d] /\ user'[d] = user[d]
                /\ empty'[d] = empty[d] /\ unsent'[d] = unsent[d]
                /\ unacked'[d] = unacked[d] /\ tmp'[d] = tmp[d]
                /\ inmsg'[d] = inmsg[d] /\ lastacked'[d] = lastacked[d]
                /\ cur'[d] = cur[d] /\ i'[d] = i[d]
                /\ sent'[d] = sent[d] /\ got'[d] = got[d]

(* Then what the invariant speaks of has not changed either. *)
LEMMA Views ==
  ASSUME NEW d \in End, Untouched(d)
  PROVE  /\ Base(d)' = Base(d) /\ Known(d)' = Known(d) /\ Expect(d)' = Expect(d)
         /\ Wrote(d)' = Wrote(d) /\ NextMsg(d)' = NextMsg(d)
         /\ Pending(d)' = Pending(d) /\ Over(d)' = Over(d) /\ Reading(d)' = Reading(d)
BY DEF Untouched, Base, Known, Expect, Wrote, NextMsg, Pending, Over, Reading

(* What the other end may do without disturbing what d has, *)
LEMMA Aside ==
  ASSUME NEW d \in End, NEW p \in End, p = Peer(d), EndInv(d), TypeOK, TypeOK',
         Untouched(d),
         Written(d)' \subseteq Written(d),
         sent[p] <= sent'[p],
         user[p] = "ended" => user'[p] = "ended" /\ sent'[p] = sent[p]
  PROVE  KeptInv(d)' /\ MineInv(d)' /\ AckInv(d)' /\ GotInv(d)'
<1>1. Base(d)' = Base(d) /\ Wrote(d)' = Wrote(d) /\ Over(d)' = Over(d)
  BY Views
<1>2. Messages(d)' \subseteq Messages(d)
  BY DEF Messages, Untouched
<1>3. sent[d] <= sent'[d] /\ Count(got[d]) <= Count(got'[d])
  <2>1. sent[d] \in Nat /\ Count(got[d]) \in Nat
    BY Kinds
  <2> QED BY <2>1 DEF Untouched
<1>4. KeptInv(d)'
  BY <1>1, KeptKept DEF EndInv, Untouched
<1>5. MineInv(d)'
  BY <1>2, <1>3, MineKept DEF EndInv, Untouched
<1>6. AckInv(d)'
  BY <1>3, AckKept DEF EndInv, Untouched
<1>7. GotInv(d)'
  BY <1>1, GotKept DEF EndInv, Untouched
<1> QED BY <1>4, <1>5, <1>6, <1>7

(* nor the rest. *)
LEMMA Bystander ==
  ASSUME NEW d \in End, NEW p \in End, p = Peer(d), EndInv(d), TypeOK, TypeOK',
         Untouched(d),
         wire'[d] = wire[d],
         conn' = "half" /\ d = "server" => backlog' = <<>> \/ (conn = "half" /\ backlog' = backlog),
         Live(d)' => Live(d) /\ OnWay(d)' = OnWay(d),
         Written(d)' \subseteq Written(d),
         Written(p)' \subseteq Written(p),
         Count(got[p]) <= Count(got'[p]), sent[p] <= sent'[p],
         user[p] = "ended" => user'[p] = "ended" /\ sent'[p] = sent[p],
         Reading(p)' => Reading(p), Expect(p) <= Expect(p)'
  PROVE  EndInv(d)'
<1>1. /\ Base(d)' = Base(d) /\ Known(d)' = Known(d) /\ Expect(d)' = Expect(d)
      /\ NextMsg(d)' = NextMsg(d)
      /\ Pending(d)' = Pending(d) /\ Over(d)' = Over(d) /\ Reading(d)' = Reading(d)
  BY Views
<1>2. KeptInv(d)' /\ MineInv(d)' /\ AckInv(d)' /\ GotInv(d)'
  BY Aside
<1>3. Expect(d) <= Expect(d)'
  <2>1. Expect(d) \in Nat
    BY Kinds
  <2> QED BY <1>1, <2>1
<1>4. KnownInv(d)'
  BY <1>1, KnownKept DEF EndInv, Untouched
<1>5. WireInv(d)'
  BY <1>1, <1>3, WireKept DEF EndInv
<1>6. LiveInv(d)'
  BY <1>1, LiveKept, OnWayKind DEF EndInv, Untouched
<1> QED BY <1>2, <1>4, <1>5, <1>6 DEF EndInv

-----------------------------------------------------------------------------
(* A step that only moves the control of an end disturbs neither of them. *)
LEMMA ControlKept ==
  ASSUME NEW d \in End, NEW p \in End, p = Peer(d), EndInv(d), TypeOK, TypeOK',
         UNCHANGED <<user, chans, counts, network, sent, got>>,
         Over(d) => Over(d)', Over(p) => Over(p)',
         Pending(d)' <=> Pending(d), Pending(p)' <=> Pending(p),
         net'[d] = "gone" <=> net[d] = "gone", net'[p] = "gone" <=> net[p] = "gone",
         main'[d] = "sync" <=> main[d] = "sync"
  PROVE  EndInv(d)'
<1> USE DEF chans, counts, network
<1>1. /\ Base(d)' = Base(d) /\ Known(d)' = Known(d) /\ Expect(d)' = Expect(d)
      /\ Wrote(d)' = Wrote(d) /\ NextMsg(d)' = NextMsg(d) /\ Expect(p)' = Expect(p)
  BY DEF Base, Known, Expect, Wrote, NextMsg
<1>2. Reading(d)' => Reading(d)
  BY DEF Reading
<1>3. Reading(p)' => Reading(p)
  BY DEF Reading
<1>4. /\ Written(d)' = Written(d) /\ Messages(d)' = Messages(d)
      /\ Written(p)' = Written(p)
  BY DEF Messages, Written
<1>5. /\ Count(got[d]) <= Count(got'[d]) /\ Count(got[p]) <= Count(got'[p])
      /\ sent[d] <= sent'[d] /\ sent[p] <= sent'[p]
      /\ Expect(d) <= Expect(d)' /\ Expect(p) <= Expect(p)'
  <2>1. /\ Count(got[d]) \in Nat /\ Count(got[p]) \in Nat /\ sent[d] \in Nat
        /\ sent[p] \in Nat /\ Expect(d) \in Nat /\ Expect(p) \in Nat
    BY Kinds
  <2> QED BY <1>1, <2>1
<1>6. KeptInv(d)'
  BY <1>1, KeptKept DEF EndInv
<1>7. MineInv(d)'
  BY <1>4, <1>5, MineKept DEF EndInv
<1>8. AckInv(d)'
  BY <1>4, <1>5, AckKept DEF EndInv
<1>9. KnownInv(d)'
  BY <1>1, <1>4, <1>5, KnownKept DEF EndInv
<1>10. GotInv(d)'
  BY <1>5, GotKept DEF EndInv
<1>11. WireInv(d)'
  BY <1>2, <1>5, WireKept DEF EndInv
<1>12. LiveInv(d)'
  <2>1. Live(d)' => Live(d) /\ OnWay(d)' = OnWay(d)
    BY DEF Live, OnWay
  <2> QED BY <1>1, <1>3, <1>5, <2>1, LiveKept, OnWayKind DEF EndInv
<1> QED BY <1>6, <1>7, <1>8, <1>9, <1>10, <1>11, <1>12 DEF EndInv

-----------------------------------------------------------------------------
(* What an instance may do without upsetting what is believed of the       *)
(* connection.                                                             *)
LEMMA NetKept ==
  ASSUME NetInv, conn' = conn, netfd' = netfd,
         wire["client"] = <<>> => wire'["client"] = <<>>,
         \A d \in End : Over(d) => Over(d)',
         \A d \in End : main'[d] = "dial" => main[d] = "dial" \/ ~netfd[d]
  PROVE  NetInv'
<1>1. \A d \in End : ~netfd'[d] /\ ~Over(Peer(d))' => ~Live(d)'
  BY PeerOf DEF NetInv, Live
<1>2. \A d \in End : main'[d] = "dial" => ~netfd'[d]
  BY DEF NetInv
<1>3. ~netfd'["client"] \/ conn' = "half" => wire'["client"] = <<>>
  BY DEF NetInv
<1> QED BY <1>1, <1>2, <1>3 DEF NetInv

(* main finds the connection broken, or everything done. *)
LEMMA KeepAliveStep ==
  ASSUME IInv, NEW e \in End, KeepAlive(e)
  PROVE  IInv'
<1> USE DEF KeepAlive, Loop, Set, ends
<1>1. TypeOK'
  BY DEF IInv, TypeOK, chans, counts, network
<1>2. /\ \A d \in End : Over(d) => Over(d)'
      /\ \A d \in End : Pending(d)' <=> Pending(d)
      /\ \A d \in End : main'[d] = "sync" <=> main[d] = "sync"
      /\ \A d \in End : main'[d] = "dial" => main[d] = "dial" \/ ~netfd[d]
  BY DEF IInv, TypeOK, Over, Pending
<1>3. NetInv'
  BY <1>2, NetKept DEF IInv, network
<1>4. ASSUME NEW d \in End PROVE EndInv(d)'
  BY <1>1, <1>2, PeerOf, ControlKept DEF IInv
<1> QED BY <1>1, <1>3, <1>4 DEF IInv

(* The netreader has seen it too. *)
LEMMA DeadStep ==
  ASSUME IInv, NEW e \in End, Dead(e)
  PROVE  IInv'
<1> USE DEF Dead, Set, ends
<1>1. TypeOK'
  BY DEF IInv, TypeOK, chans, counts, network
<1>2. /\ \A d \in End : Over(d) => Over(d)'
      /\ \A d \in End : Pending(d)' <=> Pending(d)
      /\ \A d \in End : main'[d] = "sync" <=> main[d] = "sync"
      /\ \A d \in End : main'[d] = "dial" => main[d] = "dial" \/ ~netfd[d]
  BY DEF IInv, TypeOK, Over, Pending
<1>3. NetInv'
  BY <1>2, NetKept DEF IInv, network
<1>4. ASSUME NEW d \in End PROVE EndInv(d)'
  BY <1>1, <1>2, PeerOf, ControlKept DEF IInv
<1> QED BY <1>1, <1>3, <1>4 DEF IInv

(* The server gives up. *)
LEMMA TimedOutStep ==
  ASSUME IInv, TimedOut
  PROVE  IInv'
<1> USE DEF TimedOut, Set, ends
<1>1. TypeOK'
  BY DEF IInv, TypeOK, chans, counts, network
<1>2. /\ \A d \in End : Over(d) => Over(d)'
      /\ \A d \in End : Pending(d)' <=> Pending(d)
      /\ \A d \in End : main'[d] = "sync" <=> main[d] = "sync"
      /\ \A d \in End : main'[d] = "dial" => main[d] = "dial" \/ ~netfd[d]
  BY DEF IInv, TypeOK, Over, Pending
<1>3. NetInv'
  BY <1>2, NetKept DEF IInv, network
<1>4. ASSUME NEW d \in End PROVE EndInv(d)'
  BY <1>1, <1>2, PeerOf, ControlKept DEF IInv
<1> QED BY <1>1, <1>3, <1>4 DEF IInv

(* The netreader sees the connection broken: it can no longer be written. *)
LEMMA ReadErrorStep ==
  ASSUME IInv, NEW e \in End, ReadError(e)
  PROVE  IInv'
<1> USE DEF ReadError, Set, ends
<1>1. TypeOK'
  BY DEF IInv, TypeOK, chans, counts, network
<1>2. /\ \A d \in End : Over(d) => Over(d)'
      /\ \A d \in End : Pending(d)' <=> Pending(d)
  BY DEF Over, Pending
<1>3. NetInv'
  <2>1. netfd' = [netfd EXCEPT ![e] = FALSE] /\ netfd \in [End -> BOOLEAN]
    BY DEF IInv, TypeOK
  <2>2. NetInv /\ conn' = conn /\ main' = main /\ wire' = wire /\ wire[e] = <<>>
    BY DEF IInv, network
  <2>3. ~Over(Peer(e)) => ~Live(e)
    BY <2>2 DEF IInv, NetInv, Joined, Live
  <2>4. \A d \in End : ~netfd'[d] /\ ~Over(Peer(d))' => ~Live(d)'
    BY <2>1, <2>2, <2>3 DEF NetInv, Live, Over
  <2>5. \A d \in End : main'[d] = "dial" => ~netfd'[d]
    BY <2>1, <2>2 DEF NetInv
  <2>6. ~netfd'["client"] \/ conn' = "half" => wire'["client"] = <<>>
    BY <2>1, <2>2 DEF NetInv
  <2> QED BY <2>4, <2>5, <2>6 DEF NetInv
<1>4. ASSUME NEW d \in End PROVE EndInv(d)'
  BY <1>1, <1>2, PeerOf, ControlKept DEF IInv
<1> QED BY <1>1, <1>3, <1>4 DEF IInv

(* fromnet waits for synchronize to fill unacked, or for Send to. *)
LEMMA AckWaitStep ==
  ASSUME IInv, NEW e \in End, AckWait(e)
  PROVE  IInv'
<1> USE DEF AckWait, Set, ends
<1>1. TypeOK'
  BY DEF IInv, TypeOK, chans, counts, network
<1>2. /\ \A d \in End : Over(d) => Over(d)'
      /\ \A d \in End : Pending(d)' <=> Pending(d)
      /\ \A d \in End : net'[d] = "gone" <=> net[d] = "gone"
      /\ \A d \in End : main'[d] = "dial" => main[d] = "dial" \/ ~netfd[d]
  BY DEF IInv, TypeOK, Over, Pending
<1>3. NetInv'
  BY <1>2, NetKept DEF IInv, network
<1>4. ASSUME NEW d \in End PROVE EndInv(d)'
  BY <1>1, <1>2, PeerOf, ControlKept DEF IInv
<1> QED BY <1>1, <1>3, <1>4 DEF IInv

(* What e keeps begins with a message the other end can take. *)
LEMMA BaseExpected ==
  ASSUME NEW e \in End, NEW f \in End, f = Peer(e), TypeOK,
         KnownInv(e), GotInv(f), ~Over(e), ~Over(f)
  PROVE  Base(e) <= Expect(f)
<1>1. Base(e) \in Nat /\ Known(e) \in Nat /\ inmsg[f] \in Nat /\ Expect(f) \in Nat
  BY Kinds
<1>2. Base(e) <= Known(e) /\ Known(e) <= inmsg[f]
  BY DEF KnownInv, GotInv
<1>3. inmsg[f] <= Expect(f)
  BY <1>1 DEF Expect
<1> QED BY <1>1, <1>2, <1>3

-----------------------------------------------------------------------------
(* fromclient reads a message from its program, or the end of its input. *)
LEMMA FromclientStep ==
  ASSUME IInv, NEW e \in End, ReadUser(e) \/ UserEof(e)
  PROVE  IInv'
<1> DEFINE f == Peer(e)
<1>0. f \in End /\ f # e /\ e = Peer(f) /\ \A d \in End : d = e \/ d = f
  BY PeerOf
<1>1. PICK d \in Nat :
        /\ Queue(e, d)
        /\ \/ d = sent[e] + 1 /\ sent' = [sent EXCEPT ![e] = sent[e] + 1] /\ user' = user
           \/ d = Eof /\ user' = [user EXCEPT ![e] = "ended"] /\ sent' = sent
  <2>1. sent[e] \in Nat
    BY Kinds DEF IInv
  <2> QED BY <2>1 DEF ReadUser, UserEof, Set, Eof
<1>2. TypeOK /\ NetInv /\ EndInv(e) /\ EndInv(f)
  BY <1>0 DEF IInv
<1>3. PICK m \in Message : m = [data |-> d, msg |-> sent[e], acked |-> 0]
  <2>1. sent[e] \in Nat
    BY <1>2, Kinds
  <2> QED BY <2>1 DEF Message
<1>4. Untouched(f) /\ wire' = wire /\ backlog' = backlog /\ conn' = conn
  <2>1. /\ UNCHANGED <<main, net, netfd, done, unacked, tmp, inmsg, lastacked, cur, i>>
        /\ UNCHANGED <<conn, wire, backlog, breaks, got>>
    BY <1>1 DEF Queue, counts, network
  <2>2. /\ empty \in [End -> 0..Nbuf] /\ unsent \in [End -> Seq(Message)]
        /\ user \in [End -> {"off", "on", "ended"}] /\ sent \in [End -> Nat]
    BY <1>2 DEF TypeOK
  <2>3. empty'[f] = empty[f] /\ unsent'[f] = unsent[f]
    BY <1>0, <1>1, <2>2 DEF Queue, Set
  <2>4. user'[f] = user[f] /\ sent'[f] = sent[f]
    BY <1>0, <1>1, <2>2
  <2> QED BY <2>1, <2>3, <2>4 DEF Untouched
<1>5. /\ main' = main /\ net' = net /\ netfd' = netfd /\ got' = got /\ tmp' = tmp
      /\ unacked' = unacked /\ inmsg' = inmsg /\ lastacked' = lastacked
      /\ cur' = cur /\ i' = i /\ done' = done /\ breaks' = breaks
      /\ user[e] = "on" /\ empty[e] > 0 /\ ~Over(e)
      /\ unsent' = [unsent EXCEPT ![e] = Append(unsent[e], m)]
      /\ empty' = [empty EXCEPT ![e] = empty[e] - 1]
  BY <1>1, <1>2, <1>3 DEF Queue, Set, counts, network
<1>6. /\ unsent'[e] = Append(unsent[e], m) /\ empty'[e] = empty[e] - 1
      /\ unsent \in [End -> Seq(Message)]
  BY <1>2, <1>5 DEF TypeOK
<1>7. /\ sent[e] <= sent'[e] /\ Wrote(e) = sent[e] /\ Wrote(e)' = sent[e] + 1
      /\ Mine(e, m)' /\ \A n \in Messages(e) : Mine(e, n) => Mine(e, n)'
  <2>1. user \in [End -> {"off", "on", "ended"}] /\ sent \in [End -> Nat]
    BY <1>2 DEF TypeOK
  <2>2. \A n \in Messages(e) : n.msg \in Nat
    BY <1>2, WrittenKind
  <2>3. \/ d = sent[e] + 1 /\ sent'[e] = sent[e] + 1 /\ user'[e] = "on"
        \/ d = Eof /\ user'[e] = "ended" /\ sent'[e] = sent[e]
    BY <1>1, <1>5, <2>1
  <2>4. sent[e] \in Nat /\ m.data = d /\ m.msg = sent[e]
    BY <1>3, <2>1
  <2>5. sent[e] <= sent'[e] /\ Wrote(e) = sent[e] /\ Wrote(e)' = sent[e] + 1
    BY <1>5, <2>3, <2>4 DEF Wrote
  <2>6. Mine(e, m)'
    BY <2>3, <2>4 DEF Mine
  <2>7. \A n \in Messages(e) : Mine(e, n) => Mine(e, n)'
    BY <1>5, <2>2, <2>3, <2>4 DEF Mine
  <2> QED BY <2>5, <2>6, <2>7
<1>8. TypeOK'
  <2>1. unsent' \in [End -> Seq(Message)]
    BY <1>3, <1>5, <1>6, AppendOrder
  <2>2. empty' \in [End -> 0..Nbuf]
    BY <1>2, <1>5, AanAssumption DEF TypeOK
  <2>3. user' \in [End -> {"off", "on", "ended"}] /\ sent' \in [End -> Nat]
    <3>1. user \in [End -> {"off", "on", "ended"}] /\ sent \in [End -> Nat]
      BY <1>2 DEF TypeOK
    <3> QED BY <1>1, <3>1
  <2> QED BY <1>2, <1>4, <1>5, <2>1, <2>2, <2>3 DEF TypeOK
<1>9. NetInv'
  BY <1>2, <1>4, <1>5, NetKept DEF Over
<1>10. EndInv(f)'
  <2>1. Count(got[e]) <= Count(got'[e]) /\ Expect(e) <= Expect(e)'
    <3>1. Expect(e)' = Expect(e) /\ Expect(e) \in Nat /\ Count(got[e]) \in Nat
      BY <1>2, <1>5, Kinds DEF Expect, Pending
    <3> QED BY <1>5, <3>1
  <2>2. /\ Live(f)' => Live(f) /\ OnWay(f)' = OnWay(f)
        /\ Reading(e)' => Reading(e)
    BY <1>4, <1>5 DEF Live, OnWay, Reading, Over
  <2>3. Written(e)' = Written(e) /\ Written(f)' = Written(f)
    BY <1>4, <1>5 DEF Written
  <2> QED BY <1>0, <1>2, <1>4, <1>5, <1>7, <1>8, <2>1, <2>2, <2>3, Bystander
<1>11. /\ Base(e)' = Base(e) /\ Known(e)' = Known(e) /\ Expect(e)' = Expect(e)
       /\ NextMsg(e)' = NextMsg(e) /\ Expect(f)' = Expect(f)
       /\ Over(e)' = Over(e) /\ Pending(e)' = Pending(e) /\ Reading(e)' = Reading(e)
       /\ Reading(f)' = Reading(f)
       /\ Written(e)' = Written(e) /\ Written(f)' = Written(f)
       /\ Live(e)' = Live(e) /\ OnWay(e)' = OnWay(e)
  BY <1>4, <1>5 DEF Base, Known, Expect, NextMsg, Over, Pending, Reading, Written, Live, OnWay
<1>12. /\ Count(got[e]) <= Count(got'[e]) /\ Count(got[f]) <= Count(got'[f])
       /\ sent[f] <= sent'[f] /\ Expect(e) <= Expect(e)' /\ Expect(f) <= Expect(f)'
  <2>1. /\ Count(got[e]) \in Nat /\ Count(got[f]) \in Nat /\ sent[f] \in Nat
        /\ Expect(e) \in Nat /\ Expect(f) \in Nat
    BY <1>0, <1>2, Kinds
  <2> QED BY <1>4, <1>5, <1>11, <2>1 DEF Untouched
<1>13. KeptInv(e)'
  <2> DEFINE n == Base(e) + Count(tmp[e]) + Count(unacked[e])
  <2>1. /\ Numbered(unsent[e], n) /\ n + Count(unsent[e]) = sent[e]
        /\ empty[e] + Count(tmp[e]) + Count(unacked[e]) + Count(unsent[e]) = Nbuf
    BY <1>2, <1>5, <1>7 DEF EndInv, KeptInv
  <2>2. /\ Base(e) \in Nat /\ Count(tmp[e]) \in Nat /\ Count(unacked[e]) \in Nat
        /\ Count(unsent[e]) \in Nat /\ unsent[e] \in Seq(Message) /\ empty[e] \in Nat
        /\ sent[e] \in Nat /\ n \in Int
    BY <1>2, Kinds
  <2>3. Numbered(unsent'[e], n) /\ Count(unsent'[e]) = Count(unsent[e]) + 1
    BY <1>3, <1>6, <2>1, <2>2, Appended
  <2>4. n + Count(unsent'[e]) = Wrote(e)'
    BY <1>7, <2>1, <2>2, <2>3
  <2>5. empty'[e] + Count(tmp[e]) + Count(unacked[e]) + Count(unsent'[e]) = Nbuf
    <3>1. empty'[e] = empty[e] - 1 /\ Count(unsent'[e]) = Count(unsent[e]) + 1
      BY <1>6, <2>3
    <3>2. empty[e] + Count(tmp[e]) + Count(unacked[e]) + Count(unsent[e]) = Nbuf
      BY <2>1
    <3>3. /\ Count(tmp[e]) \in Nat /\ Count(unacked[e]) \in Nat
          /\ Count(unsent[e]) \in Nat /\ empty[e] \in Nat
      BY <2>2
    <3> HIDE DEF n
    <3> QED BY <3>1, <3>2, <3>3
  <2> QED BY <1>2, <1>5, <1>11, <2>3, <2>4, <2>5 DEF EndInv, KeptInv
<1>14. MineInv(e)'
  <2>1. Elems(unsent'[e]) = Elems(unsent[e]) \cup {m}
    BY <1>2, <1>3, <1>6, Kinds, Appended
  <2>2. Messages(e)' \subseteq Messages(e) \cup {m}
    BY <1>11, <2>1 DEF Messages
  <2> QED BY <1>2, <1>7, <2>2 DEF EndInv, MineInv
<1>15. AckInv(e)'
  <2>1. Elems(unsent'[e]) = Elems(unsent[e]) \cup {m} /\ m.msg = sent[e]
    BY <1>2, <1>3, <1>6, Kinds, Appended
  <2>2. \A n \in Written(e) : n.msg < sent[e]
    BY <1>2, <1>5 DEF EndInv, MineInv, Mine, Messages
  <2>3. got'[e] = got[e]
    BY <1>5
  <2> QED BY <1>2, <1>11, <2>1, <2>2, <2>3 DEF EndInv, AckInv
<1>16. KnownInv(e)'
  BY <1>0, <1>2, <1>5, <1>8, <1>11, <1>12, KnownKept DEF EndInv
<1>17. GotInv(e)'
  BY <1>0, <1>2, <1>4, <1>5, <1>8, <1>11, <1>12, GotKept DEF EndInv, Untouched
<1>18. WireInv(e)'
  BY <1>2, <1>4, <1>8, <1>11, <1>12, WireKept DEF EndInv
<1>19. LiveInv(e)'
  BY <1>0, <1>2, <1>5, <1>8, <1>11, <1>12, LiveKept, OnWayKind DEF EndInv
<1>20. EndInv(e)'
  BY <1>13, <1>14, <1>15, <1>16, <1>17, <1>18, <1>19 DEF EndInv
<1> QED BY <1>0, <1>8, <1>9, <1>10, <1>20 DEF IInv

-----------------------------------------------------------------------------
(* synchronize replaces unacked by what it has sent again. *)
LEMMA SyncedStep ==
  ASSUME IInv, NEW e \in End, Synced(e)
  PROVE  IInv'
<1> DEFINE f == Peer(e)
<1>0. f \in End /\ f # e /\ e = Peer(f) /\ \A d \in End : d = e \/ d = f
  BY PeerOf
<1>1. TypeOK /\ NetInv /\ EndInv(e) /\ EndInv(f)
  BY <1>0 DEF IInv
<1>2. TypeOK'
  <2>1. /\ main' \in [End -> {"dial", "sync", "alt", "dead", "exit", "abort"}]
        /\ net' \in [End -> {"poll", "ack", "recv", "stuck", "gone"}]
        /\ user' \in [End -> {"off", "on", "ended"}]
    BY <1>1 DEF TypeOK, Synced, Loop, Set
  <2>2. tmp[e] \in Seq(Message) /\ <<>> \in Seq(Message)
    BY <1>1, Kinds
  <2>3. unacked' \in [End -> Seq(Message)] /\ tmp' \in [End -> Seq(Message)]
    BY <1>1, <2>2 DEF TypeOK, Synced, Set
  <2> QED BY <1>1, <2>1, <2>3, SMTT(30) DEF TypeOK, Synced, counts, network
<1>3. Untouched(f) /\ wire' = wire /\ backlog' = backlog /\ conn' = conn /\ netfd' = netfd
  BY <1>0, <1>1 DEF Synced, Loop, Untouched, TypeOK, Set, counts, network
<1>4. /\ main[e] = "sync" /\ main'[e] \in {"exit", "alt"}
      /\ main' = [main EXCEPT ![e] = main'[e]]
      /\ unacked[e] = <<>> /\ unacked'[e] = tmp[e] /\ tmp'[e] = <<>>
      /\ Pending(e)' = Pending(e) /\ (net'[e] = "gone" <=> net[e] = "gone")
      /\ user'[e] = "ended" <=> user[e] = "ended"
      /\ empty'[e] = empty[e] /\ unsent'[e] = unsent[e] /\ inmsg'[e] = inmsg[e]
      /\ lastacked'[e] = lastacked[e] /\ cur'[e] = cur[e] /\ i'[e] = i[e]
      /\ sent'[e] = sent[e] /\ got'[e] = got[e]
  BY <1>1 DEF Synced, Loop, TypeOK, Set, counts, network, Pending
<1>5. /\ Count(unacked[e]) = 0 /\ Count(tmp'[e]) = 0 /\ Elems(tmp'[e]) = {}
      /\ Count(unacked'[e]) = Count(tmp[e]) /\ Elems(unacked'[e]) = Elems(tmp[e])
      /\ \A n \in Int : Numbered(tmp'[e], n)
  BY <1>4, None
<1>6. /\ Base(e) \in Nat /\ Count(tmp[e]) \in Nat /\ Expect(e) \in Nat /\ sent[e] \in Nat
      /\ Count(got[e]) \in Nat /\ Count(got[f]) \in Nat /\ sent[f] \in Nat
      /\ Expect(f) \in Nat
  BY <1>0, <1>1, Kinds
<1>7. /\ Base(e)' = Base(e) /\ Known(e)' = Known(e) /\ Expect(e)' = Expect(e)
      /\ Wrote(e)' = Wrote(e) /\ Expect(f)' = Expect(f)
      /\ (Over(e) => Over(e)') /\ (Reading(e)' => Reading(e))
      /\ (Reading(f)' => Reading(f))
      /\ Live(e)' = Live(e) /\ OnWay(e)' = OnWay(e)
      /\ Live(f)' = Live(f) /\ OnWay(f)' = OnWay(f)
  <2>1. /\ Base(e)' = Base(e) /\ Known(e)' = Known(e) /\ Expect(e)' = Expect(e)
        /\ Wrote(e)' = Wrote(e)
    BY <1>4 DEF Base, Known, Expect, Wrote
  <2>2. (Over(e) => Over(e)') /\ (Reading(e)' => Reading(e))
    BY <1>4 DEF Over, Reading
  <2>3. Expect(f)' = Expect(f) /\ (Reading(f)' => Reading(f))
    BY <1>0, <1>3, Views
  <2>4. /\ Live(e)' = Live(e) /\ OnWay(e)' = OnWay(e)
        /\ Live(f)' = Live(f) /\ OnWay(f)' = OnWay(f)
    BY <1>3 DEF Live, OnWay
  <2> QED BY <2>1, <2>2, <2>3, <2>4
<1>8. NextMsg(e)' = NextMsg(e)
  BY <1>4, <1>5, <1>6, <1>7 DEF NextMsg
<1>9. /\ Written(e)' \subseteq Written(e) /\ Messages(e)' \subseteq Messages(e)
      /\ Written(f)' = Written(f)
  BY <1>3, <1>4, <1>5 DEF Written, Messages, Untouched
<1>10. /\ Count(got[e]) <= Count(got'[e]) /\ Count(got[f]) <= Count(got'[f])
       /\ sent[e] <= sent'[e] /\ sent[f] <= sent'[f]
       /\ Expect(e) <= Expect(e)' /\ Expect(f) <= Expect(f)'
  BY <1>3, <1>4, <1>6, <1>7 DEF Untouched
<1>11. NetInv'
  <2>1. \A d \in End : Over(d) => Over(d)'
    BY <1>0, <1>3, <1>7 DEF Over, Untouched
  <2>2. \A d \in End : main'[d] = "dial" => main[d] = "dial"
    BY <1>0, <1>3, <1>4 DEF Untouched
  <2> QED BY <1>1, <1>3, <2>1, <2>2, NetKept
<1>12. EndInv(f)'
  BY <1>0, <1>1, <1>2, <1>3, <1>4, <1>7, <1>9, <1>10, Bystander
<1>13. KeptInv(e)'
  <2>1. /\ Numbered(tmp[e], Base(e)) /\ Numbered(unsent[e], Base(e) + Count(tmp[e]) + 0)
        /\ Base(e) + Count(tmp[e]) + 0 + Count(unsent[e]) = Wrote(e)
        /\ empty[e] + Count(tmp[e]) + 0 + Count(unsent[e]) = Nbuf
    BY <1>1, <1>4, <1>5 DEF EndInv, KeptInv, Over
  <2>2. empty[e] \in Nat /\ Count(unsent[e]) \in Nat
    BY <1>1, Kinds
  <2>3. /\ Base(e) + 0 = Base(e) /\ Base(e) + 0 + Count(tmp[e]) = Base(e) + Count(tmp[e]) + 0
        /\ empty[e] + 0 + Count(tmp[e]) = empty[e] + Count(tmp[e]) + 0
    BY <1>6, <2>2
  <2>4. /\ Numbered(tmp'[e], Base(e)) /\ Numbered(unacked'[e], Base(e) + 0)
        /\ Numbered(unsent'[e], Base(e) + 0 + Count(tmp[e]))
        /\ Base(e) + 0 + Count(tmp[e]) + Count(unsent[e]) = Wrote(e)
        /\ empty[e] + 0 + Count(tmp[e]) + Count(unsent[e]) = Nbuf
    BY <1>4, <1>5, <1>6, <2>1, <2>3
  <2> QED BY <1>4, <1>5, <1>7, <2>4 DEF KeptInv
<1>14. MineInv(e)' /\ AckInv(e)'
  BY <1>1, <1>2, <1>4, <1>9, <1>10, MineKept, AckKept DEF EndInv
<1>15. KnownInv(e)'
  BY <1>0, <1>1, <1>2, <1>4, <1>7, <1>9, <1>10, KnownKept DEF EndInv
<1>16. GotInv(e)'
  BY <1>0, <1>1, <1>2, <1>3, <1>4, <1>7, <1>10, GotKept DEF EndInv, Untouched
<1>17. WireInv(e)'
  BY <1>1, <1>2, <1>3, <1>7, <1>10, WireKept DEF EndInv
<1>18. LiveInv(e)'
  BY <1>0, <1>1, <1>2, <1>4, <1>7, <1>8, <1>10, LiveKept, OnWayKind DEF EndInv
<1> QED BY <1>0, <1>2, <1>11, <1>12, <1>13, <1>14, <1>15, <1>16, <1>17, <1>18 DEF IInv, EndInv

(* fromnet hands a message to its program, which may have gone. *)
LEMMA DeliverStep ==
  ASSUME IInv, NEW e \in End, Deliver(e)
  PROVE  IInv'
<1> DEFINE f == Peer(e)
<1>0. f \in End /\ f # e /\ e = Peer(f) /\ \A d \in End : d = e \/ d = f
  BY PeerOf
<1>1. TypeOK /\ NetInv /\ EndInv(e) /\ EndInv(f)
  BY <1>0 DEF IInv
<1>2. /\ Base(e) \in Nat /\ Count(tmp[e]) \in Nat /\ Expect(e) \in Nat /\ sent[e] \in Nat
      /\ Count(got[e]) \in Nat /\ Count(got[f]) \in Nat /\ sent[f] \in Nat
      /\ Expect(f) \in Nat /\ lastacked[e] \in Nat /\ cur[e] \in Message
      /\ inmsg[e] \in Nat /\ got[e] \in Seq(Nat)
      /\ cur[e].data \in Nat /\ cur[e].acked \in Nat /\ cur[e].msg \in Nat
  <2>1. cur[e] \in Message
    BY <1>1, Kinds
  <2>2. cur[e].data \in Nat /\ cur[e].acked \in Nat /\ cur[e].msg \in Nat
    BY <2>1 DEF Message
  <2> QED BY <1>0, <1>1, <2>1, <2>2, Kinds
<1>3. Untouched(f) /\ wire' = wire /\ backlog' = backlog /\ conn' = conn /\ netfd' = netfd
  <2>1. /\ main \in [End -> {"dial", "sync", "alt", "dead", "exit", "abort"}]
        /\ net \in [End -> {"poll", "ack", "recv", "stuck", "gone"}]
        /\ lastacked \in [End -> Nat] /\ inmsg \in [End -> Nat] /\ got \in [End -> Seq(Nat)]
    BY <1>1 DEF TypeOK
  <2>2. UNCHANGED <<netfd, empty, unsent, unacked, tmp, cur, i, conn, wire, backlog, user, sent>>
    BY DEF Deliver, chans, network
  <2>3. lastacked'[f] = lastacked[f] /\ inmsg'[f] = inmsg[f]
    BY <1>0, <2>1 DEF Deliver, Set
  <2>4. main'[f] = main[f] /\ net'[f] = net[f] /\ got'[f] = got[f]
    BY <1>0, <2>1 DEF Deliver, Set
  <2> QED BY <2>2, <2>3, <2>4 DEF Untouched
<1>4. /\ ~Over(e) /\ net[e] = "ack" /\ i[e] = cur[e].acked - lastacked[e]
      /\ unacked' = unacked /\ tmp' = tmp /\ unsent' = unsent /\ empty' = empty
      /\ cur' = cur /\ i' = i /\ user' = user /\ sent' = sent
      /\ lastacked'[e] = cur[e].acked /\ inmsg'[e] = inmsg[e] + 1
      /\ \/ /\ got'[e] = Append(got[e], cur[e].data) /\ net'[e] = "poll" /\ main'[e] = main[e]
         \/ main'[e] = "exit" /\ got'[e] = got[e] /\ net'[e] = "ack"
  BY <1>1 DEF Deliver, acked, TypeOK, Set, chans
<1>5. TypeOK'
  <2>1. /\ lastacked \in [End -> Nat] /\ inmsg \in [End -> Nat] /\ got \in [End -> Seq(Nat)]
        /\ inmsg[e] + 1 \in Nat /\ Append(got[e], cur[e].data) \in Seq(Nat)
    <3>1. lastacked \in [End -> Nat] /\ inmsg \in [End -> Nat] /\ got \in [End -> Seq(Nat)]
      BY <1>1 DEF TypeOK
    <3>2. inmsg[e] + 1 \in Nat /\ Append(got[e], cur[e].data) \in Seq(Nat)
      BY <1>2, AppendOrder
    <3> QED BY <3>1, <3>2
  <2>2. lastacked' \in [End -> Nat] /\ inmsg' \in [End -> Nat] /\ got' \in [End -> Seq(Nat)]
    BY <1>2, <2>1 DEF Deliver, Set
  <2>3. /\ main' \in [End -> {"dial", "sync", "alt", "dead", "exit", "abort"}]
        /\ net' \in [End -> {"poll", "ack", "recv", "stuck", "gone"}]
    BY <1>1 DEF Deliver, TypeOK, Set
  <2> QED BY <1>1, <2>2, <2>3 DEF Deliver, TypeOK, chans, network
<1>6. CASE main'[e] = "exit" /\ got'[e] = got[e] /\ net'[e] = "ack"
  <2>1. /\ Over(e)' /\ Reading(f)' = Reading(f) /\ Expect(f)' = Expect(f)
        /\ Live(f)' = Live(f) /\ OnWay(f)' = OnWay(f)
        /\ Written(f)' = Written(f) /\ Written(e)' = Written(e)
        /\ Messages(e)' = Messages(e) /\ ~Reading(e)'
    <3>1. Reading(f)' = Reading(f) /\ Expect(f)' = Expect(f)
      BY <1>0, <1>3, Views
    <3>2. Over(e)' /\ ~Reading(e)'
      BY <1>6 DEF Over, Reading
    <3>3. /\ Live(f)' = Live(f) /\ OnWay(f)' = OnWay(f)
          /\ Written(f)' = Written(f) /\ Written(e)' = Written(e)
          /\ Messages(e)' = Messages(e)
      BY <1>3, <1>4 DEF Live, OnWay, Written, Messages
    <3> QED BY <3>1, <3>2, <3>3
  <2>2. Expect(e) <= Expect(e)'
    BY <1>2, <1>4, <1>6 DEF Expect, Pending
  <2>3. /\ Count(got[e]) <= Count(got'[e]) /\ Count(got[f]) <= Count(got'[f])
        /\ sent[e] <= sent'[e] /\ sent[f] <= sent'[f]
    <3>1. got'[e] = got[e] /\ got'[f] = got[f] /\ sent'[e] = sent[e] /\ sent'[f] = sent[f]
      BY <1>3, <1>4, <1>6 DEF Untouched
    <3>2. \A x \in Nat : x <= x
      OBVIOUS
    <3> QED BY <1>2, <3>1, <3>2, Zenon
  <2>4. EndInv(f)'
    BY <1>0, <1>1, <1>3, <1>4, <1>5, <2>1, <2>2, <2>3, Bystander
  <2>5. KeptInv(e)' /\ KnownInv(e)' /\ WireInv(e)' /\ LiveInv(e)'
    BY <2>1 DEF KeptInv, KnownInv, WireInv, LiveInv
  <2>6. MineInv(e)' /\ AckInv(e)'
    BY <1>1, <1>4, <1>5, <2>1, <2>3, MineKept, AckKept DEF EndInv
  <2>7. GotInv(e)'
    BY <1>1, <1>4, <1>6, <2>1 DEF EndInv, GotInv
  <2>8. NetInv'
    <3>1. \A d \in End : Over(d) => Over(d)'
      BY <1>0, <1>3, <2>1 DEF Over, Untouched
    <3>2. \A d \in End : main'[d] = "dial" => main[d] = "dial"
      BY <1>0, <1>3, <1>6 DEF Untouched
    <3> QED BY <1>1, <1>3, <3>1, <3>2, NetKept
  <2> QED BY <1>0, <1>5, <2>4, <2>5, <2>6, <2>7, <2>8 DEF IInv, EndInv
<1>7. CASE got'[e] = Append(got[e], cur[e].data) /\ net'[e] = "poll" /\ main'[e] = main[e]
  <2>1. /\ Over(e)' = Over(e) /\ Reading(f)' = Reading(f) /\ Expect(f)' = Expect(f)
        /\ Wrote(e)' = Wrote(e) /\ ~Pending(e)'
        /\ Live(f)' = Live(f) /\ OnWay(f)' = OnWay(f)
        /\ Live(e)' = Live(e) /\ OnWay(e)' = OnWay(e)
        /\ Written(f)' = Written(f) /\ Written(e)' = Written(e)
        /\ Messages(e)' = Messages(e) /\ (Reading(e)' => Reading(e))
    <3>1. Reading(f)' = Reading(f) /\ Expect(f)' = Expect(f)
      BY <1>0, <1>3, Views
    <3>2. Over(e)' = Over(e) /\ Wrote(e)' = Wrote(e) /\ ~Pending(e)'
      BY <1>4, <1>7 DEF Over, Wrote, Pending
    <3>3. Reading(e)' => Reading(e)
      BY <1>4, <1>7 DEF Over, Reading
    <3>4. /\ Live(f)' = Live(f) /\ OnWay(f)' = OnWay(f)
          /\ Live(e)' = Live(e) /\ OnWay(e)' = OnWay(e)
          /\ Written(f)' = Written(f) /\ Written(e)' = Written(e)
          /\ Messages(e)' = Messages(e)
      BY <1>3, <1>4 DEF Live, OnWay, Written, Messages
    <3> QED BY <3>1, <3>2, <3>3, <3>4
  <2>2. /\ Expect(e)' = Expect(e) /\ Base(e)' = Base(e) /\ Known(e)' = Known(e)
    <3>1. Pending(e)
      BY <1>4 DEF Pending
    <3>2. ~Pending(e)'
      BY <1>7 DEF Pending
    <3>3. inmsg[e] \in Nat /\ lastacked[e] \in Nat /\ cur[e].acked \in Nat
      BY <1>2
    <3>4. /\ i[e] = cur[e].acked - lastacked[e] /\ lastacked'[e] = cur[e].acked
          /\ inmsg'[e] = inmsg[e] + 1
      BY <1>4
    <3>5. Expect(e)' = Expect(e)
      BY <3>1, <3>2, <3>3, <3>4 DEF Expect
    <3>6. Base(e)' = Base(e)
      BY <3>1, <3>2, <3>3, <3>4 DEF Base
    <3>7. Known(e)' = Known(e)
      BY <3>1, <3>2, <3>4 DEF Known
    <3> QED BY <3>5, <3>6, <3>7
  <2>3. NextMsg(e)' = NextMsg(e)
    BY <1>4, <1>7, <2>2 DEF NextMsg
  <2>4. Count(got'[e]) = Count(got[e]) + 1
    BY <1>2, <1>7, AppendOrder DEF Count
  <2>5. /\ Count(got[e]) <= Count(got'[e]) /\ Count(got[f]) <= Count(got'[f])
        /\ sent[e] <= sent'[e] /\ sent[f] <= sent'[f]
        /\ Expect(e) <= Expect(e)' /\ Expect(f) <= Expect(f)'
    <3>1. got'[f] = got[f] /\ sent'[e] = sent[e] /\ sent'[f] = sent[f]
      BY <1>3, <1>4 DEF Untouched
    <3>2. /\ Count(got[e]) \in Nat /\ Count(got[f]) \in Nat
          /\ sent[e] \in Nat /\ sent[f] \in Nat
          /\ Expect(e) \in Nat /\ Expect(f) \in Nat
      BY <1>2
    <3> QED BY <2>1, <2>2, <2>4, <3>1, <3>2
  <2>6. EndInv(f)'
    BY <1>0, <1>1, <1>3, <1>4, <1>5, <2>1, <2>5, Bystander
  <2>7. KeptInv(e)'
    BY <1>1, <1>4, <1>7, <2>1, <2>2, KeptKept DEF EndInv
  <2>8. MineInv(e)' /\ AckInv(e)'
    BY <1>1, <1>4, <1>5, <2>1, <2>5, MineKept, AckKept DEF EndInv
  <2>9. KnownInv(e)'
    BY <1>0, <1>1, <1>5, <2>1, <2>2, <2>5, KnownKept DEF EndInv
  <2>10. GotInv(e)'
    <3>1. /\ cur[e].data = cur[e].msg + 1 /\ cur[e].msg < sent[f]
          /\ cur[e].msg = inmsg[e] /\ inmsg[e] = Count(got[e])
      BY <1>1, <1>4 DEF EndInv, KnownInv, GotInv, Pending, Mine
    <3>2. \A k \in 1..Count(got'[e]) : got'[e][k] = k
      <4>1. \A k \in 1..Len(got[e]) : got[e][k] = k
        BY <1>1 DEF EndInv, GotInv, Count
      <4>2. /\ \A k \in 1..Len(got[e]) : got'[e][k] = got[e][k]
            /\ got'[e][Len(got[e]) + 1] = cur[e].data
            /\ Len(got'[e]) = Len(got[e]) + 1
        BY <1>2, <1>7, AppendOrder
      <4>3. cur[e].data = Len(got[e]) + 1
        BY <3>1 DEF Count
      <4>4. \A k \in 1..Len(got[e]) + 1 : k \in 1..Len(got[e]) \/ k = Len(got[e]) + 1
        BY <1>2 DEF Count
      <4> QED BY <4>1, <4>2, <4>3, <4>4 DEF Count
    <3>3. Count(got'[e]) <= sent'[f] /\ inmsg'[e] = Count(got'[e])
      <4>1. sent'[f] = sent[f] /\ inmsg'[e] = inmsg[e] + 1
        BY <1>4
      <4> QED BY <1>2, <2>4, <3>1, <4>1
    <3> QED BY <1>7, <3>2, <3>3 DEF GotInv
  <2>11. WireInv(e)'
    BY <1>1, <1>3, <1>5, <2>1, <2>5, WireKept DEF EndInv
  <2>12. LiveInv(e)'
    BY <1>0, <1>1, <1>4, <1>5, <1>7, <2>1, <2>3, <2>5, LiveKept, OnWayKind DEF EndInv
  <2>13. NetInv'
    <3>1. \A d \in End : (Over(d) => Over(d)') /\ main'[d] = main[d]
      BY <1>0, <1>3, <1>7, <2>1 DEF Over, Untouched
    <3> QED BY <1>1, <1>3, <3>1, NetKept
  <2> QED BY <1>0, <1>5, <2>6, <2>7, <2>8, <2>9, <2>10, <2>11, <2>12, <2>13 DEF IInv, EndInv
<1> QED BY <1>4, <1>6, <1>7

-----------------------------------------------------------------------------
(* fromnet takes the oldest message from unacked: the one acknowledged, or *)
(* the instance aborts.                                                    *)
LEMMA AckStep ==
  ASSUME IInv, NEW e \in End, Ack(e)
  PROVE  IInv'
<1> DEFINE f == Peer(e)
<1>0. f \in End /\ f # e /\ e = Peer(f) /\ \A d \in End : d = e \/ d = f
  BY PeerOf
<1>1. TypeOK /\ NetInv /\ EndInv(e) /\ EndInv(f)
  BY <1>0 DEF IInv
<1>2. /\ Base(e) \in Nat /\ Known(e) \in Nat /\ Expect(e) \in Nat /\ sent[e] \in Nat
      /\ Count(got[e]) \in Nat /\ Count(got[f]) \in Nat /\ sent[f] \in Nat
      /\ Expect(f) \in Nat /\ lastacked[e] \in Nat /\ i[e] \in Nat /\ inmsg[f] \in Nat
      /\ Count(tmp[e]) \in Nat /\ Count(unacked[e]) \in Nat /\ Count(unsent[e]) \in Nat
      /\ empty[e] \in Nat
  BY <1>0, <1>1, Kinds
<1>3. unacked[e] \in Seq(Message) /\ tmp[e] \in Seq(Message)
  BY <1>1, Kinds
<1>4. cur[e].acked \in Nat
  <2>1. cur[e] \in Message
    BY <1>1, Kinds
  <2> QED BY <2>1 DEF Message
<1>5. /\ main \in [End -> {"dial", "sync", "alt", "dead", "exit", "abort"}]
      /\ net \in [End -> {"poll", "ack", "recv", "stuck", "gone"}]
      /\ unacked \in [End -> Seq(Message)] /\ empty \in [End -> 0..Nbuf]
      /\ i \in [End -> Nat]
  BY <1>1 DEF TypeOK
<1>6. /\ net[e] \in {"ack", "recv"} /\ i[e] # cur[e].acked - lastacked[e]
       /\ unacked[e] # <<>> /\ ~Over(e)
       /\ unacked' = [unacked EXCEPT ![e] = Tail(unacked[e])]
       /\ netfd' = netfd /\ tmp' = tmp /\ unsent' = unsent /\ cur' = cur
       /\ inmsg' = inmsg /\ lastacked' = lastacked /\ conn' = conn /\ wire' = wire
       /\ backlog' = backlog /\ user' = user /\ sent' = sent /\ got' = got
       /\ \/ /\ main' = [main EXCEPT ![e] = "abort"]
             /\ net' = net /\ empty' = empty /\ i' = i
          \/ /\ Head(unacked[e]).msg = lastacked[e] + i[e]
             /\ empty' = [empty EXCEPT ![e] = empty[e] + 1]
             /\ i' = [i EXCEPT ![e] = i[e] + 1]
             /\ net' = [net EXCEPT ![e] = "ack"] /\ main' = main
  BY DEF Ack, acked, Set, network, ends
<1>7. Untouched(f) /\ wire' = wire /\ backlog' = backlog /\ conn' = conn /\ netfd' = netfd
  <2>1. main'[f] = main[f] /\ net'[f] = net[f] /\ empty'[f] = empty[f] /\ i'[f] = i[f]
    BY <1>0, <1>5, <1>6
  <2>2. unacked'[f] = unacked[f]
    BY <1>0, <1>5, <1>6
  <2> QED BY <1>6, <2>1, <2>2 DEF Untouched
<1>8. /\ Pending(e) /\ unacked'[e] = Tail(unacked[e])
      /\ \/ main'[e] = "abort" /\ net' = net /\ empty' = empty /\ i' = i
         \/ /\ Head(unacked[e]).msg = lastacked[e] + i[e] /\ main' = main
            /\ empty'[e] = empty[e] + 1 /\ i'[e] = i[e] + 1 /\ net'[e] = "ack"
  <2>1. Pending(e) /\ unacked'[e] = Tail(unacked[e])
    BY <1>5, <1>6 DEF Pending
  <2>2. CASE main' = [main EXCEPT ![e] = "abort"] /\ net' = net /\ empty' = empty /\ i' = i
    BY <1>5, <2>1, <2>2
  <2>3. CASE /\ Head(unacked[e]).msg = lastacked[e] + i[e] /\ main' = main
             /\ empty' = [empty EXCEPT ![e] = empty[e] + 1]
             /\ i' = [i EXCEPT ![e] = i[e] + 1] /\ net' = [net EXCEPT ![e] = "ack"]
    BY <1>5, <2>1, <2>3
  <2> QED BY <1>6, <2>2, <2>3
<1>9. /\ Tail(unacked[e]) \in Seq(Message) /\ Count(unacked'[e]) = Count(unacked[e]) - 1
      /\ Count(unacked[e]) >= 1 /\ Elems(unacked'[e]) \subseteq Elems(unacked[e])
      /\ Head(unacked[e]).msg = Base(e) + Count(tmp[e])
      /\ Numbered(unacked'[e], Base(e) + Count(tmp[e]) + 1)
  <2>1. Numbered(unacked[e], Base(e) + Count(tmp[e])) /\ Base(e) + Count(tmp[e]) \in Int
    BY <1>1, <1>2, <1>6, <1>8 DEF EndInv, KeptInv
  <2>2. /\ Tail(unacked[e]) \in Seq(Message)
        /\ Count(Tail(unacked[e])) = Count(unacked[e]) - 1
        /\ Count(unacked[e]) \in Nat \ {0}
        /\ Elems(Tail(unacked[e])) \subseteq Elems(unacked[e])
        /\ \A n \in Int : Numbered(unacked[e], n) =>
              Head(unacked[e]).msg = n /\ Numbered(Tail(unacked[e]), n + 1)
    BY <1>3, <1>6, Taken
  <2>3. /\ Head(unacked[e]).msg = Base(e) + Count(tmp[e])
        /\ Numbered(Tail(unacked[e]), Base(e) + Count(tmp[e]) + 1)
    BY <2>1, <2>2
  <2>4. Count(unacked[e]) >= 1
    BY <2>2
  <2> QED BY <1>6, <1>8, <2>2, <2>3, <2>4
<1>10. Count(unacked'[e]) = Count(unacked[e]) - 1 /\ Count(unacked[e]) >= 1
  BY <1>9
<1>11. TypeOK'
  <2>1. unacked' \in [End -> Seq(Message)]
    BY <1>5, <1>6, <1>8, <1>9
  <2>2. /\ main' \in [End -> {"dial", "sync", "alt", "dead", "exit", "abort"}]
        /\ net' \in [End -> {"poll", "ack", "recv", "stuck", "gone"}]
    BY <1>5 DEF Ack, Set
  <2>3. empty' \in [End -> 0..Nbuf] /\ i' \in [End -> Nat]
    <3>1. Nbuf \in Nat
      BY AanAssumption
    <3>2. empty[e] + Count(tmp[e]) + Count(unacked[e]) + Count(unsent[e]) = Nbuf
      BY <1>1, <1>6, <1>8 DEF EndInv, KeptInv
    <3>3. empty[e] + 1 \in 0..Nbuf /\ i[e] + 1 \in Nat
      <4>1. empty[e] + 1 <= Nbuf
        BY <1>2, <1>10, <3>2
      <4> QED BY <1>2, <3>1, <4>1
    <3>4. CASE empty' = empty /\ i' = i
      BY <1>5, <3>4
    <3>5. CASE empty' = [empty EXCEPT ![e] = empty[e] + 1] /\ i' = [i EXCEPT ![e] = i[e] + 1]
      BY <1>5, <3>3, <3>5
    <3> QED BY <1>6, <3>4, <3>5
  <2>4. UNCHANGED <<netfd, done, unsent, tmp, inmsg, lastacked, cur, conn, wire, backlog,
                    breaks, user, sent, got>>
    BY DEF Ack, network, ends
  <2>5. /\ \A c \in {unsent', unacked', tmp'} : c \in [End -> Seq(Message)]
        /\ user' \in [End -> {"off", "on", "ended"}]
        /\ netfd' \in [End -> BOOLEAN] /\ done' \in [End -> BOOLEAN]
        /\ inmsg' \in [End -> Nat] /\ lastacked' \in [End -> Nat] /\ cur' \in [End -> Message]
        /\ conn' \in {"half", "up", "down"}
        /\ wire' \in [End -> Seq(Message)] /\ backlog' \in Seq(Message)
        /\ breaks' \in 0..MaxBreaks
        /\ sent' \in [End -> Nat] /\ got' \in [End -> Seq(Nat)]
    BY <1>1, <2>1, <2>4 DEF TypeOK
  <2> QED BY <2>2, <2>3, <2>5 DEF TypeOK
<1>12. Pending(e)' /\ Known(e)' = Known(e) /\ Expect(e)' = Expect(e) /\ Wrote(e)' = Wrote(e)
  BY <1>6, <1>8 DEF Pending, Known, Expect, Wrote
<1>13. (Over(e) => Over(e)') /\ (Reading(e)' => Reading(e))
  BY <1>6, <1>8 DEF Over, Reading, Pending
<1>14. /\ Expect(f)' = Expect(f) /\ Over(f)' = Over(f) /\ Reading(f)' = Reading(f)
  BY <1>0, <1>7, Views
<1>15. /\ Written(e)' \subseteq Written(e) /\ Messages(e)' \subseteq Messages(e)
       /\ Written(f)' = Written(f)
  BY <1>6, <1>7, <1>8, <1>9 DEF Written, Messages, Untouched
<1>16. /\ Live(e)' = Live(e) /\ OnWay(e)' = OnWay(e)
       /\ Live(f)' = Live(f) /\ OnWay(f)' = OnWay(f)
  BY <1>7 DEF Live, OnWay
<1>17. /\ Count(got[e]) <= Count(got'[e]) /\ Count(got[f]) <= Count(got'[f])
       /\ sent[e] <= sent'[e] /\ sent[f] <= sent'[f]
       /\ Expect(e) <= Expect(e)' /\ Expect(f) <= Expect(f)'
  <2>1. got' = got /\ sent' = sent
    BY <1>6, <1>8
  <2>2. \A x \in Nat : x <= x
    OBVIOUS
  <2> QED BY <1>2, <1>12, <1>14, <2>1, <2>2, Zenon
<1>18. NetInv'
  <2>1. \A d \in End : Over(d) => Over(d)'
    BY <1>0, <1>13, <1>14
  <2>2. \A d \in End : main'[d] = "dial" => main[d] = "dial"
    BY <1>0, <1>6, <1>7, <1>8 DEF Untouched
  <2> QED BY <1>1, <1>7, <2>1, <2>2, NetKept
<1>19. EndInv(f)'
  BY <1>0, <1>1, <1>6, <1>7, <1>8, <1>11, <1>12, <1>13, <1>15, <1>16, <1>17, Bystander
<1>20. MineInv(e)' /\ AckInv(e)'
  BY <1>1, <1>6, <1>8, <1>11, <1>15, <1>17, MineKept, AckKept DEF EndInv
<1>21. GotInv(e)'
  <2>1. net'[e] = "gone" => net[e] = "gone"
    BY <1>12 DEF Pending
  <2> QED BY <1>0, <1>1, <1>6, <1>8, <1>11, <1>13, <1>17, <2>1, GotKept DEF EndInv
<1>22. WireInv(e)'
  BY <1>1, <1>7, <1>11, <1>13, <1>17, WireKept DEF EndInv
<1>23. CASE main'[e] = "abort"
  <2>1. KeptInv(e)' /\ KnownInv(e)' /\ LiveInv(e)'
    BY <1>23 DEF KeptInv, KnownInv, LiveInv, Over
  <2> QED BY <1>0, <1>11, <1>18, <1>19, <1>20, <1>21, <1>22, <2>1 DEF IInv, EndInv
<1>24. CASE /\ Head(unacked[e]).msg = lastacked[e] + i[e] /\ main' = main
            /\ empty'[e] = empty[e] + 1 /\ i'[e] = i[e] + 1 /\ net'[e] = "ack"
  <2>1. Base(e) = lastacked[e] + i[e] /\ Base(e)' = Base(e) + 1
    <3>1. lastacked'[e] = lastacked[e] /\ i'[e] = i[e] + 1
      BY <1>6, <1>24
    <3>2. lastacked[e] + i[e] + 1 = lastacked[e] + (i[e] + 1)
      BY <1>2
    <3> QED BY <1>8, <1>12, <3>1, <3>2 DEF Base
  <2>2. Count(tmp[e]) = 0
    BY <1>2, <1>9, <1>24, <2>1
  <2>3. tmp[e] = <<>> /\ Numbered(tmp[e], Base(e) + 1)
    BY <1>2, <1>3, <2>2, NoneLeft, None
  <2>4. KeptInv(e)'
    <3>1. /\ Numbered(unsent[e], Base(e) + 0 + Count(unacked[e]))
          /\ Base(e) + 0 + Count(unacked[e]) + Count(unsent[e]) = Wrote(e)
          /\ empty[e] + 0 + Count(unacked[e]) + Count(unsent[e]) = Nbuf
      <4>1. /\ Numbered(unsent[e], Base(e) + Count(tmp[e]) + Count(unacked[e]))
            /\ Base(e) + Count(tmp[e]) + Count(unacked[e]) + Count(unsent[e]) = Wrote(e)
            /\ empty[e] + Count(tmp[e]) + Count(unacked[e]) + Count(unsent[e]) = Nbuf
        BY <1>1, <1>6, <1>8 DEF EndInv, KeptInv
      <4>2. Base(e) + Count(tmp[e]) = Base(e) + 0 /\ empty[e] + Count(tmp[e]) = empty[e] + 0
        BY <2>2
      <4> QED BY <4>1, <4>2, Zenon
    <3>2. /\ Base(e) + 0 + 1 = Base(e) + 1 + 0
          /\ Base(e) + 0 + Count(unacked[e]) = Base(e) + 1 + 0 + Count(unacked'[e])
          /\ empty[e] + 0 + Count(unacked[e]) = empty'[e] + 0 + Count(unacked'[e])
      <4>1. empty'[e] = empty[e] + 1
        BY <1>24
      <4> QED BY <1>2, <1>10, <4>1
    <3> QED BY <1>6, <1>8, <1>9, <1>12, <2>1, <2>2, <2>3, <3>1, <3>2 DEF KeptInv
  <2>5. Base(e) + 1 <= Known(e)
    <3>1. Known(e) = cur[e].acked /\ Base(e) <= Known(e)
      BY <1>1, <1>6, <1>8 DEF Known, EndInv, KnownInv
    <3>2. i[e] # cur[e].acked - lastacked[e]
      BY <1>6, <1>8
    <3> QED BY <1>2, <1>4, <2>1, <3>1, <3>2
  <2>6. KnownInv(e)'
    BY <1>1, <1>6, <1>8, <1>12, <1>15, <2>1, <2>5 DEF EndInv, KnownInv, Mine
  <2>7. LiveInv(e)'
    <3>1. CASE main[e] # "sync"
      <4>1. NextMsg(e)' = NextMsg(e)
        BY <1>2, <1>6, <1>8, <1>9, <1>24, <2>1, <3>1 DEF NextMsg
      <4> QED BY <1>0, <1>1, <1>11, <1>13, <1>14, <1>16, <1>17, <1>24, <3>1, <4>1, LiveKept,
                 OnWayKind DEF EndInv
    <3>2. CASE main[e] = "sync"
      <4> SUFFICES ASSUME Live(e), ~Over(e), Reading(f)
                   PROVE  /\ Numbered(OnWay(e), NextMsg(e)' - Count(OnWay(e)))
                          /\ NextMsg(e)' - Count(OnWay(e)) <= Expect(f)
                          /\ Count(OnWay(e)) <= Count(tmp[e])
        BY <1>6, <1>8, <1>14, <1>16, <1>24, <3>2 DEF LiveInv, Over
      <4>1. NextMsg(e)' = Base(e) + 1
        BY <1>2, <1>6, <1>8, <1>24, <2>1, <2>2, <3>2 DEF NextMsg
      <4>2. OnWay(e) \in Seq(Message) /\ Count(OnWay(e)) \in Nat
        BY <1>1, OnWayKind, Counts
      <4>3. Count(OnWay(e)) = 0
        BY <1>1, <2>2, <3>2, <4>2 DEF EndInv, LiveInv
      <4>4. Numbered(OnWay(e), Base(e) + 1 - 0)
        BY <1>2, <4>2, <4>3, NoneLeft, None
      <4>5. Known(e) <= inmsg[f] /\ inmsg[f] <= Expect(f)
        BY <1>0, <1>1, <1>2, <1>6, <1>8, SMTT(30) DEF EndInv, KnownInv, GotInv, Reading, Expect
      <4>6. Base(e) + 1 - 0 <= Expect(f)
        BY <1>2, <2>5, <4>5
      <4>7. Count(OnWay(e)) <= Count(tmp[e])
        BY <2>2, <4>3
      <4>8. NextMsg(e)' - Count(OnWay(e)) = Base(e) + 1 - 0
        BY <1>2, <4>1, <4>3
      <4> QED BY <4>4, <4>6, <4>7, <4>8
    <3> QED BY <3>1, <3>2
  <2> QED BY <1>0, <1>11, <1>18, <1>19, <1>20, <1>21, <1>22, <2>4, <2>6, <2>7 DEF IInv, EndInv
<1> QED BY <1>8, <1>23, <1>24

-----------------------------------------------------------------------------
(* fromnet reads a message: the end of the stream, one it has had, or the  *)
(* one it expects.                                                         *)
LEMMA RecvStep ==
  ASSUME IInv, NEW e \in End, Recv(e)
  PROVE  IInv'
<1> DEFINE f == Peer(e)
<1>1. f \in End /\ f # e /\ e = Peer(f) /\ \A d \in End : d = e \/ d = f
  BY PeerOf
<1>2. TypeOK /\ NetInv /\ EndInv(e) /\ EndInv(f)
  BY <1>1 DEF IInv
<1>3. /\ net \in [End -> {"poll", "ack", "recv", "stuck", "gone"}]
      /\ wire \in [End -> Seq(Message)] /\ done \in [End -> BOOLEAN]
      /\ cur \in [End -> Message] /\ i \in [End -> Nat]
  BY <1>2 DEF TypeOK
<1>4. wire[e] # <<>> /\ wire[e] \in Seq(Message)
  BY <1>3 DEF Recv
<1>5. PICK m \in Message : m = Head(wire[e])
  BY <1>4, Taken
<1>6. /\ net[e] = "poll" /\ ~Over(e) /\ netfd' = netfd
      /\ wire' = [wire EXCEPT ![e] = Tail(wire[e])]
      /\ main' = main /\ chans' = chans /\ inmsg' = inmsg /\ lastacked' = lastacked
      /\ conn' = conn /\ backlog' = backlog /\ ends' = ends
      /\ \/ /\ m.data = Eof /\ net' = [net EXCEPT ![e] = "gone"]
            /\ cur' = cur /\ i' = i
         \/ m.data # Eof /\ m.msg < inmsg[e] /\ net' = net /\ cur' = cur /\ i' = i
         \/ /\ m.data # Eof /\ m.msg >= inmsg[e] /\ net' = [net EXCEPT ![e] = "ack"]
            /\ cur' = [cur EXCEPT ![e] = m] /\ i' = [i EXCEPT ![e] = 0]
  BY <1>5 DEF Recv, Set
<1>7. /\ tmp' = tmp /\ unacked' = unacked /\ unsent' = unsent /\ empty' = empty
      /\ user' = user /\ sent' = sent /\ got' = got
  BY <1>6 DEF chans, ends
<1>8. /\ Base(e) \in Nat /\ Known(e) \in Nat /\ Expect(e) \in Nat /\ sent[e] \in Nat
      /\ Count(got[e]) \in Nat /\ Count(got[f]) \in Nat /\ sent[f] \in Nat
      /\ Expect(f) \in Nat /\ lastacked[e] \in Nat /\ inmsg[e] \in Nat
      /\ Count(tmp[f]) \in Nat /\ NextMsg(f) \in Nat
  BY <1>1, <1>2, Kinds
<1>9. /\ wire'[e] = Tail(wire[e]) /\ wire'[f] = wire[f]
      /\ Tail(wire[e]) \in Seq(Message)
      /\ Count(Tail(wire[e])) = Count(wire[e]) - 1 /\ Count(wire[e]) \in Nat
      /\ m \in Elems(wire[e]) /\ Elems(Tail(wire[e])) \subseteq Elems(wire[e])
      /\ \A n \in Int : Numbered(wire[e], n) => m.msg = n /\ Numbered(Tail(wire[e]), n + 1)
  BY <1>1, <1>3, <1>4, <1>5, <1>6, Taken
<1>10. Untouched(f)
  BY <1>1, <1>3, <1>6, <1>7 DEF Untouched
<1>11. TypeOK'
  <2>1. wire' \in [End -> Seq(Message)]
    BY <1>3, <1>6, <1>9
  <2>2. net' \in [End -> {"poll", "ack", "recv", "stuck", "gone"}]
    BY <1>3, <1>6
  <2>3. cur' \in [End -> Message] /\ i' \in [End -> Nat]
    BY <1>3, <1>6
  <2>4. done' \in [End -> BOOLEAN]
    BY <1>3 DEF Recv, Set
  <2> QED BY <1>2, <2>1, <2>2, <2>3, <2>4 DEF Recv, TypeOK, chans, ends
<1>12. m.data \in Nat /\ m.msg \in Nat /\ m.acked \in Nat
  BY DEF Message
(* What is known of the message. *)
<1>13. m \in Written(f) /\ Mine(f, m) /\ m.acked <= Count(got[f])
  BY <1>1, <1>2, <1>9 DEF Written, Messages, EndInv, MineInv, AckInv
<1>14. m.msg <= inmsg[e] /\ Expect(e) = inmsg[e] /\ ~Pending(e) /\ Reading(e)
       /\ inmsg[e] = Count(got[e]) /\ Count(got[e]) <= sent[f]
  <2>1. ~Pending(e) /\ Reading(e) /\ Expect(e) = inmsg[e]
    BY <1>6, <1>8 DEF Pending, Reading, Expect
  <2>2. PICK b \in Int : b <= Expect(e) /\ Numbered(wire[e], b)
    BY <1>2, <2>1 DEF EndInv, WireInv, Feeds
  <2>3. m.msg = b
    BY <1>9, <2>2
  <2> QED BY <1>2, <1>6, <2>1, <2>2, <2>3 DEF EndInv, GotInv
<1>15. \E b \in Int : b <= m.msg /\ Numbered(wire'[e], b + 1)
  <2>1. PICK b \in Int : Numbered(wire[e], b)
    BY <1>2, <1>14 DEF EndInv, WireInv, Feeds
  <2>2. m.msg = b /\ Numbered(wire'[e], b + 1)
    BY <1>9, <2>1
  <2> QED BY <2>2
<1>16. /\ Written(e)' = Written(e) /\ Messages(e)' = Messages(e)
       /\ Written(f)' \subseteq Written(f)
  BY <1>1, <1>6, <1>7, <1>9 DEF Written, Messages
<1>17. /\ Over(e)' = Over(e) /\ Over(f)' = Over(f) /\ Reading(f)' = Reading(f)
       /\ Expect(f)' = Expect(f) /\ NextMsg(f)' = NextMsg(f) /\ Known(f)' = Known(f)
       /\ Base(f)' = Base(f) /\ Pending(f)' = Pending(f)
       /\ Live(e)' = Live(e) /\ OnWay(e)' = OnWay(e) /\ Live(f)' = Live(f)
       /\ Wrote(e)' = Wrote(e) /\ (Reading(e)' => Reading(e))
  <2>1. /\ Over(f)' = Over(f) /\ Reading(f)' = Reading(f) /\ Known(f)' = Known(f)
        /\ Expect(f)' = Expect(f) /\ NextMsg(f)' = NextMsg(f)
        /\ Base(f)' = Base(f) /\ Pending(f)' = Pending(f)
    BY <1>1, <1>10, Views
  <2>2. Over(e)' = Over(e) /\ Wrote(e)' = Wrote(e)
    BY <1>6, <1>7 DEF Over, Wrote
  <2>3. /\ Live(e)' = Live(e) /\ OnWay(e)' = OnWay(e) /\ Live(f)' = Live(f)
    BY <1>6, <1>9 DEF Live, OnWay
  <2> QED BY <1>14, <2>1, <2>2, <2>3
<1>18. /\ Count(got[e]) <= Count(got'[e]) /\ Count(got[f]) <= Count(got'[f])
       /\ sent[e] <= sent'[e] /\ sent[f] <= sent'[f] /\ Expect(f) <= Expect(f)'
  <2>1. \A x \in Nat : x <= x
    OBVIOUS
  <2> QED BY <1>7, <1>8, <1>17, <2>1, Zenon
(* The end of the stream leaves no one to read; otherwise at most one more *)
(* message is expected.                                                    *)
<1>19. /\ Base(e)' = Base(e)
       /\ \/ m.data = Eof /\ net'[e] = "gone" /\ ~Pending(e)' /\ Known(e)' = Known(e)
             /\ Expect(e)' = Expect(e)
          \/ m.data # Eof /\ m.msg < inmsg[e] /\ net'[e] = "poll" /\ ~Pending(e)'
             /\ Known(e)' = Known(e) /\ Expect(e)' = Expect(e)
          \/ m.data # Eof /\ m.msg = inmsg[e] /\ net'[e] = "ack" /\ Pending(e)'
             /\ Known(e)' = m.acked /\ Expect(e)' = inmsg[e] + 1 /\ cur'[e] = m
  <2>1. CASE m.data = Eof /\ net' = [net EXCEPT ![e] = "gone"] /\ cur' = cur /\ i' = i
    BY <1>3, <1>6, <1>14, <2>1 DEF Base, Known, Expect, Pending
  <2>2. CASE m.data # Eof /\ m.msg < inmsg[e] /\ net' = net /\ cur' = cur /\ i' = i
    BY <1>3, <1>6, <1>14, <2>2 DEF Base, Known, Expect, Pending
  <2>3. CASE /\ m.data # Eof /\ m.msg >= inmsg[e] /\ net' = [net EXCEPT ![e] = "ack"]
             /\ cur' = [cur EXCEPT ![e] = m] /\ i' = [i EXCEPT ![e] = 0]
    <3>1. net'[e] = "ack" /\ cur'[e] = m /\ i'[e] = 0
      BY <1>3, <2>3
    <3>2. m.msg = inmsg[e]
      BY <1>8, <1>12, <1>14, <2>3
    <3>3. lastacked[e] + 0 = lastacked[e]
      BY <1>8
    <3> QED BY <1>6, <1>14, <2>3, <3>1, <3>2, <3>3 DEF Base, Known, Expect, Pending
  <2> QED BY <1>6, <2>1, <2>2, <2>3
<1>20. Expect(e) <= Expect(e)' /\ (Reading(e)' => m.msg + 1 <= Expect(e)')
  BY <1>8, <1>12, <1>14, <1>19 DEF Reading
<1>21. NetInv'
  <2>1. wire["client"] = <<>> => wire'["client"] = <<>>
    BY <1>1, <1>4, <1>9 DEF End
  <2> QED BY <1>2, <1>6, <2>1, NetKept DEF Over
(* The other end. *)
<1>22. KeptInv(f)' /\ MineInv(f)' /\ AckInv(f)' /\ GotInv(f)'
  BY <1>1, <1>2, <1>7, <1>10, <1>11, <1>16, <1>18, Aside
<1>23. KnownInv(f)'
  BY <1>1, <1>2, <1>10, <1>11, <1>16, <1>17, <1>18, KnownKept DEF EndInv, Untouched
<1>24. WireInv(f)'
  BY <1>1, <1>2, <1>6, <1>9, <1>11, <1>17, <1>18, WireKept DEF EndInv
<1>25. LiveInv(f)'
  <2>1. CASE conn = "up"
    <3> SUFFICES ASSUME Live(f)', ~Over(f)', Reading(e)'
                 PROVE  /\ Numbered(Tail(wire[e]), NextMsg(f) - Count(Tail(wire[e])))
                        /\ NextMsg(f) - Count(Tail(wire[e])) <= Expect(e)'
                        /\ main[f] = "sync" => Count(Tail(wire[e])) <= Count(tmp[f])
      BY <1>1, <1>6, <1>7, <1>9, <1>17, <2>1 DEF LiveInv, OnWay
    <3>1. /\ Numbered(wire[e], NextMsg(f) - Count(wire[e]))
          /\ main[f] = "sync" => Count(wire[e]) <= Count(tmp[f])
      BY <1>1, <1>2, <1>14, <1>17, <2>1 DEF EndInv, LiveInv, OnWay
    <3>2. NextMsg(f) - Count(wire[e]) \in Int
      BY <1>8, <1>9
    <3>3. /\ m.msg = NextMsg(f) - Count(wire[e])
          /\ Numbered(Tail(wire[e]), NextMsg(f) - Count(wire[e]) + 1)
      BY <1>9, <3>1, <3>2
    <3>4. Count(Tail(wire[e])) = Count(wire[e]) - 1 /\ Count(wire[e]) \in Nat
      BY <1>9
    <3>5. NextMsg(f) - Count(wire[e]) + 1 = NextMsg(f) - Count(Tail(wire[e]))
      BY <1>8, <3>4
    <3>6. NextMsg(f) - Count(Tail(wire[e])) <= Expect(e)'
      BY <1>20, <3>3, <3>5
    <3>7. main[f] = "sync" => Count(Tail(wire[e])) <= Count(tmp[f])
      <4>1. Count(wire[e]) <= Count(tmp[f]) => Count(wire[e]) - 1 <= Count(tmp[f])
        BY <1>8, <3>4
      <4> QED BY <3>1, <3>4, <4>1
    <3> QED BY <3>3, <3>5, <3>6, <3>7
  <2>2. CASE conn # "up"
    <3>1. OnWay(f)' = OnWay(f)
      BY <1>6, <2>2 DEF OnWay
    <3> QED BY <1>1, <1>2, <1>7, <1>10, <1>11, <1>17, <1>20, <3>1, LiveKept, OnWayKind
            DEF EndInv, Untouched
  <2> QED BY <2>1, <2>2
<1>26. EndInv(f)'
  BY <1>22, <1>23, <1>24, <1>25 DEF EndInv
(* This end. *)
<1>27. KeptInv(e)'
  BY <1>2, <1>6, <1>7, <1>17, <1>19, KeptKept DEF EndInv
<1>28. MineInv(e)' /\ AckInv(e)'
  BY <1>2, <1>7, <1>11, <1>16, <1>18, MineKept, AckKept DEF EndInv
<1>29. KnownInv(e)'
  <2>1. CASE ~Pending(e)'
    BY <1>1, <1>2, <1>11, <1>16, <1>17, <1>18, <1>19, <2>1, KnownKept DEF EndInv
  <2>2. CASE Pending(e)'
    <3>1. /\ m.data # Eof /\ m.msg = inmsg[e] /\ Known(e)' = m.acked
          /\ Expect(e)' = inmsg[e] + 1 /\ cur'[e] = m
      BY <1>19, <2>2
    <3>2. m.acked >= Known(e) /\ Base(e) <= Known(e)
      <4>1. m.msg >= Expect(e)
        BY <1>8, <1>14, <3>1
      <4> QED BY <1>2, <1>6, <1>13, <4>1 DEF EndInv, KnownInv
    <3>3. Base(e)' <= Known(e)' /\ Known(e)' <= Count(got'[f])
      BY <1>7, <1>8, <1>12, <1>13, <1>19, <3>1, <3>2
    <3>4. \A n \in Written(f)' : n.msg >= Expect(e)' => n.acked >= Known(e)'
      <4>1. \A n \in Written(f) : n.msg \in Nat /\ n.acked \in Nat
        BY <1>1, <1>2, WrittenKind DEF Messages
      <4>2. \A n \in Written(f) : n.msg >= inmsg[e] + 1 => m.msg <= n.msg
        BY <1>8, <3>1, <4>1
      <4>3. \A n \in Written(f) : m.msg <= n.msg => n.acked >= m.acked
        BY <1>2, <1>12, <1>13, <4>1 DEF EndInv, AckInv
      <4> QED BY <1>16, <3>1, <4>2, <4>3
    <3>5. Mine(f, cur[e])'
      BY <1>7, <1>13, <3>1 DEF Mine
    <3> QED BY <1>6, <3>1, <3>3, <3>4, <3>5 DEF KnownInv
  <2> QED BY <2>1, <2>2
<1>30. GotInv(e)'
  <2>1. CASE net'[e] = "gone"
    <3>1. m.data = Eof
      BY <1>19, <2>1
    <3>2. m.msg = sent[f] /\ user[f] = "ended"
      BY <1>12, <1>13, <3>1 DEF Mine, Eof
    <3>3. Count(got[e]) = sent[f]
      BY <1>8, <1>14, <3>2
    <3> QED BY <1>2, <1>6, <1>7, <1>17, <3>2, <3>3 DEF EndInv, GotInv
  <2>2. CASE net'[e] # "gone"
    BY <1>1, <1>2, <1>6, <1>7, <1>11, <1>17, <1>18, <2>2, GotKept DEF EndInv
  <2> QED BY <2>1, <2>2
<1>31. WireInv(e)'
  <2>4. Reading(e) /\ conn' = "half" /\ e = "server" => Feeds(backlog', Expect(e)')
    <3>1. Reading(e) /\ conn = "half" /\ e = "server" => Feeds(backlog, Expect(e))
      BY <1>2 DEF EndInv, WireInv
    <3>2. Expect(e)' \in Nat
      BY <1>11, KindsNext
    <3>3. \A b \in Int : b <= Expect(e) => b <= Expect(e)'
      BY <1>8, <1>20, <3>2
    <3> QED BY <1>6, <3>1, <3>3 DEF Feeds
  <2> SUFFICES ASSUME Reading(e)' PROVE Feeds(wire'[e], Expect(e)')
    BY <1>17, <2>4 DEF WireInv, Feeds
  <2>1. PICK b \in Int : b <= m.msg /\ Numbered(wire'[e], b + 1)
    BY <1>15
  <2>2. Expect(e)' \in Nat
    BY <1>11, KindsNext
  <2>3. b + 1 \in Int /\ b + 1 <= Expect(e)'
    BY <1>12, <1>20, <2>1, <2>2
  <2> QED BY <2>1, <2>3 DEF Feeds
<1>32. LiveInv(e)'
  <2>1. NextMsg(e)' = NextMsg(e)
    BY <1>6, <1>7, <1>19 DEF NextMsg
  <2> QED BY <1>1, <1>2, <1>6, <1>7, <1>11, <1>17, <1>18, <2>1, LiveKept, OnWayKind DEF EndInv
<1> QED BY <1>1, <1>11, <1>21, <1>26, <1>27, <1>28, <1>29, <1>30, <1>31, <1>32 DEF IInv, EndInv


-----------------------------------------------------------------------------
(* Where a message main writes goes, *)
LEMMA Put ==
  ASSUME TypeOK, NetInv, NEW e \in End, NEW f \in End, f = Peer(e),
         NEW m \in Message, NEW ok, Write(e, <<m>>, ok), conn' = conn, ~Over(e)
  PROVE  /\ wire' \in [End -> Seq(Message)] /\ backlog' \in Seq(Message)
         /\ wire'[e] = wire[e]
         /\ f = "client" => backlog' = backlog
         /\ ~netfd["client"] \/ conn = "half" => wire'["client"] = <<>>
         /\ \/ /\ Live(e) /\ OnWay(e)' = Append(OnWay(e), m)
               /\ wire'[f] = (IF conn = "up" THEN Append(wire[f], m) ELSE wire[f])
               /\ e = "client" => Elems(backlog') \subseteq Elems(backlog) \cup {m}
            \/ /\ ~Over(f) => ~Live(e)
               /\ wire'[f] = wire[f] /\ backlog' = backlog
<1>0. e # f /\ e = Peer(f) /\ \A d \in End : d = e \/ d = f
  BY PeerOf
<1>1. wire \in [End -> Seq(Message)] /\ wire[f] \in Seq(Message) /\ backlog \in Seq(Message)
  BY DEF TypeOK
<1>2. /\ wire[f] \o <<m>> = Append(wire[f], m) /\ Append(wire[f], m) \in Seq(Message)
      /\ backlog \o <<m>> = Append(backlog, m) /\ Append(backlog, m) \in Seq(Message)
      /\ Elems(Append(backlog, m)) = Elems(backlog) \cup {m}
  BY <1>1, Joining, Appended
<1>3. e = "client" \/ f = "client"
  BY DEF End, Peer
<1>4. ~netfd["client"] \/ conn = "half" => wire["client"] = <<>>
  BY DEF NetInv
<1>5. CASE Joined(e) /\ conn = "up"
  <2>1. wire' = [wire EXCEPT ![f] = Append(wire[f], m)] /\ backlog' = backlog
    BY <1>2, <1>5 DEF Write
  <2>2. wire'[f] = Append(wire[f], m) /\ wire'[e] = wire[e]
        /\ wire' \in [End -> Seq(Message)]
    BY <1>0, <1>1, <1>2, <2>1
  <2>3. f = "client" => netfd["client"]
    <3>1. ~netfd[f] /\ ~Over(Peer(f)) => ~Live(f)
      BY DEF NetInv
    <3> QED BY <1>0, <1>5, <3>1 DEF Live
  <2>4. ~netfd["client"] \/ conn = "half" => wire'["client"] = <<>>
    BY <1>3, <1>4, <1>5, <2>2, <2>3
  <2> QED BY <1>1, <1>5, <2>1, <2>2, <2>4 DEF Live, OnWay
<1>6. CASE Joined(e) /\ conn # "up"
  <2>1. wire' = wire /\ backlog' = Append(backlog, m) /\ e = "client" /\ conn = "half"
    BY <1>2, <1>6 DEF Write, Joined
  <2> QED BY <1>0, <1>1, <1>2, <1>4, <1>6, <2>1 DEF Live, OnWay
<1>7. CASE ~Joined(e)
  <2>1. wire' = wire /\ backlog' = backlog
    BY <1>7 DEF Write
  <2>2. ~Over(f) => ~Live(e)
    BY <1>7 DEF Joined, NetInv, Live
  <2> QED BY <1>1, <1>4, <2>1, <2>2
<1> QED BY <1>5, <1>6, <1>7

(* and that it is the one the other end expects to follow. *)
LEMMA Writing ==
  ASSUME NEW e \in End, NEW f \in End, f = Peer(e),
         TypeOK, TypeOK', NetInv, EndInv(e), EndInv(f),
         NEW m \in Message, NEW ok, Write(e, <<m>>, ok),
         ~Over(e), m.msg = NextMsg(e), NextMsg(e)' = NextMsg(e) + 1,
         ~Over(f) /\ m.msg >= Expect(f) => m.acked >= Known(f),
         Untouched(f), conn' = conn, netfd' = netfd,
         main'[e] # "dial",
         main'[e] = "sync" => main[e] = "sync" /\ Count(tmp'[e]) = Count(tmp[e]) + 1,
         Elems(tmp'[e]) \cup Elems(unacked'[e])
           \subseteq Elems(tmp[e]) \cup Elems(unacked[e]) \cup {m},
         net'[e] = net[e], inmsg'[e] = inmsg[e], got'[e] = got[e],
         sent'[e] = sent[e], user'[e] = user[e]
  PROVE  /\ NetInv' /\ EndInv(f)' /\ GotInv(e)' /\ WireInv(e)' /\ LiveInv(e)'
         /\ Written(e)' \subseteq Written(e) \cup {m} /\ Written(f)' \subseteq Written(f)
<1>0. e # f /\ e = Peer(f) /\ \A d \in End : d = e \/ d = f
  BY PeerOf
<1>1. /\ Base(f)' = Base(f) /\ Known(f)' = Known(f) /\ Expect(f)' = Expect(f)
      /\ NextMsg(f)' = NextMsg(f)
      /\ Pending(f)' = Pending(f) /\ Over(f)' = Over(f) /\ Reading(f)' = Reading(f)
  BY Views
<1>2. Expect(e)' = Expect(e) /\ (Reading(e)' => Reading(e))
  BY DEF Expect, Reading, Pending
<1>3. /\ wire'[e] = wire[e]
      /\ f = "client" => backlog' = backlog
      /\ ~netfd["client"] \/ conn = "half" => wire'["client"] = <<>>
      /\ \/ /\ Live(e) /\ OnWay(e)' = Append(OnWay(e), m)
            /\ wire'[f] = (IF conn = "up" THEN Append(wire[f], m) ELSE wire[f])
            /\ e = "client" => Elems(backlog') \subseteq Elems(backlog) \cup {m}
         \/ /\ ~Over(f) => ~Live(e)
            /\ wire'[f] = wire[f] /\ backlog' = backlog
  BY Put
<1>4. Live(e)' = Live(e) /\ Live(f)' = Live(f) /\ (Live(f) => OnWay(f)' = OnWay(f))
  BY <1>0, <1>3 DEF Live, OnWay
<1>5. /\ Expect(e) \in Nat /\ Expect(f) \in Nat /\ NextMsg(e) \in Nat /\ Known(f) \in Nat
      /\ Count(tmp[e]) \in Nat /\ Count(OnWay(e)) \in Nat /\ OnWay(e) \in Seq(Message)
      /\ wire[f] \in Seq(Message) /\ sent[e] \in Nat /\ Count(got[e]) \in Nat
      /\ sent[f] \in Nat /\ Count(got[f]) \in Nat
  BY Kinds, OnWayKind, Counts
<1>6. /\ Expect(e) <= Expect(e)' /\ Expect(f) <= Expect(f)'
      /\ Count(got[e]) <= Count(got'[e]) /\ sent[e] <= sent'[e] /\ sent[f] <= sent'[f]
  BY <1>1, <1>2, <1>5 DEF Untouched
<1>7. /\ Append(OnWay(e), m) \in Seq(Message)
      /\ Count(Append(OnWay(e), m)) = Count(OnWay(e)) + 1
      /\ \A n \in Int : Numbered(OnWay(e), n) /\ m.msg = n + Count(OnWay(e))
                          => Numbered(Append(OnWay(e), m), n)
      /\ Elems(Append(wire[f], m)) = Elems(wire[f]) \cup {m}
  BY <1>5, Appended
<1>8. Written(f)' \subseteq Written(f)
  BY <1>0, <1>3 DEF Written, Untouched
<1>9. Written(e)' \subseteq Written(e) \cup {m}
  <2>1. Elems(wire'[f]) \subseteq Elems(wire[f]) \cup {m}
    BY <1>3, <1>7
  <2>2. e = "client" => Elems(backlog') \subseteq Elems(backlog) \cup {m}
    BY <1>3
  <2> QED BY <2>1, <2>2 DEF Written
<1>10. ASSUME Live(e), ~Over(f), Reading(f)
       PROVE  /\ Numbered(OnWay(e), NextMsg(e) - Count(OnWay(e)))
              /\ NextMsg(e) - Count(OnWay(e)) <= Expect(f)
              /\ Numbered(Append(OnWay(e), m), NextMsg(e) - Count(OnWay(e)))
              /\ NextMsg(e) - Count(OnWay(e)) \in Int
  <2>1. /\ Numbered(OnWay(e), NextMsg(e) - Count(OnWay(e)))
        /\ NextMsg(e) - Count(OnWay(e)) <= Expect(f)
    BY <1>10 DEF EndInv, LiveInv
  <2>2. /\ NextMsg(e) - Count(OnWay(e)) \in Int
        /\ m.msg = NextMsg(e) - Count(OnWay(e)) + Count(OnWay(e))
    BY <1>5
  <2> QED BY <1>7, <2>1, <2>2
<1>11. NetInv'
  <2>1. \A d \in End : ~netfd'[d] /\ ~Over(Peer(d))' => ~Live(d)'
    <3>1. \A d \in End : Live(d)' = Live(d)
      BY <1>0, <1>4
    <3>2. ~Over(e) /\ Over(f)' = Over(f)
      BY <1>1
    <3>3. ~netfd[e] /\ ~Over(f) => ~Live(e)
      BY DEF NetInv
    <3>4. ~netfd[f] => ~Live(f)
      BY <1>0 DEF NetInv
    <3> QED BY <1>0, <3>1, <3>2, <3>3, <3>4
  <2>2. \A d \in End : main'[d] = "dial" => ~netfd'[d]
    BY <1>0 DEF NetInv, Untouched
  <2> QED BY <1>3, <2>1, <2>2 DEF NetInv
<1>12. WireInv(e)'
  <2>1. e = "server" => f = "client"
    BY DEF Peer
  <2> QED BY <1>2, <1>3, <1>6, <2>1, WireKept DEF EndInv
<1>13. GotInv(e)'
  BY <1>0, <1>6, GotKept DEF EndInv, Untouched
<1>14. LiveInv(e)'
  <2> SUFFICES ASSUME Live(e)', ~Over(e)', Reading(f)'
               PROVE  /\ Numbered(OnWay(e)', NextMsg(e)' - Count(OnWay(e)'))
                      /\ NextMsg(e)' - Count(OnWay(e)') <= Expect(f)'
                      /\ main'[e] = "sync" => Count(OnWay(e)') <= Count(tmp'[e])
    BY DEF LiveInv, Numbered, Count
  <2>1. Live(e) /\ ~Over(f) /\ Reading(f)
    BY <1>1, <1>4 DEF Reading
  <2>2. OnWay(e)' = Append(OnWay(e), m)
    BY <1>3, <2>1
  <2>3. NextMsg(e)' - Count(OnWay(e)') = NextMsg(e) - Count(OnWay(e))
    <3>1. Count(OnWay(e)') = Count(OnWay(e)) + 1
      BY <1>7, <2>2
    <3> QED BY <1>5, <3>1
  <2>4. main'[e] = "sync" => Count(OnWay(e)') <= Count(tmp'[e])
    <3>1. main[e] = "sync" => Count(OnWay(e)) <= Count(tmp[e])
      BY <2>1 DEF EndInv, LiveInv
    <3>2. Count(OnWay(e)') = Count(OnWay(e)) + 1
      BY <1>7, <2>2
    <3> QED BY <1>5, <3>1, <3>2
  <2>5. /\ Numbered(Append(OnWay(e), m), NextMsg(e) - Count(OnWay(e)))
        /\ NextMsg(e) - Count(OnWay(e)) <= Expect(f)
    BY <1>10, <2>1
  <2> QED BY <1>1, <2>2, <2>3, <2>4, <2>5
<1>15. KeptInv(f)' /\ MineInv(f)' /\ AckInv(f)' /\ GotInv(f)'
  BY <1>0, <1>6, <1>8, Aside
<1>16. KnownInv(f)'
  <2>1. \A n \in Written(e)' : ~Over(f) /\ n.msg >= Expect(f) => n.acked >= Known(f)
    BY <1>0, <1>9 DEF EndInv, KnownInv
  <2>2. ~Over(f) => Base(f) <= Known(f) /\ Known(f) <= Count(got[e])
    BY <1>0 DEF EndInv, KnownInv
  <2>3. ~Over(f) /\ Pending(f) => /\ Mine(e, cur[f])
                                  /\ cur[f].data # Eof /\ cur[f].msg = inmsg[f]
    BY <1>0 DEF EndInv, KnownInv
  <2>4. Mine(e, cur[f])' = Mine(e, cur[f])
    BY DEF Mine, Untouched
  <2> QED BY <1>0, <1>1, <2>1, <2>2, <2>3, <2>4 DEF KnownInv, Untouched
<1>17. WireInv(f)'
  <2> SUFFICES ASSUME Reading(f)
               PROVE  /\ Feeds(wire'[f], Expect(f))
                      /\ conn = "half" /\ f = "server" => Feeds(backlog', Expect(f))
    BY <1>1 DEF WireInv, Feeds
  <2>1. CASE wire'[f] = wire[f] /\ backlog' = backlog
    BY <2>1 DEF EndInv, WireInv
  <2>2. CASE Live(e) /\ OnWay(e)' = Append(OnWay(e), m)
    <3>1. Feeds(OnWay(e)', Expect(f)) /\ ~Over(f)
      BY <1>10, <2>2 DEF Feeds, Reading
    <3>2. Feeds(wire[f], Expect(f))
      BY DEF EndInv, WireInv
    <3>3. conn = "up" => OnWay(e)' = wire'[f]
      BY DEF OnWay
    <3>4. conn # "up" => OnWay(e)' = backlog' /\ wire'[f] = wire[f]
      BY <1>3, <2>2 DEF OnWay
    <3> QED BY <3>1, <3>2, <3>3, <3>4
  <2> QED BY <1>3, <2>1, <2>2
<1>18. LiveInv(f)'
  BY <1>0, <1>1, <1>2, <1>4, <1>6, LiveKept, OnWayKind DEF EndInv, Untouched
<1> QED BY <1>8, <1>9, <1>11, <1>12, <1>13, <1>14, <1>15, <1>16, <1>17, <1>18 DEF EndInv

-----------------------------------------------------------------------------
(* main writes the next message, which it keeps in unacked; with the end   *)
(* of the stream it is done.                                               *)
LEMMA SendStep ==
  ASSUME IInv, NEW e \in End, Send(e)
  PROVE  IInv'
<1> DEFINE f == Peer(e)
           h == Head(unsent[e])
<1>0. f \in End /\ f # e /\ e = Peer(f) /\ \A d \in End : d = e \/ d = f
  BY PeerOf
<1>1. TypeOK /\ NetInv /\ EndInv(e) /\ EndInv(f)
  BY <1>0 DEF IInv
<1>2. /\ Base(e) \in Nat /\ Count(tmp[e]) \in Nat /\ Count(unacked[e]) \in Nat
      /\ Count(unsent[e]) \in Nat /\ inmsg[e] \in Nat /\ sent[e] \in Nat
      /\ Count(got[e]) \in Nat /\ Count(got[f]) \in Nat /\ sent[f] \in Nat
      /\ Expect(e) \in Nat /\ Expect(f) \in Nat /\ Known(e) \in Nat /\ Known(f) \in Nat
      /\ NextMsg(e) \in Nat /\ empty[e] \in Nat
  BY <1>0, <1>1, Kinds
<1>3. /\ unacked[e] \in Seq(Message) /\ unsent[e] \in Seq(Message)
  BY <1>1, Kinds
<1>4. /\ main[e] = "alt" /\ unsent[e] # <<>> /\ ~Over(e)
  BY DEF Send, Over
<1>5. /\ Tail(unsent[e]) \in Seq(Message) /\ h \in Message /\ h \in Elems(unsent[e])
      /\ Count(Tail(unsent[e])) = Count(unsent[e]) - 1
      /\ Elems(Tail(unsent[e])) \subseteq Elems(unsent[e])
      /\ \A n \in Int : Numbered(unsent[e], n) =>
            h.msg = n /\ Numbered(Tail(unsent[e]), n + 1)
  BY <1>3, <1>4, Taken
<1>6. PICK b \in Message : /\ b = [h EXCEPT !.acked = inmsg[e]]
                           /\ b.msg = h.msg /\ b.data = h.data /\ b.acked = inmsg[e]
  <2>1. ASSUME NEW m \in Message, NEW x \in Nat
        PROVE  LET k == [m EXCEPT !.acked = x]
               IN  k \in Message /\ k.msg = m.msg /\ k.data = m.data /\ k.acked = x
    BY DEF Message
  <2>2. h \in Message /\ inmsg[e] \in Nat
    BY <1>2, <1>5
  <2> HIDE DEF h
  <2> QED BY <2>1, <2>2
<1>7. PICK ok \in BOOLEAN :
        /\ Write(e, <<b>>, ok)
        /\ main' = [main EXCEPT ![e] = main'[e]] /\ main'[e] \in {"exit", "dead", "alt"}
        /\ done' \in [End -> BOOLEAN]
        /\ unsent' = [unsent EXCEPT ![e] = Tail(unsent[e])]
        /\ unacked' = [unacked EXCEPT ![e] = Append(unacked[e], b)]
        /\ net' = net /\ netfd' = netfd /\ empty' = empty /\ tmp' = tmp
        /\ inmsg' = inmsg /\ lastacked' = lastacked /\ cur' = cur /\ i' = i
        /\ conn' = conn /\ breaks' = breaks /\ user' = user /\ sent' = sent /\ got' = got
  <2>1. PICK ok \in BOOLEAN :
          /\ Write(e, <<b>>, ok)
          /\ done' = Set(done, e, done[e] \/ b.data = Eof)
          /\ Loop(e, done'[e], ~ok)
    BY <1>6 DEF Send
  <2>2. main' = [main EXCEPT ![e] = main'[e]] /\ main'[e] \in {"exit", "dead", "alt"}
    BY <1>1, <2>1 DEF Loop, Set, TypeOK
  <2>3. done' \in [End -> BOOLEAN]
    <3>1. done \in [End -> BOOLEAN]
      BY <1>1 DEF TypeOK
    <3>2. (done[e] \/ b.data = Eof) \in BOOLEAN
      BY <3>1
    <3> QED BY <2>1, <3>1, <3>2 DEF Set
  <2> QED BY <1>6, <2>1, <2>2, <2>3 DEF Send, Set, counts, ends
<1>8. /\ unacked \in [End -> Seq(Message)] /\ unsent \in [End -> Seq(Message)]
      /\ main \in [End -> {"dial", "sync", "alt", "dead", "exit", "abort"}]
  BY <1>1 DEF TypeOK
<1>9. /\ unsent'[e] = Tail(unsent[e]) /\ unacked'[e] = Append(unacked[e], b)
      /\ unsent'[f] = unsent[f] /\ unacked'[f] = unacked[f] /\ main'[f] = main[f]
  BY <1>0, <1>7, <1>8
<1>10. /\ Append(unacked[e], b) \in Seq(Message)
       /\ Count(Append(unacked[e], b)) = Count(unacked[e]) + 1
       /\ Elems(Append(unacked[e], b)) = Elems(unacked[e]) \cup {b}
       /\ \A n \in Int : Numbered(unacked[e], n) /\ b.msg = n + Count(unacked[e])
                            => Numbered(Append(unacked[e], b), n)
  BY <1>3, Appended
<1>11. Untouched(f)
  BY <1>0, <1>7, <1>9 DEF Untouched
<1>12. TypeOK'
  <2>1. unacked' \in [End -> Seq(Message)] /\ unsent' \in [End -> Seq(Message)]
    BY <1>5, <1>7, <1>8, <1>10
  <2>2. main' \in [End -> {"dial", "sync", "alt", "dead", "exit", "abort"}]
    BY <1>7, <1>8
  <2>3. wire' \in [End -> Seq(Message)] /\ backlog' \in Seq(Message)
    BY <1>0, <1>1, <1>4, <1>7, Put
  <2>4. done' \in [End -> BOOLEAN] /\ UNCHANGED <<net, netfd, empty, tmp, inmsg, lastacked,
                                                  cur, i, conn, breaks, user, sent, got>>
    BY <1>7
  <2> QED BY <1>1, <2>1, <2>2, <2>3, <2>4 DEF TypeOK
(* The message is the next one, and is numbered so. *)
<1> DEFINE n == Base(e) + Count(tmp[e]) + Count(unacked[e])
<1>13. /\ n \in Int /\ Numbered(tmp[e], Base(e)) /\ Numbered(unacked[e], Base(e) + Count(tmp[e]))
       /\ Numbered(unsent[e], n) /\ n + Count(unsent[e]) = Wrote(e)
       /\ empty[e] + Count(tmp[e]) + Count(unacked[e]) + Count(unsent[e]) = Nbuf
       /\ tmp[e] = <<>>
  <2>1. n \in Int
    BY <1>2
  <2> QED BY <1>1, <1>4, <2>1 DEF EndInv, KeptInv
<1>14. /\ n + Count(unsent[e]) = Wrote(e)
       /\ empty[e] + Count(tmp[e]) + Count(unacked[e]) + Count(unsent[e]) = Nbuf
  BY <1>13
<1>15. b.msg = n /\ Numbered(unsent'[e], n + 1) /\ Numbered(unacked'[e], Base(e) + Count(tmp[e]))
  <2>1. b.msg = n /\ Numbered(unsent'[e], n + 1)
    BY <1>5, <1>6, <1>9, <1>13
  <2>2. Base(e) + Count(tmp[e]) \in Int /\ b.msg = Base(e) + Count(tmp[e]) + Count(unacked[e])
    BY <1>2, <2>1
  <2> QED BY <1>9, <1>10, <1>13, <2>1, <2>2
<1>16. /\ Base(e)' = Base(e) /\ Known(e)' = Known(e) /\ Expect(e)' = Expect(e)
       /\ Wrote(e)' = Wrote(e) /\ Pending(e)' = Pending(e)
  BY <1>7 DEF Base, Known, Expect, Wrote, Pending
<1>17. NextMsg(e) = n /\ NextMsg(e)' = NextMsg(e) + 1
  <2>1. NextMsg(e) = n
    BY <1>4 DEF NextMsg
  <2>2. NextMsg(e)' = Base(e) + Count(tmp[e]) + (Count(unacked[e]) + 1)
    BY <1>7, <1>9, <1>10, <1>16 DEF NextMsg
  <2> QED BY <1>2, <2>1, <2>2
<1>18. inmsg[e] = Count(got[e])
  BY <1>1, <1>4 DEF EndInv, GotInv
<1>19. ~Over(f) /\ b.msg >= Expect(f) => b.acked >= Known(f)
  <2>1. ~Over(f) => Known(f) <= Count(got[e])
    BY <1>0, <1>1 DEF EndInv, KnownInv
  <2> QED BY <1>2, <1>6, <1>18, <2>1
<1>20. Elems(tmp'[e]) \cup Elems(unacked'[e])
         \subseteq Elems(tmp[e]) \cup Elems(unacked[e]) \cup {b}
  BY <1>7, <1>9, <1>10
<1>21. /\ NetInv' /\ EndInv(f)' /\ GotInv(e)' /\ WireInv(e)' /\ LiveInv(e)'
       /\ Written(e)' \subseteq Written(e) \cup {b} /\ Written(f)' \subseteq Written(f)
  <2>1. main'[e] # "dial" /\ main'[e] # "sync"
    BY <1>7
  <2> HIDE DEF f, n
  <2> QED BY <1>0, <1>1, <1>4, <1>7, <1>11, <1>12, <1>15, <1>17, <1>19, <1>20, <2>1, Writing DEF f
<1>22. KeptInv(e)'
  <2>1. /\ n + 1 = Base(e) + Count(tmp[e]) + Count(unacked'[e])
        /\ Base(e) + Count(tmp[e]) + Count(unacked'[e]) + Count(unsent'[e]) = Wrote(e)
        /\ empty[e] + Count(tmp[e]) + Count(unacked'[e]) + Count(unsent'[e]) = Nbuf
    <3>1. Count(unacked'[e]) = Count(unacked[e]) + 1 /\ Count(unsent'[e]) = Count(unsent[e]) - 1
      BY <1>5, <1>9, <1>10
    <3> QED BY <1>2, <1>14, <3>1
  <2> QED BY <1>7, <1>13, <1>15, <1>16, <2>1 DEF KeptInv
<1>23. MineInv(e)'
  <2>1. Messages(e)' \subseteq Messages(e) \cup {b}
    BY <1>5, <1>9, <1>21 DEF Messages
  <2>2. Mine(e, b)
    BY <1>1, <1>5, <1>6 DEF EndInv, MineInv, Mine, Messages
  <2> QED BY <1>1, <1>7, <2>1, <2>2 DEF EndInv, MineInv, Mine
<1>24. AckInv(e)'
  <2>1. \A m \in Written(e) : m.acked <= Count(got[e]) /\ m.msg < b.msg
    BY <1>1, <1>5, <1>6 DEF EndInv, AckInv
  <2>2. \A m \in Written(e) : m.msg \in Nat /\ m.acked \in Nat
    BY <1>1, WrittenKind DEF Messages
  <2>3. b.msg \in Nat /\ b.acked = Count(got[e])
    BY <1>6, <1>18 DEF Message
  <2>4. \A m \in Elems(unsent'[e]) : b.msg < m.msg
    <3>1. \A k \in 1..Len(unsent'[e]) : unsent'[e][k].msg = n + 1 + k - 1
      BY <1>15 DEF Numbered
    <3>2. \A k \in 1..Len(unsent'[e]) : n < n + 1 + k - 1
      BY <1>13
    <3> QED BY <1>15, <3>1, <3>2 DEF Elems
  <2>5. \A m \in Written(e)' : m.acked <= Count(got[e])
    BY <1>2, <1>21, <2>1, <2>3
  <2>6. \A m, k \in Written(e)' : m.msg <= k.msg => m.acked <= k.acked
    BY <1>1, <1>2, <1>21, <2>1, <2>2, <2>3 DEF EndInv, AckInv
  <2>7. \A m \in Written(e)', k \in Elems(unsent'[e]) : m.msg < k.msg
    BY <1>1, <1>5, <1>9, <1>21, <2>4 DEF EndInv, AckInv
  <2> QED BY <1>7, <2>5, <2>6, <2>7 DEF AckInv
<1>25. KnownInv(e)'
  <2>1. /\ Count(got[f]) <= Count(got'[f]) /\ sent[f] <= sent'[f] /\ inmsg'[e] = inmsg[e]
    BY <1>2, <1>7
  <2> QED BY <1>0, <1>1, <1>4, <1>7, <1>12, <1>16, <1>21, <2>1, KnownKept DEF EndInv
<1> QED BY <1>0, <1>12, <1>21, <1>22, <1>23, <1>24, <1>25 DEF IInv, EndInv

(* synchronize writes the oldest message in unacked once more, as it was.  *)
LEMMA ResendStep ==
  ASSUME IInv, NEW e \in End, Resend(e)
  PROVE  IInv'
<1> DEFINE f == Peer(e)
<1>0. f \in End /\ f # e /\ e = Peer(f) /\ \A d \in End : d = e \/ d = f
  BY PeerOf
<1>1. TypeOK /\ NetInv /\ EndInv(e) /\ EndInv(f)
  BY <1>0 DEF IInv
<1>2. /\ Base(e) \in Nat /\ Count(tmp[e]) \in Nat /\ Count(unacked[e]) \in Nat
      /\ Count(unsent[e]) \in Nat /\ sent[e] \in Nat
      /\ Count(got[e]) \in Nat /\ Count(got[f]) \in Nat /\ sent[f] \in Nat
      /\ NextMsg(e) \in Nat /\ empty[e] \in Nat
  BY <1>0, <1>1, Kinds
<1>3. unacked[e] \in Seq(Message) /\ tmp[e] \in Seq(Message)
  BY <1>1, Kinds
<1>4. main[e] = "sync" /\ unacked[e] # <<>> /\ ~Over(e)
  BY DEF Resend, Over
<1>5. PICK b \in Message : b = Head(unacked[e]) /\ b \in Elems(unacked[e])
  BY <1>3, <1>4, Taken
<1>6. /\ Tail(unacked[e]) \in Seq(Message)
      /\ Count(Tail(unacked[e])) = Count(unacked[e]) - 1
      /\ Elems(Tail(unacked[e])) \subseteq Elems(unacked[e])
      /\ \A n \in Int : Numbered(unacked[e], n) =>
            b.msg = n /\ Numbered(Tail(unacked[e]), n + 1)
  BY <1>3, <1>4, <1>5, Taken
<1>7. PICK ok \in BOOLEAN :
        /\ Write(e, <<b>>, ok)
        /\ tmp' = [tmp EXCEPT ![e] = Append(tmp[e], b)]
        /\ unacked' = [unacked EXCEPT ![e] = Tail(unacked[e])]
        /\ main' = main /\ net' = net /\ netfd' = netfd /\ done' = done
        /\ empty' = empty /\ unsent' = unsent
        /\ inmsg' = inmsg /\ lastacked' = lastacked /\ cur' = cur /\ i' = i
        /\ conn' = conn /\ breaks' = breaks /\ user' = user /\ sent' = sent /\ got' = got
  BY <1>5 DEF Resend, Set, counts, ends
<1>8. unacked \in [End -> Seq(Message)] /\ tmp \in [End -> Seq(Message)]
  BY <1>1 DEF TypeOK
<1>9. /\ tmp'[e] = Append(tmp[e], b) /\ unacked'[e] = Tail(unacked[e])
      /\ tmp'[f] = tmp[f] /\ unacked'[f] = unacked[f]
  BY <1>0, <1>7, <1>8
<1>10. /\ Append(tmp[e], b) \in Seq(Message)
       /\ Count(Append(tmp[e], b)) = Count(tmp[e]) + 1
       /\ Elems(Append(tmp[e], b)) = Elems(tmp[e]) \cup {b}
       /\ \A n \in Int : Numbered(tmp[e], n) /\ b.msg = n + Count(tmp[e])
                            => Numbered(Append(tmp[e], b), n)
  BY <1>3, Appended
<1>11. Untouched(f)
  BY <1>0, <1>7, <1>9 DEF Untouched
<1>12. TypeOK'
  <2>1. unacked' \in [End -> Seq(Message)] /\ tmp' \in [End -> Seq(Message)]
    BY <1>6, <1>7, <1>8, <1>10
  <2>2. wire' \in [End -> Seq(Message)] /\ backlog' \in Seq(Message)
    BY <1>0, <1>1, <1>4, <1>7, Put
  <2> QED BY <1>1, <1>7, <2>1, <2>2 DEF TypeOK
<1> DEFINE n == Base(e) + Count(tmp[e])
<1>13. /\ n \in Int /\ Numbered(tmp[e], Base(e)) /\ Numbered(unacked[e], n)
       /\ Numbered(unsent[e], n + Count(unacked[e]))
       /\ n + Count(unacked[e]) + Count(unsent[e]) = Wrote(e)
       /\ empty[e] + Count(tmp[e]) + Count(unacked[e]) + Count(unsent[e]) = Nbuf
  BY <1>1, <1>2, <1>4 DEF EndInv, KeptInv
<1>14. b.msg = n /\ Numbered(unacked'[e], n + 1) /\ Numbered(tmp'[e], Base(e))
  <2>1. b.msg = n /\ Numbered(unacked'[e], n + 1)
    BY <1>6, <1>9, <1>13
  <2> QED BY <1>2, <1>9, <1>10, <1>13, <2>1
<1>15. /\ Base(e)' = Base(e) /\ Known(e)' = Known(e) /\ Expect(e)' = Expect(e)
       /\ Wrote(e)' = Wrote(e) /\ Pending(e)' = Pending(e)
  BY <1>7 DEF Base, Known, Expect, Wrote, Pending
<1>16. NextMsg(e) = n /\ NextMsg(e)' = NextMsg(e) + 1
  <2>1. NextMsg(e) = n
    BY <1>2, <1>4 DEF NextMsg
  <2>2. NextMsg(e)' = Base(e) + (Count(tmp[e]) + 1) + 0
    BY <1>4, <1>7, <1>9, <1>10, <1>15 DEF NextMsg
  <2> QED BY <1>2, <2>1, <2>2
<1>17. b \in Written(e)
  BY <1>5 DEF Written
<1>18. ~Over(f) /\ b.msg >= Expect(f) => b.acked >= Known(f)
  BY <1>0, <1>1, <1>17 DEF EndInv, KnownInv
<1>19. Elems(tmp'[e]) \cup Elems(unacked'[e])
         \subseteq Elems(tmp[e]) \cup Elems(unacked[e]) \cup {b}
  BY <1>6, <1>9, <1>10
<1>20. /\ NetInv' /\ EndInv(f)' /\ GotInv(e)' /\ WireInv(e)' /\ LiveInv(e)'
       /\ Written(e)' \subseteq Written(e) /\ Written(f)' \subseteq Written(f)
  <2>1. main'[e] # "dial" /\ Count(tmp'[e]) = Count(tmp[e]) + 1
    BY <1>4, <1>7, <1>9, <1>10
  <2> HIDE DEF f, n
  <2> QED BY <1>0, <1>1, <1>4, <1>7, <1>11, <1>12, <1>14, <1>16, <1>17, <1>18, <1>19, <2>1, Writing
          DEF f
<1>21. KeptInv(e)'
  <2>1. /\ n + 1 = Base(e) + Count(tmp'[e])
        /\ n + Count(unacked[e]) = Base(e) + Count(tmp'[e]) + Count(unacked'[e])
        /\ Base(e) + Count(tmp'[e]) + Count(unacked'[e]) + Count(unsent[e]) = Wrote(e)
        /\ empty[e] + Count(tmp'[e]) + Count(unacked'[e]) + Count(unsent[e]) = Nbuf
    <3>1. Count(unacked'[e]) = Count(unacked[e]) - 1 /\ Count(tmp'[e]) = Count(tmp[e]) + 1
      BY <1>6, <1>9, <1>10
    <3> QED BY <1>2, <1>13, <3>1
  <2> QED BY <1>4, <1>7, <1>13, <1>14, <1>15, <2>1 DEF KeptInv
<1>22. /\ Count(got[e]) <= Count(got'[e]) /\ Count(got[f]) <= Count(got'[f])
       /\ sent[e] <= sent'[e] /\ sent[f] <= sent'[f]
  BY <1>2, <1>7
<1>23. MineInv(e)' /\ AckInv(e)'
  <2>1. Messages(e)' \subseteq Messages(e)
    BY <1>7, <1>20 DEF Messages
  <2> QED BY <1>1, <1>7, <1>12, <1>20, <1>22, <2>1, MineKept, AckKept DEF EndInv
<1>24. KnownInv(e)'
  BY <1>0, <1>1, <1>4, <1>7, <1>12, <1>15, <1>20, <1>22, KnownKept DEF EndInv
<1> QED BY <1>0, <1>12, <1>20, <1>21, <1>23, <1>24 DEF IInv, EndInv

-----------------------------------------------------------------------------
(* The client dials: the server is gone, or there is a connection to       *)
(* accept, on which nothing has been written.                              *)
LEMMA DialStep ==
  ASSUME IInv, Dial
  PROVE  IInv'
<1> DEFINE e == "client"
           f == "server"
<1>1. e \in End /\ f \in End /\ f = Peer(e) /\ e = Peer(f) /\ e # f /\ \A d \in End : d = e \/ d = f
  BY DEF End, Peer
<1>2. TypeOK /\ NetInv /\ EndInv(e) /\ EndInv(f)
  BY <1>1 DEF IInv
<1>3. /\ main[e] = "dial" /\ ~netfd[e]
      /\ main \in [End -> {"dial", "sync", "alt", "dead", "exit", "abort"}]
      /\ netfd \in [End -> BOOLEAN]
  BY <1>1, <1>2 DEF Dial, NetInv, TypeOK
<1>4. CASE /\ main' = Set(main, e, "exit")
           /\ UNCHANGED <<netfd, conn, wire, backlog>>
  <2>1. UNCHANGED <<net, netfd, done, chans, counts, conn, wire, backlog, breaks, ends>>
    BY <1>4 DEF Dial
  <2>2. main'[e] = "exit" /\ main'[f] = main[f]
    BY <1>1, <1>3, <1>4 DEF Set
  <2>3. TypeOK'
    BY <1>2, <1>3, <1>4, <2>1 DEF TypeOK, chans, counts, network, ends, Set
  <2>4. /\ \A d \in End : Over(d) => Over(d)'
        /\ \A d \in End : Pending(d)' <=> Pending(d)
        /\ \A d \in End : main'[d] = "sync" <=> main[d] = "sync"
        /\ \A d \in End : main'[d] = "dial" => main[d] = "dial"
    BY <1>1, <1>3, <2>1, <2>2 DEF Over, Pending
  <2>5. NetInv'
    BY <1>2, <2>1, <2>4, NetKept
  <2>6. ASSUME NEW d \in End PROVE EndInv(d)'
    BY <1>1, <1>2, <2>1, <2>3, <2>4, ControlKept DEF network, ends
  <2> QED BY <2>3, <2>5, <2>6 DEF IInv
<1>5. CASE /\ ~Over("server") /\ conn = "down"
           /\ conn' = "half"
           /\ netfd' = Set(netfd, "client", TRUE)
           /\ backlog' = <<>>
           /\ main' = Set(main, "client", "sync")
           /\ UNCHANGED wire
  <2>1. UNCHANGED <<net, done, chans, counts, breaks, ends>>
    BY DEF Dial
  <2>2. main'[e] = "sync" /\ main'[f] = main[f] /\ netfd'[e] /\ netfd'[f] = netfd[f]
    BY <1>1, <1>3, <1>5 DEF Set
  <2>3. TypeOK'
    <3>1. <<>> \in Seq(Message)
      OBVIOUS
    <3> QED BY <1>2, <1>3, <1>5, <2>1, <3>1 DEF TypeOK, chans, counts, network, ends, Set
  <2>4. Untouched(f)
    BY <2>1, <2>2 DEF Untouched, chans, counts, ends
  <2>5. NetInv'
    <3>1. \A d \in End : ~netfd'[d] /\ ~Over(Peer(d))' => ~Live(d)'
      BY <1>1, <1>5, <2>2 DEF Live
    <3>2. \A d \in End : main'[d] = "dial" => ~netfd'[d]
      BY <1>1, <1>2, <2>2 DEF NetInv
    <3>3. wire'["client"] = <<>>
      BY <1>2, <1>3, <1>5 DEF NetInv
    <3> QED BY <3>1, <3>2, <3>3 DEF NetInv
  <2>6. /\ tmp' = tmp /\ unacked' = unacked /\ unsent' = unsent /\ empty' = empty
        /\ user' = user /\ sent' = sent /\ got' = got /\ net' = net
        /\ inmsg' = inmsg /\ lastacked' = lastacked /\ cur' = cur /\ i' = i
        /\ wire' = wire /\ backlog' = <<>>
    BY <1>5, <2>1 DEF chans, counts, ends
  <2>7. /\ Base(e)' = Base(e) /\ Known(e)' = Known(e) /\ Expect(e)' = Expect(e)
        /\ Wrote(e)' = Wrote(e) /\ Pending(e)' = Pending(e)
        /\ Over(e)' = Over(e) /\ Reading(e)' = Reading(e)
        /\ Expect(f)' = Expect(f) /\ Reading(f)' = Reading(f)
    BY <1>3, <2>2, <2>6
       DEF Base, Known, Expect, Wrote, Pending, Over, Reading
  <2>8. /\ Written(e)' \subseteq Written(e) /\ Written(f)' \subseteq Written(f)
        /\ Messages(e)' \subseteq Messages(e)
    BY <1>1, <2>6, None DEF Written, Messages
  <2>9. /\ Count(got[e]) <= Count(got'[e]) /\ Count(got[f]) <= Count(got'[f])
        /\ sent[e] <= sent'[e] /\ sent[f] <= sent'[f]
        /\ Expect(e) <= Expect(e)' /\ Expect(f) <= Expect(f)'
    <3>1. /\ Count(got[e]) \in Nat /\ Count(got[f]) \in Nat /\ sent[e] \in Nat
          /\ sent[f] \in Nat /\ Expect(e) \in Nat /\ Expect(f) \in Nat
      BY <1>1, <1>2, Kinds
    <3>2. \A x \in Nat : x <= x
      OBVIOUS
    <3> QED BY <2>6, <2>7, <3>1, <3>2, Zenon
  <2>10. EndInv(f)'
    <3>1. ~Live(f)'
      BY <1>1, <1>5 DEF Live
    <3> HIDE DEF e, f
    <3> QED BY <1>1, <1>2, <2>3, <2>4, <2>6, <2>7, <2>8, <2>9, <3>1, Bystander
  <2>11. KeptInv(e)' /\ MineInv(e)' /\ AckInv(e)'
    BY <1>1, <1>2, <1>3, <2>3, <2>6, <2>7, <2>8, <2>9, KeptKept, MineKept, AckKept DEF EndInv
  <2>12. KnownInv(e)' /\ GotInv(e)'
    BY <1>1, <1>2, <2>3, <2>6, <2>7, <2>8, <2>9, KnownKept, GotKept DEF EndInv
  <2>13. WireInv(e)'
    BY <1>1, <1>2, <2>3, <2>6, <2>7, <2>9, WireKept DEF EndInv
  <2>14. LiveInv(e)'
    <3> SUFFICES ASSUME ~Over(e)', Reading(f)'
                 PROVE  /\ Numbered(OnWay(e)', NextMsg(e)' - Count(OnWay(e)'))
                        /\ NextMsg(e)' - Count(OnWay(e)') <= Expect(f)
                        /\ Count(OnWay(e)') <= Count(tmp[e])
      BY <1>1, <2>2, <2>6, <2>7 DEF LiveInv, Numbered, Count
    <3>1. OnWay(e)' = <<>> /\ Count(OnWay(e)') = 0 /\ \A n \in Int : Numbered(OnWay(e)', n)
      BY <1>5, None DEF OnWay
    <3>2. tmp[e] = <<>>
      BY <1>2, <1>3, <2>7 DEF EndInv, KeptInv
    <3>3. Base(e) \in Nat /\ Expect(f) \in Nat /\ Count(tmp[e]) = 0
      BY <1>1, <1>2, <3>2, Kinds, None
    <3>4. NextMsg(e)' = Base(e) + Count(tmp[e]) + 0
      BY <2>2, <2>6, <2>7 DEF NextMsg
    <3>5. Base(e) <= Expect(f)
      BY <1>1, <1>2, <2>7, BaseExpected DEF EndInv, Reading
    <3>6. NextMsg(e)' - Count(OnWay(e)') = Base(e) /\ Base(e) \in Int
      BY <3>1, <3>3, <3>4
    <3>7. 0 <= 0
      OBVIOUS
    <3> QED BY <3>1, <3>3, <3>5, <3>6, <3>7
  <2> QED BY <1>1, <2>3, <2>5, <2>10, <2>11, <2>12, <2>13, <2>14 DEF IInv, EndInv
<1> QED BY <1>4, <1>5 DEF Dial

(* The server accepts the call, with what the client has written to it. *)
LEMMA AcceptStep ==
  ASSUME IInv, Accept
  PROVE  IInv'
<1> DEFINE e == "server"
           f == "client"
<1>1. e \in End /\ f \in End /\ f = Peer(e) /\ e = Peer(f) /\ e # f /\ \A d \in End : d = e \/ d = f
  BY DEF End, Peer
<1>2. TypeOK /\ NetInv /\ EndInv(e) /\ EndInv(f)
  BY <1>1 DEF IInv
<1>3. /\ main \in [End -> {"dial", "sync", "alt", "dead", "exit", "abort"}]
      /\ netfd \in [End -> BOOLEAN] /\ wire \in [End -> Seq(Message)]
      /\ backlog \in Seq(Message)
  BY <1>1, <1>2 DEF TypeOK
<1>4. /\ main[e] = "dial" /\ conn = "half" /\ conn' = "up"
      /\ main' = [main EXCEPT ![e] = "sync"] /\ netfd' = [netfd EXCEPT ![e] = TRUE]
      /\ wire' = [wire EXCEPT ![e] = backlog] /\ backlog' = <<>>
      /\ tmp' = tmp /\ unacked' = unacked /\ unsent' = unsent /\ empty' = empty
      /\ user' = user /\ sent' = sent /\ got' = got /\ net' = net /\ done' = done
      /\ inmsg' = inmsg /\ lastacked' = lastacked /\ cur' = cur /\ i' = i
      /\ breaks' = breaks
  BY DEF Accept, Set, chans, counts, ends
<1>5. /\ main'[e] = "sync" /\ main'[f] = main[f] /\ netfd'[e] /\ netfd'[f] = netfd[f]
      /\ wire'[e] = backlog /\ wire'[f] = wire[f]
  BY <1>1, <1>3, <1>4
<1>6. TypeOK'
  <2>1. <<>> \in Seq(Message)
    OBVIOUS
  <2>2. wire' \in [End -> Seq(Message)]
    BY <1>3, <1>4
  <2>3. /\ main' \in [End -> {"dial", "sync", "alt", "dead", "exit", "abort"}]
        /\ netfd' \in [End -> BOOLEAN]
    BY <1>3, <1>4
  <2> QED BY <1>2, <1>4, <2>1, <2>2, <2>3 DEF TypeOK
<1>7. Untouched(f)
  BY <1>4, <1>5 DEF Untouched
<1>8. /\ Base(e)' = Base(e) /\ Known(e)' = Known(e) /\ Expect(e)' = Expect(e)
      /\ Wrote(e)' = Wrote(e) /\ Pending(e)' = Pending(e)
      /\ Over(e)' = Over(e) /\ Reading(e)' = Reading(e) /\ ~Over(e)
      /\ Expect(f)' = Expect(f) /\ Reading(f)' = Reading(f) /\ Over(f)' = Over(f)
  BY <1>4, <1>5 DEF Base, Known, Expect, Wrote, Pending, Over, Reading
<1>9. wire[f] = <<>>
  BY <1>2, <1>4 DEF NetInv
<1>10. NetInv'
  <2>1. netfd[f] \/ ~Live(f)
    BY <1>1, <1>2, <1>8 DEF NetInv
  <2>2. \A d \in End : ~netfd'[d] /\ ~Over(Peer(d))' => ~Live(d)'
    BY <1>1, <1>4, <1>5, <2>1 DEF Live
  <2>3. \A d \in End : main'[d] = "dial" => ~netfd'[d]
    BY <1>1, <1>2, <1>5 DEF NetInv
  <2>4. wire'["client"] = <<>>
    BY <1>5, <1>9
  <2> QED BY <2>2, <2>3, <2>4 DEF NetInv
<1>11. /\ Written(e)' \subseteq Written(e) /\ Written(f)' \subseteq Written(f)
       /\ Messages(e)' \subseteq Messages(e)
  BY <1>1, <1>4, <1>5, None DEF Written, Messages
<1>12. /\ Count(got[e]) <= Count(got'[e]) /\ Count(got[f]) <= Count(got'[f])
       /\ sent[e] <= sent'[e] /\ sent[f] <= sent'[f]
       /\ Expect(e) <= Expect(e)' /\ Expect(f) <= Expect(f)'
  <2>1. /\ Count(got[e]) \in Nat /\ Count(got[f]) \in Nat /\ sent[e] \in Nat
        /\ sent[f] \in Nat /\ Expect(e) \in Nat /\ Expect(f) \in Nat
    BY <1>1, <1>2, Kinds
  <2>2. \A x \in Nat : x <= x
    OBVIOUS
  <2> QED BY <1>4, <1>8, <2>1, <2>2, Zenon
<1>13. EndInv(f)'
  <2>1. Live(f) /\ OnWay(f)' = OnWay(f) /\ conn' # "half"
    BY <1>1, <1>4, <1>5 DEF Live, OnWay
  <2> HIDE DEF e, f
  <2> QED BY <1>1, <1>2, <1>4, <1>5, <1>6, <1>7, <1>8, <1>11, <1>12, <2>1, Bystander
<1>14. KeptInv(e)' /\ MineInv(e)' /\ AckInv(e)'
  BY <1>1, <1>2, <1>4, <1>6, <1>8, <1>11, <1>12, KeptKept, MineKept, AckKept DEF EndInv
<1>15. KnownInv(e)' /\ GotInv(e)'
  BY <1>1, <1>2, <1>4, <1>6, <1>8, <1>11, <1>12, KnownKept, GotKept DEF EndInv
<1>16. WireInv(e)'
  <2>1. Reading(e) => Feeds(backlog, Expect(e))
    BY <1>2, <1>4 DEF EndInv, WireInv
  <2> QED BY <1>4, <1>5, <1>8, <2>1 DEF WireInv
<1>17. LiveInv(e)'
  <2> SUFFICES ASSUME Reading(f)
               PROVE  /\ Numbered(OnWay(e)', NextMsg(e)' - Count(OnWay(e)'))
                      /\ NextMsg(e)' - Count(OnWay(e)') <= Expect(f)
                      /\ Count(OnWay(e)') <= Count(tmp[e])
    BY <1>1, <1>4, <1>5, <1>8 DEF LiveInv, Numbered, Count
  <2>1. OnWay(e)' = <<>> /\ Count(OnWay(e)') = 0 /\ \A n \in Int : Numbered(OnWay(e)', n)
    BY <1>1, <1>4, <1>5, <1>9, None DEF OnWay
  <2>2. tmp[e] = <<>>
    BY <1>2, <1>4, <1>8 DEF EndInv, KeptInv
  <2>3. Base(e) \in Nat /\ Expect(f) \in Nat /\ Count(tmp[e]) = 0
    BY <1>1, <1>2, <2>2, Kinds, None
  <2>4. NextMsg(e)' = Base(e) + Count(tmp[e]) + 0
    BY <1>4, <1>5, <1>8 DEF NextMsg
  <2>5. Base(e) <= Expect(f)
    BY <1>1, <1>2, <1>8, BaseExpected DEF EndInv, Reading
  <2>6. NextMsg(e)' - Count(OnWay(e)') = Base(e) /\ Base(e) \in Int
    BY <2>1, <2>3, <2>4
  <2>7. 0 <= 0
    OBVIOUS
  <2> QED BY <2>1, <2>3, <2>5, <2>6, <2>7
<1> QED BY <1>1, <1>6, <1>10, <1>13, <1>14, <1>15, <1>16, <1>17 DEF IInv, EndInv

(* A connection breaks: of what is on it the beginning can be read. *)
LEMMA BreakStep ==
  ASSUME IInv, Break
  PROVE  IInv'
<1>1. /\ conn' = "down" /\ breaks' \in 0..MaxBreaks /\ backlog' = <<>>
      /\ UNCHANGED <<main, net, netfd, done, chans, counts, ends>>
  BY AanAssumption DEF Break, IInv, TypeOK
<1>2. PICK n \in [End -> 0..Len(wire["client"]) + Len(wire["server"])] :
        /\ \A d \in End : n[d] <= Len(wire[d])
        /\ wire' = [d \in End |-> SubSeq(wire[d], 1, n[d])]
  BY DEF Break
<1>3. wire \in [End -> Seq(Message)] /\ TypeOK /\ NetInv
  BY DEF IInv, TypeOK
<1>4. ASSUME NEW d \in End
      PROVE  /\ wire'[d] \in Seq(Message) /\ Elems(wire'[d]) \subseteq Elems(wire[d])
             /\ \A b \in Int : Numbered(wire[d], b) => Numbered(wire'[d], b)
             /\ wire[d] = <<>> => wire'[d] = <<>>
  <2>1. wire[d] \in Seq(Message) /\ n[d] \in Nat /\ n[d] <= Len(wire[d])
    <3>1. n[d] \in 0..Len(wire["client"]) + Len(wire["server"]) /\ n[d] <= Len(wire[d])
      BY <1>2
    <3> QED BY <1>3, <3>1
  <2>2. n[d] \in 0..Len(wire[d]) /\ wire'[d] = SubSeq(wire[d], 1, n[d])
    BY <1>2, <2>1
  <2>3. /\ wire'[d] \in Seq(Message) /\ Elems(wire'[d]) \subseteq Elems(wire[d])
        /\ \A b \in Int : Numbered(wire[d], b) => Numbered(wire'[d], b)
        /\ Count(wire'[d]) = n[d]
    BY <2>1, <2>2, Cut
  <2>4. wire[d] = <<>> => wire'[d] = <<>>
    <3>1. wire[d] = <<>> => Count(wire'[d]) = 0
      BY <2>1, <2>3
    <3> QED BY <2>3, <3>1, NoneLeft
  <2> QED BY <2>3, <2>4
<1>5. TypeOK'
  <2>1. wire' \in [End -> Seq(Message)] /\ <<>> \in Seq(Message)
    BY <1>2, <1>4
  <2> QED BY <1>1, <1>3, <2>1 DEF TypeOK, chans, counts, ends
<1>6. NetInv'
  <2>1. "client" \in End
    BY DEF End
  <2> QED BY <1>1, <1>3, <1>4, <2>1 DEF NetInv, Live, Over
<1>7. ASSUME NEW e \in End
      PROVE  EndInv(e)'
  <2> DEFINE f == Peer(e)
  <2>1. f \in End /\ f # e /\ e = Peer(f) /\ \A d \in End : d = e \/ d = f
    BY PeerOf
  <2>2. EndInv(e) /\ EndInv(f)
    BY <2>1 DEF IInv
  <2>3. /\ tmp' = tmp /\ unacked' = unacked /\ unsent' = unsent /\ empty' = empty
        /\ user' = user /\ sent' = sent /\ got' = got /\ net' = net /\ main' = main
        /\ inmsg' = inmsg /\ lastacked' = lastacked /\ cur' = cur /\ i' = i
    BY <1>1 DEF chans, counts, ends
  <2>4. Untouched(e)
    BY <2>3 DEF Untouched
  <2>5. /\ Base(e)' = Base(e) /\ Known(e)' = Known(e) /\ Expect(e)' = Expect(e)
        /\ Pending(e)' = Pending(e) /\ Over(e)' = Over(e) /\ Reading(e)' = Reading(e)
    BY <2>4, Views
  <2>6. Written(e)' \subseteq Written(e) /\ Written(f)' \subseteq Written(f)
    BY <1>1, <1>4, <2>1, <2>3, None DEF Written
  <2>7. Count(got[f]) <= Count(got'[f]) /\ sent[f] <= sent'[f]
    <3>1. Count(got[f]) \in Nat /\ sent[f] \in Nat
      BY <1>3, <2>1, Kinds
    <3> QED BY <2>3, <3>1
  <2>8. KeptInv(e)' /\ MineInv(e)' /\ AckInv(e)' /\ GotInv(e)'
    BY <1>3, <1>5, <2>1, <2>2, <2>3, <2>4, <2>6, <2>7, Aside
  <2>9. KnownInv(e)'
    BY <1>3, <1>5, <2>1, <2>2, <2>3, <2>5, <2>6, <2>7, KnownKept DEF EndInv
  <2>10. WireInv(e)'
    BY <1>1, <1>4, <2>2, <2>5 DEF EndInv, WireInv, Feeds
  <2>11. LiveInv(e)'
    BY <1>1 DEF LiveInv, Live
  <2> QED BY <2>8, <2>9, <2>10, <2>11 DEF EndInv
<1> QED BY <1>5, <1>6, <1>7 DEF IInv

-----------------------------------------------------------------------------
(* The inductive invariant holds in every reachable state. *)
THEOREM Invariance == Spec => []IInv
<1>1. Init => IInv
  <2> SUFFICES ASSUME Init PROVE IInv
    OBVIOUS
  <2>1. /\ <<>> \in Seq(Message) /\ <<>> \in Seq(Nat) /\ Count(<<>>) = 0 /\ Elems(<<>>) = {}
        /\ \A n \in Int : Numbered(<<>>, n)
    BY None
  <2>2. TypeOK
    BY <2>1, AanAssumption DEF Init, TypeOK, Zero, Message, Eof
  <2>3. NetInv
    BY DEF Init, NetInv, Live, End
  <2>4. ASSUME NEW e \in End PROVE EndInv(e)
    <3> DEFINE f == Peer(e)
    <3>1. f \in End
      BY PeerOf
    <3>2. /\ main[e] = "dial" /\ tmp[e] = <<>> /\ unacked[e] = <<>> /\ unsent[e] = <<>>
          /\ wire[e] = <<>> /\ wire[f] = <<>> /\ backlog = <<>> /\ conn = "down"
          /\ empty[e] = Nbuf /\ sent[e] = 0 /\ sent[f] = 0 /\ got[e] = <<>> /\ got[f] = <<>>
          /\ user[e] = "off" /\ net[e] = "poll" /\ lastacked[e] = 0 /\ inmsg[e] = 0
          /\ tmp[f] = <<>> /\ unacked[f] = <<>> /\ wire[Peer(f)] = <<>>
      BY <3>1, PeerOf DEF Init
    <3>3. /\ Base(e) = 0 /\ Known(e) = 0 /\ Expect(e) = 0 /\ Wrote(e) = 0
          /\ ~Pending(e) /\ ~Live(e) /\ ~Over(e)
      BY <3>2 DEF Base, Known, Expect, Wrote, Pending, Live, Over
    <3>4. Written(e) = {} /\ Messages(e) = {} /\ Written(f) = {}
      BY <2>1, <3>2 DEF Written, Messages
    <3>5. KeptInv(e)
      <4>1. Nbuf \in Nat
        BY AanAssumption
      <4>2. Nbuf + 0 + 0 + 0 = Nbuf /\ 0 + 0 + 0 + 0 = 0 /\ 0 + 0 = 0 /\ 0 \in Int
        BY <4>1
      <4> QED BY <2>1, <3>2, <3>3, <4>2 DEF KeptInv
    <3>6. MineInv(e) /\ AckInv(e) /\ LiveInv(e)
      BY <3>3, <3>4 DEF MineInv, AckInv, LiveInv
    <3>7. KnownInv(e)
      BY <2>1, <3>2, <3>3, <3>4 DEF KnownInv
    <3>8. GotInv(e)
      BY <2>1, <3>2 DEF GotInv
    <3>9. WireInv(e)
      BY <2>1, <3>2, <3>3 DEF WireInv, Feeds
    <3> QED BY <3>5, <3>6, <3>7, <3>8, <3>9 DEF EndInv
  <2> QED BY <2>2, <2>3, <2>4 DEF IInv
<1>2. IInv /\ [Next]_vars => IInv'
  <2> SUFFICES ASSUME IInv, [Next]_vars PROVE IInv'
    OBVIOUS
  <2>1. CASE UNCHANGED vars
    <3> USE <2>1 DEF vars, chans, counts, network, ends
    <3>1. TypeOK'
      BY DEF IInv, TypeOK
    <3>2. NetInv'
      BY DEF IInv, NetInv, Over, Live
    <3>3. ASSUME NEW d \in End PROVE EndInv(d)'
      <4>1. /\ \A x \in End : (Over(x) => Over(x)') /\ (Pending(x)' <=> Pending(x))
        BY DEF Over, Pending
      <4> QED BY <3>1, <4>1, PeerOf, ControlKept DEF IInv
    <3> QED BY <3>1, <3>2, <3>3 DEF IInv
  <2>2. CASE Dial \/ Accept \/ TimedOut \/ Break
    BY <2>2, DialStep, AcceptStep, TimedOutStep, BreakStep
  <2>3. ASSUME NEW e \in End, Main(e)
        PROVE  IInv'
    BY <2>3, SendStep, KeepAliveStep, DeadStep, ResendStep, SyncedStep DEF Main
  <2>4. ASSUME NEW e \in End, Fromnet(e)
        PROVE  IInv'
    BY <2>4, RecvStep, ReadErrorStep, AckWaitStep, AckStep, DeliverStep DEF Fromnet
  <2>5. ASSUME NEW e \in End, ReadUser(e) \/ UserEof(e)
        PROVE  IInv'
    BY <2>5, FromclientStep
  <2> QED BY <2>1, <2>2, <2>3, <2>4, <2>5 DEF Next
<1> QED BY <1>1, <1>2, PTL DEF Spec

(* Every variable keeps to its type. *)
THEOREM TypeCorrect == Spec => []TypeOK
<1>1. IInv => TypeOK
  BY DEF IInv
<1> QED BY <1>1, Invariance, PTL

-----------------------------------------------------------------------------
(* An instance that runs keeps every message its peer's program has not    *)
(* read, through any number of broken connections.                         *)
THEOREM KeptForThePeer == Spec => []NothingForgotten
<1>1. IInv => NothingForgotten
  <2> SUFFICES ASSUME IInv, NEW e \in End, ~Over(e),
                      NEW x \in (Len(got[Peer(e)]) + 1)..sent[e]
               PROVE  x \in Kept(e)
    BY DEF NothingForgotten, IInv
  <2> DEFINE f == Peer(e)
  <2>1. f \in End /\ TypeOK /\ EndInv(e)
    BY PeerOf DEF IInv
  <2>2. /\ Base(e) \in Nat /\ Known(e) \in Nat /\ sent[e] \in Nat /\ Count(got[f]) \in Nat
        /\ Count(tmp[e]) \in Nat /\ Count(unacked[e]) \in Nat /\ Count(unsent[e]) \in Nat
    BY <2>1, Kinds
  <2>3. Base(e) <= x - 1 /\ x - 1 < sent[e] /\ x \in Int
    <3>1. Base(e) <= Known(e) /\ Known(e) <= Count(got[f])
      BY <2>1 DEF EndInv, KnownInv
    <3>2. x \in (Count(got[f]) + 1)..sent[e]
      BY DEF Count
    <3> QED BY <2>2, <3>1, <3>2
  <2>4. /\ Base(e) + Count(tmp[e]) + Count(unacked[e]) + Count(unsent[e]) = Wrote(e)
        /\ sent[e] <= Wrote(e)
    <3>1. Base(e) + Count(tmp[e]) + Count(unacked[e]) + Count(unsent[e]) = Wrote(e)
      BY <2>1 DEF EndInv, KeptInv
    <3>2. sent[e] <= Wrote(e)
      BY <2>2 DEF Wrote
    <3> QED BY <3>1, <3>2
  (* A channel that holds message x - 1 holds x. *)
  <2>5. ASSUME NEW s \in {unsent[e], unacked[e], tmp[e]}, NEW n \in Int, Numbered(s, n),
               n <= x - 1, x - 1 < n + Count(s)
        PROVE  x \in Kept(e)
    <3>1. Count(s) \in Nat
      BY <2>2
    <3>2. PICK k \in 1..Count(s) : k = x - n
      BY <2>3, <2>5, <3>1
    <3>3. s[k].msg = x - 1
      <4>1. s[k].msg = n + k - 1
        BY <2>5 DEF Numbered, Count
      <4> QED BY <2>3, <3>2, <4>1
    <3>4. s[k] \in Messages(e)
      BY DEF Messages, Written, Elems, Count
    <3>5. s[k].data = s[k].msg + 1
      <4>1. Mine(e, s[k])
        BY <2>1, <3>4 DEF EndInv, MineInv
      <4> QED BY <2>2, <2>3, <3>3, <4>1 DEF Mine
    <3>6. s[k].data = x
      BY <2>3, <3>3, <3>5
    <3>7. s[k] \in UNION {{t[j] : j \in 1..Len(t)} : t \in {unsent[e], unacked[e], tmp[e]}}
      BY DEF Count
    <3> QED BY <3>6, <3>7 DEF Kept
  <2>6. /\ Numbered(tmp[e], Base(e)) /\ Numbered(unacked[e], Base(e) + Count(tmp[e]))
        /\ Numbered(unsent[e], Base(e) + Count(tmp[e]) + Count(unacked[e]))
    BY <2>1 DEF EndInv, KeptInv
  <2>7. CASE x - 1 < Base(e) + Count(tmp[e])
    <3>1. Base(e) \in Int
      BY <2>2
    <3> HIDE DEF f
    <3> QED BY <2>3, <2>5, <2>6, <2>7, <3>1
  <2>8. CASE /\ Base(e) + Count(tmp[e]) <= x - 1
             /\ x - 1 < Base(e) + Count(tmp[e]) + Count(unacked[e])
    <3>1. Base(e) + Count(tmp[e]) \in Int
      BY <2>2
    <3> QED BY <2>5, <2>6, <2>8, <3>1
  <2>9. CASE Base(e) + Count(tmp[e]) + Count(unacked[e]) <= x - 1
    <3>1. Base(e) + Count(tmp[e]) + Count(unacked[e]) \in Int
      BY <2>2
    <3>2. x - 1 < Base(e) + Count(tmp[e]) + Count(unacked[e]) + Count(unsent[e])
      <4>1. Wrote(e) \in Nat
        BY <2>1, Kinds
      <4> QED BY <2>2, <2>3, <2>4, <4>1
    <3> QED BY <2>5, <2>6, <2>9, <3>1, <3>2
  <2> QED BY <2>2, <2>3, <2>7, <2>8, <2>9
<1> QED BY <1>1, Invariance, PTL

-----------------------------------------------------------------------------
(* Stream's other end is this module's. *)
LEMMA OtherEnd ==
  ASSUME NEW e \in End
  PROVE  Transfer!Peer(e) = Peer(e)
BY DEF Transfer!Peer, Peer, End

(* The program's next message extends the stream it has written. *)
LEMMA Longer ==
  ASSUME NEW n \in Nat
  PROVE  LET s == [k \in 1..n |-> k]
         IN  Append(s, n + 1) = [k \in 1..n + 1 |-> k]
<1> DEFINE s == [k \in 1..n |-> k]
<1>1. s \in Seq(Nat) /\ Len(s) = n
  OBVIOUS
<1>2. /\ Append(s, n + 1) \in Seq(Nat) /\ Len(Append(s, n + 1)) = n + 1
      /\ Append(s, n + 1)[n + 1] = n + 1
      /\ \A k \in 1..n : Append(s, n + 1)[k] = s[k]
  BY <1>1, AppendOrder
<1>3. DOMAIN Append(s, n + 1) = 1..n + 1
  BY <1>2
<1>4. \A k \in 1..n + 1 : Append(s, n + 1)[k] = k
  <2>1. \A k \in 1..n + 1 : k \in 1..n \/ k = n + 1
    OBVIOUS
  <2>2. \A k \in 1..n : s[k] = k
    OBVIOUS
  <2> QED BY <1>2, <2>1, <2>2
<1> QED BY <1>2, <1>3, <1>4

(* The two streams are carried in order, nothing lost and nothing twice,   *)
(* and end of file comes after all of it: Aan implements Stream.           *)
THEOREM CarriedInOrder == Spec => InOrderOnce
<1> DEFINE Sent   == [e \in End |-> [k \in 1..sent[e] |-> k]]
           Closed == [e \in End |-> user[e] = "ended"]
           AtEof  == [e \in End |-> net[e] = "gone"]
<1>1. Init => Transfer!Init
  <2> SUFFICES ASSUME Init PROVE Transfer!Init
    OBVIOUS
  <2>1. \A e \in End : [k \in 1..0 |-> k] = <<>>
    OBVIOUS
  <2> QED BY <2>1 DEF Init, Transfer!Init
<1>2. IInv /\ IInv' /\ [Next]_vars => [Transfer!Next]_<<Sent, got, Closed, AtEof>>
  <2> SUFFICES ASSUME IInv, IInv', [Next]_vars
               PROVE  Transfer!Next \/ UNCHANGED <<Sent, got, Closed, AtEof>>
    OBVIOUS
  <2>1. /\ TypeOK
        /\ net \in [End -> {"poll", "ack", "recv", "stuck", "gone"}]
        /\ user \in [End -> {"off", "on", "ended"}]
        /\ sent \in [End -> Nat] /\ got \in [End -> Seq(Nat)]
    BY DEF IInv, TypeOK
  (* Most steps show nothing to the programs. *)
  <2>2. ASSUME sent' = sent, got' = got,
               \A d \in End : user'[d] = "ended" <=> user[d] = "ended",
               \A d \in End : net'[d] = "gone" <=> net[d] = "gone"
        PROVE  UNCHANGED <<Sent, got, Closed, AtEof>>
    BY <2>2
  <2>3. CASE UNCHANGED vars \/ Dial \/ Accept \/ TimedOut \/ Break
    BY <2>2, <2>3 DEF vars, ends, Dial, Accept, TimedOut, Break
  <2>4. ASSUME NEW e \in End, Main(e)
        PROVE  UNCHANGED <<Sent, got, Closed, AtEof>>
    <3>1. sent' = sent /\ got' = got
      BY <2>4 DEF Main, Send, KeepAlive, Dead, Resend, Synced, ends
    <3>2. /\ \A d \in End : user'[d] = "ended" <=> user[d] = "ended"
          /\ \A d \in End : net'[d] = "gone" <=> net[d] = "gone"
      BY <2>1, <2>4 DEF Main, Send, KeepAlive, Dead, Resend, Synced, ends, Set
    <3> QED BY <2>2, <3>1, <3>2
  <2>5. ASSUME NEW e \in End, ReadError(e) \/ AckWait(e) \/ Ack(e)
        PROVE  UNCHANGED <<Sent, got, Closed, AtEof>>
    <3>1. sent' = sent /\ got' = got /\ user' = user
      BY <2>5 DEF ReadError, AckWait, Ack, ends
    <3>2. \A d \in End : net'[d] = "gone" <=> net[d] = "gone"
      BY <2>1, <2>5 DEF ReadError, AckWait, Ack, Set
    <3> QED BY <2>2, <3>1, <3>2
  <2>6. ASSUME NEW e \in End, ReadUser(e)
        PROVE  Transfer!Write(e)
    <3>1. /\ sent[e] < MaxSend[e] /\ user[e] = "on" /\ user' = user /\ net' = net /\ got' = got
          /\ sent' = [sent EXCEPT ![e] = sent[e] + 1]
      BY <2>6 DEF ReadUser, Queue, Set
    <3>2. sent[e] + 1 \in 1..(MaxSend["client"] + MaxSend["server"])
      <4>1. sent[e] \in Nat /\ MaxSend["client"] \in Nat /\ MaxSend["server"] \in Nat
            /\ (e = "client" \/ e = "server")
        BY <2>1, AanAssumption DEF End
      <4> QED BY <3>1, <4>1
    <3>3. Sent' = [Sent EXCEPT ![e] = Append(@, sent[e] + 1)]
      <4>1. Append([k \in 1..sent[e] |-> k], sent[e] + 1) = [k \in 1..sent[e] + 1 |-> k]
        BY <2>1, Longer
      <4>2. sent'[e] = sent[e] + 1 /\ \A d \in End \ {e} : sent'[d] = sent[d]
        BY <2>1, <3>1
      <4> QED BY <4>1, <4>2
    <3>4. ~Closed[e] /\ UNCHANGED <<got, Closed, AtEof>>
      BY <3>1
    <3> QED BY <3>2, <3>3, <3>4 DEF Transfer!Write
  <2>7. ASSUME NEW e \in End, UserEof(e)
        PROVE  Transfer!Close(e)
    <3>1. sent' = sent /\ got' = got /\ net' = net /\ user' = [user EXCEPT ![e] = "ended"]
      BY <2>7 DEF UserEof, Queue, Set
    <3>2. Closed' = [Closed EXCEPT ![e] = TRUE]
      BY <2>1, <3>1
    <3>3. UNCHANGED <<Sent, got, AtEof>>
      BY <3>1
    <3> QED BY <3>2, <3>3 DEF Transfer!Close
  <2>8. ASSUME NEW e \in End, Deliver(e)
        PROVE  Transfer!Read(e) \/ UNCHANGED <<Sent, got, Closed, AtEof>>
    <3> DEFINE f == Peer(e)
    <3>1. f \in End /\ EndInv(e) /\ net[e] = "ack" /\ ~Over(e) /\ user' = user /\ sent' = sent
      BY <2>8, PeerOf DEF IInv, Deliver
    <3>2. CASE got' = got /\ net' = net
      BY <2>2, <3>1, <3>2
    <3>3. CASE /\ got' = [got EXCEPT ![e] = Append(got[e], cur[e].data)]
               /\ net' = [net EXCEPT ![e] = "poll"]
      <4>1. /\ cur[e].data = cur[e].msg + 1 /\ cur[e].msg < sent[f]
            /\ cur[e].msg = Len(got[e])
        BY <3>1 DEF EndInv, KnownInv, GotInv, Pending, Mine, Count
      <4>2. Len(got[e]) \in Nat /\ sent[f] \in Nat
        BY <2>1, <3>1
      <4>3. /\ Len(got[e]) < Len(Sent[f]) /\ Sent[f][Len(got[e]) + 1] = cur[e].data
        <5>1. Sent[f] = [k \in 1..sent[f] |-> k] /\ Len([k \in 1..sent[f] |-> k]) = sent[f]
          BY <3>1, <4>2
        <5>2. Len(got[e]) + 1 \in 1..sent[f]
          BY <4>1, <4>2
        <5> QED BY <4>1, <5>1, <5>2
      <4>4. got' = [got EXCEPT ![e] = Append(@, Sent[f][Len(got[e]) + 1])]
        BY <3>3, <4>3
      <4>5. ~AtEof[e] /\ AtEof' = AtEof
        BY <2>1, <3>1, <3>3
      <4>6. UNCHANGED <<Sent, Closed>>
        BY <3>1
      <4> QED BY <3>1, <4>3, <4>4, <4>5, <4>6, OtherEnd DEF Transfer!Read
    <3> QED BY <2>8, <3>2, <3>3 DEF Deliver, Set
  <2>9. ASSUME NEW e \in End, Recv(e)
        PROVE  Transfer!ReadEof(e) \/ UNCHANGED <<Sent, got, Closed, AtEof>>
    <3> DEFINE f == Peer(e)
    <3>1. f \in End /\ sent' = sent /\ got' = got /\ user' = user
      BY <2>9, PeerOf DEF Recv, ends
    <3>2. CASE net' = [net EXCEPT ![e] = "gone"]
      <4>1. user[f] = "ended" /\ Len(got[e]) = sent[f] /\ \A k \in 1..Len(got[e]) : got[e][k] = k
        <5>1. GotInv(e)' /\ net'[e] = "gone"
          BY <2>1, <3>2 DEF IInv, EndInv
        <5> QED BY <3>1, <5>1 DEF GotInv, Count
      <4>2. got[e] = Sent[f]
        <5>1. got[e] \in Seq(Nat) /\ Sent[f] = [k \in 1..sent[f] |-> k]
          BY <2>1, <3>1
        <5>2. got[e] = [k \in 1..Len(got[e]) |-> got[e][k]]
          BY <5>1
        <5> QED BY <4>1, <5>1, <5>2
      <4>3. AtEof' = [AtEof EXCEPT ![e] = TRUE]
        BY <2>1, <3>2
      <4>4. Closed[f] /\ UNCHANGED <<Sent, got, Closed>>
        BY <3>1, <4>1
      <4> QED BY <4>2, <4>3, <4>4, OtherEnd DEF Transfer!ReadEof
    <3>3. CASE \A d \in End : net'[d] = "gone" <=> net[d] = "gone"
      BY <2>2, <3>1, <3>3
    <3>4. net' = [net EXCEPT ![e] = "gone"] \/ \A d \in End : net'[d] = "gone" <=> net[d] = "gone"
      BY <2>1, <2>9 DEF Recv, Set
    <3> QED BY <3>2, <3>3, <3>4
  <2> HIDE DEF Sent, Closed, AtEof
  <2> QED BY <2>3, <2>4, <2>5, <2>6, <2>7, <2>8, <2>9 DEF Next, Fromnet, Transfer!Next
<1>3. QED
  BY <1>1, <1>2, Invariance, PTL DEF Spec, InOrderOnce, Transfer!Spec
=============================================================================
