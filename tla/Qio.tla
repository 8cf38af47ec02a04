-------------------------------- MODULE Qio ---------------------------------
(***************************************************************************)
(* One I/O queue of sys/src/9/qio.c: the blocking interface qread, qbread, *)
(* qwrite (which is a sequence of qbwrite), and the interrupt-level one    *)
(* qproduce, qiwrite, qpass, qget, qconsume, qdiscard, qflush, qhangup,    *)
(* qclose, qreopen, qnoblock.                                              *)
(*                                                                         *)
(* The critical sections under q->l are single steps; everything done      *)
(* outside them is a step of its own: waiting for q->rlock and q->wlock,   *)
(* copying to the reader, Sleep, the Wakeup that follows an unlock, and    *)
(* qbwrite's look at the queue length.  Sleep and Wakeup are taken at the  *)
(* level Rendez establishes: Sleep re-tests its condition and posts itself *)
(* in one step.                                                            *)
(***************************************************************************)
EXTENDS Integers, Sequences, FiniteSets, SequencesExt

CONSTANTS
  Reader, Writer,     (* processes                                          *)
  Dev,                (* callers of the interrupt-level interface           *)
  Uses,               (* what a queue may be used for, see Use              *)
  Maxatomic,          (* largest block qwrite allocates                     *)
  Intr,               (* whether sleeping processes are interrupted         *)
  Nil

(* One use of a queue: who reads and writes it as a process, with calls of *)
(* which lengths; which operations of the interrupt-level interface its    *)
(* driver calls; the limit, Qcoalesce and Qmsg bits it is opened with;     *)
(* whether its callers keep the discipline of NoCall; and a bound on the   *)
(* calls that put data in it.                                              *)
Use == [reader : SUBSET Reader, writer : SUBSET Writer,
        rlen : SUBSET Nat, wlen : SUBSET Nat, ops : SUBSET STRING,
        limit : Nat \ {0, 1}, coalesce : BOOLEAN, msg : BOOLEAN,
        owned : BOOLEAN, puts : Nat]

Proc  == Reader \cup Writer
Actor == Proc \cup Dev

(* How the tree uses its queues.  What a process reads is not also taken   *)
(* or emptied by a driver; qiwrite shares no queue with qwrite; a queue    *)
(* both fed by a driver and written by processes (kbdq: single bytes) has  *)
(* no block longer than a read; only an owned queue is reopened (devpipe). *)
AsUsed(u) ==
  /\ u.reader # {} => u.ops \cap {"qget", "qconsume", "qdiscard", "qflush"} = {}
  /\ u.writer # {} => "qiwrite" \notin u.ops
  /\ u.reader # {} /\ u.writer # {} /\ u.ops \cap {"qproduce", "qpass", "qpassnolim"} # {} =>
       \A n \in u.rlen, m \in u.wlen : m <= n
  /\ "qreopen" \in u.ops => u.owned

ASSUME MaxatomicAssumption == Maxatomic \in Nat \ {0}
ASSUME UsesAssumption == Uses \subseteq Use /\ Intr \in BOOLEAN
ASSUME DisciplineAssumption == \A u \in Uses : AsUsed(u)
ASSUME ActorAssumption == Nil \notin Actor /\ Proc \cap Dev = {} /\ IsFiniteSet(Proc)

VARIABLES
  use,       (* what this queue is used for                                 *)
  q,         (* the block list q->bfirst: [at, n, alloc], see Block         *)
  len, dlen, (* q->len and q->dlen                                          *)
  starve, flow, closed,   (* bits of q->state                               *)
  msg,       (* the Qmsg bit of q->state                                    *)
  noblock,   (* q->noblock                                                  *)
  rlock, wlock,           (* holders of the two QLocks                      *)
  rr, wr,    (* the processes posted in the two Rendez                      *)
  pc,        (* pc[a]: where actor a is                                     *)
  op,        (* op[p]: the call reader p is in                              *)
  arg,       (* arg[a]: bytes to read, or bytes left to write               *)
  hand,      (* hand[p]: blocks p has in hand                               *)
  wake,      (* wake[a]: the Rendez a still has to Wakeup after its unlock  *)
  writes,    (* calls that put data in the queue, up to use.puts            *)
  sent, got, (* auxiliary: last byte queued, last byte delivered            *)
  lost,      (* auxiliary: queued bytes were thrown away                    *)
  live       (* auxiliary: blocks allocated and not freed                   *)

queue   == <<q, len, dlen>>
modes   == <<use, msg, noblock>>
flags   == <<starve, flow, closed, modes>>
locks   == <<rlock, wlock, rr, wr>>
control == <<pc, op, arg, hand>>
aux     == <<sent, got, lost, live>>
vars    == <<queue, flags, locks, control, wake, writes, aux>>

(* A block of n bytes numbered from at on in the order they were queued,   *)
(* BLEN n and BALLOC alloc: reading part of a block leaves its allocation. *)
Block == [at : Nat, n : Nat, alloc : Nat]

(* The sum of a function's values, as the size of a disjoint union. *)
Total(f)  == Cardinality(UNION {{x} \X (1..f[x]) : x \in DOMAIN f})
Bytes(s)  == Total([i \in 1..Len(s) |-> s[i].n])
Alloc(s)  == Total([i \in 1..Len(s) |-> s[i].alloc])
MinOf(a, b) == IF a < b THEN a ELSE b

PC == {"idle", "rqlock", "rwait", "rsleep", "rblock", "copy", "rdone",
       "wqlock", "wput", "wcheck", "wflow", "wsleep", "wblock", "wnext",
       "iwrite", "iwoken"}

Limit == use.limit

TypeOK ==
  /\ use \in Uses
  /\ q \in Seq(Block)
  /\ len \in Nat /\ dlen \in Nat
  /\ {starve, flow, closed, msg, noblock, lost} \subseteq BOOLEAN
  /\ {rlock, rr} \subseteq Reader \cup {Nil}
  /\ {wlock, wr} \subseteq Writer \cup {Nil}
  /\ pc \in [Actor -> PC]
  /\ op \in [Reader -> {"qread", "qbread"}]
  /\ arg \in [Actor -> Nat]
  /\ hand \in [Proc -> Seq(Block)]
  /\ wake \in [Actor -> Seq({"rr", "wr"})]
  /\ writes \in 0..use.puts
  /\ sent \in Nat /\ got \in Nat
  /\ live \in Nat

(* qopen *)
Init ==
  /\ use \in Uses
  /\ q = <<>> /\ len = 0 /\ dlen = 0
  /\ starve = TRUE /\ flow = FALSE /\ closed = FALSE
  /\ msg = use.msg /\ noblock = FALSE
  /\ rlock = Nil /\ wlock = Nil /\ rr = Nil /\ wr = Nil
  /\ pc = [a \in Actor |-> "idle"]
  /\ op = [p \in Reader |-> "qread"]
  /\ arg = [a \in Actor |-> 0]
  /\ hand = [p \in Proc |-> <<>>]
  /\ wake = [a \in Actor |-> <<>>]
  /\ writes = 0
  /\ sent = 0 /\ got = 0 /\ lost = FALSE /\ live = 0

Goto(p, from, to) == pc[p] = from /\ pc' = [pc EXCEPT ![p] = to]
Awake(p)          == wake[p] = <<>>
Hold(p, s)        == hand' = [hand EXCEPT ![p] = s]

(* The queue becomes s; len and dlen are kept in step by the code's own    *)
(* arithmetic on what was added and removed.                               *)
(* Mutant: what is left of a block's allocation is forgotten. *)
Unqueue_Used(s, rest) == /\ q' = rest
                         /\ len' = len - Bytes(s)
                         /\ dlen' = dlen - Bytes(s)

Unqueue(s, rest) == /\ q' = rest
                   /\ len' = len - Alloc(s)
                   /\ dlen' = dlen - Bytes(s)

Enqueue(s) == /\ q' = q \o s
          /\ len' = len + Alloc(s)
          /\ dlen' = dlen + Bytes(s)

(* Mutant: the flag is cleared and nobody woken. *)
StarveWake_Silent(p) == /\ starve' = FALSE
                        /\ wake' = [wake EXCEPT ![p] = <<>>]

(* if(q->state & Qstarve) { clear it; dowakeup = 1 } *)
StarveWake(p) == /\ starve' = FALSE
                 /\ wake' = [wake EXCEPT ![p] = IF starve THEN <<"rr">> ELSE <<>>]

(* Mutant: the flag is cleared whether or not there is room. *)
FlowWake_Clears(p, mark) ==
  /\ flow' = FALSE
  /\ wake' = [wake EXCEPT ![p] = IF flow /\ len' < mark THEN <<"wr">> ELSE <<>>]

(* if((q->state & Qflow) && q->len < mark) { clear it; dowakeup = 1 } *)
FlowWake(p, mark) ==
  LET go == flow /\ len' < mark
  IN /\ flow' = (flow /\ ~go)
     /\ wake' = [wake EXCEPT ![p] = IF go THEN <<"wr">> ELSE <<>>]

notempty == closed \/ q # <<>>
(* Mutant: off by one. *)
qnotfull_OffByOne == len <= Limit \/ closed

qnotfull == len < Limit \/ closed

(* Wakeup(&q->rr), Wakeup(&q->wr) after the unlock *)
Wakeup(p) == /\ wake[p] # <<>>
             /\ \/ Head(wake[p]) = "rr" /\ rr' = Nil /\ UNCHANGED wr
                \/ Head(wake[p]) = "wr" /\ wr' = Nil /\ UNCHANGED rr
             /\ wake' = [wake EXCEPT ![p] = Tail(@)]
             /\ UNCHANGED <<queue, flags, rlock, wlock, control, writes, aux>>

-----------------------------------------------------------------------------
(* Reading.  A call holds q->rlock from RLock to the step it returns in.   *)

CallRead(p) == \E n \in use.rlen, f \in {"qread", "qbread"} :
  /\ p \in use.reader
  /\ Goto(p, "idle", "rqlock")
  /\ op' = [op EXCEPT ![p] = f]
  /\ arg' = [arg EXCEPT ![p] = n]
  /\ UNCHANGED <<queue, flags, locks, hand, wake, writes, aux>>

RLock(p) == /\ Goto(p, "rqlock", "rwait")
            /\ rlock = Nil
            /\ rlock' = p
            /\ UNCHANGED <<queue, flags, wlock, rr, wr, op, arg, hand, wake, writes, aux>>

RUnlock == rlock' = Nil /\ UNCHANGED <<wlock, rr, wr>>

(* When coalescing, qread frees the empty blocks at the front ("goto again"). *)
Skipped(p) ==
  IF use.coalesce /\ op[p] = "qread"
  THEN CHOOSE k \in 0..Len(q) : /\ \A i \in 1..k : q[i].n = 0
                                /\ k = Len(q) \/ q[k + 1].n > 0
  ELSE 0

Skip(p) == SubSeq(q, 1, Skipped(p))
Rest(p) == SubSeq(q, Skipped(p) + 1, Len(q))

(* How many blocks of a nonempty s qread takes: one or, when coalescing,   *)
(* as many of the following blocks as will completely fit in the read.     *)
Take(s, n) ==
  IF use.coalesce
  THEN LET fits(k) == k = 1 \/ Bytes(SubSeq(s, 1, k)) <= n
       IN CHOOSE k \in 1..Len(s) : fits(k) /\ (k = Len(s) \/ ~fits(k + 1))
  ELSE 1

(* qwait finds the queue closed: end of file three times, then an error,   *)
(* at once if qhangup was given a message.  Either way the call returns,   *)
(* and neither q->eof nor q->err is kept here.                             *)
ReadEof(p) ==
  /\ Goto(p, "rwait", "idle")
  /\ Rest(p) = <<>> /\ closed
  /\ Unqueue(Skip(p), <<>>)
  /\ live' = live - Skipped(p)
  /\ RUnlock
  /\ UNCHANGED <<starve, flow, closed, modes, op, arg, hand, wake, writes,
                 sent, got, lost>>

(* Mutant: the producer is not asked to wake the reader. *)
ReadStarve_Quiet(p) ==
  /\ Goto(p, "rwait", "rsleep")
  /\ Rest(p) = <<>> /\ ~closed
  /\ Unqueue(Skip(p), <<>>)
  /\ live' = live - Skipped(p)
  /\ UNCHANGED <<flags, locks, op, arg, hand, wake, writes, sent, got, lost>>

(* qwait asks the producer to wake it and releases q->l. *)
ReadStarve(p) ==
  /\ Goto(p, "rwait", "rsleep")
  /\ Rest(p) = <<>> /\ ~closed
  /\ starve' = TRUE
  /\ Unqueue(Skip(p), <<>>)
  /\ live' = live - Skipped(p)
  /\ UNCHANGED <<flow, closed, modes, locks, op, arg, hand, wake, writes,
                 sent, got, lost>>

(* Sleep(&q->rr, notempty, q) *)
ReadSleep(p) ==
  /\ \/ Goto(p, "rsleep", "rwait") /\ notempty /\ UNCHANGED rr
     \/ Goto(p, "rsleep", "rblock") /\ ~notempty /\ rr' = p
     \/ Goto(p, "rblock", "rwait") /\ rr # p /\ UNCHANGED rr
  /\ UNCHANGED <<queue, flags, rlock, wlock, wr, op, arg, hand, wake, writes, aux>>

(* Sleep raises Eintr, whether or not it was also woken. *)
ReadEintr(p) ==
  /\ Intr
  /\ Goto(p, "rsleep", "idle") \/ Goto(p, "rblock", "idle")
  /\ rr' = IF rr = p THEN Nil ELSE rr
  /\ rlock' = Nil
  /\ UNCHANGED <<queue, flags, wlock, wr, op, arg, hand, wake, writes, aux>>

(* qread takes blocks off the queue and copies them with q->l released. *)
ReadTake(p) ==
  /\ op[p] = "qread"
  /\ Goto(p, "rwait", "copy")
  /\ Rest(p) # <<>>
  /\ LET k == Skipped(p)
         m == Take(Rest(p), arg[p])
     IN /\ Unqueue(SubSeq(q, 1, k + m), SubSeq(q, k + m + 1, Len(q)))
        /\ Hold(p, SubSeq(q, k + 1, k + m))
        /\ live' = live - k
  /\ UNCHANGED <<flags, locks, op, arg, wake, writes, sent, got, lost>>

(* The first n bytes of block b, and the rest of it. *)
FirstBytes(b, n) == [b EXCEPT !.n = n]
OtherBytes(b, n)  == [b EXCEPT !.at = @ + n, !.n = @ - n]

(* Mutant: the block goes to the back. *)
PutBack_Last(b) == /\ q' = q \o <<b>>
                   /\ len' = len + b.alloc
                   /\ dlen' = dlen + b.n

PutBack(b) == /\ q' = <<b>> \o q
              /\ len' = len + b.alloc
              /\ dlen' = dlen + b.n

(* Delivering the bytes of s, and what that says about the stream. *)
Deliver(s) == got' = IF Bytes(s) = 0 THEN got ELSE Last(s).at + Last(s).n - 1

(* A block that did not fit is put back or, in message mode, thrown away;  *)
(* qwakeup_unlock restarts a flow-controlled writer.                       *)
ReadDone(p) ==
  LET s == hand[p]
      n == arg[p]
      b == s[1]
  IN /\ Goto(p, "copy", "rdone")
     /\ Hold(p, <<>>)
     /\ \/ /\ Bytes(s) <= n
           /\ Deliver(s)
           /\ live' = live - Len(s)
           /\ UNCHANGED <<queue, lost>>
        \/ /\ Bytes(s) > n /\ msg
           /\ Deliver(<<FirstBytes(b, n)>>)
           /\ live' = live - 1
           /\ lost' = TRUE
           /\ UNCHANGED queue
        \/ /\ Bytes(s) > n /\ ~msg
           /\ Deliver(<<FirstBytes(b, n)>>)
           /\ PutBack(OtherBytes(b, n))
           /\ UNCHANGED <<live, lost>>
     /\ FlowWake(p, Limit \div 2)
     /\ UNCHANGED <<starve, closed, modes, locks, op, arg, writes, sent>>

(* qbread does all of it under q->l, copying what it puts back to a block  *)
(* of its own.  The block it returns is the caller's.                      *)
BlockRead(p) ==
  LET b == Head(q)
      n == arg[p]
      long == b.n > n
      back == [OtherBytes(b, n) EXCEPT !.alloc = b.n - n]
  IN /\ op[p] = "qbread"
     /\ q # <<>>
     /\ Goto(p, "rwait", "rdone")
     /\ Deliver(<<IF long THEN FirstBytes(b, n) ELSE b>>)
     /\ IF long /\ ~msg
        THEN /\ q' = <<back>> \o Tail(q)
             /\ len' = len - b.alloc + back.alloc
             /\ dlen' = dlen - b.n + back.n
             /\ UNCHANGED <<live, lost>>
        ELSE /\ Unqueue(<<b>>, Tail(q))
             /\ live' = live - 1
             /\ lost' = (lost \/ long)
     /\ FlowWake(p, Limit \div 2)
     /\ UNCHANGED <<starve, closed, modes, locks, op, arg, hand, writes,
                    sent>>

ReadReturn(p) == /\ Awake(p)
                 /\ Goto(p, "rdone", "idle")
                 /\ RUnlock
                 /\ UNCHANGED <<queue, flags, op, arg, hand, wake, writes, aux>>

-----------------------------------------------------------------------------
(* Writing: qwrite allocates blocks of at most Maxatomic bytes and gives   *)
(* them to qbwrite one by one; a message queue gets only the first.        *)

NewBlock(n, i) == [at |-> i + 1, n |-> n, alloc |-> n]

(* The next block of a qwrite with n bytes to go.  It is numbered when queued. *)
NextPiece(p, n) == LET k == MinOf(n, Maxatomic) IN
  /\ Hold(p, <<NewBlock(k, 0)>>)
  /\ arg' = [arg EXCEPT ![p] = n - k]
  /\ live' = live + 1

CallWrite(p) == \E n \in use.wlen :
  /\ p \in use.writer /\ writes < use.puts
  /\ writes' = writes + 1
  /\ Goto(p, "idle", "wqlock")
  /\ NextPiece(p, n)
  /\ UNCHANGED <<queue, flags, locks, op, wake, sent, got, lost>>

WLock(p) == /\ Goto(p, "wqlock", "wput")
            /\ wlock = Nil
            /\ wlock' = p
            /\ UNCHANGED <<queue, flags, rlock, rr, wr, op, arg, hand, wake, writes, aux>>

WUnlock == wlock' = Nil /\ UNCHANGED <<rlock, rr, wr>>

(* Mutant: the error path does not free the block. *)
WriteClosed_Keeps(p) == /\ Goto(p, "wput", "idle")
                        /\ closed
                        /\ Hold(p, <<>>)
                        /\ WUnlock
                        /\ UNCHANGED <<queue, flags, op, arg, wake, writes, aux>>

(* error(q->err), or a full nonblocking queue: the block is freed. *)
WriteClosed(p) == /\ Goto(p, "wput", "idle")
                  /\ closed
                  /\ Hold(p, <<>>)
                  /\ live' = live - 1
                  /\ WUnlock
                  /\ UNCHANGED <<queue, flags, op, arg, wake, writes, sent, got, lost>>

WriteDropped(p) == /\ Goto(p, "wput", "wnext")
                   /\ ~closed /\ len >= Limit /\ noblock
                   /\ Hold(p, <<>>)
                   /\ live' = live - 1
                   /\ WUnlock
                   /\ UNCHANGED <<queue, flags, op, arg, wake, writes, sent, got, lost>>

WritePut(p) == /\ Goto(p, "wput", "wcheck")
               /\ ~closed /\ ~(len >= Limit /\ noblock)
               /\ Enqueue(<<NewBlock(hand[p][1].n, sent)>>)
               /\ sent' = sent + hand[p][1].n
               /\ Hold(p, <<>>)
               /\ StarveWake(p)
               /\ UNCHANGED <<flow, closed, modes, locks, op, arg, writes,
                              got, lost, live>>

(* Flow control: q->len and q->noblock are read without q->l. *)
WriteCheck(p) ==
  /\ Awake(p)
  /\ \/ Goto(p, "wcheck", "wnext") /\ (noblock \/ qnotfull) /\ WUnlock
     \/ Goto(p, "wcheck", "wflow") /\ ~(noblock \/ qnotfull) /\ UNCHANGED locks
  /\ UNCHANGED <<queue, flags, op, arg, hand, wake, writes, aux>>

(* Mutant: Qflow is not set. *)
WriteFlow_Quiet(p) == /\ Goto(p, "wflow", "wsleep")
                      /\ UNCHANGED <<queue, flags, locks, op, arg, hand, wake, writes, aux>>

WriteFlow(p) == /\ Goto(p, "wflow", "wsleep")
                /\ flow' = TRUE
                /\ UNCHANGED <<queue, starve, closed, modes, locks, op, arg,
                               hand, wake, writes, aux>>

(* Sleep(&q->wr, qnotfull, q) *)
WriteSleep(p) ==
  /\ \/ Goto(p, "wsleep", "wcheck") /\ qnotfull /\ UNCHANGED wr
     \/ Goto(p, "wsleep", "wblock") /\ ~qnotfull /\ wr' = p
     \/ Goto(p, "wblock", "wcheck") /\ wr # p /\ UNCHANGED wr
  /\ UNCHANGED <<queue, flags, rlock, wlock, rr, op, arg, hand, wake, writes, aux>>

(* The write fails, its data queued all the same. *)
WriteEintr(p) ==
  /\ Intr
  /\ Goto(p, "wsleep", "idle") \/ Goto(p, "wblock", "idle")
  /\ wr' = IF wr = p THEN Nil ELSE wr
  /\ wlock' = Nil
  /\ UNCHANGED <<queue, flags, rlock, rr, op, arg, hand, wake, writes, aux>>

WriteNext(p) ==
  /\ \/ /\ Goto(p, "wnext", "wqlock")
        /\ arg[p] > 0 /\ ~msg
        /\ NextPiece(p, arg[p])
     \/ /\ Goto(p, "wnext", "idle")
        /\ arg[p] = 0 \/ msg
        /\ UNCHANGED <<arg, hand, live>>
  /\ UNCHANGED <<queue, flags, locks, op, wake, writes, sent, got, lost>>

-----------------------------------------------------------------------------
(* The interface without a process: every operation is one critical        *)
(* section, the Wakeups after it, and for qiwrite a loop of these.         *)

Call(d, name) == name \in use.ops /\ pc[d] = "idle" /\ Awake(d)

Chain(ns) == [i \in 1..Len(ns) |->
               NewBlock(ns[i], sent + Total(SubSeq(ns, 1, i - 1)))]

(* New blocks of the lengths ns go on the queue, and a reader is woken. *)
Put(d, ns) == /\ Enqueue(Chain(ns))
              /\ sent' = sent + Total(ns)
              /\ live' = live + Len(ns)
              /\ StarveWake(d)

CountWrite == writes < use.puts /\ writes' = writes + 1

(* qproduce asks to be told of room, though nobody but qwrite sleeps on wr. *)
qproduce(d) ==
  /\ Call(d, "qproduce") /\ ~closed
  /\ \/ /\ len < Limit
        /\ CountWrite
        /\ \E n \in use.wlen : Put(d, <<n>>)
        /\ flow' = (flow \/ len' >= Limit)
     \/ /\ len >= Limit
        /\ flow' = TRUE
        /\ UNCHANGED <<queue, starve, wake, writes, sent, live>>
  /\ UNCHANGED <<closed, modes, locks, control, got, lost>>

(* A chain of blocks refused, by a closed queue or by qpass's limit, is    *)
(* freed and leaves no trace.                                              *)
qpass(d) ==
  /\ \/ Call(d, "qpass") /\ len < Limit
     \/ Call(d, "qpassnolim")
  /\ ~closed
  /\ CountWrite
  /\ \E n \in use.wlen, ns \in {<<>>} \cup {<<m>> : m \in use.wlen} : Put(d, <<n>> \o ns)
  /\ flow' = (flow \/ len' >= Limit \div 2)
  /\ UNCHANGED <<closed, modes, locks, control, got, lost>>

(* qiwrite looks at neither the limit nor Qclosed; having woken the reader *)
(* once it does so after every further block.                              *)
CallIwrite(d) ==
  /\ Call(d, "qiwrite")
  /\ CountWrite
  /\ pc' = [pc EXCEPT ![d] = "iwrite"]
  /\ \E n \in use.wlen : arg' = [arg EXCEPT ![d] = n]
  /\ UNCHANGED <<queue, flags, locks, op, hand, wake, aux>>

Iwrite(d) ==
  LET k    == MinOf(arg[d], Maxatomic)
      woke == starve \/ pc[d] = "iwoken"
  IN /\ pc[d] \in {"iwrite", "iwoken"} /\ Awake(d)
     /\ Enqueue(Chain(<<k>>))
     /\ sent' = sent + k
     /\ live' = live + 1
     /\ starve' = FALSE
     /\ wake' = [wake EXCEPT ![d] = IF woke THEN <<"rr">> ELSE <<>>]
     /\ arg' = [arg EXCEPT ![d] = @ - k]
     /\ pc' = [pc EXCEPT ![d] = IF arg[d] = k \/ msg THEN "idle"
                                ELSE IF woke THEN "iwoken" ELSE "iwrite"]
     /\ UNCHANGED <<flow, closed, modes, locks, op, hand, writes, got, lost>>

qget(d) ==
  /\ Call(d, "qget")
  /\ \/ /\ q = <<>>
        /\ starve' = TRUE
        /\ UNCHANGED <<queue, flow, wake, got, live>>
     \/ /\ q # <<>>
        /\ Unqueue(<<Head(q)>>, Tail(q))
        /\ Deliver(<<Head(q)>>)
        /\ live' = live - 1
        /\ FlowWake(d, Limit \div 2)
        /\ UNCHANGED starve
  /\ UNCHANGED <<closed, modes, locks, control, writes, sent, lost>>

(* Bytes are taken from the front until n are gone: the first k blocks and *)
(* part of the next.  Here a writer is restarted at the limit.             *)
qdiscard(d) == \E n \in use.rlen : \E k \in 0..Len(q) :
  LET gone == SubSeq(q, 1, k)
      rest == SubSeq(q, k + 1, Len(q))
      part == n - Bytes(gone)
  IN /\ Call(d, "qdiscard")
     /\ part >= 0
     /\ k > 0 => Bytes(SubSeq(q, 1, k - 1)) < n
     /\ part > 0 /\ rest # <<>> => rest[1].n > part
     /\ len' = len - Alloc(gone)
     /\ \/ /\ part > 0 /\ rest # <<>>
           /\ q' = <<OtherBytes(rest[1], part)>> \o Tail(rest)
           /\ dlen' = dlen - n
           /\ Deliver(<<FirstBytes(rest[1], part)>>)
        \/ /\ part = 0 \/ rest = <<>>
           /\ q' = rest
           /\ dlen' = dlen - Bytes(gone)
           /\ Deliver(gone)
     /\ live' = live - k
     /\ FlowWake(d, Limit)
     /\ UNCHANGED <<starve, closed, modes, locks, control, writes, sent, lost>>

(* Empty blocks are set aside, to be freed at the end; if there is nothing *)
(* else, qconsume returns without doing so.                                *)
qconsume(d) == \E n \in use.rlen : \E k \in 0..Len(q) :
  LET rest == SubSeq(q, k + 1, Len(q))
      b    == rest[1]
      m    == MinOf(n, b.n)
  IN /\ Call(d, "qconsume")
     /\ \A i \in 1..k : q[i].n = 0
     /\ rest # <<>> => b.n > 0
     /\ \/ /\ rest = <<>>
           /\ Unqueue(q, <<>>)
           /\ starve' = TRUE
           /\ UNCHANGED <<flow, wake, got, lost, live>>
        \/ /\ rest # <<>> /\ (msg \/ m = b.n)
           /\ Unqueue(SubSeq(q, 1, k + 1), Tail(rest))
           /\ Deliver(<<FirstBytes(b, m)>>)
           /\ lost' = (lost \/ m < b.n)
           /\ live' = live - k - 1
           /\ FlowWake(d, Limit \div 2)
           /\ UNCHANGED starve
        \/ /\ rest # <<>> /\ ~msg /\ m < b.n
           /\ q' = <<OtherBytes(b, m)>> \o Tail(rest)
           /\ len' = len - Alloc(SubSeq(q, 1, k))
           /\ dlen' = dlen - m
           /\ Deliver(<<FirstBytes(b, m)>>)
           /\ live' = live - k
           /\ FlowWake(d, Limit \div 2)
           /\ UNCHANGED <<starve, lost>>
     /\ UNCHANGED <<closed, modes, locks, control, writes, sent>>

Empty == /\ q' = <<>> /\ len' = 0 /\ dlen' = 0
         /\ live' = live - Len(q)
         /\ lost' = (lost \/ q # <<>>)

(* A driver calls these when it drops its last reference to one side: the  *)
(* processes of that side are in no call (pipeclose; consclose and         *)
(* procclose, where it is the reading side).  The queue does not enforce   *)
(* it, and without use.owned neither does the model.                       *)
NoCall(S) == use.owned => \A p \in S : pc[p] = "idle"

WakeBoth(d) == wake' = [wake EXCEPT ![d] = <<"rr", "wr">>]

qflush(d) == /\ Call(d, "qflush")
             /\ Empty
             /\ wake' = [wake EXCEPT ![d] = <<"wr">>]
             /\ UNCHANGED <<flags, locks, control, writes, sent, got>>

qclose(d) == /\ Call(d, "qclose") /\ NoCall(Reader)
             /\ closed' = TRUE
             /\ flow' = FALSE /\ starve' = FALSE /\ noblock' = FALSE
             /\ Empty
             /\ WakeBoth(d)
             /\ UNCHANGED <<use, msg, locks, control, writes, sent, got>>

qhangup(d) == /\ Call(d, "qhangup") /\ NoCall(Writer)
              /\ closed' = TRUE
              /\ WakeBoth(d)
              /\ UNCHANGED <<queue, starve, flow, modes, locks, control, writes, aux>>

qreopen(d) == /\ Call(d, "qreopen") /\ NoCall(Proc)
              /\ closed' = FALSE
              /\ starve' = TRUE
              /\ UNCHANGED <<queue, flow, modes, locks, control, wake, writes, aux>>

qnoblock(d) == /\ Call(d, "qnoblock")
               /\ use.owned => writes = 0
               /\ \E onoff \in BOOLEAN : noblock' = onoff
               /\ UNCHANGED <<use, queue, starve, flow, closed, msg, locks, control, wake, writes, aux>>

-----------------------------------------------------------------------------
Reading(p) == \/ RLock(p)     \/ ReadEof(p)  \/ ReadStarve(p) \/ ReadSleep(p)
              \/ ReadTake(p)  \/ ReadDone(p) \/ BlockRead(p)  \/ ReadReturn(p)

Writing(p) == \/ WLock(p)     \/ WriteClosed(p) \/ WriteDropped(p) \/ WritePut(p)
              \/ WriteCheck(p) \/ WriteFlow(p)  \/ WriteSleep(p)   \/ WriteNext(p)

Device(d) == \/ qproduce(d) \/ qpass(d)    \/ CallIwrite(d) \/ qget(d)   \/ qdiscard(d)
             \/ qconsume(d) \/ qflush(d)   \/ qclose(d)     \/ qhangup(d)
             \/ qreopen(d)  \/ qnoblock(d)

Next == \/ \E p \in Reader : CallRead(p) \/ Reading(p) \/ ReadEintr(p)
        \/ \E p \in Writer : CallWrite(p) \/ Writing(p) \/ WriteEintr(p)
        \/ \E d \in Dev : Device(d) \/ Iwrite(d)
        \/ \E a \in Actor : Wakeup(a)

Spec == Init /\ [][Next]_vars

(* Calls in progress go on, the Wakeup that ends one included, and a QLock *)
(* is handed over in turn (QLock, WaitersServed).                          *)
FairSpec == /\ Spec
            /\ \A p \in Reader : WF_vars(Reading(p)) /\ SF_vars(RLock(p))
            /\ \A p \in Writer : WF_vars(Writing(p)) /\ SF_vars(WLock(p))
            /\ \A d \in Dev : WF_vars(Iwrite(d))
            /\ \A a \in Actor : WF_vars(Wakeup(a))

(* The same with readers that always come back for more. *)
ServedSpec == FairSpec /\ \A p \in Reader : WF_vars(CallRead(p))

-----------------------------------------------------------------------------
(* len and dlen, kept by increments and decrements all over the file, are  *)
(* the allocation and the bytes of the blocks on the list, and no count of *)
(* the model leaves its type.                                              *)
Accounts == TypeOK /\ len = Alloc(q) /\ dlen = Bytes(q)

Coming(x) == \E a \in Actor : \E i \in 1..Len(wake[a]) : wake[a][i] = x

(* No reader sleeps beside data, or on a closed queue, unless a Wakeup of  *)
(* q->rr is on its way.                                                    *)
NoStrandedReader == rr # Nil /\ notempty => Coming("rr")

(* A writer flow control has put to sleep is woken once the queue is below *)
(* half its limit, or closed: the Wakeup of q->wr is on its way, or some   *)
(* reader is still copying and will look at the length afterwards.         *)
NoStrandedWriter ==
  wr # Nil /\ (len < Limit \div 2 \/ closed) =>
    Coming("wr") \/ \E p \in Reader : pc[p] = "copy"

(* What the reader that is copying holds, followed by the queue, is the    *)
(* part of the stream that has not been delivered, in the order queued:    *)
(* nothing doubled, nothing out of place and, if nothing was thrown away,  *)
(* nothing missing.                                                        *)
Copying == {p \in Reader : pc[p] = "copy"}
Pending == IF Copying = {} THEN q ELSE hand[CHOOSE p \in Copying : TRUE] \o q

StreamInOrder ==
  LET s == Pending
      full == {i \in 1..Len(s) : s[i].n > 0}
  IN /\ \A i \in full : s[i].at > got
     /\ \A i, j \in full : i < j => s[i].at + s[i].n <= s[j].at
     /\ ~lost => Bytes(s) = sent - got

(* Every block allocated and not yet freed or handed out is on the queue   *)
(* or in the hands of a process: none is lost on any path.                 *)
Held   == Len(q) + Total([p \in Proc |-> Len(hand[p])])
NoLeak == live = Held

(* "max bytes in queue", as q->limit is called: a write may exceed it by   *)
(* its own block, and a reader putting back what it did not need by that.  *)
LimitKept == len <= Limit - 1 + 2 * Maxatomic

(* A sleeping reader gets away from data or from a closed queue.           *)
ReaderLeaves == \A p \in Reader : (pc[p] = "rblock" /\ notempty) ~> pc[p] # "rblock"

(* While readers keep reading, every write comes to an end, however long   *)
(* it is and however often flow control stops it.                          *)
WritesFinish == \A p \in Writer : pc[p] = "wqlock" ~> pc[p] = "idle"
=============================================================================
