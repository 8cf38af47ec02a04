--------------------------------- MODULE Mnt ---------------------------------
(***************************************************************************)
(* The multiplexer of the mount driver, sys/src/9/devmnt.c: mountrpc,      *)
(* mountio, mntrpcread, mountmux, mntgate and the flushing of interrupted  *)
(* requests, by processes that share one 9P connection.  One of them at a  *)
(* time (m->rip) reads replies, for itself and for the others.             *)
(*                                                                         *)
(* What is done under m->l is one step; so is a read or write of the       *)
(* connection, taken message by message (what mntrpcread has of an         *)
(* incomplete message stays in m->q).  Sleep re-tests its condition and    *)
(* posts itself in one step, as Rendez establishes.                        *)
(***************************************************************************)
EXTENDS Integers, Sequences, FiniteSets, SequencesExt

CONSTANTS
  Proc,
  NRpc,       (* Mntrpc structures; each keeps its tag, so also the tags    *)
  MaxCalls,   (* bound: calls each process makes                            *)
  MaxIntr,    (* bound: interrupts                                          *)
  Hangs,      (* whether the connection may fail                            *)
  Nil

ASSUME BoundAssumption == /\ MaxCalls \in Nat /\ MaxIntr \in Nat
                          /\ Hangs \in BOOLEAN /\ Nil \notin Proc
ASSUME RpcAssumption   == /\ IsFiniteSet(Proc) /\ NRpc \in Nat
                          /\ NRpc >= Cardinality(Proc) + MaxIntr
                          /\ Nil \notin 1..NRpc

Rpc == 1..NRpc

VARIABLES
  free,       (* structures not in use, in the order mntralloc takes them   *)
  queue,      (* m->queue, the unanswered requests, latest first            *)
  rip,        (* m->rip                                                     *)
  request,    (* request[r]: kind, oldtag, and the call it is made for      *)
  reply,      (* reply[r], as last filled in                                *)
  done, flushed,          (* fields of r                                    *)
  rend,       (* rend[r]: the process posted in r->r                        *)
  pc,
  cur,        (* cur[p]: r of mountio                                       *)
  orig,       (* orig[p]: r of mountrpc                                     *)
  peer,       (* peer[p]: q of mountmux                                     *)
  err,        (* err[p]: mountio ends with an error other than Eintr        *)
  calls,      (* calls[p]: how many p has made                              *)
  intrs,      (* how many interrupts there were                             *)
  srv,        (* external: requests the server has yet to answer, in order  *)
  rx,         (* replies on their way                                       *)
  hung,       (* the connection has failed                                  *)
  served,     (* auxiliary: the server has answered p's latest call         *)
  got         (* auxiliary: the call whose reply p was last given           *)

mount  == <<queue, rip>>
fields == <<request, reply, done, flushed>>
locals == <<cur, orig, peer, err>>
wire   == <<srv, rx, hung, served>>
count  == <<calls, intrs>>
vars   == <<free, mount, fields, rend, pc, locals, count, wire, got>>

CallId  == Proc \X (1..MaxCalls)
Kind    == {"T", "Tflush", "R", "Rflush"}
Message == [tag : Rpc, kind : Kind, old : Rpc \cup {Nil}, call : CallId]
Blank   == [tag |-> Nil, kind |-> "none", old |-> Nil, call |-> Nil]

PC == {"idle", "link", "write", "gate", "sleep", "asleep", "woken", "reading",
       "mux", "notify", "caught", "flush", "free", "mark", "remove", "return"}

TypeOK == /\ free \in Seq(Rpc)
          /\ queue \in Seq(Rpc)
          /\ rip \in Proc \cup {Nil}
          /\ request \in [Rpc -> Message \cup {Blank}]
          /\ \A r \in Rpc : reply[r].kind \in Kind \cup {"none"}
          /\ done \in [Rpc -> BOOLEAN]
          /\ flushed \in [Rpc -> Rpc \cup {Nil}]
          /\ rend \in [Rpc -> Proc \cup {Nil}]
          /\ pc \in [Proc -> PC]
          /\ {cur, orig, peer} \subseteq [Proc -> Rpc \cup {Nil}]
          /\ \A p \in Proc : pc[p] # "idle" => cur[p] # Nil
          /\ err \in [Proc -> BOOLEAN]
          /\ calls \in [Proc -> 0..MaxCalls]
          /\ intrs \in 0..MaxIntr
          /\ {srv, rx} \subseteq Seq(Message)
          /\ hung \in BOOLEAN
          /\ served \in [Proc -> BOOLEAN]
          /\ got \in [Proc -> CallId \cup {Nil}]

Init == /\ free = [i \in Rpc |-> i]
        /\ queue = <<>> /\ rip = Nil
        /\ request = [r \in Rpc |-> Blank]
        /\ reply = [r \in Rpc |-> Blank]
        /\ done = [r \in Rpc |-> FALSE]
        /\ flushed = [r \in Rpc |-> Nil]
        /\ rend = [r \in Rpc |-> Nil]
        /\ pc = [p \in Proc |-> "idle"]
        /\ cur = [p \in Proc |-> Nil]
        /\ orig = [p \in Proc |-> Nil]
        /\ peer = [p \in Proc |-> Nil]
        /\ err = [p \in Proc |-> FALSE]
        /\ calls = [p \in Proc |-> 0]
        /\ intrs = 0
        /\ srv = <<>> /\ rx = <<>> /\ hung = FALSE
        /\ served = [p \in Proc |-> FALSE]
        /\ got = [p \in Proc |-> Nil]

Goto(p, from, to) == pc[p] = from /\ pc' = [pc EXCEPT ![p] = to]
OnQueue(r)        == \E i \in 1..Len(queue) : queue[i] = r
Without(r)        == RemoveFirst(queue, r)

(* mntralloc takes the structure freed last or, if none is left, makes one *)
(* with the lowest tag free.                                               *)
New == Head(free)

mntralloc(kind, old, call) ==
  /\ free' = Tail(free)
  /\ request' = [request EXCEPT ![New] = [tag |-> New, kind |-> kind, old |-> old, call |-> call]]

(* The fields of a free structure mean nothing.  They get the values with  *)
(* which the next call starts here rather than in mntralloc and mountrpc,  *)
(* so that states that do not differ are not told apart.                   *)
mntfree(r) == /\ free' = <<r>> \o free
              /\ request' = [request EXCEPT ![r] = Blank]
              /\ reply' = [reply EXCEPT ![r] = Blank]
              /\ done' = [done EXCEPT ![r] = FALSE]
              /\ flushed' = [flushed EXCEPT ![r] = Nil]

-----------------------------------------------------------------------------
(* mountrpc, for one of the requests the driver's operations are made of. *)
Call(p) ==
  /\ calls[p] < MaxCalls
  /\ Goto(p, "idle", "link")
  /\ calls' = [calls EXCEPT ![p] = @ + 1]
  /\ mntralloc("T", Nil, <<p, calls[p] + 1>>)
  /\ cur' = [cur EXCEPT ![p] = New]
  /\ orig' = [orig EXCEPT ![p] = New]
  /\ err' = [err EXCEPT ![p] = FALSE]
  /\ served' = [served EXCEPT ![p] = FALSE]
  /\ got' = [got EXCEPT ![p] = Nil]
  /\ UNCHANGED <<mount, reply, done, flushed, rend, peer, intrs, srv, rx, hung>>

Link(p) == /\ Goto(p, "link", "write")
           /\ queue' = <<cur[p]>> \o queue
           /\ UNCHANGED <<free, rip, fields, rend, locals, count, wire, got>>

Write(p) == /\ Goto(p, "write", "gate")
            /\ ~hung
            /\ srv' = Append(srv, request[cur[p]])
            /\ UNCHANGED <<free, mount, fields, rend, locals, count, rx, hung, served, got>>

(* Gate readers onto the mount point one at a time. *)
Gate(p) == /\ \/ Goto(p, "gate", "reading") /\ rip = Nil /\ rip' = p
              \/ Goto(p, "gate", "sleep") /\ rip # Nil /\ UNCHANGED rip
           /\ UNCHANGED <<free, queue, fields, rend, locals, count, wire, got>>

rpcattn(r) == done[r] \/ rip = Nil

(* Sleep(&r->r, rpcattn, r) *)
Sleep(p) == LET r == cur[p] IN
  /\ \/ Goto(p, "sleep", "woken") /\ rpcattn(r) /\ UNCHANGED rend
     \/ Goto(p, "sleep", "asleep") /\ ~rpcattn(r) /\ rend' = [rend EXCEPT ![r] = p]
     \/ Goto(p, "asleep", "woken") /\ rend[r] # p /\ UNCHANGED rend
  /\ UNCHANGED <<free, mount, fields, locals, count, wire, got>>

Woken(p) == /\ \/ Goto(p, "woken", "free") /\ done[cur[p]]
               \/ Goto(p, "woken", "gate") /\ ~done[cur[p]]
            /\ UNCHANGED <<free, mount, fields, rend, locals, count, wire, got>>

(* mntrpcread fills in the reader's own r->reply, whoever it is for. *)
Read(p) == /\ Goto(p, "reading", "mux")
           /\ ~done[cur[p]] /\ rx # <<>>
           /\ reply' = [reply EXCEPT ![cur[p]] = Head(rx)]
           /\ rx' = Tail(rx)
           /\ UNCHANGED <<free, mount, request, done, flushed, rend, locals,
                          count, srv, hung, served, got>>

(* Mutant: the process whose request is completed is not woken. *)
mountmux_Silent(p) ==
  LET r == cur[p]
      t == reply[r].tag
  IN /\ pc[p] = "mux"
     /\ \/ /\ OnQueue(t)
           /\ Goto(p, "mux", "reading")
           /\ queue' = Without(t)
           /\ reply' = [reply EXCEPT ![t] = reply[r]]
           /\ done' = [done EXCEPT ![t] = TRUE]
           /\ peer' = [peer EXCEPT ![p] = Nil]
        \/ /\ ~OnQueue(t)       \* "unexpected reply"
           /\ Goto(p, "mux", "reading")
           /\ UNCHANGED <<queue, reply, done, peer>>
     /\ UNCHANGED <<free, rip, request, flushed, rend, cur, orig, err, count, wire, got>>

mountmux(p) ==
  LET r == cur[p]
      t == reply[r].tag
  IN /\ pc[p] = "mux"
     /\ \/ /\ OnQueue(t)
           /\ Goto(p, "mux", IF t = r THEN "reading" ELSE "notify")
           /\ queue' = Without(t)
           /\ reply' = [reply EXCEPT ![t] = reply[r]]
           /\ done' = [done EXCEPT ![t] = TRUE]
           /\ peer' = [peer EXCEPT ![p] = IF t = r THEN Nil ELSE t]
        \/ /\ ~OnQueue(t)       \* "unexpected reply"
           /\ Goto(p, "mux", "reading")
           /\ UNCHANGED <<queue, reply, done, peer>>
     /\ UNCHANGED <<free, rip, request, flushed, rend, cur, orig, err, count, wire, got>>

(* Wakeup(&q->r), when q may be in other hands already. *)
Notify(p) == /\ Goto(p, "notify", "reading")
             /\ rend' = [rend EXCEPT ![peer[p]] = Nil]
             /\ peer' = [peer EXCEPT ![p] = Nil]
             /\ UNCHANGED <<free, mount, fields, cur, orig, err, count, wire, got>>

(* Mutant: the first request is woken, whether somebody sleeps on it or not. *)
mntgate_Any ==
  /\ rip' = Nil
  /\ rend' = [r \in Rpc |-> IF queue # <<>> /\ r = queue[1] THEN Nil ELSE rend[r]]

(* The first unanswered request somebody sleeps on is woken. *)
mntgate ==
  LET asleep == {i \in 1..Len(queue) : ~done[queue[i]] /\ rend[queue[i]] # Nil}
  IN /\ rip' = Nil
     /\ rend' = [r \in Rpc |-> IF \E i \in asleep : r = queue[i] /\ \A j \in asleep : i <= j
                               THEN Nil ELSE rend[r]]

Pass(p) == /\ Goto(p, "reading", "free")
           /\ done[cur[p]]
           /\ mntgate
           /\ UNCHANGED <<free, queue, fields, locals, count, wire, got>>

-----------------------------------------------------------------------------
(* Errors, and what the waserror() of mountio does about them.  An         *)
(* interrupted write may have been done or not.                            *)
Eintr(p) ==
  /\ intrs < MaxIntr
  /\ intrs' = intrs + 1
  /\ \/ Goto(p, "sleep", "caught") \/ Goto(p, "asleep", "caught")
     \/ Goto(p, "reading", "caught") /\ ~done[cur[p]]
     \/ Goto(p, "write", "caught")
  /\ rend' = [rend EXCEPT ![cur[p]] = IF @ = p THEN Nil ELSE @]
  /\ \/ UNCHANGED srv
     \/ pc[p] = "write" /\ ~hung /\ srv' = Append(srv, request[cur[p]])
  /\ UNCHANGED <<free, mount, fields, locals, calls, rx, hung, served, got>>

Fails(p) ==
  /\ hung
  /\ \/ Goto(p, "write", "caught")
     \/ Goto(p, "reading", "caught") /\ ~done[cur[p]] /\ rx = <<>>
  /\ err' = [err EXCEPT ![p] = TRUE]
  /\ UNCHANGED <<free, mount, fields, rend, cur, orig, peer, count, wire, got>>

(* Mutant: an interrupted request is given up without a flush. *)
Caught_GivesUp(p) == /\ Goto(p, "caught", "free")
                     /\ \/ rip = p /\ mntgate
                        \/ rip # p /\ UNCHANGED <<rip, rend>>
                     /\ UNCHANGED <<free, queue, fields, locals, count, wire, got>>

Caught(p) == /\ Goto(p, "caught", IF err[p] THEN "free" ELSE "flush")
             /\ \/ rip = p /\ mntgate
                \/ rip # p /\ UNCHANGED <<rip, rend>>
             /\ UNCHANGED <<free, queue, fields, locals, count, wire, got>>

(* Mutant: a second flush names the first one instead of the request. *)
mntflushalloc_Last(p) ==
  LET r == cur[p]
  IN /\ Goto(p, "flush", "link")
     /\ mntralloc("Tflush", r, request[r].call)
     /\ flushed' = [flushed EXCEPT ![New] = r]
     /\ cur' = [cur EXCEPT ![p] = New]
     /\ UNCHANGED <<mount, reply, done, rend, orig, peer, err, count, wire, got>>

mntflushalloc(p) ==
  LET r == cur[p]
      old == IF request[r].kind = "Tflush" THEN request[r].old ELSE r
  IN /\ Goto(p, "flush", "link")
     /\ mntralloc("Tflush", old, request[r].call)
     /\ flushed' = [flushed EXCEPT ![New] = r]
     /\ cur' = [cur EXCEPT ![p] = New]
     /\ UNCHANGED <<mount, reply, done, rend, orig, peer, err, count, wire, got>>

(* Mutant: the flushes are not freed. *)
FlushNext_Keeps(p, from) ==
  LET r == cur[p]
  IN \/ /\ Goto(p, from, "free")
        /\ flushed[r] # Nil
        /\ done' = [done EXCEPT ![r] = TRUE]
        /\ UNCHANGED <<free, request, reply, flushed>>
        /\ cur' = [cur EXCEPT ![p] = flushed[r]]
     \/ /\ Goto(p, from, "return")
        /\ flushed[r] = Nil
        /\ done' = [done EXCEPT ![r] = TRUE]
        /\ UNCHANGED <<free, request, reply, flushed, cur>>

(* mntflushfree, from the last flush of a chain to the request itself:     *)
(* r->done is read, and the reply's type set, without m->l.                *)
FlushNext(p, from) ==
  LET r == cur[p]
  IN \/ /\ Goto(p, from, "free")
        /\ flushed[r] # Nil
        /\ mntfree(r)
        /\ cur' = [cur EXCEPT ![p] = flushed[r]]
     \/ /\ Goto(p, from, "return")
        /\ flushed[r] = Nil
        /\ done' = [done EXCEPT ![r] = TRUE]
        /\ UNCHANGED <<free, request, reply, flushed, cur>>

FlushTest(p) == /\ \/ FlushNext(p, "free") /\ done[cur[p]]
                   \/ Goto(p, "free", "mark") /\ ~done[cur[p]] /\ UNCHANGED <<free, fields, cur>>
                /\ UNCHANGED <<mount, rend, orig, peer, err, count, wire, got>>

FlushMark(p) == /\ Goto(p, "mark", "remove")
                /\ reply' = [reply EXCEPT ![cur[p]].kind = "Rflush"]
                /\ UNCHANGED <<free, mount, request, done, flushed, rend, locals, count, wire, got>>

(* Mutant: the request stays on m->queue. *)
mntqrm_Forgets(p) == /\ FlushNext(p, "remove")
                     /\ UNCHANGED <<mount, rend, orig, peer, err, count, wire, got>>

mntqrm(p) == /\ FlushNext(p, "remove")
             /\ queue' = Without(cur[p])
             /\ UNCHANGED <<rip, rend, orig, peer, err, count, wire, got>>

(* mountrpc looks at the reply, and its caller frees the request. *)
Return(p) ==
  LET r == orig[p]
  IN /\ Goto(p, "return", "idle")
     /\ got' = [got EXCEPT ![p] = IF ~err[p] /\ reply[r].kind = "R" THEN reply[r].call ELSE Nil]
     /\ mntfree(r)
     /\ cur' = [cur EXCEPT ![p] = Nil]
     /\ orig' = [orig EXCEPT ![p] = Nil]
     /\ UNCHANGED <<mount, rend, peer, err, count, wire>>

-----------------------------------------------------------------------------
(* The server: it answers requests in any order; a flush, however, when    *)
(* the request flushed is answered or dropped, and flushes of one request  *)
(* in the order they came.                                                 *)
Serve(r) == \E i \in 1..Len(srv) :
  LET m == srv[i]
      answer(kind) == Append(rx, [m EXCEPT !.kind = kind])
  IN /\ ~hung
     /\ m.tag = r
     /\ \/ /\ m.kind = "T"
           /\ srv' = RemoveAt(srv, i)
           /\ rx' = answer("R")
           /\ served' = [served EXCEPT ![m.call[1]] = (m.call[2] = calls[m.call[1]]) \/ @]
        \/ /\ m.kind = "Tflush"
           /\ \A j \in 1..i - 1 : srv[j].old # m.old
           /\ srv' = RemoveFirstMatch(RemoveAt(srv, i), LAMBDA x : x.tag = m.old)
           /\ rx' = answer("Rflush")
           /\ UNCHANGED served
     /\ UNCHANGED <<free, mount, fields, rend, pc, locals, count, hung, got>>

Hangup == /\ Hangs /\ ~hung
          /\ hung' = TRUE
          /\ srv' = <<>>
          /\ \E k \in 0..Len(rx) : rx' = SubSeq(rx, 1, k)
          /\ UNCHANGED <<free, mount, fields, rend, pc, locals, count, served, got>>

-----------------------------------------------------------------------------
Step(p) == \/ Link(p) \/ Write(p) \/ Gate(p) \/ Sleep(p) \/ Woken(p) \/ Read(p)
           \/ mountmux(p) \/ Notify(p) \/ Pass(p) \/ Fails(p)
           \/ Caught(p) \/ mntflushalloc(p) \/ FlushTest(p) \/ FlushMark(p)
           \/ mntqrm(p) \/ Return(p)

Next == \/ \E p \in Proc : Call(p) \/ Step(p) \/ Eintr(p)
        \/ \E r \in Rpc : Serve(r)
        \/ Hangup

Spec == Init /\ [][Next]_vars

(* Processes in a call run on, and the server answers. *)
FairSpec == /\ Spec
            /\ \A p \in Proc : WF_vars(Step(p))
            /\ \A r \in Rpc : WF_vars(Serve(r))

-----------------------------------------------------------------------------
(* The requests on m->queue are the unanswered ones of calls in progress,  *)
(* each there once: mountmux never completes one that has been given back. *)
(* And nobody is in a call without a request of his own (TypeOK).          *)
ListedOnce == /\ TypeOK
              /\ IsInjective(queue)
              /\ \A i \in 1..Len(queue) : queue[i] \notin ToSet(free) /\ ~done[queue[i]]

(* While the connection lasts, everything the server has been asked, and   *)
(* every reply on its way, belongs to a request still on the queue: an     *)
(* interrupted one keeps its tag until the server can no longer use it,    *)
(* and a reply finds the request it answers.                               *)
RepliesExpected ==
  ~hung => \A m \in ToSet(srv \o rx) : OnQueue(m.tag) /\ request[m.tag].call = m.call

(* Whoever stops reading hands on: if nobody reads and somebody sleeps     *)
(* waiting for a reply, some process is on its way to becoming the reader. *)
(* Not so after an interrupt on a failing connection: the process that was *)
(* to read next may have left through the write of its flush instead.      *)
GateHeld ==
  rip = Nil /\ (\E r \in Rpc : rend[r] # Nil /\ ~done[r]) =>
    (intrs > 0 /\ hung)
      \/ \E p \in Proc : /\ pc[p] \in {"link", "write", "gate", "sleep", "asleep", "woken",
                                      "caught", "flush"}
                        /\ ~done[cur[p]] /\ rend[cur[p]] # p

(* When no call is in progress every structure, and its tag, is free.      *)
NoRpcLost == (\A p \in Proc : pc[p] = "idle") => ToSet(free) = Rpc /\ queue = <<>>

(* mountrpc implements a remote call. *)
Remote == INSTANCE RemoteCall
  WITH None  <- Nil,
       made  <- calls,
       state <- [p \in Proc |-> IF pc[p] = "idle" THEN "ended"
                                ELSE IF served[p] THEN "served" ELSE "called"]

ImplementsRemote == Remote!Spec

(* Every call ends: whoever stops reading leaves somebody else to do so.   *)
(* The exception is an interrupt and a failing connection together: then   *)
(* the process that was to read next may leave through its write instead.  *)
CallsEnd ==
  [](intrs = 0 \/ ~hung) => \A p \in Proc : pc[p] # "idle" ~> pc[p] = "idle"
=============================================================================
