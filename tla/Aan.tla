-------------------------------- MODULE Aan ---------------------------------
(***************************************************************************)
(* Two instances of sys/src/utils/servers/aan.c, which carry a byte stream *)
(* each way over connections that break: the client dials, the server      *)
(* waits for a call.  Each is four processes sharing memory and three      *)
(* channels of Nbuf buffers: main (threadmain, with reconnect and          *)
(* synchronize), fromnet, fromclient, and a timer that keeps main going.   *)
(*                                                                         *)
(* A message is one buffer.  The keepalive header main writes when the     *)
(* timer expires is ignored by the peer, its count of acknowledged         *)
(* messages included; all it does is to find out that the connection has   *)
(* gone, and that is all of it that is modelled (KeepAlive).               *)
(***************************************************************************)
EXTENDS Integers, Sequences, FiniteSets

CONSTANTS
  Nbuf,        (* buffers of each instance                                  *)
  MaxSend,     (* bound: messages the program at an end writes              *)
  MaxBreaks,   (* bound: times a connection breaks                          *)
  Answering,   (* ends whose program only writes to answer what it read     *)
  Closing      (* ends whose program may terminate                          *)

End == {"client", "server"}
Peer(e) == IF e = "client" THEN "server" ELSE "client"

ASSUME AanAssumption == /\ Nbuf \in Nat \ {0}
                        /\ MaxSend \in [End -> Nat] /\ MaxBreaks \in Nat
                        /\ Answering \subseteq End /\ Closing \subseteq End

VARIABLES
  main,        (* main[e]: where the main process is                        *)
  net,         (* net[e]: where fromnet is                                  *)
  user,        (* user[e]: "off" until fromclient is started, then "on",    *)
               (* and "ended" when it has read the end of its input         *)
  netfd,       (* netfd[e]: there is a connection, in e's opinion           *)
  done,        (* done[e]                                                   *)
  empty,       (* empty[e]: how many buffers are in the channel empty       *)
  unsent, unacked,      (* the other two channels                           *)
  tmp,         (* the channel synchronize fills                             *)
  inmsg, lastacked,     (* messages received; messages known received       *)
  cur, i,      (* the message fromnet has read, and how many acks of it     *)
               (* have been processed                                       *)
  conn,        (* the newest connection: "half" when dialled and not yet    *)
               (* accepted, "up", or "down"                                 *)
  wire,        (* wire[e]: what e can still read from its connection        *)
  backlog,     (* what the client wrote to a connection not yet accepted    *)
  breaks,      (* times a connection broke, up to MaxBreaks                 *)
  sent, got    (* auxiliary: messages the programs wrote and read           *)

chans   == <<empty, unsent, unacked, tmp>>
counts  == <<inmsg, lastacked, cur, i>>
network == <<conn, wire, backlog, breaks>>
ends    == <<user, sent, got>>
vars    == <<main, net, netfd, done, chans, counts, network, ends>>

Eof == 0       (* a message without data is the end of the stream           *)
Message == [data : Nat, msg : Nat, acked : Nat]

TypeOK ==
  /\ main \in [End -> {"dial", "sync", "alt", "dead", "exit", "abort"}]
  /\ net \in [End -> {"poll", "ack", "recv", "stuck", "gone"}]
  /\ user \in [End -> {"off", "on", "ended"}]
  /\ netfd \in [End -> BOOLEAN] /\ done \in [End -> BOOLEAN]
  /\ empty \in [End -> 0..Nbuf]
  /\ \A c \in {unsent, unacked, tmp} : c \in [End -> Seq(Message)]
  /\ inmsg \in [End -> Nat] /\ lastacked \in [End -> Nat]
  /\ cur \in [End -> Message] /\ i \in [End -> Nat]
  /\ conn \in {"half", "up", "down"}
  /\ wire \in [End -> Seq(Message)] /\ backlog \in Seq(Message)
  /\ breaks \in 0..MaxBreaks
  /\ sent \in [End -> Nat] /\ got \in [End -> Seq(Nat)]

Zero == [data |-> Eof, msg |-> 0, acked |-> 0]

Init == /\ main = [e \in End |-> "dial"]
        /\ net = [e \in End |-> "poll"]
        /\ user = [e \in End |-> "off"]
        /\ netfd = [e \in End |-> FALSE]
        /\ done = [e \in End |-> FALSE]
        /\ empty = [e \in End |-> Nbuf]
        /\ unsent = [e \in End |-> <<>>]
        /\ unacked = [e \in End |-> <<>>]
        /\ tmp = [e \in End |-> <<>>]
        /\ inmsg = [e \in End |-> 0]
        /\ lastacked = [e \in End |-> 0]
        /\ cur = [e \in End |-> Zero]
        /\ i = [e \in End |-> 0]
        /\ conn = "down"
        /\ wire = [e \in End |-> <<>>]
        /\ backlog = <<>>
        /\ breaks = 0
        /\ sent = [e \in End |-> 0]
        /\ got = [e \in End |-> <<>>]

Over(e) == main[e] \in {"exit", "abort"}
Set(f, e, v) == [f EXCEPT ![e] = v]

-----------------------------------------------------------------------------
(* The network.  A connection is two FIFOs; when it breaks, what has not   *)
(* been read is cut short anywhere.  A process that exits closes its end,  *)
(* and what it wrote can still be read.                                    *)

Joined(e) == /\ netfd[e] /\ ~Over(Peer(e))
             /\ conn = "up" \/ (conn = "half" /\ e = "client")

(* writen(netfd, ...) of messages s: a write to a connection that is gone  *)
(* fails, or succeeds and is lost; ok tells the caller which.              *)
Write(e, s, ok) ==
  /\ ok \in (IF Joined(e) THEN {TRUE} ELSE IF netfd[e] THEN BOOLEAN ELSE {FALSE})
  /\ IF Joined(e) /\ conn = "up"
     THEN wire' = [wire EXCEPT ![Peer(e)] = @ \o s] /\ UNCHANGED backlog
     ELSE /\ backlog' = IF Joined(e) THEN backlog \o s ELSE backlog
          /\ UNCHANGED wire

Break == /\ conn # "down" /\ breaks < MaxBreaks
         /\ conn' = "down"
         /\ breaks' = breaks + 1
         /\ backlog' = <<>>
         /\ \E n \in [End -> 0..Len(wire["client"]) + Len(wire["server"])] :
              /\ \A e \in End : n[e] <= Len(wire[e])
              /\ wire' = [e \in End |-> SubSeq(wire[e], 1, n[e])]
         /\ UNCHANGED <<main, net, netfd, done, chans, counts, ends>>

-----------------------------------------------------------------------------
(* fromclient: a buffer of data or, at the end of it, an empty one.        *)

(* b becomes a message; b->hdr.msg = outmsg++ *)
Queue(e, d) == /\ user[e] = "on" /\ empty[e] > 0 /\ ~Over(e)
               /\ empty' = Set(empty, e, empty[e] - 1)
               /\ unsent' = [unsent EXCEPT ![e] =
                    Append(@, [data |-> d, msg |-> sent[e], acked |-> 0])]
               /\ UNCHANGED <<main, net, netfd, done, unacked, tmp, counts,
                              network, got>>

ReadUser(e) == /\ sent[e] < MaxSend[e]
               /\ e \in Answering => sent[e] < Len(got[e])
               /\ Queue(e, sent[e] + 1)
               /\ sent' = Set(sent, e, sent[e] + 1)
               /\ UNCHANGED user

UserEof(e) == /\ e \in Closing
              /\ Queue(e, Eof)
              /\ user' = Set(user, e, "ended")
              /\ UNCHANGED sent

-----------------------------------------------------------------------------
(* main *)

(* while(!done) { if(failed) ... } *)
Loop(e, stop, failed) ==
  main' = Set(main, e, IF stop THEN "exit" ELSE IF failed THEN "dead" ELSE "alt")

(* case Unsent: once the end of the stream has been written, or could not  *)
(* be, the program is done.                                                *)
Send(e) ==
  LET b == [Head(unsent[e]) EXCEPT !.acked = inmsg[e]]
  IN /\ main[e] = "alt" /\ unsent[e] # <<>>
     /\ unsent' = Set(unsent, e, Tail(unsent[e]))
     /\ unacked' = Set(unacked, e, Append(unacked[e], b))
     /\ \E ok \in BOOLEAN :
          /\ Write(e, <<b>>, ok)
          /\ done' = Set(done, e, done[e] \/ b.data = Eof)
          /\ Loop(e, done'[e], ~ok)
     /\ UNCHANGED <<net, netfd, empty, tmp, counts, conn, breaks, ends>>

(* case Timer: a keepalive that cannot be written, or done seen. *)
KeepAlive(e) == /\ main[e] = "alt"
                /\ done[e] \/ ~Joined(e)
                /\ Loop(e, done[e], TRUE)
                /\ UNCHANGED <<net, netfd, done, chans, counts, network, ends>>

(* "Wait for the netreader to die." *)
Dead(e) == /\ main[e] = "dead" /\ ~netfd[e]
           /\ main' = Set(main, e, "dial")
           /\ UNCHANGED <<net, netfd, done, chans, counts, network, ends>>

(* reconnect; setting netfd wakes up the netreader.  Nobody answers a dial *)
(* when the server has gone; the server waits maxto seconds for a call.    *)
Dial == /\ main["client"] = "dial"
        /\ \/ /\ Over("server")
              /\ main' = Set(main, "client", "exit")
              /\ UNCHANGED <<netfd, conn, wire, backlog>>
           \/ /\ ~Over("server") /\ conn = "down"
              /\ conn' = "half"
              /\ netfd' = Set(netfd, "client", TRUE)
              /\ backlog' = <<>>
              /\ main' = Set(main, "client", "sync")
              /\ UNCHANGED wire
        /\ UNCHANGED <<net, done, chans, counts, breaks, ends>>

Accept == /\ main["server"] = "dial"
          /\ conn = "half"
          /\ conn' = "up"
          /\ netfd' = Set(netfd, "server", TRUE)
          /\ wire' = Set(wire, "server", backlog)
          /\ backlog' = <<>>
          /\ main' = Set(main, "server", "sync")
          /\ UNCHANGED <<net, done, chans, counts, breaks, ends>>

TimedOut == /\ main["server"] = "dial"
            /\ main' = Set(main, "server", "exit")
            /\ UNCHANGED <<net, netfd, done, chans, counts, network, ends>>

(* Mutant: what was not acknowledged is not sent again. *)
Resend_Quiet(e) ==
  /\ main[e] = "sync" /\ unacked[e] # <<>>
  /\ tmp' = Set(tmp, e, Append(tmp[e], Head(unacked[e])))
  /\ unacked' = Set(unacked, e, Tail(unacked[e]))
  /\ UNCHANGED <<main, net, netfd, done, empty, unsent, counts, network, ends>>

(* Mutant: what has been sent again is taken for received. *)
Resend_Frees(e) ==
  /\ main[e] = "sync" /\ unacked[e] # <<>>
  /\ empty' = Set(empty, e, empty[e] + 1)
  /\ unacked' = Set(unacked, e, Tail(unacked[e]))
  /\ \E ok \in BOOLEAN : Write(e, <<Head(unacked[e])>>, ok)
  /\ UNCHANGED <<main, net, netfd, done, unsent, tmp, counts, conn, breaks, ends>>

(* synchronize sends again what is in unacked, its headers as they were,   *)
(* and does not look at errors,                                            *)
Resend(e) ==
  /\ main[e] = "sync" /\ unacked[e] # <<>>
  /\ tmp' = Set(tmp, e, Append(tmp[e], Head(unacked[e])))
  /\ unacked' = Set(unacked, e, Tail(unacked[e]))
  /\ \E ok \in BOOLEAN : Write(e, <<Head(unacked[e])>>, ok)
  /\ UNCHANGED <<main, net, netfd, done, empty, unsent, counts, conn, breaks, ends>>

(* then replaces the channel: a fromnet that was waiting for the old one   *)
(* waits for ever.  The first time, fromclient is then started.            *)
Synced(e) ==
  /\ main[e] = "sync" /\ unacked[e] = <<>>
  /\ unacked' = Set(unacked, e, tmp[e])
  /\ tmp' = Set(tmp, e, <<>>)
  /\ net' = Set(net, e, IF net[e] = "recv" THEN "stuck" ELSE net[e])
  /\ user' = Set(user, e, IF user[e] = "off" THEN "on" ELSE user[e])
  /\ Loop(e, done[e], FALSE)
  /\ UNCHANGED <<netfd, done, empty, unsent, counts, network, sent, got>>

-----------------------------------------------------------------------------
(* fromnet *)

(* Mutant: a message that was received before is not skipped. *)
Recv_Again(e) ==
  LET m == Head(wire[e])
  IN /\ net[e] = "poll" /\ netfd[e] /\ ~done[e] /\ ~Over(e)
     /\ wire[e] # <<>>
     /\ wire' = Set(wire, e, Tail(wire[e]))
     /\ net' = Set(net, e, IF m.data = Eof THEN "gone" ELSE "ack")
     /\ done' = Set(done, e, m.data = Eof)
     /\ cur' = Set(cur, e, m) /\ i' = Set(i, e, 0)
     /\ UNCHANGED <<main, netfd, chans, inmsg, lastacked, conn, backlog, breaks, ends>>

Recv(e) ==
  LET m == Head(wire[e])
  IN /\ net[e] = "poll" /\ netfd[e] /\ ~done[e] /\ ~Over(e)
     /\ wire[e] # <<>>
     /\ wire' = Set(wire, e, Tail(wire[e]))
     /\ \/ m.data = Eof /\ net' = Set(net, e, "gone") /\ done' = Set(done, e, TRUE)
           /\ UNCHANGED <<cur, i>>
        \/ m.data # Eof /\ m.msg < inmsg[e] /\ UNCHANGED <<net, done, cur, i>>
        \/ /\ m.data # Eof /\ m.msg >= inmsg[e]
           /\ net' = Set(net, e, "ack")
           /\ cur' = Set(cur, e, m) /\ i' = Set(i, e, 0)
           /\ UNCHANGED done
     /\ UNCHANGED <<main, netfd, chans, inmsg, lastacked, conn, backlog, breaks, ends>>

(* Mutant: the descriptor is closed, netfd not reset. *)
ReadError_Keeps(e) == /\ net[e] = "poll" /\ netfd[e] /\ ~done[e] /\ ~Over(e)
                      /\ wire[e] = <<>> /\ ~Joined(e)
                      /\ UNCHANGED vars

ReadError(e) == /\ net[e] = "poll" /\ netfd[e] /\ ~done[e] /\ ~Over(e)
                /\ wire[e] = <<>> /\ ~Joined(e)
                /\ netfd' = Set(netfd, e, FALSE)
                /\ UNCHANGED <<main, net, done, chans, counts, network, ends>>

acked(e) == cur[e].acked - lastacked[e]

(* recvp(unacked) finds the channel empty, *)
AckWait(e) == /\ net[e] = "ack" /\ i[e] # acked(e) /\ unacked[e] = <<>>
              /\ ~Over(e)
              /\ net' = Set(net, e, "recv")
              /\ UNCHANGED <<main, netfd, done, chans, counts, network, ends>>

(* or returns the oldest message in it, which must be the one acknowledged *)
(* next: assert(0).                                                        *)
Ack(e) ==
  LET rb == Head(unacked[e])
  IN /\ net[e] \in {"ack", "recv"} /\ i[e] # acked(e) /\ unacked[e] # <<>>
     /\ ~Over(e)
     /\ unacked' = Set(unacked, e, Tail(unacked[e]))
     /\ \/ /\ rb.msg # lastacked[e] + i[e]
           /\ main' = Set(main, e, "abort")
           /\ UNCHANGED <<net, empty, i>>
        \/ /\ rb.msg = lastacked[e] + i[e]
           /\ empty' = Set(empty, e, empty[e] + 1)
           /\ i' = Set(i, e, i[e] + 1)
           /\ net' = Set(net, e, "ack")
           /\ UNCHANGED main
     /\ UNCHANGED <<netfd, done, unsent, tmp, inmsg, lastacked, cur, network, ends>>

(* The data is written to the program, or it has gone: sysfatal. *)
Deliver(e) ==
  /\ net[e] = "ack" /\ i[e] = acked(e) /\ ~Over(e)
  /\ lastacked' = Set(lastacked, e, cur[e].acked)
  /\ inmsg' = Set(inmsg, e, inmsg[e] + 1)
  /\ \/ /\ got' = Set(got, e, Append(got[e], cur[e].data))
        /\ net' = Set(net, e, "poll")
        /\ UNCHANGED main
     \/ /\ e \in Closing
        /\ main' = Set(main, e, "exit")
        /\ UNCHANGED <<got, net>>
  /\ UNCHANGED <<netfd, done, chans, cur, i, network, user, sent>>

-----------------------------------------------------------------------------
Main(e)    == Send(e) \/ KeepAlive(e) \/ Dead(e) \/ Resend(e) \/ Synced(e)
Fromnet(e) == Recv(e) \/ ReadError(e) \/ AckWait(e) \/ Ack(e) \/ Deliver(e)

Next == \/ Dial \/ Accept \/ TimedOut \/ Break
        \/ \E e \in End : Main(e) \/ Fromnet(e) \/ ReadUser(e) \/ UserEof(e)

Spec == Init /\ [][Next]_vars

(* The processes run, the timer is among them, and a program answers what  *)
(* it has read.                                                            *)
FairSpec == /\ Spec
            /\ WF_vars(Dial) /\ WF_vars(Accept)
            /\ \A e \in End : WF_vars(Main(e)) /\ WF_vars(Fromnet(e))
            /\ \A e \in Answering : WF_vars(ReadUser(e))

-----------------------------------------------------------------------------
(* The two streams, over all the connections: nothing lost, doubled or out *)
(* of place, and end of file only after all of it.                         *)
Transfer == INSTANCE Stream WITH
  Data   <- 1..(MaxSend["client"] + MaxSend["server"]),
  sent   <- [e \in End |-> [k \in 1..sent[e] |-> k]],
  closed <- [e \in End |-> user[e] = "ended"],
  eof    <- [e \in End |-> net[e] = "gone"]

InOrderOnce == Transfer!Spec

(* While an instance runs it keeps every message its peer does not have.   *)
Kept(e) == {b.data : b \in UNION {{s[k] : k \in 1..Len(s)} :
                                  s \in {unsent[e], unacked[e], tmp[e]}}}

NothingForgotten ==
  TypeOK /\ \A e \in End : ~Over(e) => (Len(got[Peer(e)]) + 1)..sent[e] \subseteq Kept(e)

(* fromnet's assertion: what the peer acknowledges is the oldest message   *)
(* in unacked.  It fails while synchronize is emptying the channel.        *)
AcksInOrder == \A e \in End : main[e] # "abort"

(* The three ways to end without having carried everything: a process has  *)
(* exited, fromnet waits for a channel that synchronize has replaced, or   *)
(* main waits for a netreader that has left at the end of the stream.      *)
Hung(e) == net[e] = "stuck" \/ (main[e] = "dead" /\ net[e] = "gone")
Ended   == \E e \in End : Over(e) \/ Hung(e) \/ net[e] = "gone"

(* Otherwise a message that is written is read in the end, however often   *)
(* the connection broke, if there are enough buffers for what is on its    *)
(* way: acknowledgements come with messages going the other way.           *)
Carried == \A e \in End : \A k \in 1..MaxSend[e] :
             sent[e] >= k ~> Len(got[Peer(e)]) >= k \/ Ended

(* When the server's instance has gone, the client's goes too, unless it   *)
(* hangs.                                                                  *)
ClientLeaves == Over("server") ~> Over("client") \/ Hung("client")
=============================================================================
