----------------------------- MODULE Namespace ------------------------------
(***************************************************************************)
(* The mount table of one process group, sys/src/9/chan.c and pgrp.c, and  *)
(* the processes that share it: bind (kbind, cmount), unmount (kunmount,   *)
(* cunmount), the names that are looked up meanwhile (walk, findmount,     *)
(* undomount), open and read as a union directory, or created in one       *)
(* (namec, createdir, unionread), and the copy of the table for a new      *)
(* group (pgrpcpy, closepgrp).                                             *)
(*                                                                         *)
(* A channel is known by the directory it stands for, and the references   *)
(* to all the channels of a directory are counted together.  In every      *)
(* directory one name is looked up, created or removed.  Each mount head   *)
(* is in a bucket of mnthash of its own.  The RWlocks are taken at the     *)
(* level RWLock establishes.                                               *)
(***************************************************************************)
EXTENDS Integers, Sequences, FiniteSets, SequencesExt

CONSTANTS
  Proc, Dir,
  Mhead,         (* the memory for Mheads                                    *)
  Call,         (* the system calls made, see Calls                         *)
  Table,        (* initial mount tables: [Dir -> Seq(Dir)], <<>> for none   *)
  Files,        (* the directories that may have the file at first          *)
  MaxCalls,     (* bound: system calls altogether                           *)
  Nil

Orders == {"MREPL", "MBEFORE", "MAFTER"}
Ops    == {"bind", "unmount", "walk", "dotdot", "open", "create", "fork"}

(* A call, with the directories b and x it names.  What x is: the new      *)
(* directory of a bind; what to unmount, or Nil for everything; what ".."  *)
(* led to.                                                                 *)
Calls == [op : Ops, b : Dir, x : Dir \cup {Nil}, order : Orders,
          mcreate : BOOLEAN, excl : BOOLEAN]

(* The directories of an initial table that have something mounted on them, *)
(* and the heads they may be given.                                         *)
Mounted(t) == {d \in Dir : t[d] # <<>>}
Heads(t)   == {f \in [Mounted(t) -> Mhead] : \A d, e \in Mounted(t) : f[d] = f[e] => d = e}

(* The mounts of a table of lists, and the mountids they may begin with.   *)
Places(t) == UNION {{d} \X DOMAIN t[d] : d \in Dir}
Ids(t)    == {f \in [Places(t) -> 1..Cardinality(Places(t))] :
                \A x, y \in Places(t) : /\ x # y => f[x] # f[y]
                                        /\ x[1] = y[1] /\ x[2] < y[2] => f[x] < f[y]}

ASSUME CallAssumption == /\ Call \subseteq Calls
                         /\ \A a \in Call : a.x = Nil => a.op \notin {"bind", "dotdot"}
                         /\ MaxCalls \in Nat
ASSUME TableAssumption == /\ Table \subseteq [Dir -> Seq(Dir)]
                          /\ \A t \in Table : Heads(t) # {}
                          /\ Files \subseteq SUBSET Dir
ASSUME NameAssumption == /\ Nil \notin Proc \cup Dir \cup Mhead \cup {"ns"}
                         /\ "ns" \notin Mhead
                         /\ IsFiniteSet(Proc) /\ IsFiniteSet(Dir) /\ IsFiniteSet(Mhead)

VARIABLES
  table,        (* table[d]: the Mhead in mnthash whose from is d           *)
  from, list, href,     (* the Mheads: m->from, m->mount, m->r.ref          *)
  lock,         (* the RWlocks pg->ns and m->lock                           *)
  chan,         (* chan[d]: references to channels of d                     *)
  mountid,      (* mountid.ref                                              *)
  has,          (* the directories that have a file of the name             *)
  pc, me,       (* where each process is, and its local variables           *)
  calls,        (* system calls made, up to MaxCalls                        *)
  copy,         (* copy[p]: the mount table p copies for a new group        *)
  changed,      (* auxiliary: the table changed, or a file was removed,     *)
                (* since p's create began                                   *)
  wild          (* a pointer to a Mount that is not there has been followed *)

heads == <<table, from, list, href>>
world == <<chan, mountid, has, calls>>
vars  == <<heads, lock, world, pc, me, copy, changed, wild>>

Mount == [to : Dir, mcreate : BOOLEAN, id : Nat]

(* The local variables of namec, walk, findmount and cmount: b the channel *)
(* that stays behind, c the one that moves and m its Mhead; new and mh the *)
(* same for the new directory of a bind; h the Mhead changed, add the      *)
(* mounts to go in its list, um the list being read.                       *)
Locals == [call : Calls \cup {Nil}, b : Dir \cup {Nil}, c : Dir \cup {Nil},
           m : Mhead \cup {Nil}, new : Dir \cup {Nil}, mh : Mhead \cup {Nil},
           h : Mhead \cup {Nil}, add : Seq(Mount), um : Seq(Mount),
           retry : BOOLEAN, res : {"none", "exists", "nocreate"}]

Idle == [call |-> Nil, b |-> Nil, c |-> Nil, m |-> Nil, new |-> Nil,
         mh |-> Nil, h |-> Nil, add |-> <<>>, um |-> <<>>, retry |-> FALSE,
         res |-> "none"]

PC == {"idle", "find", "findlk", "walk", "union", "undo", "undone", "back",
       "umh", "opened", "reading", "read", "createdir", "create",
       "check", "bind.ns", "bind.lk", "bind.copy", "um.ns", "um.lk", "um.free",
       "fork.ns", "fork", "forked", "group"}

TypeOK ==
  /\ table \in [Dir -> Mhead \cup {Nil}]
  /\ from \in [Mhead -> Dir \cup {Nil}]
  /\ list \in [Mhead -> Seq(Mount)]
  /\ href \in [Mhead -> Nat]
  /\ lock \in [Mhead \cup {"ns"} -> [r : SUBSET Proc, w : Proc \cup {Nil}]]
  /\ chan \in [Dir -> Nat] /\ mountid \in Nat /\ has \subseteq Dir
  /\ pc \in [Proc -> PC] /\ me \in [Proc -> Locals]
  /\ calls \in 0..MaxCalls
  /\ copy \in [Proc -> [Dir -> Seq(Mount)]]
  /\ changed \in [Proc -> BOOLEAN] /\ wild \in BOOLEAN

NoCopy == [d \in Dir |-> <<>>]

Count(s, d) == Cardinality({i \in DOMAIN s : s[i].to = d})
Is(x, y)    == IF x = y THEN 1 ELSE 0

(* The sum of a function's values, as the size of a disjoint union. *)
Total(f) == Cardinality(UNION {{x} \X (1..f[x]) : x \in DOMAIN f})

(* The Mheads are handed out in turn. *)
HeadOrder == CHOOSE f \in [Mhead -> 1..Cardinality(Mhead)] :
               \A g, h \in Mhead : f[g] = f[h] => g = h
newmhead(h) == href[h] = 0 /\ \A g \in Mhead : href[g] = 0 => HeadOrder[h] <= HeadOrder[g]

Init ==
  /\ \E t \in Table : \E id \in Ids(t) :
       LET at == CHOOSE f \in Heads(t) : TRUE
           mount(d, i) == [to |-> t[d][i], mcreate |-> i = Len(t[d]), id |-> id[<<d, i>>]]
       IN /\ table = [d \in Dir |-> IF d \in Mounted(t) THEN at[d] ELSE Nil]
          /\ from = [h \in Mhead |-> IF \E d \in Mounted(t) : at[d] = h
                                    THEN CHOOSE d \in Mounted(t) : at[d] = h ELSE Nil]
          /\ list = [h \in Mhead |-> IF from[h] = Nil THEN <<>>
                                    ELSE [i \in 1..Len(t[from[h]]) |-> mount(from[h], i)]]
          /\ href = [h \in Mhead |-> IF from[h] = Nil THEN 0 ELSE 1]
          /\ chan = [d \in Dir |-> Total([h \in Mhead |-> Count(list[h], d) + Is(from[h], d)])]
          /\ mountid = Cardinality(Places(t))
  /\ lock = [x \in Mhead \cup {"ns"} |-> [r |-> {}, w |-> Nil]]
  /\ calls = 0
  /\ has \in Files
  /\ pc = [p \in Proc |-> "idle"]
  /\ me = [p \in Proc |-> Idle]
  /\ copy = [p \in Proc |-> NoCopy]
  /\ changed = [p \in Proc |-> FALSE]
  /\ wild = FALSE

-----------------------------------------------------------------------------
Goto(p, l) == pc' = [pc EXCEPT ![p] = l]
At(p, l)   == pc[p] = l
Local(p, v) == me' = [me EXCEPT ![p] = v]

CanR(x) == lock[x].w = Nil
CanW(x) == lock[x].w = Nil /\ lock[x].r = {}

(* incref and cclose of a channel, mountfree of a list, over counts f. *)
Incref(f, d)    == IF d = Nil THEN f ELSE [f EXCEPT ![d] = @ + 1]
cclose(f, d)    == IF d = Nil THEN f ELSE [f EXCEPT ![d] = @ - 1]
mountfree(f, s) == [d \in Dir |-> f[d] - Count(s, d)]
Held(f, s)      == [d \in Dir |-> f[d] + Count(s, d)]

putmhead(f, m) == IF m = Nil THEN f ELSE [f EXCEPT ![m] = @ - 1]

(* The call ends: everything it still holds is let go.  A create that      *)
(* fails a second time reports why it failed the first time.               *)
End(p, err) ==
  LET v == me[p]
  IN /\ Goto(p, "idle")
     /\ Local(p, [Idle EXCEPT !.res = err])
     /\ chan' = cclose(cclose(cclose(chan, v.b), v.c), v.new)
     /\ href' = putmhead(putmhead(href, v.m), v.mh)
     /\ changed' = [changed EXCEPT ![p] = FALSE]

Return(p) == /\ End(p, "none")
             /\ UNCHANGED <<table, from, list, lock, mountid, has, calls, copy, wild>>

(* Where a call begins; the channels it starts from are taken with it.     *)
First(o) == CASE o = "fork"             -> "fork.ns"
              [] o = "dotdot"           -> "undo"
              [] o \in {"bind", "open", "walk", "create", "unmount"} -> "find"

(* bind and unmount look up x before b is used; walk works on a copy of b. *)
Begin(p) == \E a \in Call :
  LET c0 == IF a.op \in {"bind", "unmount", "dotdot"} THEN a.x ELSE a.b
      b0 == IF a.op \in {"bind", "unmount", "create"} THEN a.b ELSE Nil
      skip == a.op = "fork"
  IN /\ At(p, "idle") /\ calls < MaxCalls
     /\ calls' = calls + 1
     /\ Goto(p, IF c0 = Nil THEN "um.ns" ELSE First(a.op))
     /\ Local(p, [Idle EXCEPT !.call = a, !.b = b0, !.c = IF skip THEN Nil ELSE c0])
     /\ chan' = IF skip THEN chan ELSE Incref(Incref(chan, b0), c0)
     /\ UNCHANGED <<heads, lock, mountid, has, copy, changed, wild>>

-----------------------------------------------------------------------------
(* findmount: finding the head takes ns, entering it takes its lock, and   *)
(* ns is let go only then.                                                 *)
Key(p) == IF me[p].c = Nil THEN me[p].b ELSE me[p].c

(* Who asked: walk, namec's domount, or the create of a file, which keeps  *)
(* b and moves with a channel of its own.                                  *)
Asked(p) == LET o == me[p].call.op
            IN CASE o = "bind"               -> "check"
                 [] o \in {"open", "unmount"} -> "umh"
                 [] o = "walk"               -> "walk"
                 [] o = "create"             -> IF me[p].c = Nil THEN "createdir" ELSE "walk"

FindNs(p) == /\ At(p, "find") /\ CanR("ns")
             /\ table[Key(p)] # Nil
             /\ lock' = [lock EXCEPT !["ns"].r = @ \cup {p}]
             /\ Goto(p, "findlk")
             /\ Local(p, [me[p] EXCEPT !.h = table[Key(p)]])
             /\ UNCHANGED <<heads, world, copy, changed, wild>>

(* Not a mount point: a create goes on in b itself. *)
FindNone(p) == /\ At(p, "find") /\ CanR("ns")
               /\ table[Key(p)] = Nil
               /\ Goto(p, Asked(p))
               /\ Local(p, [me[p] EXCEPT !.c = Key(p)])
               /\ chan' = IF me[p].c = Nil THEN Incref(chan, Key(p)) ELSE chan
               /\ UNCHANGED <<heads, lock, mountid, has, calls, copy, changed, wild>>

(* Mutant: the channel is not counted. *)
Find_NoRef(p) ==
  LET h == me[p].h
      d == list[h][1].to
  IN /\ At(p, "findlk") /\ CanR(h)
     /\ lock' = [lock EXCEPT !["ns"].r = @ \ {p}]
     /\ Goto(p, Asked(p))
     /\ href' = [href EXCEPT ![h] = @ + 1]
     /\ chan' = cclose(chan, me[p].c)
     /\ Local(p, [me[p] EXCEPT !.c = d, !.m = h, !.h = Nil])
     /\ UNCHANGED <<table, from, list, mountid, has, calls, copy, changed, wild>>

(* m->mount->to: that there is a mount is taken for granted. *)
Find(p) ==
  LET h == me[p].h
      d == list[h][1].to
  IN /\ At(p, "findlk") /\ CanR(h)
     /\ lock' = [lock EXCEPT !["ns"].r = @ \ {p}]
     /\ Goto(p, Asked(p))
     /\ href' = [href EXCEPT ![h] = @ + 1]
     /\ chan' = Incref(cclose(chan, me[p].c), d)
     /\ Local(p, [me[p] EXCEPT !.c = d, !.m = h, !.h = Nil])
     /\ UNCHANGED <<table, from, list, mountid, has, calls, copy, changed, wild>>

findmount(p) == FindNs(p) \/ FindNone(p) \/ Find(p)

-----------------------------------------------------------------------------
(* walk, one name deep.  A walk that succeeds ends the call, or opens the  *)
(* file a create was to make.                                              *)
Walk(p) == /\ At(p, "walk") /\ me[p].c \in has
           /\ Return(p)

(* The device does not know the name: try the rest of the union, *)
WalkUnion(p) == /\ At(p, "walk") /\ me[p].c \notin has /\ me[p].m # Nil
                /\ CanR(me[p].m)
                /\ lock' = [lock EXCEPT ![me[p].m].r = @ \cup {p}]
                /\ Goto(p, "union")
                /\ UNCHANGED <<heads, world, me, copy, changed, wild>>

NotFound(p) ==
  LET v == me[p]
  IN IF v.call.op = "create" /\ ~v.retry
     THEN /\ Goto(p, "find")
          /\ Local(p, [v EXCEPT !.c = Nil, !.m = Nil])
          /\ chan' = cclose(chan, v.c)
          /\ href' = putmhead(href, v.m)
          /\ UNCHANGED changed
     ELSE End(p, v.res)

WalkFails(p) == /\ At(p, "walk") /\ me[p].c \notin has /\ me[p].m = Nil
                /\ NotFound(p)
                /\ UNCHANGED <<table, from, list, lock, mountid, has, calls, copy, wild>>

(* "mh->mount == c, so start at mh->mount->next": if the mounts have gone  *)
(* there is no mh->mount.                                                  *)
UnionSearch(p) ==
  LET v == me[p]
      s == list[v.m]
  IN /\ At(p, "union")
     /\ IF s = <<>>
        THEN wild' = TRUE /\ UNCHANGED <<lock, pc, me, chan, href, changed>>
        ELSE /\ UNCHANGED wild
             /\ lock' = [lock EXCEPT ![v.m].r = @ \ {p}]
             /\ IF \E i \in 2..Len(s) : s[i].to \in has THEN End(p, "none") ELSE NotFound(p)
     /\ UNCHANGED <<table, from, list, mountid, has, calls, copy>>

(* undomount reads the lists with ns alone: of the mounts it finds that    *)
(* are the channel ".." led to, it goes back to where they are mounted.    *)
UndoNs(p) == /\ At(p, "undo") /\ CanR("ns")
             /\ lock' = [lock EXCEPT !["ns"].r = @ \cup {p}]
             /\ Goto(p, "undone")
             /\ Local(p, [me[p] EXCEPT !.h = table[me[p].call.b],
                            !.um = IF table[me[p].call.b] = Nil THEN <<>>
                                   ELSE list[table[me[p].call.b]]])
             /\ UNCHANGED <<heads, world, copy, changed, wild>>

(* The mounts that were read are still there. *)
Intact(h, s) == \A i \in DOMAIN s : \E j \in DOMAIN list[h] : list[h][j].id = s[i].id

undomount(p) ==
  LET v == me[p]
      out == \E i \in DOMAIN v.um : v.um[i].to = v.c
  IN /\ At(p, "undone")
     /\ lock' = [lock EXCEPT !["ns"].r = @ \ {p}]
     /\ wild' = (v.h # Nil /\ ~Intact(v.h, v.um))
     /\ Goto(p, "back")
     /\ Local(p, [v EXCEPT !.c = IF out THEN v.call.b ELSE @, !.h = Nil, !.um = <<>>])
     /\ chan' = IF out THEN Incref(cclose(chan, v.c), v.call.b) ELSE chan
     /\ UNCHANGED <<heads, mountid, has, calls, copy, changed>>

(* cclose of the channel walked to *)
Back(p) == At(p, "back") /\ Return(p)

-----------------------------------------------------------------------------
(* namec: open, and what unmount opens.  Whether the directory is a union  *)
(* is read without a lock.                                                 *)
Open(p) ==
  LET v == me[p]
      union == v.m # Nil /\ Len(list[v.m]) > 1
  IN /\ At(p, "umh")
     /\ Goto(p, IF v.call.op = "unmount" THEN "um.ns" ELSE "opened")
     /\ Local(p, [v EXCEPT !.m = IF union THEN @ ELSE Nil])
     /\ href' = IF union THEN href ELSE putmhead(href, v.m)
     /\ UNCHANGED <<table, from, list, lock, world, copy, changed, wild>>

(* unionread holds the lock while it opens and reads the directories in    *)
(* turn; it copes with a list that has gone.                               *)
unionread(p) == /\ At(p, "opened") /\ me[p].m # Nil /\ CanR(me[p].m)
                /\ lock' = [lock EXCEPT ![me[p].m].r = @ \cup {p}]
                /\ Goto(p, "reading")
                /\ UNCHANGED <<heads, world, me, copy, changed, wild>>

ReadDone(p) == /\ At(p, "reading")
               /\ lock' = [lock EXCEPT ![me[p].m].r = @ \ {p}]
               /\ Goto(p, "read")
               /\ UNCHANGED <<heads, world, me, copy, changed, wild>>

(* chanfree *)
Close(p) == /\ At(p, "opened") \/ At(p, "read")
            /\ Return(p)

-----------------------------------------------------------------------------
(* namec: create *)

(* Mutant: the failure of the create(5) is the failure of the call. *)
Retry_Never(p, err) == End(p, err)

(* The create failed.  Unless OEXCL was asked for, somebody else may have  *)
(* made the file meanwhile: walk again, and if that fails report err.      *)
Retry(p, err) ==
  LET v == me[p]
  IN IF v.call.excl
     THEN End(p, "none")
     ELSE /\ href' = putmhead(href, v.m)
          /\ chan' = Incref(cclose(chan, v.c), v.b)
          /\ Goto(p, "find")
          /\ Local(p, [v EXCEPT !.c = v.b, !.m = Nil, !.retry = TRUE, !.res = err])
          /\ UNCHANGED changed

(* The first element of the union that may be created in. *)
Creatable(s) == {i \in DOMAIN s : s[i].mcreate /\ \A j \in 1..(i - 1) : ~s[j].mcreate}

createdir(p) ==
  LET v == me[p]
      s == list[v.m]
  IN /\ At(p, "createdir") /\ v.m # Nil /\ CanR(v.m)
     /\ \/ \E i \in Creatable(s) :
             /\ Goto(p, "create")
             /\ Local(p, [v EXCEPT !.c = s[i].to])
             /\ chan' = Incref(cclose(chan, v.c), s[i].to)
             /\ UNCHANGED <<href, changed>>
        \/ Creatable(s) = {} /\ Retry(p, "nocreate")
     /\ UNCHANGED <<table, from, list, lock, mountid, has, calls, copy, wild>>

(* create(5) makes the file, or fails because it is there. *)
Create(p) ==
  LET v == me[p]
  IN /\ At(p, "create") \/ (At(p, "createdir") /\ v.m = Nil)
     /\ \/ /\ v.c \notin has
           /\ has' = has \cup {v.c}
           /\ End(p, "none")
        \/ v.c \in has /\ Retry(p, "exists") /\ UNCHANGED has
     /\ UNCHANGED <<table, from, list, lock, mountid, calls, copy, wild>>

(* Other clients of the file servers remove files. *)
Change ==
  changed' = [p \in Proc |-> changed[p] \/ (pc[p] # "idle" /\ me[p].call.op = "create")]

Removed == \E d \in has :
  /\ calls < MaxCalls /\ calls' = calls + 1
  /\ has' = has \ {d}
  /\ Change
  /\ UNCHANGED <<heads, lock, chan, mountid, pc, me, copy, wild>>

-----------------------------------------------------------------------------
(* cmount.  The directory bound is c, its Mhead, if it is a mount point, m. *)

(* A union may not be bound for creation: looked up without m's lock. *)
Check(p) ==
  LET v == me[p]
      s == IF v.m = Nil THEN <<>> ELSE list[v.m]
  IN /\ At(p, "check")
     /\ IF v.call.mcreate /\ s # <<>> /\ (Len(s) > 1 \/ ~s[1].mcreate)
        THEN Return(p)
        ELSE /\ Goto(p, "bind.ns")
             /\ Local(p, [v EXCEPT !.new = v.c, !.mh = v.m, !.c = Nil, !.m = Nil])
             /\ UNCHANGED <<heads, lock, world, copy, changed, wild>>

(* newmhead, if nothing is mounted on b yet; in a union b comes first.     *)
BindNs(p) ==
  LET v == me[p]
      old == v.call.order # "MREPL"
  IN /\ At(p, "bind.ns") /\ CanW("ns")
     /\ lock' = [lock EXCEPT !["ns"].w = p]
     /\ Goto(p, "bind.lk")
     /\ \/ /\ table[v.b] # Nil
           /\ Local(p, [v EXCEPT !.h = table[v.b]])
           /\ UNCHANGED <<heads, chan, mountid>>
        \/ /\ table[v.b] = Nil
           /\ \E h \in Mhead :
                /\ newmhead(h)
                /\ table' = [table EXCEPT ![v.b] = h]
                /\ from' = [from EXCEPT ![h] = v.b]
                /\ href' = [href EXCEPT ![h] = 1]
                /\ list' = [list EXCEPT ![h] = IF old
                     THEN <<[to |-> v.b, mcreate |-> FALSE, id |-> mountid + 1]>> ELSE <<>>]
                /\ Local(p, [v EXCEPT !.h = h])
           /\ mountid' = IF old THEN mountid + 1 ELSE mountid
           /\ chan' = IF old THEN Incref(Incref(chan, v.b), v.b) ELSE Incref(chan, v.b)
     /\ UNCHANGED <<has, calls, copy, changed, wild>>

(* ns is let go when the lock of the head is held; a mount is made for new. *)
BindLock(p) ==
  LET v == me[p]
      s == IF v.mh = Nil THEN <<>> ELSE list[v.mh]
  IN /\ At(p, "bind.lk") /\ CanW(v.h)
     /\ lock' = [lock EXCEPT ![v.h].w = p, !["ns"].w = Nil]
     /\ Goto(p, "bind.copy")
     /\ mountid' = mountid + 1
     /\ chan' = Incref(chan, v.new)
     /\ Local(p, [v EXCEPT !.um = s,
          !.add = <<[to |-> v.new, mcreate |-> v.call.mcreate, id |-> mountid + 1]>>])
     /\ UNCHANGED <<heads, has, calls, copy, changed, wild>>

Replaced(p, f) == mountfree(f, list[me[p].h])

(* The rest of new's union is copied, its list read without its lock, and  *)
(* all of it put in its place.                                             *)
BindLink(p) ==
  LET v == me[p]
      n == IF v.um = <<>> THEN 0 ELSE Len(v.um) - 1
      union == [i \in 1..n |-> [to |-> v.um[i + 1].to, mcreate |-> FALSE,
                                id |-> mountid + i]]
      add == v.add \o union
      repl == v.call.order = "MREPL"
  IN /\ At(p, "bind.copy")
     /\ wild' = (v.mh # Nil /\ ~Intact(v.mh, v.um))
     /\ mountid' = mountid + n
     /\ chan' = LET f == Held(chan, union) IN IF repl THEN Replaced(p, f) ELSE f
     /\ list' = [list EXCEPT ![v.h] = IF repl THEN add
                  ELSE IF v.call.order = "MAFTER" THEN @ \o add ELSE add \o @]
     /\ lock' = [lock EXCEPT ![v.h].w = Nil]
     /\ Goto(p, "back")
     /\ Local(p, [v EXCEPT !.h = Nil, !.add = <<>>, !.um = <<>>])
     /\ Change
     /\ UNCHANGED <<table, from, href, has, calls, copy>>

-----------------------------------------------------------------------------
(* cunmount *)

UnmountNs(p) ==
  LET v == me[p]
  IN /\ At(p, "um.ns") /\ CanW("ns")
     /\ \/ /\ table[v.b] = Nil
           /\ Goto(p, "back")
           /\ UNCHANGED <<lock, me>>
        \/ /\ table[v.b] # Nil
           /\ Goto(p, "um.lk")
           /\ lock' = [lock EXCEPT !["ns"].w = p]
           /\ Local(p, [v EXCEPT !.h = table[v.b]])
     /\ UNCHANGED <<heads, world, copy, changed, wild>>

(* Mutant: a head that has become empty stays in the table. *)
UnmountOne_Stays(p) ==
  LET v == me[p]
      s == list[v.h]
  IN /\ At(p, "um.lk") /\ CanW(v.h) /\ v.c # Nil
     /\ \E i \in DOMAIN s : /\ s[i].to = v.c /\ \A j \in 1..(i - 1) : s[j].to # v.c
                            /\ list' = [list EXCEPT ![v.h] = RemoveAt(s, i)]
     /\ chan' = cclose(chan, v.c)
     /\ lock' = [lock EXCEPT !["ns"].w = Nil]
     /\ Goto(p, "back") /\ Local(p, [v EXCEPT !.h = Nil])
     /\ Change
     /\ UNCHANGED <<table, from, href, mountid, has, calls, copy, wild>>

(* One mount, found by the channel that was opened for it.  The head goes  *)
(* with its last mount.                                                    *)
UnmountOne(p) ==
  LET v == me[p]
      s == list[v.h]
      which == {i \in DOMAIN s : s[i].to = v.c /\ \A j \in 1..(i - 1) : s[j].to # v.c}
      empty == Len(s) = 1
  IN /\ At(p, "um.lk") /\ CanW(v.h) /\ v.c # Nil
     /\ lock' = [lock EXCEPT !["ns"].w = Nil]
     /\ Goto(p, "back") /\ Local(p, [v EXCEPT !.h = Nil])
     /\ \/ which = {} /\ UNCHANGED <<heads, chan, changed>>
        \/ \E i \in which :
             /\ list' = [list EXCEPT ![v.h] = RemoveAt(s, i)]
             /\ table' = IF empty THEN [table EXCEPT ![v.b] = Nil] ELSE table
             /\ from' = IF empty THEN [from EXCEPT ![v.h] = Nil] ELSE from
             /\ href' = IF empty THEN putmhead(href, v.h) ELSE href
             /\ chan' = IF empty THEN cclose(cclose(chan, v.c), v.b) ELSE cclose(chan, v.c)
             /\ Change
     /\ UNCHANGED <<mountid, has, calls, copy, wild>>

(* All of them: the head is unlinked first, the list freed without ns.     *)
UnmountAll(p) ==
  LET v == me[p]
  IN /\ At(p, "um.lk") /\ CanW(v.h) /\ v.c = Nil
     /\ table' = [table EXCEPT ![v.b] = Nil]
     /\ lock' = [lock EXCEPT !["ns"].w = Nil, ![v.h].w = p]
     /\ Goto(p, "um.free")
     /\ Change
     /\ UNCHANGED <<from, list, href, world, me, copy, wild>>

UnmountFree(p) ==
  LET v == me[p]
  IN /\ At(p, "um.free")
     /\ list' = [list EXCEPT ![v.h] = <<>>]
     /\ from' = [from EXCEPT ![v.h] = Nil]
     /\ href' = putmhead(href, v.h)
     /\ chan' = cclose(mountfree(chan, list[v.h]), from[v.h])
     /\ lock' = [lock EXCEPT ![v.h].w = Nil]
     /\ Goto(p, "back") /\ Local(p, [v EXCEPT !.h = Nil])
     /\ UNCHANGED <<table, mountid, has, calls, copy, changed, wild>>

-----------------------------------------------------------------------------
(* pgrpcpy.  The heads are copied one after another, each under its lock,  *)
(* all of them under ns.                                                   *)
ForkNs(p) == /\ At(p, "fork.ns") /\ CanW("ns")
             /\ lock' = [lock EXCEPT !["ns"].w = p]
             /\ Goto(p, "fork")
             /\ UNCHANGED <<heads, world, me, copy, changed, wild>>

Uncopied(p) == {d \in Dir : table[d] # Nil /\ copy[p][d] = <<>>}

(* Mutant: the lock of the head is not taken. *)
ForkHead_NoLock(p, d) == TRUE

ForkHead(p, d) == CanR(table[d])

ForkCopy(p) == \E d \in Uncopied(p) :
  LET s == list[table[d]]
  IN /\ At(p, "fork") /\ ForkHead(p, d)
     /\ copy' = [copy EXCEPT ![p][d] = [i \in DOMAIN s |-> [s[i] EXCEPT !.id = mountid + i]]]
     /\ mountid' = mountid + Len(s)
     /\ chan' = Held(Incref(chan, d), s)
     /\ UNCHANGED <<heads, lock, has, calls, pc, me, changed, wild>>

(* How many of the mounts that are copied are older than id, *)
Parent    == [d \in Dir |-> IF table[d] = Nil THEN <<>> ELSE list[table[d]]]
Older(id) == Cardinality({x \in Places(Parent) : Parent[x[1]][x[2]].id < id})

(* which is how the copies are numbered, from mountid.ref++.               *)
ForkIds(p) ==
  /\ At(p, "fork") /\ Uncopied(p) = {}
  /\ copy' = [copy EXCEPT ![p] = [d \in Dir |->
       [i \in DOMAIN copy[p][d] |->
          [copy[p][d][i] EXCEPT !.id = mountid + Older(Parent[d][i].id)]]]]
  /\ mountid' = mountid + Cardinality(Places(Parent))
  /\ Goto(p, "forked")
  /\ UNCHANGED <<heads, lock, chan, has, calls, me, changed, wild>>

ForkOut(p) == /\ At(p, "forked")
              /\ lock' = [lock EXCEPT !["ns"].w = Nil]
              /\ Goto(p, "group")
              /\ UNCHANGED <<heads, world, me, copy, changed, wild>>

(* References to channels of d in the table t of a new group: its mounts,  *)
(* and the head for d if there is one.                                     *)
Copied(t, d) == Total([e \in Dir |-> Count(t[e], d)]) + (IF t[d] = <<>> THEN 0 ELSE 1)

(* closepgrp, when the last process of the new group leaves *)
closepgrp(p) ==
  /\ At(p, "group")
  /\ chan' = [d \in Dir |-> chan[d] - Copied(copy[p], d)]
  /\ copy' = [copy EXCEPT ![p] = NoCopy]
  /\ Goto(p, "idle") /\ Local(p, Idle)
  /\ changed' = [changed EXCEPT ![p] = FALSE]
  /\ UNCHANGED <<heads, lock, mountid, has, calls, wild>>

-----------------------------------------------------------------------------
Lookup(p)  == \/ findmount(p) \/ Walk(p) \/ WalkUnion(p) \/ WalkFails(p) \/ UnionSearch(p)
              \/ UndoNs(p) \/ undomount(p) \/ Back(p)
Namec(p)   == \/ Open(p) \/ unionread(p) \/ ReadDone(p) \/ Close(p)
              \/ createdir(p) \/ Create(p)
cmount(p)  == Check(p) \/ BindNs(p) \/ BindLock(p) \/ BindLink(p)
cunmount(p) == UnmountNs(p) \/ UnmountOne(p) \/ UnmountAll(p) \/ UnmountFree(p)
pgrpcpy(p) == ForkNs(p) \/ ForkCopy(p) \/ ForkIds(p) \/ ForkOut(p) \/ closepgrp(p)

Step(p) == Lookup(p) \/ Namec(p) \/ cmount(p) \/ cunmount(p) \/ pgrpcpy(p)

(* All calls have been made, or the state of the program is not known.     *)
Rest == /\ wild \/ (calls = MaxCalls /\ \A p \in Proc : At(p, "idle"))
        /\ UNCHANGED vars

Next == \/ ~wild /\ (Removed \/ \E p \in Proc : Begin(p) \/ Step(p))
        \/ Rest

Spec == Init /\ [][Next]_vars

-----------------------------------------------------------------------------
(* The references to a mount head are those of the table and of the calls  *)
(* under way, the references to channels those of mounts, heads, copies    *)
(* and calls: nothing is freed in use and nothing leaks on any path.       *)
HeldBy(p, h) == Is(me[p].m, h) + Is(me[p].mh, h)
              + (IF pc[p] = "um.free" THEN Is(me[p].h, h) ELSE 0)
HeadRefs(h)  == Cardinality({d \in Dir : table[d] = h}) + Total([p \in Proc |-> HeldBy(p, h)])

Linked(h, d) == Count(list[h], d) + Is(from[h], d)
Using(p, d)  == Is(me[p].b, d) + Is(me[p].c, d) + Is(me[p].new, d)
              + Count(me[p].add, d) + Copied(copy[p], d)
ChanRefs(d)  == Total([h \in Mhead |-> Linked(h, d)]) + Total([p \in Proc |-> Using(p, d)])

RefsBalance == ~wild => /\ TypeOK
                        /\ \A h \in Mhead : href[h] = HeadRefs(h)
                        /\ \A d \in Dir : chan[d] = ChanRefs(d)

(* Whoever finds a head in the table and gets its lock finds a mount in it,*)
(* which findmount takes for granted; and a head is found by its own name. *)
HeadsUsable == \A d \in Dir : table[d] # Nil =>
                 /\ from[table[d]] = d
                 /\ (lock[table[d]].w = Nil /\ lock["ns"].w = Nil) => list[table[d]] # <<>>

(* "any observable outcome can be explained as one happening before the    *)
(* other": the create that comes second opens the file, unless it has been *)
(* removed or the mounts have changed meanwhile.                           *)
CreateOpens ==
  [][\A p \in Proc : (pc[p] # "idle" /\ pc'[p] = "idle" /\ me'[p].res = "exists") => changed[p]]_vars

(* The copy of a table is the table as it was at one moment, whoever is in *)
(* the middle of a bind, and "MUST preserve the mountid allocation order". *)
CopyFaithful == \A p \in Proc : pc[p] = "forked" =>
  LET t == copy[p]
      Old(x) == Parent[x[1]][x[2]]
      New(x) == t[x[1]][x[2]]
  IN /\ \A d \in Dir : Len(t[d]) = Len(Parent[d])
     /\ \A x \in Places(t) : New(x).to = Old(x).to /\ New(x).mcreate = Old(x).mcreate
     /\ \A x, y \in Places(t) : New(x).id < New(y).id <=> Old(x).id < Old(y).id

(* "mh->mount == c": the channel a walk has tried is the first mount of    *)
(* the union it goes on with.                                              *)
StartsAtC == \A p \in Proc : pc[p] = "union" =>
               list[me[p].m] # <<>> /\ list[me[p].m][1].to = me[p].c
=============================================================================
