------------------------------- MODULE MCQio --------------------------------
(* Instances of Qio for TLC. *)
EXTENDS Qio, TLC

CONSTANTS r1, r2, w1, w2

(* A queue of devpipe, of bytes or with Qmsg. *)
Pipe == [reader : {{r1, r2}}, writer : {{w1, w2}}, rlen : {{1, 3}}, wlen : {{3}},
         ops : {{"qhangup", "qclose", "qreopen"}}, limit : {4},
         coalesce : {FALSE}, msg : BOOLEAN, owned : {TRUE}, puts : {2}]

(* Two queues of devcons: kprintq, which coalesces and may be nonblocking, *)
(* and kbdq, into which a process puts a byte now and then.                *)
Kprint == [reader : {{r1, r2}}, writer : {{w1, w2}}, rlen : {{1, 3}}, wlen : {{0, 3}},
           ops : {{"qnoblock"}}, limit : {3},
           coalesce : {TRUE}, msg : {FALSE}, owned : {TRUE}, puts : {2}]

Kbd == [reader : {{r1, r2}}, writer : {{w1, w2}}, rlen : {{1}}, wlen : {{1}},
        ops : {{"qproduce"}}, limit : {2},
        coalesce : {FALSE}, msg : {FALSE}, owned : {TRUE}, puts : {3}]

(* A queue fed by a driver in pieces, which pays no attention to its limit. *)
Fed == [reader : {{r1, r2}}, writer : {{}}, rlen : {{1, 3}}, wlen : {{0, 3}},
        ops : {{"qiwrite", "qproduce"}}, limit : {3},
        coalesce : BOOLEAN, msg : {FALSE}, owned : {TRUE}, puts : {2}]

(* A queue whose reader is a driver. *)
Drained == [reader : {{}}, writer : {{w1, w2}}, rlen : {{1, 3}}, wlen : {{1, 3}},
            ops : {{"qget", "qconsume", "qdiscard", "qflush", "qpass", "qpassnolim"}},
            limit : {4}, coalesce : {FALSE}, msg : BOOLEAN, owned : {FALSE}, puts : {3}]

(* A slow reader and long writes. *)
Served == [reader : {{r1}}, writer : {{w1, w2}}, rlen : {{1}}, wlen : {{1, 3}},
           ops : {{}}, limit : {3}, coalesce : {FALSE}, msg : {FALSE},
           owned : {TRUE}, puts : {3}]

AllUses == Pipe \cup Kprint \cup Kbd \cup Fed \cup Drained

Symmetry == Permutations(Reader) \cup Permutations(Writer)
=============================================================================
