------------------------------- MODULE Gather -------------------------------
(***************************************************************************)
(* The macOS PTY read-ahead: a worker thread fills buffers from the PTY    *)
(* and hands them to the terminal worker through a queue, a notification   *)
(* socket and two locks.  The terminal worker reads until the queue is     *)
(* empty, resets the read-ahead when the client is reset, and on the exit  *)
(* of the child stops it and drains what is left, first from the queue,    *)
(* then from the PTY itself.                                               *)
(*                                                                         *)
(* The child's output is the numbers 1, 2, ...; a buffer is the range      *)
(* <<first, last>> it holds.  Retries and the bridging budget are a        *)
(* choice.  heard and cut are not variables of the program.                *)
(***************************************************************************)
EXTENDS Naturals, Sequences, FiniteSets

CONSTANTS
    Slots,       \* SLOTS
    BufferSize,  \* CAPACITY
    MaxOutput,   \* bytes the child writes
    MaxResets

VARIABLES
    child,    \* [wrote, open]: the other side of the PTY
    taken,    \* bytes read from the PTY
    gst,      \* State: [free, ready, stop, busy, bridging, generation, eof]
    worker,   \* [pc, from, len, generation, done]
    parser,   \* [pc, current, offset, draining]: the terminal worker's side
    ready,    \* bytes in the notification socket
    wake,     \* whether the wake socket holds bytes
    heard,    \* the numbers handed to the parser, as the last one
    cut       \* [at, last]: what had been read at the last reset

vars == <<child, taken, gst, worker, parser, ready, wake, heard, cut>>

None == <<>>
(***************************************************************************)
(* The child.                                                              *)
(***************************************************************************)
ChildWrites ==
    /\ child.open /\ child.wrote < MaxOutput
    /\ child' = [child EXCEPT !.wrote = @ + 1]
    /\ UNCHANGED <<taken, gst, worker, parser, ready, wake, heard, cut>>

ChildExits ==
    /\ child.open
    /\ child' = [child EXCEPT !.open = FALSE]
    /\ UNCHANGED <<taken, gst, worker, parser, ready, wake, heard, cut>>

(***************************************************************************)
(* The worker thread.                                                      *)
(***************************************************************************)
WorkerTakesBuffer ==
    /\ worker.pc = "top"
    /\ IF gst.stop
       THEN worker' = [worker EXCEPT !.pc = "gone"] /\ UNCHANGED gst
       ELSE /\ gst.free > 0
            /\ gst' = [gst EXCEPT !.free = @ - 1]
            /\ worker' = [pc |-> "read", from |-> taken + 1, len |-> 0,
                          generation |-> gst.generation, done |-> FALSE]
    /\ UNCHANGED <<child, taken, parser, ready, wake, heard, cut>>

(* One nonblocking read, under the read lock. *)
WorkerReads ==
    /\ worker.pc = "read"
    /\ \/ /\ gst.stop \/ gst.generation # worker.generation
          /\ worker' = [worker EXCEPT !.pc = "publish"]
          /\ UNCHANGED <<taken, gst>>
       \/ /\ ~gst.stop /\ gst.generation = worker.generation
          /\ \/ \E n \in 1..(BufferSize - worker.len) :
                   /\ taken + n <= child.wrote
                   /\ taken' = taken + n
                   /\ worker' = [worker EXCEPT !.len = @ + n,
                                               !.from = IF worker.len = 0 THEN taken + 1 ELSE @,
                                               !.pc = IF worker.len + n = BufferSize
                                                      THEN "publish" ELSE "read"]
                   /\ UNCHANGED gst
             \/ /\ taken = child.wrote /\ ~child.open
                /\ worker' = [worker EXCEPT !.done = TRUE, !.pc = "publish"]
                /\ UNCHANGED <<taken, gst>>
             \/ (* WouldBlock: a burst is published, or bridged while the parser is busy *)
                /\ taken = child.wrote /\ child.open
                /\ UNCHANGED taken
                /\ \/ /\ worker.len > 0
                      /\ worker' = [worker EXCEPT !.pc = "publish"] /\ UNCHANGED gst
                   \/ /\ worker.len > 0 /\ (gst.busy \/ gst.ready # <<>>)
                      /\ worker' = [worker EXCEPT !.pc = "poll"]
                      /\ gst' = [gst EXCEPT !.bridging = TRUE]
                   \/ /\ worker.len = 0
                      /\ worker' = [worker EXCEPT !.pc = "poll"] /\ UNCHANGED gst
    /\ UNCHANGED <<child, parser, ready, wake, heard, cut>>

(* poll returns: output, end of the child, a wake, or a millisecond when   *)
(* bridging.                                                               *)
WorkerPolls ==
    /\ worker.pc = "poll"
    /\ taken < child.wrote \/ ~child.open \/ wake \/ worker.len > 0
    /\ gst' = [gst EXCEPT !.bridging = FALSE]
    /\ wake' = FALSE
    /\ LET quiet == taken = child.wrote /\ child.open
       IN  worker' = [worker EXCEPT !.pc = IF worker.len > 0 /\ (quiet \/ wake)
                                           THEN "publish" ELSE "read"]
    /\ UNCHANGED <<child, taken, parser, ready, heard, cut>>

(* The buffer is published or given back, with the end of the output. *)
WorkerPublishes_mut ==
    /\ worker.pc = "publish"
    /\ LET fresh == worker.len > 0
       IN  /\ gst' = [gst EXCEPT !.bridging = FALSE,
                                 !.ready = IF fresh THEN Append(@, <<worker.from, worker.from + worker.len - 1>>)
                                                    ELSE @,
                                 !.free = IF fresh THEN @ ELSE @ + 1,
                                 !.eof = @ \/ worker.done]
           /\ ready' = ready + (IF fresh THEN 1 ELSE 0) + (IF worker.done THEN 1 ELSE 0)
    /\ worker' = [worker EXCEPT !.pc = IF worker.done \/ gst.stop THEN "gone" ELSE "top"]
    /\ UNCHANGED <<child, taken, parser, wake, heard, cut>>

WorkerPublishes ==
    /\ worker.pc = "publish"
    /\ LET fresh == worker.len > 0 /\ worker.generation = gst.generation
       IN  /\ gst' = [gst EXCEPT !.bridging = FALSE,
                                 !.ready = IF fresh THEN Append(@, <<worker.from, worker.from + worker.len - 1>>)
                                                    ELSE @,
                                 !.free = IF fresh THEN @ ELSE @ + 1,
                                 !.eof = @ \/ worker.done]
           /\ ready' = ready + (IF fresh THEN 1 ELSE 0) + (IF worker.done THEN 1 ELSE 0)
    /\ worker' = [worker EXCEPT !.pc = IF worker.done \/ gst.stop THEN "gone" ELSE "top"]
    /\ UNCHANGED <<child, taken, parser, wake, heard, cut>>

(***************************************************************************)
(* The terminal worker.  It reads when the socket is readable.             *)
(***************************************************************************)
ParserWakes ==
    /\ parser.pc = "poll" /\ ready > 0
    /\ parser' = [parser EXCEPT !.pc = "read"]
    /\ UNCHANGED <<child, taken, gst, worker, ready, wake, heard, cut>>

Monus(a, b) == IF a > b THEN a - b ELSE 0

(* Gather::read with a batch at hand: some of it is handed on. *)
ParserReads ==
    /\ parser.pc = "read"
    /\ parser.current # None \/ gst.ready # <<>>
    /\ LET batch == IF parser.current # None THEN parser.current ELSE Head(gst.ready)
           first == IF parser.current # None THEN parser.offset ELSE batch[1]
       IN  \E last \in first..batch[2] :
              /\ heard' = last
              /\ parser' = [parser EXCEPT !.current = IF last = batch[2] THEN None ELSE batch,
                                          !.offset = last + 1]
              /\ gst' = [gst EXCEPT !.ready = IF parser.current # None THEN @ ELSE Tail(@),
                                    !.busy = TRUE,
                                    !.free = IF last = batch[2] THEN @ + 1 ELSE @]
              /\ ready' = IF last = batch[2] THEN Monus(ready, 1) ELSE ready
    /\ UNCHANGED <<child, taken, worker, wake, cut>>

(* Gather::read with nothing at hand: the end of the output or WouldBlock, *)
(* then read_idle; when draining, the PTY itself is read on.               *)
ParserFindsNothing ==
    /\ parser.pc = "read"
    /\ parser.current = None /\ gst.ready = <<>>
    /\ gst' = [gst EXCEPT !.busy = FALSE]
    /\ wake' = (wake \/ gst.bridging)
    /\ ready' = IF gst.eof \/ gst.stop THEN Monus(ready, Slots + 1) ELSE ready
    /\ parser' = [parser EXCEPT !.pc = IF parser.draining THEN "drain" ELSE "poll"]
    /\ UNCHANGED <<child, taken, worker, heard, cut>>

(* MAX_LOCKED_READ: back to the poll with the batch half read. *)
ParserYields ==
    /\ parser.pc = "read" /\ ~parser.draining
    /\ parser' = [parser EXCEPT !.pc = "poll"]
    /\ gst' = [gst EXCEPT !.busy = FALSE]
    /\ wake' = (wake \/ gst.bridging)
    /\ UNCHANGED <<child, taken, worker, ready, heard, cut>>

(* Gather::reset waits out a read in progress and discards what was read. *)
ParserResets ==
    /\ parser.pc = "poll" /\ ~parser.draining
    /\ gst.generation < MaxResets
    /\ gst' = [gst EXCEPT !.generation = @ + 1, !.ready = <<>>, !.busy = FALSE,
                          !.free = @ + Len(gst.ready) + (IF parser.current = None THEN 0 ELSE 1)]
    /\ parser' = [parser EXCEPT !.current = None, !.offset = 0]
    /\ ready' = Monus(ready, Slots + 1)
    /\ wake' = TRUE
    /\ cut' = taken
    /\ UNCHANGED <<child, taken, worker, heard>>

(* The child's exit: Gather::stop, which joins the worker. *)
ParserStops ==
    /\ parser.pc = "poll" /\ ~child.open /\ ~parser.draining
    /\ gst' = [gst EXCEPT !.stop = TRUE]
    /\ wake' = TRUE
    /\ parser' = [parser EXCEPT !.pc = "join", !.draining = TRUE]
    /\ UNCHANGED <<child, taken, worker, ready, heard, cut>>

ParserJoins ==
    /\ parser.pc = "join" /\ worker.pc = "gone"
    /\ parser' = [parser EXCEPT !.pc = "read"]
    /\ UNCHANGED <<child, taken, gst, worker, ready, wake, heard, cut>>

(* Pty::read while draining, after the queue is empty. *)
ParserDrains ==
    /\ parser.pc = "drain"
    /\ IF taken < child.wrote
       THEN taken' = taken + 1 /\ heard' = taken' /\ UNCHANGED parser
       ELSE parser' = [parser EXCEPT !.pc = "done"] /\ UNCHANGED <<taken, heard>>
    /\ UNCHANGED <<child, gst, worker, ready, wake, cut>>

Init ==
    /\ child = [wrote |-> 0, open |-> TRUE]
    /\ taken = 0 /\ ready = 0 /\ wake = FALSE /\ heard = 0 /\ cut = 0
    /\ gst = [free |-> Slots, ready |-> <<>>, stop |-> FALSE, busy |-> FALSE, bridging |-> FALSE,
              generation |-> 0, eof |-> FALSE]
    /\ worker = [pc |-> "top", from |-> 1, len |-> 0, generation |-> 0, done |-> FALSE]
    /\ parser = [pc |-> "poll", current |-> None, offset |-> 0, draining |-> FALSE]

Next ==
    \/ ChildWrites \/ ChildExits
    \/ WorkerTakesBuffer \/ WorkerReads \/ WorkerPolls \/ WorkerPublishes
    \/ ParserWakes \/ ParserReads \/ ParserFindsNothing \/ ParserYields
    \/ ParserResets \/ ParserStops \/ ParserJoins \/ ParserDrains

Spec == Init /\ [][Next]_vars
-----------------------------------------------------------------------------
Held == worker.pc \in {"read", "poll", "publish"}

TypeOK ==
    /\ gst.free \in 0..Slots /\ Len(gst.ready) <= Slots
    /\ ready \in 0..(Slots + 1)
    /\ worker.pc \in {"top", "read", "poll", "publish", "gone"}
    /\ parser.pc \in {"poll", "read", "join", "drain", "done"}

(* The output between the parser and the PTY, in the order it will be      *)
(* heard: the rest of the current batch, the queue, the worker's buffer.   *)
Pipeline ==
    (IF parser.current = None THEN <<>> ELSE << <<parser.offset, parser.current[2]>> >>)
    \o gst.ready
    \o (IF Held /\ worker.len > 0 /\ worker.generation = gst.generation
        THEN << <<worker.from, worker.from + worker.len - 1>> >> ELSE <<>>)

(* Read-ahead neither loses, repeats nor reorders output: what is on its   *)
(* way continues what was heard, or what had been read when the client was *)
(* reset, up to the last byte read; so nothing read before a reset is      *)
(* heard after it, and a drained child was heard to its last byte.         *)
OutputWhole ==
    LET p == Pipeline
        start == IF heard > cut THEN heard ELSE cut
        ends == <<start>> \o [i \in DOMAIN p |-> p[i][2]]
    IN  /\ \A i \in DOMAIN p : p[i][1] = ends[i] + 1
        /\ ends[Len(ends)] = taken
        /\ parser.pc = "done" => heard = child.wrote \/ (cut = child.wrote)

(* No buffer leaks, and published output keeps the socket readable, so     *)
(* that the parser comes back for it.                                      *)
NothingStranded ==
    /\ gst.free + Len(gst.ready) + (IF parser.current = None THEN 0 ELSE 1)
         + (IF Held THEN 1 ELSE 0) = Slots
    /\ gst.ready # <<>> \/ parser.current # None => ready > 0

ReadAhead == OutputWhole /\ NothingStranded
=============================================================================
