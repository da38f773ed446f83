------------------------------- MODULE Egress -------------------------------
(***************************************************************************)
(* The egress of one Vivid connection (src/vivid/actor.rs): a bounded       *)
(* queue of records, the worker thread that owns the socket's writer, any   *)
(* number of threads that post records, the connection thread that installs *)
(* the reader's shutdown handle, and the session actor that closes the      *)
(* egress, joins its worker and shuts the socket down.                      *)
(*                                                                         *)
(* A record is the number of its admission: the n-th record ever admitted   *)
(* is n.  Nothing in the egress looks inside a record.                      *)
(***************************************************************************)
EXTENDS Naturals, Sequences

CONSTANTS
  Posters,     \* threads that call Egress::send
  Capacity,    \* EGRESS_CAPACITY
  MaxRecords   \* bound: records admitted in one behaviour

ASSUME EgressAssumption == Capacity \in Nat \ {0} /\ MaxRecords \in Nat

VARIABLES
  queue,       \* EgressQueue.records
  closed,      \* EgressQueue.closed
  poisoned,    \* the queue mutex was poisoned by a panicking worker
  overflowed,  \* Egress.overflowed
  handle,      \* Egress.shutdown holds a ReadShutdown
  down,        \* the socket is shut down in both directions
  inflight,    \* the record the worker has popped and not yet written, or 0
  wire,        \* records the writer has written
  accepted,    \* records admitted so far
  worker,      \* where the worker thread is in run()
  poster,      \* where each posting thread is in send()
  installer,   \* where the connection thread is in set_shutdown()
  actor,       \* where the session actor is in closing the egress
  gaveUp       \* history: why the connection was abandoned, if it was

queueVars  == <<queue, closed, poisoned>>
recordVars == <<inflight, wire, accepted>>
socketVars == <<handle, down>>
vars == <<queueVars, recordVars, socketVars, overflowed, worker, poster,
          installer, actor, gaveUp>>

Causes == {"overflow", "write", "refused", "fault", "cancel", "panic"}

TypeOK ==
  /\ queue \in Seq(1..MaxRecords) /\ Len(queue) <= Capacity
  /\ closed \in BOOLEAN /\ poisoned \in BOOLEAN /\ overflowed \in BOOLEAN
  /\ handle \in BOOLEAN /\ down \in BOOLEAN
  /\ inflight \in 0..MaxRecords
  /\ wire \in Seq(1..MaxRecords)
  /\ accepted \in 0..MaxRecords
  /\ worker \in {"wait", "write", "failClose", "failStop", "panicked", "done"}
  /\ poster \in [Posters -> {"idle", "stopReader"}]
  /\ installer \in {"check", "store", "done"}
  /\ actor \in {"serving", "joining", "joined", "aborting", "stopped"}
  /\ gaveUp \in SUBSET Causes

Init ==
  /\ queue = <<>> /\ closed = FALSE /\ poisoned = FALSE /\ overflowed = FALSE
  /\ handle = FALSE /\ down = FALSE
  /\ inflight = 0 /\ wire = <<>> /\ accepted = 0
  /\ worker = "wait"
  /\ poster = [p \in Posters |-> "idle"]
  /\ installer = "check"
  /\ actor = "serving"
  /\ gaveUp = {}

-----------------------------------------------------------------------------
(* Mutant: the fault path destroys the queue but leaves the socket open.     *)
AbortKeepsSocket ==
  /\ closed' = TRUE /\ queue' = <<>> /\ poisoned' = FALSE
  /\ UNCHANGED socketVars

(* abort_after_fault(): destroy the queue, clear the poison, shut the socket *)
(* down and take the reader's handle.                                        *)
AbortAfterFault ==
  /\ closed' = TRUE /\ queue' = <<>> /\ poisoned' = FALSE
  /\ down' = TRUE /\ handle' = FALSE

(* close(): stop accepting records, or abort if the mutex is poisoned.       *)
Close ==
  \/ poisoned /\ AbortAfterFault
  \/ ~poisoned /\ closed' = TRUE /\ UNCHANGED <<queue, poisoned, socketVars>>

(* stop_reader(): take the handle, if one is stored, and stop its reader.    *)
StopReader == handle' = FALSE /\ down' = (down \/ handle)

-----------------------------------------------------------------------------
(* send(): one critical section of the queue mutex.                          *)

(* Mutant: the capacity is compared with > instead of >=.                    *)
SendAdmitOneTooMany(p) ==
  /\ poster[p] = "idle" /\ ~poisoned /\ ~closed
  /\ Len(queue) <= Capacity
  /\ accepted < MaxRecords
  /\ accepted' = accepted + 1
  /\ queue' = Append(queue, accepted + 1)
  /\ UNCHANGED <<closed, poisoned, overflowed, inflight, wire, socketVars,
                 worker, poster, installer, actor, gaveUp>>

(* The queue has room.                                                       *)
SendAdmit(p) ==
  /\ poster[p] = "idle" /\ ~poisoned /\ ~closed
  /\ Len(queue) < Capacity
  /\ accepted < MaxRecords
  /\ accepted' = accepted + 1
  /\ queue' = Append(queue, accepted + 1)
  /\ UNCHANGED <<closed, poisoned, overflowed, inflight, wire, socketVars,
                 worker, poster, installer, actor, gaveUp>>

(* The queue is full: close it and leave the critical section; the reader is *)
(* stopped only afterwards.                                                  *)
SendOverflow(p) ==
  /\ poster[p] = "idle" /\ ~poisoned /\ ~closed
  /\ Len(queue) >= Capacity
  /\ closed' = TRUE
  /\ overflowed' = TRUE
  /\ poster' = [poster EXCEPT ![p] = "stopReader"]
  /\ gaveUp' = gaveUp \cup {"overflow"}
  /\ UNCHANGED <<queue, poisoned, recordVars, socketVars, worker, installer, actor>>

SendOverflowStop(p) ==
  /\ poster[p] = "stopReader"
  /\ StopReader
  /\ poster' = [poster EXCEPT ![p] = "idle"]
  /\ UNCHANGED <<queueVars, overflowed, recordVars, worker, installer, actor, gaveUp>>

(* The queue mutex is poisoned: the poster destroys the egress.              *)
SendPoisoned(p) ==
  /\ poster[p] = "idle" /\ poisoned
  /\ AbortAfterFault
  /\ UNCHANGED <<overflowed, recordVars, worker, poster, installer, actor, gaveUp>>

-----------------------------------------------------------------------------
(* set_shutdown(): the closed flag is read under the queue mutex, the handle *)
(* is stored under another one.                                              *)
InstallCheck ==
  /\ installer = "check"
  /\ \/ /\ poisoned
        /\ AbortAfterFault
        /\ installer' = "done"
     \/ /\ ~poisoned /\ closed
        /\ down' = TRUE
        /\ installer' = "done"
        /\ UNCHANGED <<queueVars, handle>>
     \/ /\ ~poisoned /\ ~closed
        /\ installer' = "store"
        /\ UNCHANGED <<queueVars, socketVars>>
  /\ UNCHANGED <<overflowed, recordVars, worker, poster, actor, gaveUp>>

InstallStore ==
  /\ installer = "store"
  /\ handle' = TRUE
  /\ installer' = "done"
  /\ UNCHANGED <<queueVars, overflowed, down, recordVars, worker, poster, actor, gaveUp>>

-----------------------------------------------------------------------------
(* run(): the worker.                                                        *)

(* Mutant: the worker pops the newest record.                                *)
WorkerTakesNewest ==
  /\ worker = "wait" /\ queue # <<>>
  /\ queue' = SubSeq(queue, 1, Len(queue) - 1)
  /\ inflight' = queue[Len(queue)]
  /\ worker' = "write"
  /\ UNCHANGED <<closed, poisoned, overflowed, wire, accepted, socketVars,
                 poster, installer, actor, gaveUp>>

(* pop_front under the queue mutex.                                          *)
WorkerTake ==
  /\ worker = "wait" /\ queue # <<>>
  /\ queue' = Tail(queue)
  /\ inflight' = Head(queue)
  /\ worker' = "write"
  /\ UNCHANGED <<closed, poisoned, overflowed, wire, accepted, socketVars,
                 poster, installer, actor, gaveUp>>

(* Mutant: only an overflow, not every close, ends an idle worker.           *)
WorkerReturnsOnOverflow ==
  /\ worker = "wait" /\ queue = <<>> /\ overflowed
  /\ worker' = "done"
  /\ UNCHANGED <<queueVars, overflowed, recordVars, socketVars, poster,
                 installer, actor, gaveUp>>

(* Nothing left and closed: an orderly return, which leaves the reader alone.*)
WorkerReturn ==
  /\ worker = "wait" /\ queue = <<>> /\ closed
  /\ worker' = "done"
  /\ UNCHANGED <<queueVars, overflowed, recordVars, socketVars, poster,
                 installer, actor, gaveUp>>

(* write_record() succeeds, which needs a live socket and a reading peer.    *)
WorkerWrite ==
  /\ worker = "write" /\ ~down
  /\ wire' = Append(wire, inflight)
  /\ inflight' = 0
  /\ worker' = "wait"
  /\ UNCHANGED <<queueVars, overflowed, accepted, socketVars, poster,
                 installer, actor, gaveUp>>

(* write_record() fails: the socket is down, the peer is gone, or the two    *)
(* second write timeout passed.  The writer itself shuts the socket down.    *)
WorkerWriteFails ==
  /\ worker = "write"
  /\ down' = TRUE
  /\ worker' = "failClose"
  /\ gaveUp' = gaveUp \cup {"write"}
  /\ UNCHANGED <<queueVars, overflowed, recordVars, handle, poster, installer, actor>>

(* write_record() refuses a record longer than the peer's accepted limit,    *)
(* which touches neither the writer nor the socket.                          *)
WorkerWriteRefused ==
  /\ worker = "write"
  /\ worker' = "failClose"
  /\ gaveUp' = gaveUp \cup {"refused"}
  /\ UNCHANGED <<queueVars, overflowed, recordVars, socketVars, poster, installer, actor>>

(* The error path: close(), then stop_reader().                              *)
WorkerFailClose ==
  /\ worker = "failClose"
  /\ Close
  /\ worker' = "failStop"
  /\ UNCHANGED <<overflowed, recordVars, poster, installer, actor, gaveUp>>

WorkerFailStop ==
  /\ worker = "failStop"
  /\ StopReader
  /\ worker' = "done"
  /\ UNCHANGED <<queueVars, overflowed, recordVars, poster, installer, actor, gaveUp>>

(* The worker panics, holding the queue mutex or writing, and its            *)
(* containment boundary then aborts the egress.                              *)
WorkerPanics ==
  /\ worker \in {"wait", "write"}
  /\ poisoned' = (worker = "wait")
  /\ worker' = "panicked"
  /\ gaveUp' = gaveUp \cup {"fault"}
  /\ UNCHANGED <<queue, closed, overflowed, recordVars, socketVars, poster,
                 installer, actor>>

WorkerAborts ==
  /\ worker = "panicked"
  /\ AbortAfterFault
  /\ worker' = "done"
  /\ UNCHANGED <<overflowed, recordVars, poster, installer, actor, gaveUp>>

-----------------------------------------------------------------------------
(* The connection fails between WELCOME and set_shutdown(): the session's    *)
(* cleanup guard closes and joins the egress and drops the socket.           *)
EstablishFails ==
  /\ installer = "check"
  /\ Close
  /\ installer' = "done"
  /\ actor' = "joining"
  /\ UNCHANGED <<overflowed, recordVars, worker, poster, gaveUp>>

(* The end of actor_loop(): close(), join(), shutdown.stop().  The actor is  *)
(* spawned after set_shutdown() returned.                                    *)
ActorClose ==
  /\ actor = "serving" /\ installer = "done"
  /\ Close
  /\ actor' = "joining"
  /\ UNCHANGED <<overflowed, recordVars, worker, poster, installer, gaveUp>>

(* Mutant: the actor does not wait for the worker.                           *)
ActorJoinedEarly ==
  /\ actor = "joining"
  /\ actor' = "joined"
  /\ UNCHANGED <<queueVars, overflowed, recordVars, socketVars, worker, poster,
                 installer, gaveUp>>

(* join() returns once the worker is finished.                               *)
ActorJoined ==
  /\ actor = "joining" /\ worker = "done"
  /\ actor' = "joined"
  /\ UNCHANGED <<queueVars, overflowed, recordVars, socketVars, worker, poster,
                 installer, gaveUp>>

(* join(): 250 ms passed with the worker still running; cut the socket.      *)
ActorJoinCancels ==
  /\ actor = "joining" /\ worker # "done" /\ ~down
  /\ down' = TRUE
  /\ gaveUp' = gaveUp \cup {"cancel"}
  /\ UNCHANGED <<queueVars, overflowed, recordVars, handle, worker, poster,
                 installer, actor>>

(* The actor panics: its boundary closes the egress and stops the reader     *)
(* without waiting for the worker.                                           *)
ActorPanics ==
  /\ actor = "serving" /\ installer = "done"
  /\ Close
  /\ actor' = "aborting"
  /\ gaveUp' = gaveUp \cup {"panic"}
  /\ UNCHANGED <<overflowed, recordVars, worker, poster, installer>>

ActorStop ==
  /\ actor \in {"joined", "aborting"}
  /\ down' = TRUE
  /\ actor' = "stopped"
  /\ UNCHANGED <<queueVars, overflowed, recordVars, handle, worker, poster,
                 installer, gaveUp>>

-----------------------------------------------------------------------------
WorkerStep ==
  \/ WorkerTake \/ WorkerReturn \/ WorkerWrite \/ WorkerWriteFails \/ WorkerWriteRefused
  \/ WorkerFailClose \/ WorkerFailStop \/ WorkerAborts

Next ==
  \/ WorkerStep \/ WorkerPanics
  \/ InstallCheck \/ InstallStore \/ EstablishFails
  \/ ActorClose \/ ActorJoined \/ ActorJoinCancels \/ ActorPanics \/ ActorStop
  \/ \E p \in Posters :
       SendAdmit(p) \/ SendOverflow(p) \/ SendOverflowStop(p) \/ SendPoisoned(p)

(* Threads that are not waiting for a peer keep running.  A write returns    *)
(* within the two second write timeout, so the worker never stalls forever;  *)
(* nothing obliges a poster to post, the actor to close or a thread to panic.*)
Fairness ==
  /\ WF_vars(WorkerStep)
  /\ WF_vars(InstallCheck \/ InstallStore)
  /\ WF_vars(ActorJoined \/ ActorStop)
  /\ \A p \in Posters : WF_vars(SendOverflowStop(p))

Spec == Init /\ [][Next]_vars
FairSpec == Spec /\ Fairness

-----------------------------------------------------------------------------
(* "Flush the final reply (notably GOODBYE's OK) before closing the socket": *)
(* when the socket goes down and nothing was abandoned on the way (no        *)
(* overflow, failed write, panic or join timeout), every record any thread   *)
(* had admitted is already on the wire.                                      *)
OrderlyCloseFlushes == down /\ gaveUp = {} => Len(wire) = accepted

(* Shutting an egress down always completes: whatever the peer, the posters  *)
(* and the panic boundaries do, a close is followed by the worker's end and  *)
(* the socket's, so the session's cleanup guard never hangs in join().       *)
Joining == actor = "joining"
Stopped == actor = "stopped"
CloseCompletes == Joining ~> Stopped

(* A connection whose socket write failed, whose threads panicked or whose   *)
(* join timed out is really cut, so its reader cannot stay parked on it.     *)
Abandoned == gaveUp \ {"overflow", "refused"} # {}
AbandonedIsCut == Abandoned ~> down

(* A connection that closes, in order or not, ends: nobody hangs in join()   *)
(* (join(), set_shutdown()) and no reader stays behind.                       *)
ClosingEnds == CloseCompletes /\ AbandonedIsCut

(* The egress as a bounded first-in first-out outbox.                        *)
Box == INSTANCE Outbox WITH sent <- accepted, out <- wire, open <- ~closed

(* Every step of the egress is a step of the outbox: a record reaches the    *)
(* wire at most once and only after all records admitted before it; nothing  *)
(* is admitted after a close, an overflow or a fault; it never reopens.      *)
OutboxSpec == Box!Spec
=============================================================================
