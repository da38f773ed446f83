---------------------------- MODULE EgressProofs ----------------------------
(***************************************************************************)
(* Proofs about Egress for every number of posters, every capacity and      *)
(* every number of records: its type, the flush promise of an orderly       *)
(* close, and that it implements Outbox.                                    *)
(***************************************************************************)
EXTENDS Egress, TLAPS

(* The number of records the worker holds between its two critical sections.*)
Held == IF inflight = 0 THEN 0 ELSE 1

(* The records on the wire, the one in flight and those queued are          *)
(* consecutive admission numbers.                                           *)
Consecutive ==
  /\ \A i \in 1..Len(wire) : wire[i] = i
  /\ inflight # 0 => inflight = Len(wire) + 1
  /\ \A i \in 1..Len(queue) : queue[i] = Len(wire) + Held + i

(* No record is lost while the worker is sound; records go missing only with*)
(* a fault's cleared queue, and then the egress is closed for good.         *)
Accounted ==
  \/ accepted = Len(wire) + Held + Len(queue)
  \/ /\ closed /\ queue = <<>>
     /\ worker \in {"panicked", "done"} /\ "fault" \in gaveUp
     /\ Len(wire) + Held <= accepted

(* What the worker's place in run() says of the queue and of the history.   *)
WorkerPlace ==
  /\ worker = "wait" => inflight = 0
  /\ worker = "write" => inflight # 0
  /\ poisoned => worker = "panicked"
  /\ worker = "panicked" => "fault" \in gaveUp
  /\ worker \in {"failClose", "failStop"} => gaveUp # {}
  /\ worker = "done" /\ gaveUp = {} => queue = <<>> /\ closed /\ inflight = 0

(* Who can have cut the socket, and when the egress can be closed early.    *)
CloserPlace ==
  /\ down /\ gaveUp = {} => worker = "done"
  /\ closed /\ installer = "check" => gaveUp # {}
  /\ actor = "joined" => worker = "done"
  /\ actor = "aborting" => gaveUp # {}
  /\ \A p \in Posters : poster[p] = "stopReader" => gaveUp # {}

IInv == TypeOK /\ Consecutive /\ Accounted /\ WorkerPlace /\ CloserPlace

-----------------------------------------------------------------------------
(* Appending to, and taking from, a sequence of naturals: the facts about    *)
(* Len and indexing the steps below use.                                     *)
LEMMA AppendFacts ==
  ASSUME NEW S, NEW s \in Seq(S), NEW e \in S
  PROVE  /\ Append(s, e) \in Seq(S)
         /\ Len(Append(s, e)) = Len(s) + 1
         /\ \A i \in 1..Len(s) : Append(s, e)[i] = s[i]
         /\ Append(s, e)[Len(s) + 1] = e
  OBVIOUS

(* Taking the first element leaves the others, one place earlier.            *)
LEMMA TailFacts ==
  ASSUME NEW S, NEW s \in Seq(S), s # <<>>
  PROVE  /\ Tail(s) \in Seq(S) /\ Head(s) \in S /\ Head(s) = s[1]
         /\ Len(s) \in Nat \ {0}
         /\ Len(Tail(s)) = Len(s) - 1
         /\ \A i \in 1..Len(Tail(s)) : Tail(s)[i] = s[i + 1]
  OBVIOUS

(* The initial state satisfies the inductive invariant.                      *)
LEMMA InitInv == Init => IInv
<1> SUFFICES ASSUME Init PROVE IInv
  OBVIOUS
<1>1. TypeOK
  <2>1. queue \in Seq(1..MaxRecords) /\ Len(queue) <= Capacity
    BY EgressAssumption DEF Init
  <2>2. wire \in Seq(1..MaxRecords)
    BY DEF Init
  <2>3. inflight \in 0..MaxRecords /\ accepted \in 0..MaxRecords
    BY EgressAssumption DEF Init
  <2>4. QED BY <2>1, <2>2, <2>3 DEF Init, TypeOK
<1>2. Consecutive /\ Accounted
  BY DEF Init, Consecutive, Accounted, Held
<1>3. WorkerPlace /\ CloserPlace
  BY DEF Init, WorkerPlace, CloserPlace
<1>4. QED BY <1>1, <1>2, <1>3 DEF IInv

(* Admission extends the numbering by its next number.                       *)
LEMMA SendAdmitInv ==
  ASSUME IInv, NEW p \in Posters, SendAdmit(p)
  PROVE  IInv'
<1> USE DEF IInv, SendAdmit, socketVars
<1>1. accepted = Len(wire) + Held + Len(queue)
  BY DEF Accounted
<1>2. accepted + 1 \in 1..MaxRecords /\ Len(queue) \in Nat /\ Len(wire) \in Nat
  BY EgressAssumption DEF TypeOK
<1>3. /\ queue' \in Seq(1..MaxRecords) /\ Len(queue') = Len(queue) + 1
      /\ \A i \in 1..Len(queue) : queue'[i] = queue[i]
      /\ queue'[Len(queue) + 1] = accepted + 1
  BY <1>2, AppendFacts DEF TypeOK
<1>4. TypeOK'
  BY <1>2, <1>3, EgressAssumption DEF TypeOK
<1>5. Held' = Held /\ Held \in {0, 1}
  BY DEF Held
<1>6. Consecutive'
  <2>1. \A i \in 1..Len(queue') : queue'[i] = Len(wire') + Held' + i
    <3>1. TAKE i \in 1..Len(queue')
    <3>2. CASE i \in 1..Len(queue)
      BY <3>2, <1>3, <1>5 DEF Consecutive
    <3>3. CASE i = Len(queue) + 1
      BY <3>3, <1>1, <1>2, <1>3, <1>5
    <3>4. QED BY <3>1, <3>2, <3>3, <1>2, <1>3
  <2>2. QED BY <2>1, <1>5 DEF Consecutive
<1>7. Accounted'
  BY <1>1, <1>2, <1>3, <1>5 DEF Accounted
<1>8. WorkerPlace' /\ CloserPlace'
  BY DEF WorkerPlace, CloserPlace
<1>9. QED BY <1>4, <1>6, <1>7, <1>8

(* The worker takes the oldest record: the numbering only moves on.          *)
LEMMA WorkerTakeInv ==
  ASSUME IInv, WorkerTake
  PROVE  IInv'
<1> USE DEF IInv, WorkerTake, socketVars
<1>1. accepted = Len(wire) + Held + Len(queue) /\ Held = 0 /\ inflight = 0
  BY DEF Accounted, WorkerPlace, Held
<1>2. /\ queue' \in Seq(1..MaxRecords) /\ inflight' \in 1..MaxRecords
      /\ inflight' = queue[1] /\ Len(queue) \in Nat \ {0} /\ Len(queue') = Len(queue) - 1
      /\ \A i \in 1..Len(queue') : queue'[i] = queue[i + 1]
  BY TailFacts DEF TypeOK
<1>3. Len(wire) \in Nat /\ Len(queue) <= Capacity /\ Capacity \in Nat /\ MaxRecords \in Nat
  BY EgressAssumption DEF TypeOK
<1>4. TypeOK'
  BY <1>2, <1>3 DEF TypeOK
<1>5. inflight' = Len(wire) + 1 /\ Held' = 1
  BY <1>1, <1>2, <1>3 DEF Consecutive, Held
<1>6. Consecutive'
  <2>1. \A i \in 1..Len(queue') : queue'[i] = Len(wire') + Held' + i
    <3>1. TAKE i \in 1..Len(queue')
    <3>2. i + 1 \in 1..Len(queue) /\ queue'[i] = queue[i + 1]
      BY <1>2
    <3>3. queue[i + 1] = Len(wire) + (i + 1)
      BY <3>2, <1>1, <1>3 DEF Consecutive
    <3>4. QED BY <3>1, <3>2, <3>3, <1>2, <1>3, <1>5
  <2>2. QED BY <2>1, <1>5 DEF Consecutive
<1>7. Accounted'
  BY <1>1, <1>2, <1>3, <1>5 DEF Accounted
<1>8. WorkerPlace' /\ CloserPlace'
  BY <1>5, <1>3 DEF WorkerPlace, CloserPlace
<1>9. QED BY <1>4, <1>6, <1>7, <1>8

(* The worker writes the record in flight: it is the wire's next number.     *)
LEMMA WorkerWriteInv ==
  ASSUME IInv, WorkerWrite
  PROVE  IInv'
<1> USE DEF IInv, WorkerWrite, socketVars, queueVars
<1>1. /\ accepted = Len(wire) + Held + Len(queue) /\ Held = 1 /\ Held' = 0
      /\ inflight \in 1..MaxRecords /\ inflight = Len(wire) + 1
  BY EgressAssumption DEF Accounted, WorkerPlace, Held, Consecutive, TypeOK
<1>2. /\ wire' \in Seq(1..MaxRecords) /\ Len(wire') = Len(wire) + 1
      /\ \A i \in 1..Len(wire) : wire'[i] = wire[i]
      /\ wire'[Len(wire) + 1] = inflight
  BY <1>1, AppendFacts DEF TypeOK
<1>3. Len(wire) \in Nat /\ Len(queue) \in Nat /\ MaxRecords \in Nat
  BY EgressAssumption DEF TypeOK
<1>4. TypeOK'
  BY <1>2, <1>3 DEF TypeOK
<1>5. Consecutive'
  <2>1. \A i \in 1..Len(wire') : wire'[i] = i
    <3>1. TAKE i \in 1..Len(wire')
    <3>2. CASE i \in 1..Len(wire)
      BY <3>2, <1>2 DEF Consecutive
    <3>3. CASE i = Len(wire) + 1
      BY <3>3, <1>1, <1>2
    <3>4. QED BY <3>1, <3>2, <3>3, <1>2, <1>3
  <2>2. \A i \in 1..Len(queue') : queue'[i] = Len(wire') + Held' + i
    BY <1>1, <1>2, <1>3 DEF Consecutive
  <2>3. QED BY <2>1, <2>2 DEF Consecutive
<1>6. Accounted'
  BY <1>1, <1>2, <1>3 DEF Accounted
<1>7. WorkerPlace' /\ CloserPlace'
  BY DEF WorkerPlace, CloserPlace
<1>8. QED BY <1>4, <1>5, <1>6, <1>7

(* A step that leaves the records and the queue alone keeps their numbering. *)
LEMMA SameRecords ==
  ASSUME Consecutive, UNCHANGED <<queue, recordVars>>
  PROVE  Consecutive' /\ Held' = Held
  BY DEF Consecutive, Held, recordVars

(* Clearing the queue keeps the numbering too, and after a fault the egress  *)
(* is closed, so the lost records are accounted for.                         *)
LEMMA AbortAccounted ==
  ASSUME IInv, AbortAfterFault, UNCHANGED recordVars, "fault" \in gaveUp,
         gaveUp \subseteq gaveUp', worker' \in {"panicked", "done"}
  PROVE  /\ Consecutive' /\ Accounted'
         /\ queue' \in Seq(1..MaxRecords) /\ Len(queue') <= Capacity
<1>1. /\ queue' = <<>> /\ closed' = TRUE /\ Len(queue') = 0 /\ Held' = Held
      /\ wire' = wire /\ inflight' = inflight /\ accepted' = accepted
  BY DEF AbortAfterFault, Held, recordVars
<1>2. Len(wire) \in Nat /\ Len(queue) \in Nat /\ accepted \in Nat /\ Held \in {0, 1}
  BY EgressAssumption DEF IInv, TypeOK, Held
<1>3. Consecutive'
  BY <1>1 DEF IInv, Consecutive
<1>4. Len(wire) + Held <= accepted
  BY <1>2 DEF IInv, Accounted
<1>5. queue' \in Seq(1..MaxRecords) /\ Len(queue') <= Capacity
  BY <1>1, EgressAssumption
<1>6. QED BY <1>1, <1>3, <1>4, <1>5 DEF Accounted

(* Closing an egress keeps the records accounted for.                        *)
LEMMA CloseAccounted ==
  ASSUME IInv, Close, UNCHANGED <<recordVars, worker>>, gaveUp \subseteq gaveUp'
  PROVE  /\ Consecutive' /\ Accounted' /\ closed' /\ poisoned' = FALSE
         /\ queue' \in Seq(1..MaxRecords) /\ Len(queue') <= Capacity
         /\ queue' # <<>> => queue' = queue
<1>1. CASE ~poisoned /\ closed' = TRUE /\ UNCHANGED <<queue, poisoned, socketVars>>
  <2>1. Consecutive' /\ Held' = Held
    BY <1>1, SameRecords DEF IInv
  <2>2. Accounted'
    BY <1>1, <2>1 DEF IInv, Accounted, recordVars
  <2>3. QED BY <1>1, <2>1, <2>2 DEF IInv, TypeOK
<1>2. CASE poisoned /\ AbortAfterFault
  <2>1. worker = "panicked" /\ "fault" \in gaveUp
    BY <1>2 DEF IInv, WorkerPlace
  <2>2. QED BY <1>2, <2>1, AbortAccounted DEF AbortAfterFault
<1>3. QED BY <1>1, <1>2 DEF Close

(* The steps of the posting threads.                                         *)
LEMMA SendInv ==
  ASSUME IInv, NEW p \in Posters,
         SendAdmit(p) \/ SendOverflow(p) \/ SendOverflowStop(p) \/ SendPoisoned(p)
  PROVE  IInv'
<1>1. CASE SendAdmit(p)
  BY <1>1, SendAdmitInv
<1>2. CASE SendOverflow(p)
  <2> USE <1>2 DEF SendOverflow, IInv, socketVars, recordVars
  <2>1. TypeOK'
    BY DEF TypeOK, Causes
  <2>2. Consecutive' /\ Held' = Held
    BY SameRecords
  <2>3. Accounted' /\ WorkerPlace' /\ CloserPlace'
    BY <2>2 DEF Accounted, WorkerPlace, CloserPlace
  <2>4. QED BY <2>1, <2>2, <2>3
<1>3. CASE SendOverflowStop(p)
  <2> USE <1>3 DEF SendOverflowStop, StopReader, IInv, queueVars, recordVars
  <2>1. TypeOK'
    BY DEF TypeOK
  <2>2. Consecutive' /\ Held' = Held
    BY SameRecords
  <2>3. Accounted' /\ WorkerPlace'
    BY <2>2 DEF Accounted, WorkerPlace
  <2>4. CloserPlace'
    BY DEF CloserPlace, TypeOK
  <2>5. QED BY <2>1, <2>2, <2>3, <2>4
<1>4. CASE SendPoisoned(p)
  <2> USE <1>4 DEF SendPoisoned, IInv
  <2>1. worker = "panicked" /\ "fault" \in gaveUp
    BY DEF WorkerPlace
  <2>2. /\ Consecutive' /\ Accounted'
        /\ queue' \in Seq(1..MaxRecords) /\ Len(queue') <= Capacity
    BY <2>1, AbortAccounted
  <2>3. TypeOK'
    BY <2>2 DEF TypeOK, AbortAfterFault, recordVars
  <2>4. WorkerPlace' /\ CloserPlace'
    BY <2>1 DEF WorkerPlace, CloserPlace, AbortAfterFault, recordVars
  <2>5. QED BY <2>2, <2>3, <2>4
<1>5. QED BY <1>1, <1>2, <1>3, <1>4

(* The steps of the worker thread.                                           *)
LEMMA WorkerInv ==
  ASSUME IInv, WorkerStep \/ WorkerPanics
  PROVE  IInv'
<1>1. CASE WorkerTake
  BY <1>1, WorkerTakeInv
<1>2. CASE WorkerWrite
  BY <1>2, WorkerWriteInv
<1>3. CASE WorkerReturn \/ WorkerWriteFails \/ WorkerWriteRefused \/ WorkerFailStop \/ WorkerPanics
  <2> USE <1>3 DEF WorkerReturn, WorkerWriteFails, WorkerWriteRefused, WorkerFailStop, WorkerPanics,
                   StopReader, IInv, queueVars, recordVars, socketVars
  <2>1. TypeOK'
    <3>1. UNCHANGED <<queue, closed, overflowed, inflight, wire, accepted, poster, installer, actor>>
      OBVIOUS
    <3>2. /\ handle' \in BOOLEAN /\ down' \in BOOLEAN /\ poisoned' \in BOOLEAN
          /\ worker' \in {"wait", "write", "failClose", "failStop", "panicked", "done"}
          /\ gaveUp' \in SUBSET Causes
      BY DEF TypeOK, Causes
    <3>3. QED BY ONLY TypeOK, <3>1, <3>2 DEF TypeOK
  <2>2. Consecutive' /\ Held' = Held
    BY SameRecords
  <2>3. Accounted'
    BY <2>2 DEF Accounted
  <2>4. WorkerPlace'
    BY DEF WorkerPlace
  <2>5. CloserPlace'
    BY DEF CloserPlace, WorkerPlace
  <2>6. QED BY <2>1, <2>2, <2>3, <2>4, <2>5
<1>4. CASE WorkerFailClose
  <2> USE <1>4 DEF WorkerFailClose, IInv
  <2>1. ~poisoned /\ gaveUp # {}
    BY DEF WorkerPlace
  <2>2. closed' = TRUE /\ UNCHANGED <<queue, poisoned, socketVars>>
    BY <2>1 DEF Close
  <2>3. TypeOK'
    BY <2>2 DEF TypeOK, recordVars, socketVars
  <2>4. Consecutive' /\ Held' = Held
    BY <2>2, SameRecords
  <2>5. Accounted' /\ WorkerPlace' /\ CloserPlace'
    BY <2>1, <2>2, <2>4 DEF Accounted, WorkerPlace, CloserPlace, recordVars, socketVars
  <2>6. QED BY <2>3, <2>4, <2>5
<1>5. CASE WorkerAborts
  <2> USE <1>5 DEF WorkerAborts, IInv
  <2>1. "fault" \in gaveUp
    BY DEF WorkerPlace
  <2>2. /\ Consecutive' /\ Accounted'
        /\ queue' \in Seq(1..MaxRecords) /\ Len(queue') <= Capacity
    BY <2>1, AbortAccounted
  <2>3. TypeOK'
    BY <2>2 DEF TypeOK, AbortAfterFault, recordVars
  <2>4. WorkerPlace' /\ CloserPlace'
    BY <2>1 DEF WorkerPlace, CloserPlace, AbortAfterFault, recordVars
  <2>5. QED BY <2>2, <2>3, <2>4
<1>6. QED BY <1>1, <1>2, <1>3, <1>4, <1>5 DEF WorkerStep

(* A close by the connection thread or the actor, which then moves on.       *)
LEMMA CloseInv ==
  ASSUME IInv, EstablishFails \/ ActorClose \/ ActorPanics
  PROVE  IInv'
<1> USE DEF EstablishFails, ActorClose, ActorPanics, IInv
<1>1. /\ Consecutive' /\ Accounted' /\ closed' /\ poisoned' = FALSE
      /\ queue' \in Seq(1..MaxRecords) /\ Len(queue') <= Capacity
      /\ queue' # <<>> => queue' = queue
  BY CloseAccounted
<1>2. closed' = TRUE /\ (~poisoned => UNCHANGED socketVars)
  BY DEF Close, AbortAfterFault
<1>3. handle' \in BOOLEAN /\ down' \in BOOLEAN
  BY DEF Close, AbortAfterFault, TypeOK, socketVars
<1>4. TypeOK'
  BY <1>1, <1>2, <1>3 DEF TypeOK, recordVars, Causes
<1>5. WorkerPlace'
  BY <1>1, <1>2 DEF WorkerPlace, recordVars
<1>6. CloserPlace'
  BY <1>2 DEF CloserPlace, WorkerPlace, socketVars
<1>7. QED BY <1>1, <1>4, <1>5, <1>6

(* The remaining steps of the connection thread and of the actor.            *)
LEMMA OwnerInv ==
  ASSUME IInv, InstallCheck \/ InstallStore \/ ActorJoined \/ ActorJoinCancels \/ ActorStop
  PROVE  IInv'
<1>1. CASE InstallCheck /\ poisoned
  <2> USE <1>1 DEF InstallCheck, IInv
  <2>1. worker = "panicked" /\ "fault" \in gaveUp
    BY DEF WorkerPlace
  <2>2. AbortAfterFault /\ installer' = "done"
    OBVIOUS
  <2>3. /\ Consecutive' /\ Accounted'
        /\ queue' \in Seq(1..MaxRecords) /\ Len(queue') <= Capacity
    BY <2>1, <2>2, AbortAccounted
  <2>4. TypeOK'
    BY <2>2, <2>3 DEF TypeOK, AbortAfterFault, recordVars
  <2>5. WorkerPlace' /\ CloserPlace'
    BY <2>1, <2>2 DEF WorkerPlace, CloserPlace, AbortAfterFault, recordVars
  <2>6. QED BY <2>3, <2>4, <2>5
<1>2. CASE \/ InstallCheck /\ ~poisoned
           \/ InstallStore \/ ActorJoined \/ ActorJoinCancels \/ ActorStop
  <2> USE <1>2 DEF InstallCheck, InstallStore, ActorJoined, ActorJoinCancels, ActorStop,
                   IInv, queueVars, recordVars, socketVars
  <2>1. TypeOK'
    <3>1. UNCHANGED <<queue, closed, poisoned, overflowed, inflight, wire, accepted, worker, poster>>
      OBVIOUS
    <3>2. /\ handle' \in BOOLEAN /\ down' \in BOOLEAN
          /\ installer' \in {"check", "store", "done"}
          /\ actor' \in {"serving", "joining", "joined", "aborting", "stopped"}
          /\ gaveUp' \in SUBSET Causes
      BY DEF TypeOK, Causes
    <3>3. QED BY ONLY TypeOK, <3>1, <3>2 DEF TypeOK
  <2>2. Consecutive' /\ Held' = Held
    BY SameRecords
  <2>3. Accounted' /\ WorkerPlace'
    BY <2>2 DEF Accounted, WorkerPlace
  <2>4. CloserPlace'
    BY DEF CloserPlace
  <2>5. QED BY <2>1, <2>2, <2>3, <2>4
<1>3. QED BY <1>1, <1>2

-----------------------------------------------------------------------------
(* The invariant is inductive, for every set of posters and every capacity.  *)
THEOREM Invariance == Spec => []IInv
<1>1. IInv /\ [Next]_vars => IInv'
  <2> SUFFICES ASSUME IInv, [Next]_vars PROVE IInv'
    OBVIOUS
  <2>1. CASE WorkerStep \/ WorkerPanics
    BY <2>1, WorkerInv
  <2>2. CASE EstablishFails \/ ActorClose \/ ActorPanics
    BY <2>2, CloseInv
  <2>3. CASE InstallCheck \/ InstallStore \/ ActorJoined \/ ActorJoinCancels \/ ActorStop
    BY <2>3, OwnerInv
  <2>4. CASE \E p \in Posters :
               SendAdmit(p) \/ SendOverflow(p) \/ SendOverflowStop(p) \/ SendPoisoned(p)
    BY <2>4, SendInv
  <2>5. CASE UNCHANGED vars
    <3> USE <2>5 DEF vars, queueVars, recordVars, socketVars
    <3>1. Consecutive' /\ Held' = Held
      BY SameRecords DEF IInv
    <3>2. QED BY <3>1 DEF IInv, TypeOK, Accounted, WorkerPlace, CloserPlace
  <2>6. QED BY <2>1, <2>2, <2>3, <2>4, <2>5 DEF Next
<1>2. QED BY InitInv, <1>1, PTL DEF Spec

(* Every variable keeps its type; in particular the queue never holds more   *)
(* than EGRESS_CAPACITY records, whoever posts.                              *)
THEOREM TypeCorrect == Spec => []TypeOK
<1>1. IInv => TypeOK
  BY DEF IInv
<1>2. QED BY Invariance, <1>1, PTL

(* The end of actor_loop() flushes: a socket that goes down with nothing     *)
(* abandoned carried every record any thread had admitted.                   *)
THEOREM FlushCorrect == Spec => []OrderlyCloseFlushes
<1>1. IInv => OrderlyCloseFlushes
  <2> SUFFICES ASSUME IInv, down, gaveUp = {} PROVE Len(wire) = accepted
    BY DEF OrderlyCloseFlushes
  <2>1. worker = "done" /\ queue = <<>> /\ inflight = 0
    BY DEF IInv, CloserPlace, WorkerPlace
  <2>2. accepted = Len(wire) + Held + Len(queue)
    BY DEF IInv, Accounted
  <2>3. Held = 0 /\ Len(queue) = 0 /\ Len(wire) \in Nat
    BY <2>1 DEF Held, IInv, TypeOK
  <2>4. QED BY <2>2, <2>3
<1>2. QED BY Invariance, <1>1, PTL

(* The egress implements the abstract outbox, step by step.                  *)
THEOREM Refinement == Spec => OutboxSpec
<1>1. Init => Box!Init
  BY DEF Init, Box!Init
<1>2. IInv /\ [Next]_vars => [Box!Next]_(Box!boxVars)
  <2> SUFFICES ASSUME IInv, [Next]_vars
               PROVE  Box!Admit \/ Box!Deliver \/ Box!Shut \/ UNCHANGED Box!boxVars
    BY DEF Box!Next
  <2> USE DEF Box!boxVars, recordVars, queueVars, socketVars
  <2>1. CASE WorkerWrite
    <3>1. inflight # 0 /\ inflight = Len(wire) + 1
      BY <2>1 DEF WorkerWrite, IInv, WorkerPlace, Consecutive
    <3>2. Len(wire) < accepted
      BY <2>1, <3>1, EgressAssumption
      DEF WorkerWrite, IInv, Accounted, Held, TypeOK
    <3>3. Box!Deliver
      BY <2>1, <3>1, <3>2 DEF WorkerWrite, Box!Deliver
    <3>4. QED BY <3>3
  <2>2. ASSUME NEW p \in Posters, SendAdmit(p) PROVE Box!Admit
    BY <2>2 DEF SendAdmit, Box!Admit
  <2>3. CASE UNCHANGED <<accepted, wire, closed>>
    BY <2>3
  <2>4. CASE UNCHANGED <<accepted, wire>> /\ closed' = TRUE
    BY <2>4 DEF Box!Shut, IInv, TypeOK
  <2>5. CASE WorkerStep \/ WorkerPanics
    BY <2>1, <2>3, <2>4, <2>5
    DEF WorkerStep, WorkerTake, WorkerReturn, WorkerWriteFails, WorkerWriteRefused, WorkerFailClose,
        WorkerFailStop, WorkerPanics, WorkerAborts, Close, AbortAfterFault
  <2>6. CASE EstablishFails \/ ActorClose \/ ActorPanics
    BY <2>4, <2>6 DEF EstablishFails, ActorClose, ActorPanics, Close, AbortAfterFault
  <2>7. CASE InstallCheck \/ InstallStore \/ ActorJoined \/ ActorJoinCancels \/ ActorStop
    BY <2>3, <2>4, <2>7 DEF InstallCheck, InstallStore, ActorJoined, ActorJoinCancels,
       ActorStop, AbortAfterFault
  <2>8. CASE \E p \in Posters :
               SendAdmit(p) \/ SendOverflow(p) \/ SendOverflowStop(p) \/ SendPoisoned(p)
    BY <2>2, <2>3, <2>4, <2>8
    DEF SendOverflow, SendOverflowStop, SendPoisoned, AbortAfterFault
  <2>9. CASE UNCHANGED vars
    BY <2>3, <2>9 DEF vars
  <2>10. QED BY <2>5, <2>6, <2>7, <2>8, <2>9 DEF Next
<1>3. QED BY Invariance, <1>1, <1>2, PTL DEF Spec, OutboxSpec, Box!Spec
=============================================================================
