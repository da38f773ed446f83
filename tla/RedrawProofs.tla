---------------------------- MODULE RedrawProofs ----------------------------
(***************************************************************************)
(* Proofs about Redraw for every set of producers, every bound and both    *)
(* builds: no change of the text or of the media is forgotten before it is *)
(* drawn, and no coalescing gate stays shut.                               *)
(*                                                                         *)
(* GatesReopen is inductive.  ChangesCovered is not: a draw that meets a   *)
(* synchronized update clears the window's dirt and relies on the reader   *)
(* for the wake, so the proof needs to know that an update always has an   *)
(* owner (UpdateOwned, FaultReported); a direct draw inside the frame      *)
(* interval relies on the latency worker (OneDelay); and a finished draw   *)
(* covers what it showed only because snapshots never go back (Versions).  *)
(***************************************************************************)
EXTENDS Redraw, TLAPS

(* A synchronized update belongs to the reader, which has its deadline, to *)
(* the fault that will end it, or it has lapsed with the child: it hung up *)
(* or exited.                                                              *)
UpdateOwned ==
  /\ sync => \/ reader = "poll" /\ deadline # "none"
             \/ reader = "quarantined"
             \/ reader \in {"hung", "left"} /\ lapsed
  /\ reader \in {"poll", "wake"} /\ deadline # "none" => sync

(* A quarantined reader has reported its fault, and only such a one has.   *)
FaultReported == reader = "quarantined" <=> "Fault" \in queue

(* A pending delay is held by the worker or is an event, never both.       *)
OneDelay ==
  /\ latencyArmed \/ "Latency" \in queue => latencyPending
  /\ ~(latencyArmed /\ "Latency" \in queue)
  /\ latencyPending => direct

(* What is shown is no newer than what is drawn, nor that than the state.  *)
Versions ==
  /\ text <= MaxText \/ (reader = "left" /\ text <= MaxText + 1)
  /\ media <= story.media
  /\ shown.text <= text /\ shown.media <= media
  /\ frame.text <= text /\ frame.media <= media
  /\ ui = "drawing" => shown.text <= frame.text /\ shown.media <= frame.media

Ownership == UpdateOwned /\ FaultReported /\ OneDelay

IInv == TypeOK /\ Ownership /\ Versions /\ GatesReopen /\ ChangesCovered

-----------------------------------------------------------------------------
(* What the bounds and the stories are.                                    *)
LEMMA Bounds ==
  /\ MaxText \in Nat /\ MaxMedia \in Nat /\ MaxUpdates \in Nat /\ MaxFailures \in Nat
  /\ direct \in Builds => direct \in BOOLEAN
  /\ story \in Stories => story.media \in 0 .. MaxMedia
BY RedrawAssumption

(* The initial state satisfies the inductive invariant.                    *)
LEMMA InitInv == Init => IInv
<1> SUFFICES ASSUME Init PROVE IInv
  OBVIOUS
<1>1. TypeOK
  <2>1. /\ text \in 0 .. MaxText + 2 /\ updates \in 0 .. MaxUpdates /\ media \in 0 .. MaxMedia
        /\ frame \in Snapshot /\ shown \in Snapshot /\ failures \in 0 .. MaxFailures
    BY Bounds DEF Init, Snapshot
  <2>2. /\ producer \in [Producers -> {"idle", "changed", "won"}]
        /\ queue \subseteq Events /\ timers \subseteq {"Frame", "Recovery"}
    BY DEF Init
  <2>3. latencyArmed \in {FALSE, latencyPending}
    BY DEF Init
  <2>4. QED BY <2>1, <2>2, <2>3, Zenon DEF Init, TypeOK
<1>2. Ownership
  BY DEF Init, Ownership, UpdateOwned, FaultReported, OneDelay
<1>3. Versions
  BY Bounds DEF Init, Versions
<1>4. GatesReopen /\ ChangesCovered
  BY DEF Init, GatesReopen, ChangesCovered, TextCovered, TextOnItsWay, MediaCovered
<1>5. QED BY <1>1, <1>2, <1>3, <1>4 DEF IInv

(* SendWake leaves a Wakeup in the queue, sent now or before, and the flag *)
(* set only over one.                                                      *)
LEMMA WakeIsQueued ==
  ASSUME TypeOK, GatesReopen, SendWake
  PROVE  /\ queue' = queue \cup {"Wakeup"}
         /\ wakeFlag' \in BOOLEAN
BY Bounds DEF SendWake, GatesReopen, TypeOK

(* The types of a step of the reader, which touches only its own state, the *)
(* wakeup flag and the queue.                                              *)
LEMMA ReaderTypes ==
  ASSUME TypeOK,
         text' \in 0 .. MaxText + 2, updates' \in 0 .. MaxUpdates, sync' \in BOOLEAN,
         deadline' \in {"none", "armed", "overdue"}, lapsed' \in BOOLEAN,
         reader' \in {"poll", "wake", "hung", "quarantined", "left"},
         wakeFlag' \in BOOLEAN, queue' \subseteq Events,
         UNCHANGED <<direct, story, sceneVars, latencyVars, drawVars, wakePending, rendVars,
                     timers>>
  PROVE  TypeOK'
<1>1. UNCHANGED <<direct, story, media, producer, wakePending, timers>>
  BY DEF sceneVars
<1>2. UNCHANGED <<latencyArmed, latencyPending, dirty, requested, ui, frame>>
  BY DEF latencyVars, drawVars
<1>3. UNCHANGED <<hasFrame, occluded, unavailable, early, shown, failures>>
  BY DEF rendVars
<1>4. QED BY <1>1, <1>2, <1>3, Zenon DEF TypeOK

(* What one read parses leaves every variable it touches of its type.      *)
LEMMA ParseTyped ==
  ASSUME TypeOK, NEW kind \in ReadKinds, Parse(kind)
  PROVE  /\ text' = text \/ (text' = text + 1 /\ text < MaxText /\ kind = "text")
         /\ text' \in 0 .. MaxText + 2 /\ updates' \in 0 .. MaxUpdates /\ sync' \in BOOLEAN
         /\ DeadlineAfter(kind) \in {"none", "armed", "overdue"}
<1>1. DeadlineAfter(kind) \in {"none", "armed", "overdue"}
  BY DEF DeadlineAfter, Opened, EndsOverdue, TypeOK
<1>2. sync' \in BOOLEAN
  BY DEF Parse, TypeOK
<1>3. /\ text' = text \/ (text' = text + 1 /\ text < MaxText /\ kind = "text")
      /\ text' \in 0 .. MaxText + 2 /\ updates' \in 0 .. MaxUpdates
  BY Bounds DEF Parse, TypeOK
<1>4. QED BY <1>1, <1>2, <1>3

(* The reader parses: text that does not wake the window now is inside an  *)
(* update whose end will, or the update has lapsed.                        *)
LEMMA PtyReadInv ==
  ASSUME IInv, NEW kind \in ReadKinds, PtyRead(kind)
  PROVE  IInv'
<1> USE DEF IInv, Ownership
<1>0. /\ reader = "poll" /\ Parse(kind) /\ deadline' = DeadlineAfter(kind)
      /\ reader' = IF wakeup_needed(kind, deadline' # "none") THEN "wake" ELSE "poll"
      /\ lapsed' = (lapsed \/ (EndsOverdue(kind) /\ reader' = "poll"))
      /\ UNCHANGED <<direct, story, sceneVars, latencyVars, drawVars, gateVars, rendVars, queue,
                     timers>>
  BY DEF PtyRead
<1>1. /\ reader' \in {"poll", "wake"}
      /\ deadline' \in {"none", "armed", "overdue"} /\ sync' \in BOOLEAN /\ lapsed' \in BOOLEAN
      /\ text' = text \/ (text' = text + 1 /\ text < MaxText /\ kind = "text")
      /\ text' \in 0 .. MaxText + 2 /\ updates' \in 0 .. MaxUpdates
      /\ lapsed => lapsed'
  BY <1>0, ParseTyped DEF TypeOK, EndsOverdue
<1>2. TypeOK'
  <2>1. wakeFlag' \in BOOLEAN /\ queue' \subseteq Events
    BY <1>0 DEF TypeOK, gateVars
  <2>2. UNCHANGED <<direct, story, sceneVars, latencyVars, drawVars, wakePending, rendVars, timers>>
    BY <1>0 DEF gateVars
  <2>3. QED BY <1>1, <2>1, <2>2, ReaderTypes
<1>3. sync' => reader' = "poll" /\ deadline' # "none"
  BY <1>0 DEF Parse, DeadlineAfter, EndsOverdue, Opened, TypeOK, ReadKinds, wakeup_needed,
              UpdateOwned
<1>4. deadline' # "none" => sync'
  BY <1>0 DEF Parse, DeadlineAfter, EndsOverdue, Opened, TypeOK, ReadKinds, UpdateOwned
<1>5. Ownership'
  BY <1>0, <1>1, <1>3, <1>4 DEF UpdateOwned, FaultReported, OneDelay, latencyVars
<1>6. Versions'
  BY <1>0, <1>1, Bounds DEF Versions, TypeOK, Snapshot, sceneVars, drawVars, rendVars
<1>7. GatesReopen'
  BY <1>0 DEF GatesReopen, latencyVars, gateVars, rendVars, sceneVars
<1>8. text' # text => reader' = "wake" \/ (sync' /\ reader' = "poll" /\ deadline' # "none")
  BY <1>0, <1>1, <1>4 DEF wakeup_needed
<1>9. sync /\ deadline # "none" =>
        reader' = "wake" \/ lapsed' \/ (sync' /\ reader' = "poll" /\ deadline' # "none")
  <2>1. CASE kind = "end"
    BY <1>0, <2>1 DEF wakeup_needed, DeadlineAfter, EndsOverdue, Opened
  <2>2. CASE kind # "end" /\ ~EndsOverdue(kind)
    BY <1>0, <1>1, <1>4, <2>2 DEF DeadlineAfter, Opened
  <2>3. CASE EndsOverdue(kind)
    BY <1>0, <1>1, <2>3
  <2>4. QED BY <2>1, <2>2, <2>3
<1>10. ChangesCovered'
  BY <1>0, <1>1, <1>8, <1>9 DEF ChangesCovered, TextCovered, TextOnItsWay, MediaCovered,
     ReaderOwesWake, WillRedraw, sceneVars, latencyVars, drawVars, rendVars
<1>11. QED BY <1>2, <1>5, <1>6, <1>7, <1>10

(* A hang-up takes the wake from what the read had parsed: it lapses, and  *)
(* so does an update that the dead PTY keeps open.                         *)
LEMMA PtyHangsUpInv ==
  ASSUME IInv, PtyHangsUp
  PROVE  IInv'
<1> USE DEF IInv, Ownership
<1>1. /\ reader = "poll" /\ reader' = "hung"
      /\ lapsed' = (lapsed \/ sync \/ sync' \/ text' # text)
      /\ UNCHANGED <<direct, story, sceneVars, latencyVars, drawVars, gateVars, rendVars, queue,
                     timers>>
  BY DEF PtyHangsUp
<1>2. /\ text' = text \/ (text' = text + 1 /\ text < MaxText)
      /\ text' \in 0 .. MaxText + 2 /\ updates' \in 0 .. MaxUpdates /\ sync' \in BOOLEAN
      /\ deadline' \in {"none", "armed", "overdue"}
  <2>1. CASE UNCHANGED <<text, updates, sync, deadline>>
    BY <2>1 DEF TypeOK
  <2>2. CASE \E kind \in ReadKinds : Parse(kind) /\ deadline' = DeadlineAfter(kind)
    BY <2>2, ParseTyped
  <2>3. QED BY <2>1, <2>2 DEF PtyHangsUp
<1>3. lapsed' \in BOOLEAN /\ (lapsed => lapsed')
  BY <1>1, <1>2 DEF TypeOK
<1>4. TypeOK'
  <2>1. wakeFlag' \in BOOLEAN /\ queue' \subseteq Events
    BY <1>1 DEF TypeOK, gateVars
  <2>2. UNCHANGED <<direct, story, sceneVars, latencyVars, drawVars, wakePending, rendVars, timers>>
    BY <1>1 DEF gateVars
  <2>3. QED BY <1>1, <1>2, <1>3, <2>1, <2>2, ReaderTypes
<1>5. Ownership'
  BY <1>1 DEF UpdateOwned, FaultReported, OneDelay, latencyVars
<1>6. Versions'
  BY <1>1, <1>2, Bounds DEF Versions, TypeOK, Snapshot, sceneVars, drawVars, rendVars
<1>7. GatesReopen'
  BY <1>1 DEF GatesReopen, latencyVars, gateVars, rendVars, sceneVars
<1>8. ChangesCovered'
  BY <1>1, <1>3 DEF ChangesCovered, TextCovered, TextOnItsWay, MediaCovered, ReaderOwesWake,
     WillRedraw, sceneVars, latencyVars, drawVars, rendVars
<1>9. QED BY <1>4, <1>5, <1>6, <1>7, <1>8

(* A step of the reader that leaves the versions alone keeps them ordered. *)
LEMMA ReaderVersions ==
  ASSUME Versions, UNCHANGED <<text, story, sceneVars, ui, frame, shown>>,
         reader = "left" => reader' = "left"
  PROVE  Versions'
BY DEF Versions, sceneVars

(* A wake of the reader covers every change; it also makes good for an     *)
(* update that lapsed.                                                     *)
LEMMA WakeCovers ==
  ASSUME queue' \cap {"Wakeup", "Fault", "Reset"} # {}
  PROVE  ChangesCovered'
BY DEF ChangesCovered, TextCovered, TextOnItsWay, MediaCovered, ReaderOwesWake

(* The reader sends the wake it owes.                                      *)
LEMMA ReaderWakesInv ==
  ASSUME IInv, ReaderWakes
  PROVE  IInv'
<1> USE DEF IInv, Ownership
<1>1. queue' = queue \cup {"Wakeup"} /\ wakeFlag' \in BOOLEAN
  BY WakeIsQueued DEF ReaderWakes
<1>2. /\ reader = "wake" /\ reader' = "poll" /\ lapsed' = FALSE
      /\ UNCHANGED <<direct, story, updates, text, sync, deadline, sceneVars, latencyVars,
                     drawVars, wakePending, rendVars, timers>>
  BY DEF ReaderWakes
<1>3. TypeOK'
  <2>1. UNCHANGED <<direct, story, sceneVars, latencyVars, drawVars, wakePending, rendVars, timers>>
    BY <1>2
  <2>2. /\ text' \in 0 .. MaxText + 2 /\ updates' \in 0 .. MaxUpdates /\ sync' \in BOOLEAN
        /\ deadline' \in {"none", "armed", "overdue"} /\ lapsed' \in BOOLEAN
        /\ queue' \subseteq Events
    BY <1>1, <1>2 DEF TypeOK, Events
  <2>3. QED BY <1>1, <1>2, <2>1, <2>2, ReaderTypes
<1>4. UpdateOwned'
  BY <1>2 DEF UpdateOwned
<1>5. FaultReported' /\ OneDelay'
  BY <1>1, <1>2 DEF FaultReported, OneDelay, latencyVars
<1>6. Versions'
  BY <1>2, ReaderVersions DEF drawVars, rendVars
<1>7. GatesReopen'
  BY <1>1, <1>2 DEF GatesReopen, latencyVars, rendVars, sceneVars
<1>8. ChangesCovered'
  BY <1>1, WakeCovers
<1>9. QED BY <1>3, <1>4, <1>5, <1>6, <1>7, <1>8

(* Time passes for an update; the reader still has its deadline.           *)
LEMMA DeadlinePassesInv ==
  ASSUME IInv, DeadlinePasses
  PROVE  IInv'
<1> USE DEF IInv, Ownership
<1>1. /\ deadline = "armed" /\ deadline' = "overdue"
      /\ UNCHANGED <<direct, story, lapsed, updates, text, sync, reader, sceneVars, latencyVars,
                     drawVars, gateVars, rendVars, queue, timers>>
  BY DEF DeadlinePasses
<1>2. TypeOK'
  <2>1. UNCHANGED <<direct, story, sceneVars, latencyVars, drawVars, wakePending, rendVars, timers>>
    BY <1>1 DEF gateVars
  <2>2. /\ text' \in 0 .. MaxText + 2 /\ updates' \in 0 .. MaxUpdates /\ sync' \in BOOLEAN
        /\ lapsed' \in BOOLEAN /\ reader' \in {"poll", "wake", "hung", "quarantined", "left"}
        /\ wakeFlag' \in BOOLEAN /\ queue' \subseteq Events
    BY <1>1 DEF TypeOK, gateVars
  <2>3. QED BY <1>1, <2>1, <2>2, ReaderTypes
<1>3. Ownership'
  BY <1>1 DEF UpdateOwned, FaultReported, OneDelay, latencyVars
<1>4. Versions'
  BY <1>1, ReaderVersions DEF drawVars, rendVars
<1>5. GatesReopen'
  BY <1>1 DEF GatesReopen, latencyVars, rendVars, sceneVars, gateVars
<1>6. ChangesCovered'
  BY <1>1 DEF ChangesCovered, TextCovered, TextOnItsWay, MediaCovered, ReaderOwesWake, WillRedraw,
              sceneVars, latencyVars, drawVars, rendVars
<1>7. QED BY <1>2, <1>3, <1>4, <1>5, <1>6

(* The poll's timeout ends the update and wakes the window at once.        *)
LEMMA PollTimeoutInv ==
  ASSUME IInv, PollTimeout
  PROVE  IInv'
<1> USE DEF IInv, Ownership
<1>1. queue' = queue \cup {"Wakeup"} /\ wakeFlag' \in BOOLEAN
  BY WakeIsQueued DEF PollTimeout
<1>2. /\ reader \in {"poll", "quarantined"} /\ deadline' = "none" /\ sync' = FALSE
      /\ lapsed' = FALSE
      /\ UNCHANGED <<direct, story, updates, text, reader, sceneVars, latencyVars, drawVars,
                     wakePending, rendVars, timers>>
  BY DEF PollTimeout
<1>3. TypeOK'
  <2>1. UNCHANGED <<direct, story, sceneVars, latencyVars, drawVars, wakePending, rendVars, timers>>
    BY <1>2
  <2>2. /\ text' \in 0 .. MaxText + 2 /\ updates' \in 0 .. MaxUpdates /\ queue' \subseteq Events
    BY <1>1, <1>2 DEF TypeOK, Events
  <2>3. QED BY <1>1, <1>2, <2>1, <2>2, ReaderTypes
<1>4. Ownership'
  BY <1>1, <1>2 DEF UpdateOwned, FaultReported, OneDelay, latencyVars
<1>5. Versions'
  BY <1>2, ReaderVersions DEF drawVars, rendVars
<1>6. GatesReopen'
  BY <1>1, <1>2 DEF GatesReopen, latencyVars, rendVars, sceneVars
<1>7. ChangesCovered'
  BY <1>1, WakeCovers
<1>8. QED BY <1>3, <1>4, <1>5, <1>6, <1>7

(* A reset of the client ends the update with the parser it replaces.      *)
LEMMA ResetClientInv ==
  ASSUME IInv, ResetClient
  PROVE  IInv'
<1> USE DEF IInv, Ownership
<1>1. queue' = queue \cup {"Reset", "Wakeup"} /\ wakeFlag' \in BOOLEAN
  BY Bounds DEF ResetClient, TypeOK, GatesReopen
<1>2. /\ reader \in {"poll", "hung"} /\ text < MaxText /\ text' = text + 1
      /\ deadline' = "none" /\ sync' = FALSE /\ lapsed' = FALSE
      /\ UNCHANGED <<direct, story, updates, reader, sceneVars, latencyVars, drawVars,
                     wakePending, rendVars, timers>>
  BY DEF ResetClient
<1>3. TypeOK'
  <2>1. UNCHANGED <<direct, story, sceneVars, latencyVars, drawVars, wakePending, rendVars, timers>>
    BY <1>2
  <2>2. /\ text' \in 0 .. MaxText + 2 /\ updates' \in 0 .. MaxUpdates /\ queue' \subseteq Events
    BY <1>1, <1>2, Bounds DEF TypeOK, Events
  <2>3. QED BY <1>1, <1>2, <2>1, <2>2, ReaderTypes
<1>4. Ownership'
  BY <1>1, <1>2 DEF UpdateOwned, FaultReported, OneDelay, latencyVars
<1>5. Versions'
  BY <1>2, Bounds DEF Versions, TypeOK, Snapshot, sceneVars, drawVars, rendVars
<1>6. GatesReopen'
  BY <1>1, <1>2 DEF GatesReopen, latencyVars, rendVars, sceneVars
<1>7. ChangesCovered'
  BY <1>1, WakeCovers
<1>8. QED BY <1>3, <1>4, <1>5, <1>6, <1>7

(* A fault quarantines the reader: its report will end the update.         *)
LEMMA ReaderFaultsInv ==
  ASSUME IInv, ReaderFaults
  PROVE  IInv'
<1> USE DEF IInv, Ownership
<1>1. /\ reader = "poll" /\ reader' = "quarantined" /\ queue' = queue \cup {"Fault"}
      /\ UNCHANGED <<direct, story, lapsed, sceneVars, latencyVars, drawVars, gateVars, rendVars,
                     timers>>
  BY DEF ReaderFaults
<1>2. /\ text' = text \/ (text' = text + 1 /\ text < MaxText)
      /\ text' \in 0 .. MaxText + 2 /\ updates' \in 0 .. MaxUpdates /\ sync' \in BOOLEAN
      /\ deadline' \in {"none", "armed", "overdue"}
  <2>1. CASE UNCHANGED <<text, updates, sync>> /\ deadline' \in {"none", deadline}
    BY <2>1 DEF TypeOK
  <2>2. CASE \E kind \in ReadKinds : Parse(kind) /\ deadline' \in {"none", DeadlineAfter(kind)}
    BY <2>2, ParseTyped
  <2>3. QED BY <2>1, <2>2 DEF ReaderFaults
<1>3. TypeOK'
  <2>1. UNCHANGED <<direct, story, sceneVars, latencyVars, drawVars, wakePending, rendVars, timers>>
    BY <1>1 DEF gateVars
  <2>2. lapsed' \in BOOLEAN /\ wakeFlag' \in BOOLEAN /\ queue' \subseteq Events
    BY <1>1 DEF TypeOK, gateVars, Events
  <2>3. QED BY <1>1, <1>2, <2>1, <2>2, ReaderTypes
<1>4. Ownership'
  BY <1>1 DEF UpdateOwned, FaultReported, OneDelay, latencyVars
<1>5. Versions'
  BY <1>1, <1>2, Bounds DEF Versions, TypeOK, Snapshot, sceneVars, drawVars, rendVars
<1>6. GatesReopen'
  BY <1>1 DEF GatesReopen, latencyVars, rendVars, sceneVars, gateVars
<1>7. ChangesCovered'
  BY <1>1, WakeCovers
<1>8. QED BY <1>3, <1>4, <1>5, <1>6, <1>7

(* The child exits; an update it left open has no owner any more.          *)
LEMMA ChildExitsInv ==
  ASSUME IInv, ChildExits
  PROVE  IInv'
<1> USE DEF IInv, Ownership
<1>1. queue' = queue \cup {"Wakeup"} /\ wakeFlag' \in BOOLEAN
  BY WakeIsQueued DEF ChildExits
<1>2. /\ reader \in {"poll", "hung"} /\ reader' = "left" /\ lapsed' = sync'
      /\ UNCHANGED <<direct, story, sceneVars, latencyVars, drawVars, wakePending, rendVars,
                     timers>>
  BY DEF ChildExits
<1>3. /\ text' = text \/ (text' = text + 1 /\ text < MaxText)
      /\ text' \in 0 .. MaxText + 2 /\ updates' \in 0 .. MaxUpdates /\ sync' \in BOOLEAN
      /\ deadline' \in {"none", "armed", "overdue"}
  <2>1. CASE UNCHANGED <<text, updates, sync, deadline>>
    BY <2>1 DEF TypeOK
  <2>2. CASE \E kind \in ReadKinds : Parse(kind) /\ deadline' = DeadlineAfter(kind)
    BY <2>2, ParseTyped
  <2>3. QED BY <2>1, <2>2 DEF ChildExits
<1>4. TypeOK'
  <2>1. UNCHANGED <<direct, story, sceneVars, latencyVars, drawVars, wakePending, rendVars, timers>>
    BY <1>2
  <2>2. lapsed' \in BOOLEAN /\ queue' \subseteq Events
    BY <1>1, <1>2, <1>3 DEF TypeOK, Events
  <2>3. QED BY <1>1, <1>2, <1>3, <2>1, <2>2, ReaderTypes
<1>5. Ownership'
  BY <1>1, <1>2 DEF UpdateOwned, FaultReported, OneDelay, latencyVars
<1>6. Versions'
  BY <1>2, <1>3, Bounds DEF Versions, TypeOK, Snapshot, sceneVars, drawVars, rendVars
<1>7. GatesReopen'
  BY <1>1, <1>2 DEF GatesReopen, latencyVars, rendVars, sceneVars
<1>8. ChangesCovered'
  BY <1>1, WakeCovers
<1>9. QED BY <1>4, <1>5, <1>6, <1>7, <1>8


-----------------------------------------------------------------------------
(* The types of a step of a producer.                                      *)
LEMMA ProducerTypes ==
  ASSUME TypeOK,
         media' \in 0 .. MaxMedia, producer' \in [Producers -> {"idle", "changed", "won"}],
         wakePending' \in BOOLEAN, queue' \subseteq Events,
         UNCHANGED <<readerVars, latencyVars, drawVars, wakeFlag, rendVars, timers>>
  PROVE  TypeOK'
<1>1. UNCHANGED <<text, updates, sync, deadline, reader, direct, story, lapsed>>
  BY DEF readerVars
<1>2. UNCHANGED <<latencyArmed, latencyPending, dirty, requested, ui, frame, wakeFlag, timers>>
  BY DEF latencyVars, drawVars
<1>3. UNCHANGED <<hasFrame, occluded, unavailable, early, shown, failures>>
  BY DEF rendVars
<1>4. /\ text' \in 0 .. MaxText + 2 /\ updates' \in 0 .. MaxUpdates /\ sync' \in BOOLEAN
      /\ deadline' \in {"none", "armed", "overdue"} /\ lapsed' \in BOOLEAN
      /\ reader' \in {"poll", "wake", "hung", "quarantined", "left"}
      /\ direct' \in Builds /\ story' \in Stories
  BY <1>1, Zenon DEF TypeOK
<1>5. QED BY <1>2, <1>3, <1>4, Zenon DEF TypeOK

(* A producer changes the scene; it still owes the wake.                   *)
LEMMA PublishInv ==
  ASSUME IInv, NEW p \in Producers, Publish(p)
  PROVE  IInv'
<1> USE DEF IInv, Ownership
<1>1. /\ media < story.media /\ media' = media + 1
      /\ producer' = [producer EXCEPT ![p] = "changed"] /\ producer[p] = "idle"
      /\ UNCHANGED <<readerVars, latencyVars, drawVars, gateVars, rendVars, queue, timers>>
  BY DEF Publish
<1>2. TypeOK'
  <2>1. media' \in 0 .. MaxMedia
    BY <1>1, Bounds DEF TypeOK
  <2>2. producer' \in [Producers -> {"idle", "changed", "won"}]
    BY <1>1 DEF TypeOK
  <2>3. wakePending' \in BOOLEAN /\ queue' \subseteq Events
    BY <1>1 DEF TypeOK, gateVars
  <2>4. UNCHANGED <<readerVars, latencyVars, drawVars, wakeFlag, rendVars, timers>>
    BY <1>1 DEF gateVars
  <2>5. QED BY <2>1, <2>2, <2>3, <2>4, ProducerTypes
<1>3. Ownership'
  BY <1>1 DEF UpdateOwned, FaultReported, OneDelay, latencyVars, readerVars
<1>4. Versions'
  BY <1>1, Bounds DEF Versions, TypeOK, Snapshot, readerVars, drawVars, rendVars
<1>5. producer'[p] = "changed" /\ \A q \in Producers : producer[q] = "won" => producer'[q] = "won"
  BY <1>1 DEF TypeOK
<1>6. GatesReopen'
  BY <1>1, <1>5 DEF GatesReopen, latencyVars, rendVars, gateVars
<1>7. MediaCovered'
  BY <1>5 DEF MediaCovered
<1>8. TextCovered'
  BY <1>1 DEF ChangesCovered, TextCovered, TextOnItsWay, ReaderOwesWake, WillRedraw,
              readerVars, latencyVars, drawVars, rendVars
<1>9. QED BY <1>2, <1>3, <1>4, <1>6, <1>7, <1>8 DEF ChangesCovered

(* The compare-exchange that fails was lost to a wake still on its way.    *)
LEMMA RequestFrameWakeInv ==
  ASSUME IInv, NEW p \in Producers, RequestFrameWake(p)
  PROVE  IInv'
<1> USE DEF IInv, Ownership
<1>1. /\ producer[p] = "changed"
      /\ producer' = [producer EXCEPT ![p] = IF wakePending THEN "idle" ELSE "won"]
      /\ wakePending' = TRUE
      /\ UNCHANGED <<readerVars, media, latencyVars, drawVars, wakeFlag, rendVars, queue, timers>>
  BY DEF RequestFrameWake
<1>2. TypeOK'
  <2>1. producer' \in [Producers -> {"idle", "changed", "won"}]
    BY <1>1 DEF TypeOK
  <2>2. wakePending' \in BOOLEAN /\ queue' \subseteq Events /\ media' \in 0 .. MaxMedia
    BY <1>1 DEF TypeOK
  <2>3. UNCHANGED <<readerVars, latencyVars, drawVars, wakeFlag, rendVars, timers>>
    BY <1>1
  <2>4. QED BY <2>1, <2>2, <2>3, ProducerTypes
<1>3. Ownership'
  BY <1>1 DEF UpdateOwned, FaultReported, OneDelay, latencyVars, readerVars
<1>4. Versions'
  BY <1>1 DEF Versions, readerVars, drawVars, rendVars
<1>5. "VividFrame" \in queue \/ \E q \in Producers : producer'[q] = "won"
  <2>1. CASE wakePending
    BY <1>1, <2>1 DEF GatesReopen, TypeOK
  <2>2. CASE ~wakePending
    BY <1>1, <2>2 DEF TypeOK
  <2>3. QED BY <2>1, <2>2
<1>6. GatesReopen'
  BY <1>1, <1>5 DEF GatesReopen, latencyVars, rendVars
<1>7. MediaCovered'
  BY <1>1, <1>5 DEF MediaCovered
<1>8. TextCovered'
  BY <1>1 DEF ChangesCovered, TextCovered, TextOnItsWay, ReaderOwesWake, WillRedraw,
              readerVars, latencyVars, drawVars, rendVars
<1>9. QED BY <1>2, <1>3, <1>4, <1>6, <1>7, <1>8 DEF ChangesCovered

(* The producer that won the compare-exchange sends the event.             *)
LEMMA SendFrameWakeInv ==
  ASSUME IInv, NEW p \in Producers, SendFrameWake(p)
  PROVE  IInv'
<1> USE DEF IInv, Ownership
<1>1. /\ producer' = [producer EXCEPT ![p] = "idle"]
      /\ queue' = queue \cup {"VividFrame"}
      /\ UNCHANGED <<readerVars, media, latencyVars, drawVars, gateVars, rendVars, timers>>
  BY DEF SendFrameWake
<1>2. TypeOK'
  <2>1. producer' \in [Producers -> {"idle", "changed", "won"}] /\ queue' \subseteq Events
    BY <1>1 DEF TypeOK, Events
  <2>2. wakePending' \in BOOLEAN /\ media' \in 0 .. MaxMedia
    BY <1>1 DEF TypeOK, gateVars
  <2>3. UNCHANGED <<readerVars, latencyVars, drawVars, wakeFlag, rendVars, timers>>
    BY <1>1 DEF gateVars
  <2>4. QED BY <2>1, <2>2, <2>3, ProducerTypes
<1>3. Ownership'
  BY <1>1 DEF UpdateOwned, FaultReported, OneDelay, latencyVars, readerVars
<1>4. Versions'
  BY <1>1 DEF Versions, readerVars, drawVars, rendVars
<1>5. GatesReopen'
  BY <1>1 DEF GatesReopen, latencyVars, rendVars, gateVars
<1>6. MediaCovered'
  BY <1>1 DEF MediaCovered
<1>7. TextCovered'
  BY <1>1 DEF ChangesCovered, TextCovered, TextOnItsWay, ReaderOwesWake, WillRedraw,
              readerVars, latencyVars, drawVars, rendVars
<1>8. QED BY <1>2, <1>3, <1>4, <1>5, <1>6, <1>7 DEF ChangesCovered

-----------------------------------------------------------------------------
(* The types of what the UI thread writes.                                 *)
DrawTyped ==
  /\ dirty \in BOOLEAN /\ requested \in BOOLEAN
  /\ ui \in {"idle", "drawing"} /\ frame \in Snapshot
  /\ latencyPending \in BOOLEAN /\ latencyArmed \in {FALSE, latencyPending}

RendererTyped ==
  /\ hasFrame \in BOOLEAN /\ occluded \in BOOLEAN /\ unavailable \in BOOLEAN
  /\ early \in BOOLEAN /\ shown \in Snapshot /\ failures \in 0 .. MaxFailures

EventsTyped ==
  /\ wakeFlag \in BOOLEAN /\ wakePending \in BOOLEAN
  /\ queue \subseteq Events /\ timers \subseteq {"Frame", "Recovery"}

(* The types of a step of the UI thread, which leaves the terminal and the *)
(* scene alone.                                                            *)
LEMMA UiTypes ==
  ASSUME TypeOK, DrawTyped', RendererTyped', EventsTyped', UNCHANGED <<readerVars, sceneVars>>
  PROVE  TypeOK'
<1>1. UNCHANGED <<text, updates, sync, deadline, reader, direct, story, lapsed, media, producer>>
  BY DEF readerVars, sceneVars
<1>2. /\ text' \in 0 .. MaxText + 2 /\ updates' \in 0 .. MaxUpdates /\ sync' \in BOOLEAN
      /\ deadline' \in {"none", "armed", "overdue"} /\ lapsed' \in BOOLEAN
      /\ reader' \in {"poll", "wake", "hung", "quarantined", "left"}
      /\ direct' \in Builds /\ story' \in Stories
      /\ media' \in 0 .. MaxMedia /\ producer' \in [Producers -> {"idle", "changed", "won"}]
  BY <1>1, Zenon DEF TypeOK
<1>3. QED BY <1>2, Zenon DEF TypeOK, DrawTyped, RendererTyped, EventsTyped

(* The same, read the other way.                                           *)
LEMMA Typed == TypeOK => DrawTyped /\ RendererTyped /\ EventsTyped
BY Zenon DEF TypeOK, DrawTyped, RendererTyped, EventsTyped

(* A window that will redraw covers every change.                          *)
LEMMA RedrawCovers ==
  ASSUME WillRedraw'
  PROVE  ChangesCovered'
BY DEF ChangesCovered, TextCovered, TextOnItsWay, MediaCovered

(* A draw that begins covers every change: it takes the newest snapshot, or *)
(* it is refused by a hidden window, which keeps its dirt, by a lost       *)
(* renderer, whose recovery is on its way, or by an update, which has an   *)
(* owner that will wake the window.                                        *)
LEMMA DrawCovers ==
  ASSUME IInv, NEW was \in BOOLEAN, BeginDraw(was), ui = "idle",
         was \/ (~dirty /\ queue' = queue),
         \A e \in {"Fault", "Recovery"} : e \in queue => e \in queue',
         UNCHANGED <<readerVars, sceneVars, occluded, unavailable, shown, timers>>
  PROVE  ChangesCovered'
<1> USE DEF IInv, Ownership
<1>1. CASE ~occluded /\ sync
  BY <1>1 DEF ChangesCovered, TextCovered, TextOnItsWay, MediaCovered, ReaderOwesWake,
              UpdateOwned, FaultReported, readerVars
<1>2. CASE ~occluded /\ ~sync /\ unavailable
  <2>1. dirty' /\ "Recovery" \in timers' \cup queue'
    BY <1>2 DEF BeginDraw, GatesReopen, TypeOK
  <2>2. QED BY <2>1, RedrawCovers DEF WillRedraw
<1>3. CASE ~occluded /\ ~sync /\ ~unavailable
  <2>1. ui' = "drawing" /\ frame' = Now /\ text' = text /\ media' = media
    BY <1>3 DEF BeginDraw, readerVars, sceneVars
  <2>2. frame'.text = text' /\ frame'.media = media'
    BY <2>1 DEF Now
  <2>3. QED BY <2>1, <2>2 DEF ChangesCovered, TextCovered, TextOnItsWay, MediaCovered
<1>4. CASE occluded /\ was
  <2>1. dirty' /\ occluded'
    BY <1>4 DEF BeginDraw, TypeOK
  <2>2. QED BY <2>1, RedrawCovers DEF WillRedraw
<1>5. CASE occluded /\ ~was
  <2>1. ~dirty /\ queue' = queue /\ UNCHANGED <<ui, frame>>
    BY <1>5 DEF BeginDraw
  <2>2. QED BY <2>1 DEF ChangesCovered, TextCovered, TextOnItsWay, MediaCovered, ReaderOwesWake,
        WillRedraw, readerVars, sceneVars
<1>6. QED BY <1>1, <1>2, <1>3, <1>4, <1>5 DEF TypeOK

(* What a draw that begins leaves in the window.                           *)
LEMMA BeginDrawFacts ==
  ASSUME IInv, NEW was \in BOOLEAN, BeginDraw(was)
  PROVE  /\ dirty' \in BOOLEAN /\ requested' = FALSE
         /\ ui' \in {"idle", "drawing"} /\ frame' \in Snapshot
         /\ (ui' = "drawing" /\ frame' = Now) \/ UNCHANGED <<ui, frame>>
<1>1. dirty' \in BOOLEAN /\ requested' = FALSE
  BY DEF BeginDraw
<1>2. Now \in Snapshot
  BY DEF IInv, TypeOK, Snapshot, Now
<1>3. QED BY <1>1, <1>2 DEF BeginDraw, IInv, TypeOK

(* Versions and updates over a step of the UI thread that presents nothing. *)
LEMMA UiKeeps ==
  ASSUME IInv, UNCHANGED <<readerVars, sceneVars, shown>>,
         (ui' = "drawing" /\ frame' = Now) \/ UNCHANGED <<ui, frame>>,
         "Fault" \in queue <=> "Fault" \in queue'
  PROVE  Versions' /\ UpdateOwned' /\ FaultReported'
<1> USE DEF IInv, Ownership
<1>1. Versions'
  BY Bounds DEF Versions, TypeOK, Snapshot, Now, readerVars, sceneVars
<1>2. UpdateOwned' /\ FaultReported'
  BY DEF UpdateOwned, FaultReported, readerVars
<1>3. QED BY <1>1, <1>2

(* A step that leaves the latency timer alone keeps its one delay.         *)
LEMMA DelayKept ==
  ASSUME IInv, UNCHANGED <<latencyVars, readerVars>>, "Latency" \in queue <=> "Latency" \in queue'
  PROVE  /\ OneDelay' /\ latencyPending' \in BOOLEAN /\ latencyArmed' \in {FALSE, latencyPending'}
         /\ latencyPending' => latencyArmed' \/ "Latency" \in queue'
<1> USE DEF IInv, Ownership
<1>1. OneDelay'
  BY DEF OneDelay, latencyVars, readerVars
<1>2. latencyPending' \in BOOLEAN /\ latencyArmed' \in {FALSE, latencyPending'}
  BY DEF TypeOK, latencyVars
<1>3. latencyPending' => latencyArmed' \/ "Latency" \in queue'
  BY DEF GatesReopen, latencyVars
<1>4. QED BY <1>1, <1>2, <1>3

(* A direct draw begins, or, within a frame interval of the last, leaves   *)
(* the window dirty over a delay that the worker holds or has reported.    *)
(* pending says whether there is a delay outside the event being handled.  *)
LEMMA DirectDrawKeeps ==
  ASSUME IInv, NEW pending \in BOOLEAN, NEW keep \in BOOLEAN, DirectDraw(pending, keep),
         direct, ui = "idle", queue' \subseteq Events,
         pending <=> latencyArmed \/ "Latency" \in queue',
         ~(latencyArmed /\ "Latency" \in queue'),
         \A e \in {"Fault", "Recovery"} : e \in queue <=> e \in queue',
         UNCHANGED <<readerVars, sceneVars, occluded, unavailable, shown, timers>>
  PROVE  /\ Ownership' /\ Versions' /\ ChangesCovered' /\ DrawTyped'
         /\ latencyPending' => latencyArmed' \/ "Latency" \in queue'
<1> USE DEF IInv
<1>1. direct' = direct /\ latencyArmed \in BOOLEAN
  BY DEF readerVars, TypeOK
<1>2. CASE early
  <2>1. /\ dirty' = TRUE /\ requested' = keep /\ UNCHANGED <<ui, frame>>
        /\ latencyPending' = TRUE /\ latencyArmed' = (latencyArmed \/ ~pending)
    BY <1>2 DEF DirectDraw, ScheduleLatency
  <2>2. Versions' /\ UpdateOwned' /\ FaultReported'
    BY <2>1, UiKeeps
  <2>3. OneDelay' /\ (latencyArmed' \/ "Latency" \in queue')
    BY <1>1, <2>1 DEF OneDelay
  <2>4. ChangesCovered'
    BY <2>1, <2>3, RedrawCovers DEF WillRedraw
  <2>5. DrawTyped'
    BY <1>1, <2>1 DEF DrawTyped, TypeOK
  <2>6. QED BY <2>2, <2>3, <2>4, <2>5 DEF Ownership
<1>3. CASE ~early
  <2>1. BeginDraw(TRUE) /\ latencyPending' = pending /\ latencyArmed' = latencyArmed
    BY <1>3 DEF DirectDraw
  <2>2. /\ dirty' \in BOOLEAN /\ requested' = FALSE
        /\ ui' \in {"idle", "drawing"} /\ frame' \in Snapshot
        /\ (ui' = "drawing" /\ frame' = Now) \/ UNCHANGED <<ui, frame>>
    BY <2>1, BeginDrawFacts
  <2>3. Versions' /\ UpdateOwned' /\ FaultReported'
    BY <2>2, UiKeeps
  <2>4. OneDelay' /\ (latencyPending' => latencyArmed' \/ "Latency" \in queue')
    BY <1>1, <2>1 DEF OneDelay
  <2>5. ChangesCovered'
    BY <2>1, DrawCovers
  <2>6. DrawTyped'
    BY <1>1, <2>1, <2>2 DEF DrawTyped
  <2>7. QED BY <2>3, <2>4, <2>5, <2>6 DEF Ownership
<1>4. QED BY <1>2, <1>3 DEF TypeOK

(* The rest of a draw.  What it presents is at least what was shown, and   *)
(* what it fails to present stays dirty over the frame timer it arms.      *)
LEMMA FinishDrawInv ==
  ASSUME IInv, NEW result \in {"presented", "skipped", "rebuilt", "lost"}, FinishDraw(result)
  PROVE  IInv'
<1> USE DEF IInv, Ownership
<1>1. /\ ui = "drawing" /\ ui' = "idle"
      /\ result # "presented" => failures < MaxFailures
      /\ failures' = IF result = "presented" THEN failures ELSE failures + 1
      /\ shown' = IF result = "presented" THEN frame ELSE shown
      /\ dirty' = (dirty \/ result # "presented")
      /\ requested' = (requested \/ result = "rebuilt")
      /\ unavailable' = (result = "lost")
      /\ hasFrame' = FALSE /\ early' = direct
      /\ timers' = timers \cup {"Frame"} \cup (IF result = "lost" THEN {"Recovery"} ELSE {})
      /\ UNCHANGED <<readerVars, sceneVars, latencyVars, frame, gateVars, occluded, queue>>
  BY DEF FinishDraw
<1>2. TypeOK'
  <2>1. RendererTyped'
    <3>1. failures' \in 0 .. MaxFailures
      BY <1>1, Bounds DEF TypeOK
    <3>2. direct \in BOOLEAN
      BY Bounds DEF TypeOK
    <3>3. shown' \in Snapshot /\ occluded' \in BOOLEAN
      BY <1>1 DEF TypeOK
    <3>4. QED BY <1>1, <3>1, <3>2, <3>3 DEF RendererTyped
  <2>2. DrawTyped'
    <3>1. latencyPending' \in BOOLEAN /\ latencyArmed' \in {FALSE, latencyPending'}
      BY <1>1, DelayKept
    <3>2. dirty' \in BOOLEAN /\ requested' \in BOOLEAN /\ ui' = "idle" /\ frame' \in Snapshot
      BY <1>1 DEF TypeOK
    <3>3. QED BY <3>1, <3>2 DEF DrawTyped
  <2>3. EventsTyped'
    BY <1>1 DEF EventsTyped, TypeOK, gateVars
  <2>4. QED BY <1>1, <2>1, <2>2, <2>3, UiTypes
<1>3. Versions'
  BY <1>1, Bounds DEF Versions, TypeOK, Snapshot, readerVars, sceneVars
<1>4. Ownership'
  BY <1>1, DelayKept DEF UpdateOwned, FaultReported, readerVars
<1>5. GatesReopen'
  BY <1>1, DelayKept DEF GatesReopen, gateVars, sceneVars
<1>6. ChangesCovered'
  <2>1. CASE result = "presented"
    <3>1. shown' = frame /\ UNCHANGED <<text, media>> /\ dirty' = dirty /\ requested' = requested
      BY <1>1, <2>1 DEF readerVars, sceneVars, TypeOK
    <3>2. WillRedraw => WillRedraw'
      BY <1>1, <2>1, <3>1 DEF WillRedraw, latencyVars
    <3>3. ReaderOwesWake' <=> ReaderOwesWake
      BY <1>1 DEF ReaderOwesWake, readerVars
    <3>4. shown'.text # text => shown.text # text /\ frame.text # text
      BY <1>1, <3>1, Bounds DEF Versions, TypeOK, Snapshot
    <3>5. shown'.media # media => shown.media # media /\ frame.media # media
      BY <1>1, <3>1, Bounds DEF Versions, TypeOK, Snapshot
    <3>6. UNCHANGED <<lapsed, producer, queue>>
      BY <1>1 DEF readerVars, sceneVars
    <3>7. QED BY <3>1, <3>2, <3>3, <3>4, <3>5, <3>6
          DEF ChangesCovered, TextCovered, TextOnItsWay, MediaCovered
  <2>2. CASE result # "presented"
    BY <1>1, <2>2, RedrawCovers DEF WillRedraw
  <2>3. QED BY <2>1, <2>2
<1>7. QED BY <1>2, <1>3, <1>4, <1>5, <1>6

-----------------------------------------------------------------------------
(* The steps of the UI thread and of its timers.                           *)

(* A frame interval ends: only a direct draw looks at it.                  *)
LEMMA FrameIntervalInv ==
  ASSUME IInv, FrameIntervalPasses
  PROVE  IInv'
<1> USE DEF IInv, Ownership
<1>1. /\ early' = FALSE
      /\ UNCHANGED <<readerVars, sceneVars, latencyVars, drawVars, gateVars, hasFrame, occluded,
                     unavailable, shown, failures, queue, timers>>
  BY DEF FrameIntervalPasses
<1>2. TypeOK'
  <2>1. DrawTyped' /\ RendererTyped' /\ EventsTyped'
    BY <1>1 DEF DrawTyped, RendererTyped, EventsTyped, TypeOK, latencyVars, drawVars, gateVars
  <2>2. QED BY <1>1, <2>1, UiTypes
<1>3. Versions' /\ Ownership'
  BY <1>1, UiKeeps, DelayKept DEF drawVars
<1>4. GatesReopen'
  BY <1>1 DEF GatesReopen, gateVars, sceneVars, latencyVars
<1>5. ChangesCovered'
  BY <1>1 DEF ChangesCovered, TextCovered, TextOnItsWay, MediaCovered, ReaderOwesWake, WillRedraw,
              readerVars, sceneVars, latencyVars, drawVars
<1>6. QED BY <1>2, <1>3, <1>4, <1>5

(* A native redraw draws, or, on direct builds, follows the direct path.   *)
LEMMA NativeRedrawInv ==
  ASSUME IInv, NativeRedraw
  PROVE  IInv'
<1> USE DEF IInv, Ownership
<1>1. ui = "idle" /\ UNCHANGED <<readerVars, sceneVars, gateVars, rendVars, queue, timers>>
  BY DEF NativeRedraw
<1>2. RendererTyped' /\ EventsTyped'
  BY <1>1 DEF RendererTyped, EventsTyped, TypeOK, gateVars, rendVars
<1>3. /\ Ownership' /\ Versions' /\ ChangesCovered' /\ DrawTyped'
      /\ latencyPending' => latencyArmed' \/ "Latency" \in queue'
  <2>1. CASE Declines(TRUE)
    <3>1. BeginDraw(direct \/ dirty) /\ UNCHANGED latencyVars
      BY <2>1 DEF NativeRedraw
    <3>2. (direct \/ dirty) \in BOOLEAN
      OBVIOUS
    <3>3. (direct \/ dirty) \/ ~dirty
      OBVIOUS
    <3>4. ChangesCovered'
      BY <1>1, <3>1, <3>2, <3>3, DrawCovers DEF rendVars
    <3>5. /\ dirty' \in BOOLEAN /\ requested' = FALSE
          /\ ui' \in {"idle", "drawing"} /\ frame' \in Snapshot
          /\ (ui' = "drawing" /\ frame' = Now) \/ UNCHANGED <<ui, frame>>
      BY <3>1, <3>2, BeginDrawFacts
    <3>6. Versions' /\ UpdateOwned' /\ FaultReported'
      BY <1>1, <3>5, UiKeeps DEF rendVars
    <3>7. /\ OneDelay' /\ latencyPending' \in BOOLEAN /\ latencyArmed' \in {FALSE, latencyPending'}
          /\ latencyPending' => latencyArmed' \/ "Latency" \in queue'
      BY <1>1, <3>1, DelayKept
    <3>8. DrawTyped'
      BY <3>5, <3>7 DEF DrawTyped
    <3>9. QED BY <3>4, <3>6, <3>7, <3>8
  <2>2. CASE ~Declines(TRUE)
    <3>1. DirectDraw(latencyPending, FALSE) /\ direct
      BY <2>2 DEF NativeRedraw, Declines
    <3>2. /\ latencyPending \in BOOLEAN
          /\ latencyPending <=> latencyArmed \/ "Latency" \in queue
      BY DEF TypeOK, OneDelay, GatesReopen
    <3>3. ~(latencyArmed /\ "Latency" \in queue) /\ queue' \subseteq Events
      BY <1>1 DEF OneDelay, TypeOK
    <3>4. UNCHANGED <<readerVars, sceneVars, occluded, unavailable, shown, timers>>
      BY <1>1 DEF rendVars
    <3>5. QED BY <1>1, <3>1, <3>2, <3>3, <3>4, DirectDrawKeeps
  <2>3. QED BY <2>1, <2>2
<1>4. GatesReopen'
  BY <1>1, <1>3 DEF GatesReopen, gateVars, rendVars, sceneVars
<1>5. TypeOK'
  BY <1>1, <1>2, <1>3, UiTypes
<1>6. QED BY <1>3, <1>4, <1>5

(* A window made dirty with a redraw requested or its frame gate's timer   *)
(* outstanding will redraw.                                                *)
LEMMA AskCovers ==
  ASSUME IInv, dirty', requested' = (requested \/ hasFrame), UNCHANGED timers,
         "Frame" \in queue => "Frame" \in queue'
  PROVE  ChangesCovered'
<1>1. WillRedraw'
  BY DEF IInv, WillRedraw, GatesReopen, TypeOK
<1>2. QED BY <1>1, RedrawCovers

(* The terminal's wake acknowledges its flag and marks the window dirty, or *)
(* draws at once.                                                          *)
LEMMA HandleWakeupInv ==
  ASSUME IInv, HandleWakeup
  PROVE  IInv'
<1> USE DEF IInv
<1>1. /\ ui = "idle" /\ queue' = queue \ {"Wakeup"} /\ wakeFlag' = FALSE
      /\ UNCHANGED <<readerVars, sceneVars, wakePending, rendVars, timers>>
  BY DEF HandleWakeup, Take
<1>2. RendererTyped' /\ EventsTyped'
  BY <1>1 DEF RendererTyped, EventsTyped, TypeOK, rendVars
<1>3. \A e \in {"Fault", "Recovery", "Latency", "Frame", "VividFrame"} : e \in queue <=> e \in queue'
  BY <1>1
<1>4. UNCHANGED <<readerVars, sceneVars, occluded, unavailable, shown, timers>>
  BY <1>1 DEF rendVars
<1>5. /\ Ownership' /\ Versions' /\ ChangesCovered' /\ DrawTyped'
      /\ latencyPending' => latencyArmed' \/ "Latency" \in queue'
  <2>1. CASE Declines(TRUE)
    <3>1. /\ dirty' = TRUE /\ requested' = (requested \/ hasFrame)
          /\ UNCHANGED <<ui, frame, latencyVars>>
      BY <2>1 DEF HandleWakeup, AskIfGateOpen
    <3>2. ChangesCovered'
      BY <1>3, <1>4, <3>1, AskCovers
    <3>3. Versions' /\ UpdateOwned' /\ FaultReported'
      BY <1>3, <1>4, <3>1, UiKeeps
    <3>4. /\ OneDelay' /\ latencyPending' \in BOOLEAN /\ latencyArmed' \in {FALSE, latencyPending'}
          /\ latencyPending' => latencyArmed' \/ "Latency" \in queue'
      BY <1>1, <1>3, <3>1, DelayKept
    <3>5. DrawTyped'
      BY <3>1, <3>4 DEF DrawTyped, TypeOK
    <3>6. QED BY <3>2, <3>3, <3>4, <3>5 DEF Ownership
  <2>2. CASE ~Declines(TRUE)
    <3>1. DirectDraw(latencyPending, requested) /\ direct /\ requested \in BOOLEAN
      BY <2>2 DEF HandleWakeup, Declines, TypeOK
    <3>2. /\ latencyPending \in BOOLEAN /\ queue' \subseteq Events
          /\ latencyPending <=> latencyArmed \/ "Latency" \in queue'
          /\ ~(latencyArmed /\ "Latency" \in queue')
      BY <1>1, <1>3 DEF TypeOK, Ownership, OneDelay, GatesReopen
    <3>3. QED BY <1>1, <1>3, <1>4, <3>1, <3>2, DirectDrawKeeps
  <2>3. QED BY <2>1, <2>2
<1>6. GatesReopen'
  BY <1>1, <1>3, <1>5 DEF GatesReopen, rendVars, sceneVars
<1>7. TypeOK'
  BY <1>1, <1>2, <1>5, UiTypes
<1>8. QED BY <1>5, <1>6, <1>7

(* The frame event acknowledges the coalesced wake, then marks the window  *)
(* dirty.                                                                  *)
LEMMA HandleVividFrameInv ==
  ASSUME IInv, HandleVividFrame
  PROVE  IInv'
<1> USE DEF IInv
<1>1. /\ queue' = queue \ {"VividFrame"} /\ wakePending' = FALSE
      /\ dirty' = TRUE /\ requested' = (requested \/ hasFrame) /\ UNCHANGED <<ui, frame>>
      /\ UNCHANGED <<readerVars, sceneVars, latencyVars, wakeFlag, rendVars, timers>>
  BY DEF HandleVividFrame, Take, AskIfGateOpen
<1>2. \A e \in {"Fault", "Recovery", "Latency", "Frame", "Wakeup"} : e \in queue <=> e \in queue'
  BY <1>1
<1>3. UNCHANGED <<readerVars, sceneVars, shown>>
  BY <1>1 DEF rendVars
<1>4. Versions' /\ UpdateOwned' /\ FaultReported'
  BY <1>1, <1>2, <1>3, UiKeeps
<1>5. /\ OneDelay' /\ latencyPending' \in BOOLEAN /\ latencyArmed' \in {FALSE, latencyPending'}
      /\ latencyPending' => latencyArmed' \/ "Latency" \in queue'
  BY <1>1, <1>2, DelayKept
<1>6. RendererTyped' /\ EventsTyped'
  BY <1>1 DEF RendererTyped, EventsTyped, TypeOK, rendVars
<1>7. DrawTyped'
  BY <1>1, <1>5 DEF DrawTyped, TypeOK
<1>8. TypeOK'
  BY <1>3, <1>6, <1>7, UiTypes
<1>9. GatesReopen'
  BY <1>1, <1>2, <1>5 DEF GatesReopen, rendVars, sceneVars
<1>10. ChangesCovered'
  BY <1>1, <1>2, AskCovers
<1>11. QED BY <1>4, <1>5, <1>8, <1>9, <1>10 DEF Ownership

(* What is covered stays covered while nothing moves but the queue and the *)
(* requests, if the dirt keeps its redraw.                                 *)
LEMMA CoverKept ==
  ASSUME IInv, UNCHANGED <<readerVars, sceneVars, ui, frame, shown>>,
         \A e \in {"Wakeup", "Fault", "Reset", "VividFrame"} : e \in queue => e \in queue',
         WillRedraw => WillRedraw'
  PROVE  ChangesCovered'
BY DEF IInv, ChangesCovered, TextCovered, TextOnItsWay, MediaCovered, ReaderOwesWake,
       readerVars, sceneVars

(* The frame timer's event reopens the gate and asks for what came since.  *)
LEMMA HandleFrameInv ==
  ASSUME IInv, HandleFrame
  PROVE  IInv'
<1> USE DEF IInv
<1>1. /\ ui = "idle" /\ queue' = queue \ {"Frame"} /\ hasFrame' = TRUE
      /\ UNCHANGED <<readerVars, sceneVars, gateVars, occluded, unavailable, early, shown,
                     failures, timers>>
  BY DEF HandleFrame, Take
<1>2. RendererTyped' /\ EventsTyped'
  BY <1>1 DEF RendererTyped, EventsTyped, TypeOK, gateVars
<1>3. \A e \in {"Fault", "Recovery", "Latency", "Wakeup", "Reset", "VividFrame"} :
        e \in queue <=> e \in queue'
  BY <1>1
<1>4. /\ Ownership' /\ Versions' /\ ChangesCovered' /\ DrawTyped'
      /\ latencyPending' => latencyArmed' \/ "Latency" \in queue'
  <2>1. CASE Declines(dirty)
    <3>1. requested' = (requested \/ dirty) /\ UNCHANGED <<dirty, ui, frame, latencyVars>>
      BY <2>1 DEF HandleFrame
    <3>2. ChangesCovered'
      BY <1>1, <1>3, <3>1, CoverKept DEF WillRedraw, TypeOK
    <3>3. Versions' /\ UpdateOwned' /\ FaultReported'
      BY <1>1, <1>3, <3>1, UiKeeps
    <3>4. /\ OneDelay' /\ latencyPending' \in BOOLEAN /\ latencyArmed' \in {FALSE, latencyPending'}
          /\ latencyPending' => latencyArmed' \/ "Latency" \in queue'
      BY <1>1, <1>3, <3>1, DelayKept
    <3>5. DrawTyped'
      BY <3>1, <3>4 DEF DrawTyped, TypeOK
    <3>6. QED BY <3>2, <3>3, <3>4, <3>5 DEF Ownership
  <2>2. CASE ~Declines(dirty)
    <3>1. DirectDraw(latencyPending, requested) /\ direct /\ requested \in BOOLEAN
      BY <2>2 DEF HandleFrame, Declines, TypeOK
    <3>2. /\ latencyPending \in BOOLEAN /\ queue' \subseteq Events
          /\ latencyPending <=> latencyArmed \/ "Latency" \in queue'
          /\ ~(latencyArmed /\ "Latency" \in queue')
      BY <1>1, <1>3 DEF TypeOK, Ownership, OneDelay, GatesReopen
    <3>3. QED BY <1>1, <1>3, <3>1, <3>2, DirectDrawKeeps
  <2>3. QED BY <2>1, <2>2
<1>5. GatesReopen'
  BY <1>1, <1>3, <1>4 DEF GatesReopen, gateVars, sceneVars
<1>6. TypeOK'
  BY <1>1, <1>2, <1>4, UiTypes
<1>7. QED BY <1>4, <1>5, <1>6

(* The delay's event: it declines only for a window that is clean or hidden, *)
(* because only direct builds ever arm it.                                 *)
LEMMA HandleLatencyInv ==
  ASSUME IInv, HandleLatency
  PROVE  IInv'
<1> USE DEF IInv
<1>1. /\ ui = "idle" /\ "Latency" \in queue /\ queue' = queue \ {"Latency"}
      /\ UNCHANGED <<readerVars, sceneVars, gateVars, rendVars, timers>>
  BY DEF HandleLatency, Take
<1>2. RendererTyped' /\ EventsTyped'
  BY <1>1 DEF RendererTyped, EventsTyped, TypeOK, gateVars, rendVars
<1>3. \A e \in {"Fault", "Recovery", "Frame", "Wakeup", "Reset", "VividFrame"} :
        e \in queue <=> e \in queue'
  BY <1>1
<1>4. direct /\ ~latencyArmed /\ latencyArmed = FALSE
  BY <1>1 DEF Ownership, OneDelay, TypeOK
<1>5. UNCHANGED <<readerVars, sceneVars, occluded, unavailable, shown, timers>>
  BY <1>1 DEF rendVars
<1>6. /\ Ownership' /\ Versions' /\ ChangesCovered' /\ DrawTyped'
      /\ latencyPending' => latencyArmed' \/ "Latency" \in queue'
  <2>1. CASE Declines(dirty)
    <3>1. /\ latencyPending' = FALSE /\ latencyArmed' = FALSE
          /\ UNCHANGED <<dirty, requested, ui, frame>>
      BY <1>4, <2>1 DEF HandleLatency, drawVars
    <3>2. ~dirty \/ occluded
      BY <1>4, <2>1 DEF Declines
    <3>3. ChangesCovered'
      BY <1>3, <1>5, <3>1, <3>2, CoverKept DEF WillRedraw
    <3>4. Versions' /\ UpdateOwned' /\ FaultReported'
      BY <1>3, <1>5, <3>1, UiKeeps
    <3>5. OneDelay'
      BY <1>1, <3>1 DEF OneDelay
    <3>6. DrawTyped'
      BY <3>1 DEF DrawTyped, TypeOK
    <3>7. QED BY <3>1, <3>3, <3>4, <3>5, <3>6 DEF Ownership
  <2>2. CASE ~Declines(dirty)
    <3>1. DirectDraw(FALSE, requested) /\ requested \in BOOLEAN
      BY <2>2 DEF HandleLatency, TypeOK
    <3>2. /\ queue' \subseteq Events /\ ~(latencyArmed \/ "Latency" \in queue')
      BY <1>1, <1>4 DEF TypeOK
    <3>3. QED BY <1>1, <1>3, <1>4, <1>5, <3>1, <3>2, DirectDrawKeeps
  <2>3. QED BY <2>1, <2>2
<1>7. GatesReopen'
  BY <1>1, <1>3, <1>6 DEF GatesReopen, gateVars, rendVars, sceneVars
<1>8. TypeOK'
  BY <1>1, <1>2, <1>6, UiTypes
<1>9. QED BY <1>6, <1>7, <1>8

(* A rebuilt renderer asks for a redraw, a lost one for another attempt.   *)
LEMMA HandleRecoveryInv ==
  ASSUME IInv, NEW rebuilt \in BOOLEAN, HandleRecovery(rebuilt)
  PROVE  IInv'
<1> USE DEF IInv
<1>1. /\ queue' = queue \ {"Recovery"}
      /\ ~rebuilt => failures < MaxFailures
      /\ failures' = IF rebuilt THEN failures ELSE failures + 1
      /\ unavailable' = ~rebuilt
      /\ dirty' = (dirty \/ rebuilt) /\ requested' = (requested \/ rebuilt)
      /\ timers' = IF rebuilt THEN timers ELSE timers \cup {"Recovery"}
      /\ UNCHANGED <<readerVars, sceneVars, latencyVars, ui, frame, gateVars, hasFrame, occluded,
                     early, shown>>
  BY DEF HandleRecovery, Take
<1>2. \A e \in {"Fault", "Latency", "Frame", "Wakeup", "Reset", "VividFrame"} :
        e \in queue <=> e \in queue'
  BY <1>1
<1>3. Versions' /\ UpdateOwned' /\ FaultReported'
  BY <1>1, <1>2, UiKeeps
<1>4. /\ OneDelay' /\ latencyPending' \in BOOLEAN /\ latencyArmed' \in {FALSE, latencyPending'}
      /\ latencyPending' => latencyArmed' \/ "Latency" \in queue'
  BY <1>1, <1>2, DelayKept
<1>5. TypeOK'
  <2>1. failures' \in 0 .. MaxFailures
    BY <1>1, Bounds DEF TypeOK
  <2>2. RendererTyped' /\ EventsTyped'
    BY <1>1, <2>1 DEF RendererTyped, EventsTyped, TypeOK, gateVars
  <2>3. DrawTyped'
    BY <1>1, <1>4 DEF DrawTyped, TypeOK
  <2>4. QED BY <1>1, <2>2, <2>3, UiTypes
<1>6. GatesReopen'
  BY <1>1, <1>2, <1>4 DEF GatesReopen, gateVars, sceneVars
<1>7. ChangesCovered'
  <2>1. WillRedraw => WillRedraw'
    BY <1>1, <1>2 DEF WillRedraw, latencyVars
  <2>2. QED BY <1>1, <1>2, <2>1, CoverKept
<1>8. QED BY <1>3, <1>4, <1>5, <1>6, <1>7 DEF Ownership

(* The fault's message is text of its own: the window redraws with it, and *)
(* the update it interrupted is over.                                      *)
LEMMA HandleFaultInv ==
  ASSUME IInv, HandleFault
  PROVE  IInv'
<1> USE DEF IInv
<1>1. /\ "Fault" \in queue /\ queue' = queue \ {"Fault"}
      /\ reader' = "left" /\ sync' = FALSE /\ lapsed' = FALSE /\ text' = text + 1
      /\ dirty' = TRUE /\ requested' = TRUE
      /\ UNCHANGED <<direct, story, updates, deadline, ui, frame, sceneVars, latencyVars, gateVars,
                     rendVars, timers>>
  BY DEF HandleFault, Take
<1>2. \A e \in {"Recovery", "Latency", "Frame", "Wakeup", "Reset", "VividFrame"} :
        e \in queue <=> e \in queue'
  BY <1>1
<1>3. reader = "quarantined" /\ text <= MaxText
  BY <1>1 DEF Ownership, FaultReported, Versions
<1>4. Versions'
  BY <1>1, <1>3, Bounds DEF Versions, TypeOK, Snapshot, sceneVars, rendVars
<1>5. Ownership'
  BY <1>1, <1>2 DEF Ownership, UpdateOwned, FaultReported, OneDelay, latencyVars
<1>6. TypeOK'
  <2>1. text' \in 0 .. MaxText + 2
    BY <1>1, <1>3, Bounds DEF TypeOK
  <2>2. /\ updates' \in 0 .. MaxUpdates /\ media' \in 0 .. MaxMedia
        /\ sync' \in BOOLEAN /\ deadline' \in {"none", "armed", "overdue"} /\ lapsed' \in BOOLEAN
        /\ reader' \in {"poll", "wake", "hung", "quarantined", "left"}
        /\ direct' \in Builds /\ story' \in Stories
        /\ producer' \in [Producers -> {"idle", "changed", "won"}]
    BY <1>1 DEF TypeOK, sceneVars
  <2>3. DrawTyped' /\ RendererTyped' /\ EventsTyped'
    BY <1>1 DEF DrawTyped, RendererTyped, EventsTyped, TypeOK, latencyVars, gateVars, rendVars
  <2>4. QED BY <2>1, <2>2, <2>3, Zenon DEF TypeOK, DrawTyped, RendererTyped, EventsTyped
<1>7. GatesReopen'
  BY <1>1, <1>2 DEF GatesReopen, latencyVars, gateVars, rendVars, sceneVars
<1>8. ChangesCovered'
  BY <1>1, RedrawCovers DEF WillRedraw
<1>9. QED BY <1>4, <1>5, <1>6, <1>7, <1>8

(* A step of the UI thread that neither draws nor touches the delay, and   *)
(* leaves what the gates and the covered dirt rely on.                     *)
LEMMA QuietStep ==
  ASSUME IInv, DrawTyped', RendererTyped', EventsTyped', GatesReopen',
         UNCHANGED <<readerVars, sceneVars, latencyVars, ui, frame, shown>>,
         "Fault" \in queue <=> "Fault" \in queue', "Latency" \in queue <=> "Latency" \in queue',
         ChangesCovered'
  PROVE  IInv'
<1>1. Versions' /\ UpdateOwned' /\ FaultReported'
  BY UiKeeps
<1>2. OneDelay'
  BY DelayKept
<1>3. TypeOK'
  BY UiTypes DEF IInv
<1>4. QED BY <1>1, <1>2, <1>3 DEF IInv, Ownership

(* A client reset redraws the window.                                      *)
LEMMA HandleResetInv ==
  ASSUME IInv, HandleReset
  PROVE  IInv'
<1>1. /\ queue' = queue \ {"Reset"} /\ dirty' = TRUE /\ requested' = TRUE
      /\ UNCHANGED <<readerVars, ui, frame, sceneVars, latencyVars, gateVars, rendVars, timers>>
  BY DEF HandleReset, Take
<1>2. DrawTyped' /\ RendererTyped' /\ EventsTyped'
  BY <1>1 DEF IInv, DrawTyped, RendererTyped, EventsTyped, TypeOK, latencyVars, gateVars, rendVars
<1>3. GatesReopen'
  BY <1>1 DEF IInv, GatesReopen, latencyVars, gateVars, rendVars, sceneVars
<1>4. ChangesCovered'
  BY <1>1, RedrawCovers DEF WillRedraw
<1>5. UNCHANGED shown /\ ("Fault" \in queue <=> "Fault" \in queue')
      /\ ("Latency" \in queue <=> "Latency" \in queue')
  BY <1>1 DEF rendVars
<1>6. QED BY <1>1, <1>2, <1>3, <1>4, <1>5, QuietStep

(* A hidden window keeps its dirt; one that is seen again asks for a redraw *)
(* at once, or will when its frame gate reopens.                           *)
LEMMA SetOccludedInv ==
  ASSUME IInv, NEW hidden \in BOOLEAN, SetOccluded(hidden)
  PROVE  IInv'
<1>1. /\ occluded' = hidden /\ requested' = (requested \/ (dirty /\ hasFrame /\ ~hidden))
      /\ UNCHANGED <<readerVars, sceneVars, latencyVars, dirty, ui, frame, gateVars, hasFrame,
                     unavailable, early, shown, failures, queue, timers>>
  BY DEF SetOccluded
<1>2. DrawTyped' /\ RendererTyped' /\ EventsTyped'
  BY <1>1 DEF IInv, DrawTyped, RendererTyped, EventsTyped, TypeOK, latencyVars, gateVars
<1>3. GatesReopen'
  BY <1>1 DEF IInv, GatesReopen, latencyVars, gateVars, sceneVars
<1>4. WillRedraw => WillRedraw'
  BY <1>1 DEF IInv, GatesReopen, WillRedraw, latencyVars, TypeOK
<1>5. ChangesCovered'
  BY <1>1, <1>4, CoverKept
<1>6. QED BY <1>1, <1>2, <1>3, <1>5, QuietStep

(* A timer's topic becomes the event of the same name.                     *)
LEMMA TimerFiresInv ==
  ASSUME IInv, NEW topic \in {"Frame", "Recovery"}, TimerFires(topic)
  PROVE  IInv'
<1>1. /\ topic \in timers /\ timers' = timers \ {topic} /\ queue' = queue \cup {topic}
      /\ UNCHANGED <<readerVars, sceneVars, latencyVars, drawVars, gateVars, rendVars>>
  BY DEF TimerFires
<1>2. DrawTyped' /\ RendererTyped' /\ EventsTyped'
  BY <1>1 DEF IInv, DrawTyped, RendererTyped, EventsTyped, TypeOK, latencyVars, gateVars, rendVars,
              drawVars, Events
<1>3. GatesReopen'
  BY <1>1 DEF IInv, GatesReopen, latencyVars, gateVars, rendVars, sceneVars
<1>4. WillRedraw => WillRedraw'
  BY <1>1 DEF WillRedraw, latencyVars, drawVars, rendVars
<1>5. UNCHANGED <<ui, frame, shown>> /\ ("Fault" \in queue <=> "Fault" \in queue')
      /\ ("Latency" \in queue <=> "Latency" \in queue')
  BY <1>1 DEF drawVars, rendVars
<1>6. ChangesCovered'
  BY <1>1, <1>4, <1>5, CoverKept
<1>7. QED BY <1>1, <1>2, <1>3, <1>5, <1>6, QuietStep

(* The latency worker turns the delay it holds into its event.             *)
LEMMA LatencyFiresInv ==
  ASSUME IInv, LatencyFires
  PROVE  IInv'
<1> USE DEF IInv
<1>1. /\ latencyArmed /\ latencyArmed' = FALSE /\ queue' = queue \cup {"Latency"}
      /\ UNCHANGED <<readerVars, sceneVars, latencyPending, drawVars, gateVars, rendVars, timers>>
  BY DEF LatencyFires
<1>2. /\ UNCHANGED <<ui, frame, shown, dirty, requested, direct>>
      /\ ("Fault" \in queue <=> "Fault" \in queue')
  BY <1>1 DEF drawVars, rendVars, readerVars
<1>3. Versions' /\ UpdateOwned' /\ FaultReported'
  BY <1>1, <1>2, UiKeeps
<1>4. OneDelay'
  BY <1>1, <1>2 DEF Ownership, OneDelay
<1>5. DrawTyped' /\ RendererTyped' /\ EventsTyped'
  BY <1>1, <1>2 DEF DrawTyped, RendererTyped, EventsTyped, TypeOK, gateVars, rendVars, Events
<1>6. TypeOK'
  BY <1>1, <1>5, UiTypes
<1>7. GatesReopen'
  BY <1>1 DEF GatesReopen, gateVars, rendVars, sceneVars
<1>8. WillRedraw => WillRedraw'
  BY <1>1, <1>2 DEF WillRedraw
<1>9. ChangesCovered'
  BY <1>1, <1>2, <1>8, CoverKept
<1>10. QED BY <1>3, <1>4, <1>6, <1>7, <1>9 DEF Ownership

-----------------------------------------------------------------------------
(* Every step preserves the inductive invariant.                           *)
LEMMA Preserved == IInv /\ [Next]_vars => IInv'
<1> SUFFICES ASSUME IInv, [Next]_vars PROVE IInv'
  OBVIOUS
<1>1. CASE Reader
  BY <1>1, PtyReadInv, PtyHangsUpInv, ReaderWakesInv, PollTimeoutInv DEF Reader
<1>2. CASE DeadlinePasses \/ ResetClient \/ ReaderFaults \/ ChildExits
  BY <1>2, DeadlinePassesInv, ResetClientInv, ReaderFaultsInv, ChildExitsInv
<1>3. CASE \E p \in Producers : Producer(p)
  BY <1>3, PublishInv, RequestFrameWakeInv, SendFrameWakeInv DEF Producer
<1>4. CASE Handlers
  BY <1>4, HandleWakeupInv, HandleVividFrameInv, HandleFrameInv, HandleLatencyInv,
     HandleRecoveryInv, HandleFaultInv, HandleResetInv DEF Handlers
<1>5. CASE Drawing
  BY <1>5, FinishDrawInv DEF Drawing
<1>6. CASE NativeRedraw \/ FrameIntervalPasses
  BY <1>6, NativeRedrawInv, FrameIntervalInv
<1>7. CASE \E hidden \in BOOLEAN : SetOccluded(hidden)
  BY <1>7, SetOccludedInv
<1>8. CASE (\E topic \in {"Frame", "Recovery"} : TimerFires(topic)) \/ LatencyFires
  BY <1>8, TimerFiresInv, LatencyFiresInv
<1>9. CASE UNCHANGED vars
  <2>1. /\ UNCHANGED <<readerVars, sceneVars, latencyVars, drawVars, gateVars, rendVars>>
        /\ UNCHANGED <<queue, timers>>
    BY <1>9 DEF vars
  <2>2. DrawTyped' /\ RendererTyped' /\ EventsTyped'
    BY <2>1 DEF IInv, DrawTyped, RendererTyped, EventsTyped, TypeOK, latencyVars, gateVars,
                rendVars, drawVars
  <2>3. GatesReopen'
    BY <2>1 DEF IInv, GatesReopen, latencyVars, gateVars, rendVars, sceneVars
  <2>4. UNCHANGED <<ui, frame, shown>>
    BY <2>1 DEF drawVars, rendVars
  <2>5. WillRedraw => WillRedraw'
    BY <2>1 DEF WillRedraw, latencyVars, drawVars, rendVars
  <2>6. QED BY <2>1, <2>2, <2>3, <2>4, <2>5, CoverKept, QuietStep
<1>10. QED BY <1>1, <1>2, <1>3, <1>4, <1>5, <1>6, <1>7, <1>8, <1>9 DEF Next

(* The inductive invariant holds in every reachable state.                 *)
THEOREM Invariance == Spec => []IInv
BY InitInv, Preserved, PTL DEF Spec

(* Every variable keeps its type, whatever the bounds.                     *)
THEOREM TypeCorrect == Spec => []TypeOK
<1>1. IInv => TypeOK
  BY DEF IInv
<1>2. QED BY <1>1, Invariance, PTL

(* No change of the terminal or of the scene is forgotten before it is     *)
(* drawn, but for what a lapsed update or a hang-up keeps until the        *)
(* reader's next wake: through coalesced wakes, synchronized updates,      *)
(* refused and failed draws, hidden windows and direct draws               *)
(* (wakeup_needed, draw, request_frame_wake, draw_latency_sensitive).      *)
THEOREM ChangesAreCovered == Spec => []ChangesCovered
<1>1. IInv => ChangesCovered
  BY DEF IInv
<1>2. QED BY <1>1, Invariance, PTL

(* Every coalescing flag that is set, and the frame gate when it is shut,  *)
(* has the event that clears it queued, sent or timed (wake_pending,       *)
(* PendingTerminalEvents.wakeup, has_frame, LatencySensitiveFrameTimer).   *)
THEOREM GatesAlwaysReopen == Spec => []GatesReopen
<1>1. IInv => GatesReopen
  BY DEF IInv
<1>2. QED BY <1>1, Invariance, PTL
=============================================================================
