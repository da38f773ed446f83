----------------------------- MODULE PartsProofs -----------------------------
(***************************************************************************)
(* Proofs about the interactive lane, the read-ahead of a PTY, the sessions *)
(* on disk, the text workers of overlays, the desktop's notifications, the  *)
(* PTY worker and file drops.  Each has its inductive invariant and the     *)
(* lemmas that it holds at first and is kept.  The lane's theorems stand    *)
(* here; AllPartsProofs draws those of the others about the run they share. *)
(***************************************************************************)
EXTENDS Parts, SequenceTheorems, FiniteSetTheorems, WellFoundedInduction, TLAPS

-----------------------------------------------------------------------------
(* The lane, for every set of lane connections, generations and nonces: a   *)
(* generation has one transport, the slot never calls it lost while it is   *)
(* attached, no egress stays installed without its cleanup, and a lost lane *)
(* takes its input grant with it.                                           *)
(*                                                                          *)
(* None of these is inductive by itself.  What carries them is that a lane  *)
(* holds its generation from its admission until its cleanup has confirmed  *)
(* the loss, not only while it is attached: a retry is let in only once     *)
(* the slot says lost, and only the one holder's cleanup makes it say so.   *)
Holds(l) == Attached(l) \/ Place(l) \in {"cleanup", "owned"}

(* The slot has the newest generation, and every lane in use has one.        *)
Newest ==
  /\ slot.generation \in Nat
  /\ \A l \in Lanes : Generation(l) <= slot.generation
  /\ \A l \in Lanes : Place(l) \notin {"idle", "closed"} => Generation(l) # 0

(* The holder of the slot's generation has not been marked lost.             *)
HolderIsLive == \A l \in Lanes : Holds(l) /\ Generation(l) = slot.generation => slot.live

(* A generation has one holder.                                              *)
OneHolder == \A l, m \in Lanes : Holds(l) /\ Holds(m) /\ Generation(l) = Generation(m) => l = m

LaneInv == TypeOK /\ Newest /\ HolderIsLive /\ OneHolder /\ InstalledIsOwned /\ GrantHasLane

-----------------------------------------------------------------------------
(* Generations are naturals, none of them 0.                                 *)
LEMMA GenerationFacts == \A g \in Generations : g \in Nat /\ g # 0
BY LaneAssumption

(* Moving one lane to another place, its generation kept.                    *)
LEMMA Moves ==
  ASSUME TypeOK, NEW l \in Lanes, NEW p \in Places, At(l, p)
  PROVE  /\ lane' \in [Lanes -> [place : Places, generation : Generations \cup {0}]]
         /\ Place(l)' = p
         /\ \A m \in Lanes : Generation(m)' = Generation(m)
         /\ \A m \in Lanes : m # l => Place(m)' = Place(m)
BY DEF TypeOK, At, Place, Generation

(* The initial state satisfies the inductive invariant.                      *)
LEMMA LaneInit == Init => LaneInv
<1> SUFFICES ASSUME Init PROVE LaneInv
  OBVIOUS
<1>1. TypeOK
  BY DEF Init, TypeOK, Places
<1>2. Newest /\ HolderIsLive /\ OneHolder
  BY DEF Init, Newest, HolderIsLive, OneHolder, Holds, Attached, Place, Generation, NoSlot
<1>3. InstalledIsOwned /\ GrantHasLane
  BY DEF Init, InstalledIsOwned, GrantHasLane
<1>4. QED BY <1>1, <1>2, <1>3 DEF LaneInv

(* A lane that is admitted is the only holder of its generation: a new one   *)
(* is newer than every other, a retried one was marked lost.                 *)
LEMMA Admission ==
  ASSUME LaneInv, NEW l \in Lanes, NEW g \in Generations, Place(l) = "idle",
         lane' = [lane EXCEPT ![l] = [place |-> "admitted", generation |-> g]],
         slot' \in Slots, slot'.generation = g, slot'.live = TRUE,
         g > slot.generation \/ (g = slot.generation /\ ~slot.live),
         UNCHANGED <<installed, grant, window>>
  PROVE  LaneInv'
<1> USE DEF LaneInv, Newest
<1>1. /\ Place(l)' = "admitted" /\ Generation(l)' = g
      /\ \A m \in Lanes : m # l => Place(m)' = Place(m) /\ Generation(m)' = Generation(m)
  BY DEF TypeOK, Place, Generation
<1>2. TypeOK'
  BY DEF TypeOK, Places
<1>3. \A m \in Lanes : m # l /\ Holds(m) => Generation(m) # g
  BY GenerationFacts, LaneAssumption DEF HolderIsLive, Generation, TypeOK
<1>4. Newest'
  BY <1>1, GenerationFacts DEF TypeOK, Generation
<1>5. HolderIsLive' /\ GrantHasLane'
  BY DEF HolderIsLive, GrantHasLane
<1>6. OneHolder'
  BY <1>1, <1>3 DEF OneHolder, Holds, Attached
<1>7. InstalledIsOwned'
  BY <1>1 DEF InstalledIsOwned, TypeOK
<1>8. QED BY <1>2, <1>4, <1>5, <1>6, <1>7

(* A refused open closes the connection and nothing else.                    *)
LEMMA Refusal ==
  ASSUME LaneInv, NEW l \in Lanes, NEW g, NEW n, OpenRefused(l, g, n)
  PROVE  LaneInv'
<1> USE DEF LaneInv, OpenRefused
<1>1. At(l, "closed") /\ "closed" \in Places
  BY DEF Places
<1>2. TypeOK'
  BY <1>1, Moves DEF TypeOK
<1>3. Newest' /\ HolderIsLive' /\ OneHolder'
  BY <1>1, Moves DEF Newest, HolderIsLive, OneHolder, Holds, Attached
<1>4. InstalledIsOwned' /\ GrantHasLane'
  BY <1>1, Moves DEF InstalledIsOwned, GrantHasLane, TypeOK
<1>5. QED BY <1>2, <1>3, <1>4

(* The steps of an attached lane, up to the loss of its connection.          *)
LEMMA Attachment ==
  ASSUME LaneInv, NEW l \in Lanes, Install(l) \/ BindGather(l) \/ BindApply(l) \/ Lose(l)
  PROVE  LaneInv'
<1> USE DEF LaneInv
<1>1. PICK p \in {"serving", "eligible", "ineligible", "cleanup"} : At(l, p)
  BY DEF Install, BindGather, BindApply, Lose
<1>2. p \in Places /\ UNCHANGED slot /\ Attached(l) /\ Holds(l)
  BY DEF Places, Attached, Holds, Install, BindGather, BindApply, Lose
<1>3. installed' \in {installed, l} /\ grant' \in {grant, l, NoLane} /\ UNCHANGED window
  BY DEF Install, BindGather, BindApply, Lose
<1>4. TypeOK'
  BY <1>1, <1>2, <1>3, Moves DEF TypeOK
<1>5. \A m \in Lanes : Holds(m)' <=> Holds(m)
  BY <1>1, <1>2, Moves DEF Holds, Attached
<1>6. Newest' /\ HolderIsLive' /\ OneHolder'
  BY <1>1, <1>2, <1>5, Moves DEF Newest, HolderIsLive, OneHolder, Attached
<1>7. InstalledIsOwned'
  BY <1>1, <1>2, <1>3, Moves DEF InstalledIsOwned, TypeOK, Attached, Install, BindGather, BindApply, Lose
<1>8. GrantHasLane'
  <2> SUFFICES ASSUME grant' # NoLane, \A m \in Lanes : Generation(m)' \in {0, slot.generation}
               PROVE  slot.live \/ \E m \in Lanes : Place(m)' \in {"cleanup", "owned", "confirmed"}
    BY <1>2 DEF GrantHasLane
  <2>1. Generation(l) = slot.generation
    BY <1>1, <1>2, Moves DEF Newest, Attached
  <2>2. slot.live
    BY <1>2, <2>1 DEF HolderIsLive
  <2>3. QED BY <2>2
<1>9. QED BY <1>4, <1>6, <1>7, <1>8

(* The four critical sections of LaneCleanup::drop().  The first decides     *)
(* whether the slot is still this lane's.                                    *)
LEMMA CleanupOwnsInv ==
  ASSUME LaneInv, NEW l \in Lanes, CleanupOwns(l)
  PROVE  LaneInv'
<1> USE DEF LaneInv
<1>1. PICK p \in {"owned", "uninstall"} :
        At(l, p) /\ (p = "uninstall" => slot.generation # Generation(l))
  BY DEF CleanupOwns
<1>2. p \in Places /\ Place(l) = "cleanup" /\ UNCHANGED <<slot, installed, grant, window>>
  BY DEF Places, CleanupOwns
<1>3. TypeOK'
  BY <1>1, <1>2, Moves DEF TypeOK
<1>4. Newest' /\ HolderIsLive' /\ OneHolder'
  BY <1>1, <1>2, Moves DEF Newest, HolderIsLive, OneHolder, Holds, Attached
<1>5. InstalledIsOwned'
  BY <1>1, <1>2, Moves DEF InstalledIsOwned, TypeOK
<1>6. GrantHasLane'
  BY <1>1, <1>2, Moves DEF GrantHasLane, Newest
<1>7. QED BY <1>3, <1>4, <1>5, <1>6

(* The second marks the slot lost, and no other lane holds its generation.   *)
LEMMA CleanupConfirmsInv ==
  ASSUME LaneInv, NEW l \in Lanes, CleanupConfirms(l)
  PROVE  LaneInv'
<1> USE DEF LaneInv
<1>1. At(l, "confirmed") /\ "confirmed" \in Places /\ Place(l) = "owned" /\ Holds(l)
  BY DEF CleanupConfirms, Places, Holds
<1>2. /\ slot' \in Slots \cup {NoSlot} /\ slot'.generation = slot.generation
      /\ slot.generation # Generation(l) => slot' = slot
      /\ UNCHANGED <<installed, grant, window>>
  <2>1. CASE slot \in Slots
    BY <2>1 DEF CleanupConfirms, Slots
  <2>2. CASE slot = NoSlot
    BY <2>2 DEF CleanupConfirms, NoSlot
  <2>3. QED BY <2>1, <2>2 DEF TypeOK
<1>3. TypeOK'
  BY <1>1, <1>2, Moves DEF TypeOK
<1>4. Newest' /\ OneHolder'
  BY <1>1, <1>2, Moves DEF Newest, OneHolder, Holds, Attached
<1>5. HolderIsLive'
  BY <1>1, <1>2, Moves DEF HolderIsLive, OneHolder, Holds, Attached
<1>6. InstalledIsOwned'
  BY <1>1, <1>2, Moves DEF InstalledIsOwned, TypeOK
<1>7. GrantHasLane'
  BY <1>1, Moves DEF GrantHasLane
<1>8. QED BY <1>3, <1>4, <1>5, <1>6, <1>7

(* The last two revoke the grant and take the egress out.                    *)
LEMMA CleanupEndInv ==
  ASSUME LaneInv, NEW l \in Lanes, CleanupRevokes(l) \/ CleanupUninstalls(l)
  PROVE  LaneInv'
<1> USE DEF LaneInv
<1>1. PICK p \in {"uninstall", "closed"} : At(l, p)
  BY DEF CleanupRevokes, CleanupUninstalls
<1>2. /\ p \in Places /\ Place(l) \in {"confirmed", "uninstall"} /\ UNCHANGED <<slot, window>>
      /\ installed' \in {installed, NoLane} /\ grant' \in {grant, NoLane}
      /\ p = "closed" => installed' # l
      /\ p = "uninstall" => grant' = NoLane
      /\ p = "closed" => Place(l) = "uninstall"
  BY <1>1, LaneAssumption DEF Places, CleanupRevokes, CleanupUninstalls, At, TypeOK, Place
<1>3. TypeOK'
  BY <1>1, <1>2, Moves DEF TypeOK
<1>4. Newest' /\ HolderIsLive' /\ OneHolder'
  BY <1>1, <1>2, Moves DEF Newest, HolderIsLive, OneHolder, Holds, Attached
<1>5. InstalledIsOwned'
  BY <1>1, <1>2, Moves DEF InstalledIsOwned, TypeOK
<1>6. GrantHasLane'
  BY <1>1, <1>2, Moves DEF GrantHasLane
<1>7. QED BY <1>3, <1>4, <1>5, <1>6

(* The window's thread touches neither a lane nor the slot's generation.     *)
LEMMA WindowInv ==
  ASSUME LaneInv, SendTag \/ SendPost \/ SendNote \/ RevokeAll
  PROVE  LaneInv'
<1> USE DEF LaneInv, SendTag, SendPost, SendNote, RevokeAll
<1>1. /\ slot' \in Slots \cup {NoSlot} /\ slot'.generation = slot.generation /\ slot'.live = slot.live
      /\ UNCHANGED <<lane, installed>> /\ grant' \in {grant, NoLane}
  BY DEF TypeOK, Slots, NoSlot
<1>2. TypeOK'
  BY <1>1 DEF TypeOK
<1>3. Newest' /\ HolderIsLive' /\ OneHolder'
  BY <1>1 DEF Newest, HolderIsLive, OneHolder, Holds, Attached, Place, Generation
<1>4. InstalledIsOwned' /\ GrantHasLane'
  BY <1>1 DEF InstalledIsOwned, GrantHasLane, Place, Generation
<1>5. QED BY <1>2, <1>3, <1>4

-----------------------------------------------------------------------------
(* The inductive invariant holds in every reachable state.                   *)
THEOREM LaneInvariance == Spec => []LaneInv
<1>1. LaneInv /\ [Next]_vars => LaneInv'
  <2> SUFFICES ASSUME LaneInv, [Next]_vars PROVE LaneInv'
    OBVIOUS
  <2>1. CASE UNCHANGED vars
    BY <2>1 DEF LaneInv, vars, TypeOK, Newest, HolderIsLive, OneHolder, Holds, Attached, Place,
                Generation, InstalledIsOwned, GrantHasLane
  <2>2. CASE SendTag \/ SendPost \/ SendNote \/ RevokeAll
    BY <2>2, WindowInv
  <2>3. ASSUME NEW l \in Lanes, Open(l) PROVE LaneInv'
    <3>1. PICK g \in Generations, n \in Nonces :
            OpenAccepted(l, g, n) \/ OpenReplayed(l, g, n) \/ OpenRefused(l, g, n)
      BY <2>3 DEF Open
    <3>2. CASE OpenAccepted(l, g, n)
      <4>1. slot = NoSlot \/ g > slot.generation
        BY <3>2 DEF OpenAccepted, Accepts
      <4>2. g > slot.generation
        BY <4>1, GenerationFacts DEF NoSlot
      <4>3. slot' \in Slots /\ slot'.generation = g /\ slot'.live = TRUE
        BY <3>2 DEF OpenAccepted, Slots
      <4>4. QED BY <3>2, <4>2, <4>3, Admission DEF OpenAccepted
    <3>3. CASE OpenReplayed(l, g, n)
      <4>1. slot \in Slots /\ g = slot.generation /\ ~slot.live
        BY <3>3, GenerationFacts DEF OpenReplayed, Replays, LaneInv, TypeOK, NoSlot
      <4>2. slot' \in Slots /\ slot'.generation = g /\ slot'.live = TRUE
        BY <3>3, <4>1 DEF OpenReplayed, Slots
      <4>3. QED BY <3>3, <4>1, <4>2, Admission DEF OpenReplayed
    <3>4. CASE OpenRefused(l, g, n)
      BY <3>4, Refusal
    <3>5. QED BY <3>1, <3>2, <3>3, <3>4
  <2>4. ASSUME NEW l \in Lanes, Install(l) \/ BindGather(l) \/ BindApply(l) \/ Lose(l) PROVE LaneInv'
    BY <2>4, Attachment
  <2>5. ASSUME NEW l \in Lanes, Cleanup(l) PROVE LaneInv'
    BY <2>5, CleanupOwnsInv, CleanupConfirmsInv, CleanupEndInv DEF Cleanup
  <2>6. QED BY <2>1, <2>2, <2>3, <2>4, <2>5 DEF Next
<1>2. QED BY LaneInit, <1>1, PTL DEF Spec

(* Lane's variables have their types in every reachable state.               *)
THEOREM LaneTypes == Spec => []TypeOK
<1>1. LaneInv => TypeOK
  BY DEF LaneInv
<1>2. QED BY LaneInvariance, <1>1, PTL

(* admit() and LaneCleanup together never attach two transports to one       *)
(* generation, whatever opens, retries and losses cross.                     *)
THEOREM OneTransport == Spec => []OneTransportPerGeneration
<1>1. LaneInv => OneTransportPerGeneration
  BY DEF LaneInv, OneHolder, Holds, OneTransportPerGeneration
<1>2. QED BY LaneInvariance, <1>1, PTL

(* confirm_lost() never marks a transport lost while it is attached.         *)
THEOREM LiveWhileAttached == Spec => []AttachedIsLive
<1>1. LaneInv => AttachedIsLive
  BY DEF LaneInv, HolderIsLive, Holds, AttachedIsLive
<1>2. QED BY LaneInvariance, <1>1, PTL

(* The installed egress always has a connection thread that will remove it.  *)
THEOREM InstalledHasOwner == Spec => []InstalledIsOwned
<1>1. LaneInv => InstalledIsOwned
  BY DEF LaneInv
<1>2. QED BY LaneInvariance, <1>1, PTL

(* Losing the lane takes the input grant away.                               *)
THEOREM GrantNeedsLane == Spec => []GrantHasLane
<1>1. LaneInv => GrantHasLane
  BY DEF LaneInv
<1>2. QED BY LaneInvariance, <1>1, PTL


-----------------------------------------------------------------------------
(* The read-ahead.  ReadAhead speaks of what lies between the parser and    *)
(* the PTY as one sequence; the steps change it at its ends, so the         *)
(* inductive invariant follows its three parts: the batch half read, the    *)
(* queue and the worker's buffer.  It adds what the places of the two       *)
(* threads imply when the child's exit stops one and lets the other drain,  *)
(* and which notifications are outstanding.                                 *)
Batches == Nat \X Nat

GatherTypes ==
  /\ child \in [wrote : Nat, open : BOOLEAN]
  /\ taken \in Nat /\ ready \in Nat /\ heard \in Nat /\ cut \in Nat
  /\ gst \in [free : Nat, ready : Seq(Batches), stop : BOOLEAN, busy : BOOLEAN,
              bridging : BOOLEAN, generation : Nat, eof : BOOLEAN]
  /\ worker \in [pc : {"top", "read", "poll", "publish", "gone"}, from : Nat, len : Nat,
                 generation : Nat, done : BOOLEAN]
  /\ parser \in [pc : {"poll", "read", "join", "drain", "done"}, current : Batches \cup {Ahead!None},
                 offset : Nat, draining : BOOLEAN]
  /\ wake \in BOOLEAN

(* The ranges of q follow one another from what comes after a up to b.     *)
(* (That none ends after b follows, by an induction over q.)               *)
Chain(q, a, b) ==
  /\ \A i \in 1..Len(q) : /\ q[i][1] = (IF i = 1 THEN a ELSE q[i - 1][2]) + 1
                          /\ q[i][1] <= q[i][2] /\ q[i][2] <= b
  /\ a <= b
  /\ b = IF q = <<>> THEN a ELSE q[Len(q)][2]

(* What was heard last, or cut; where the queue begins and where it ends. *)
Start == IF heard > cut THEN heard ELSE cut
QueueFrom == IF parser.current = Ahead!None THEN Start ELSE parser.current[2]
Filling == Ahead!Held /\ worker.len > 0 /\ worker.generation = gst.generation
QueueTo == IF Filling THEN worker.from - 1 ELSE taken

(* The output on its way, part by part. *)
Flow ==
  /\ heard <= taken /\ cut <= taken /\ taken <= child.wrote
  /\ parser.current # Ahead!None => parser.offset = Start + 1 /\ parser.offset <= parser.current[2]
  /\ Chain(gst.ready, QueueFrom, QueueTo)
  /\ Filling => worker.from >= 1 /\ worker.from + worker.len - 1 = taken

(* Where the threads are: a worker never runs ahead of the resets and ends *)
(* with the output; the parser drains alone, a child that exited.          *)
GatherPlaces ==
  /\ worker.generation <= gst.generation
  /\ worker.done => worker.pc \in {"publish", "gone"}
  /\ gst.eof => worker.pc = "gone"
  /\ parser.pc = "poll" => ~parser.draining
  /\ parser.pc \in {"join", "drain", "done"} => parser.draining
  /\ parser.draining => ~child.open
  /\ parser.draining /\ parser.pc # "join" => worker.pc = "gone"
  /\ parser.pc \in {"drain", "done"} => parser.current = Ahead!None /\ gst.ready = <<>>
  /\ parser.pc = "done" => taken = child.wrote

Current == IF parser.current = Ahead!None THEN 0 ELSE 1

(* Every buffer is somewhere, and each batch the parser has not finished   *)
(* has its byte in the socket; the end of the output adds one more.        *)
Slotted ==
  /\ gst.free + Len(gst.ready) + Current + (IF Ahead!Held THEN 1 ELSE 0) = Buffers
  /\ Len(gst.ready) + Current <= ready
  /\ ready <= Len(gst.ready) + Current + (IF gst.eof THEN 1 ELSE 0)

GatherInv == GatherTypes /\ Flow /\ GatherPlaces /\ Slotted
-----------------------------------------------------------------------------
(* Nothing between two places that are the same. *)
LEMMA ChainEmpty ==
  ASSUME NEW a \in Nat
  PROVE  Chain(<<>>, a, a)
BY DEF Chain

(* A batch that begins where the queue ends extends it (WorkerPublishes).  *)
LEMMA ChainAppend ==
  ASSUME NEW q \in Seq(Batches), NEW a \in Nat, NEW b \in Nat, NEW f \in Nat, NEW l \in Nat,
         Chain(q, a, b), f = b + 1, f <= l
  PROVE  Chain(Append(q, <<f, l>>), a, l)
<1> DEFINE r == Append(q, <<f, l>>)
<1>0. <<f, l>> \in Batches
  BY DEF Batches
<1>1. /\ Len(r) = Len(q) + 1 /\ Len(q) \in Nat /\ r[Len(q) + 1] = <<f, l>>
      /\ \A i \in 1..Len(q) : r[i] = q[i]
  BY <1>0
<1>2. r # <<>> /\ r[Len(r)] = <<f, l>>
  BY <1>1
<1>3. q # <<>> => Len(q) >= 1
  OBVIOUS
<1>4. ASSUME NEW i \in 1..Len(r)
      PROVE  /\ r[i][1] = (IF i = 1 THEN a ELSE r[i - 1][2]) + 1
             /\ r[i][1] <= r[i][2] /\ r[i][2] <= l
  <2>1. CASE i \in 1..Len(q)
    <3>1. i # 1 => i - 1 \in 1..Len(q)
      BY <2>1
    <3>2. q[i] \in Batches /\ q[i][2] <= b
      BY <2>1 DEF Chain
    <3>3. r[i][2] <= l
      BY <1>1, <2>1, <3>2 DEF Batches
    <3> QED BY <1>1, <2>1, <3>1, <3>3 DEF Chain
  <2>2. CASE i = Len(q) + 1
    <3>1. q = <<>> => i = 1 /\ b = a
      BY <2>2 DEF Chain
    <3>2. q # <<>> => i # 1 /\ i - 1 = Len(q) /\ r[i - 1] = q[Len(q)] /\ b = q[Len(q)][2]
      BY <2>2, <1>1, <1>3 DEF Chain
    <3>3. r[i][1] = f /\ r[i][2] = l
      BY <1>1, <2>2
    <3> QED BY <3>1, <3>2, <3>3
  <2> QED BY <1>1, <2>1, <2>2
<1>5. l = IF r = <<>> THEN a ELSE r[Len(r)][2]
  BY <1>2
<1> HIDE DEF r
<1>6. Chain(r, a, l)
  <2>1. a <= l
    BY DEF Chain
  <2> QED BY <1>4, <1>5, <2>1 DEF Chain
<1> QED BY <1>6 DEF r

(* A batch taken from the front leaves the chain from its end on           *)
(* (ParserReads).                                                          *)
LEMMA ChainTail ==
  ASSUME NEW q \in Seq(Batches), NEW a \in Nat, NEW b \in Nat, Chain(q, a, b), q # <<>>
  PROVE  /\ Head(q) \in Batches
         /\ Head(q)[1] = a + 1 /\ Head(q)[1] <= Head(q)[2]
         /\ Chain(Tail(q), Head(q)[2], b)
<1> DEFINE r == Tail(q)
<1>1. Len(q) \in Nat /\ Len(q) >= 1 /\ Head(q) = q[1] /\ Head(q) \in Batches
  OBVIOUS
<1>2. Len(r) = Len(q) - 1 /\ r \in Seq(Batches) /\ \A i \in 1..Len(r) : r[i] = q[i + 1]
  OBVIOUS
<1>3. Head(q)[1] = a + 1 /\ Head(q)[1] <= Head(q)[2] /\ Head(q)[2] <= b
  BY <1>1 DEF Chain
<1>4. ASSUME NEW i \in 1..Len(r)
      PROVE  /\ r[i][1] = (IF i = 1 THEN Head(q)[2] ELSE r[i - 1][2]) + 1
             /\ r[i][1] <= r[i][2] /\ r[i][2] <= b
  <2>1. i + 1 \in 1..Len(q) /\ i + 1 # 1 /\ (i + 1) - 1 = i
    BY <1>1, <1>2
  <2>2. q[i + 1][1] = q[i][2] + 1 /\ q[i + 1][1] <= q[i + 1][2] /\ q[i + 1][2] <= b
    BY <2>1 DEF Chain
  <2>3. r[i] = q[i + 1]
    BY <1>2
  <2>4. i # 1 => i - 1 \in 1..Len(r) /\ r[i - 1] = q[i]
    BY <1>1, <1>2
  <2> QED BY <2>2, <2>3, <2>4, <1>1
<1>5. b = IF r = <<>> THEN Head(q)[2] ELSE r[Len(r)][2]
  <2>1. b = q[Len(q)][2]
    BY DEF Chain
  <2>2. CASE r = <<>>
    BY <2>1, <2>2, <1>1, <1>2
  <2>3. CASE r # <<>>
    <3>1. Len(r) \in 1..Len(r) /\ Len(r) + 1 = Len(q)
      BY <2>3, <1>1, <1>2
    <3> QED BY <2>1, <2>3, <3>1, <1>2
  <2> QED BY <2>2, <2>3
<1> HIDE DEF r
<1>6. Chain(r, Head(q)[2], b)
  BY <1>3, <1>4, <1>5 DEF Chain
<1> QED BY <1>1, <1>3, <1>6 DEF r

(* Two chains that meet are one. *)
LEMMA ChainConcat ==
  ASSUME NEW q \in Seq(Batches), NEW r \in Seq(Batches), NEW a \in Nat, NEW b \in Nat,
         NEW c \in Nat, Chain(q, a, b), Chain(r, b, c)
  PROVE  Chain(q \o r, a, c)
<1> DEFINE s == q \o r
<1>1. /\ Len(s) = Len(q) + Len(r) /\ Len(q) \in Nat /\ Len(r) \in Nat
      /\ \A i \in 1..Len(q) : s[i] = q[i]
      /\ \A i \in 1..Len(r) : s[Len(q) + i] = r[i]
  OBVIOUS
<1>2. (q = <<>> <=> Len(q) = 0) /\ (r = <<>> <=> Len(r) = 0) /\ (s = <<>> <=> Len(s) = 0)
  OBVIOUS
<1> HIDE DEF s
<1>3. ASSUME NEW i \in 1..Len(s)
      PROVE  /\ s[i][1] = (IF i = 1 THEN a ELSE s[i - 1][2]) + 1
             /\ s[i][1] <= s[i][2] /\ s[i][2] <= c
  <2>0. Len(s) \in Nat /\ i \in Nat /\ i >= 1
    BY <1>1
  <2>1. CASE i \in 1..Len(q)
    <3>1. i # 1 => i - 1 \in 1..Len(q)
      BY <2>1
    <3>2. q[i] \in Batches /\ q[i][2] <= b /\ b <= c
      BY <2>1 DEF Chain
    <3>3. s[i][2] <= c
      BY <1>1, <2>1, <3>2 DEF Batches
    <3> QED BY <1>1, <2>1, <3>1, <3>3 DEF Chain
  <2>2. CASE i = Len(q) + 1
    <3>1. 1 \in 1..Len(r) /\ s[i] = r[1]
      BY <1>1, <2>2
    <3>2. r[1][1] = b + 1 /\ r[1][1] <= r[1][2] /\ r[1][2] <= c
      BY <3>1 DEF Chain
    <3>3. q = <<>> => i = 1 /\ b = a
      BY <1>2, <2>2 DEF Chain
    <3>4. q # <<>> => i # 1 /\ s[i - 1] = q[Len(q)] /\ b = q[Len(q)][2]
      BY <1>1, <1>2, <2>2 DEF Chain
    <3> QED BY <3>1, <3>2, <3>3, <3>4
  <2>3. CASE i > Len(q) + 1
    <3> DEFINE j == i - Len(q)
    <3>1. j \in 1..Len(r) /\ j # 1 /\ j - 1 \in 1..Len(r) /\ Len(q) + j = i
          /\ Len(q) + (j - 1) = i - 1 /\ i # 1
      BY <1>1, <2>3
    <3>2. s[i] = r[j] /\ s[i - 1] = r[j - 1]
      BY <1>1, <3>1
    <3> HIDE DEF j
    <3> QED BY <3>1, <3>2 DEF Chain
  <2>4. i \in 1..Len(q) \/ i = Len(q) + 1 \/ i > Len(q) + 1
    BY <1>1, <2>0
  <2> QED BY <2>1, <2>2, <2>3, <2>4
<1>4. c = IF s = <<>> THEN a ELSE s[Len(s)][2]
  <2>1. CASE r = <<>>
    <3>1. c = b /\ Len(s) = Len(q) /\ (s = <<>> <=> q = <<>>)
      BY <2>1, <1>1, <1>2 DEF Chain
    <3>2. q # <<>> => s[Len(s)] = q[Len(q)]
      BY <3>1, <1>1, <1>2
    <3> QED BY <3>1, <3>2 DEF Chain
  <2>2. CASE r # <<>>
    <3>1. Len(r) \in 1..Len(r) /\ s # <<>>
      BY <2>2, <1>1, <1>2
    <3>2. s[Len(s)] = r[Len(r)]
      BY <3>1, <1>1
    <3> QED BY <2>2, <3>1, <3>2 DEF Chain
  <2> QED BY <2>1, <2>2
<1>5. Chain(s, a, c)
  <2>1. a <= c
    BY DEF Chain
  <2> QED BY <1>3, <1>4, <2>1 DEF Chain
<1> QED BY <1>5 DEF s
-----------------------------------------------------------------------------
(* The initial state. *)
LEMMA GatherInit == ASSUME GatherAssumption, Ahead!Init PROVE GatherInv
<1>1. GatherTypes
  <2>1. gst \in [free : Nat, ready : Seq(Batches), stop : BOOLEAN, busy : BOOLEAN,
                 bridging : BOOLEAN, generation : Nat, eof : BOOLEAN]
    <3>1. Buffers \in Nat /\ <<>> \in Seq(Batches)
      BY DEF GatherAssumption
    <3> QED BY <3>1 DEF Ahead!Init
  <2>2. parser \in [pc : {"poll", "read", "join", "drain", "done"}, current : Batches \cup {Ahead!None},
                    offset : Nat, draining : BOOLEAN]
    BY DEF Ahead!Init
  <2> QED BY <2>1, <2>2 DEF Ahead!Init, GatherTypes
<1>2. Chain(<<>>, 0, 0)
  BY ChainEmpty
<1>3. ~Ahead!Held /\ ~Filling
  BY DEF Ahead!Init, Ahead!Held, Filling
<1>4. Flow
  BY <1>2, <1>3 DEF Ahead!Init, Flow, QueueFrom, QueueTo, Start, Ahead!None
<1>5. GatherPlaces
  BY DEF Ahead!Init, GatherPlaces
<1>6. Slotted
  BY <1>3 DEF Ahead!Init, Slotted, Current, Ahead!None, GatherAssumption
<1> QED BY <1>1, <1>4, <1>5, <1>6 DEF GatherInv

(* The child only adds output, and exits once. *)
LEMMA ChildKeeps ==
  ASSUME GatherInv, Ahead!ChildWrites \/ Ahead!ChildExits
  PROVE  GatherInv'
<1> USE DEF GatherInv
<1>1. /\ UNCHANGED <<taken, gst, worker, parser, ready, wake, heard, cut>>
      /\ child' \in [wrote : Nat, open : BOOLEAN]
      /\ child'.wrote >= child.wrote
      /\ child'.wrote = child.wrote \/ child.open
      /\ ~child.open => ~child'.open
  <2>1. CASE Ahead!ChildWrites
    BY <2>1 DEF Ahead!ChildWrites, GatherTypes
  <2>2. CASE Ahead!ChildExits
    <3>1. child' = [child EXCEPT !.open = FALSE] /\ child.wrote \in Nat
      BY <2>2 DEF Ahead!ChildExits, GatherTypes
    <3>2. child'.wrote = child.wrote /\ ~child'.open
          /\ child' \in [wrote : Nat, open : BOOLEAN]
      BY <3>1 DEF GatherTypes
    <3> QED BY <2>2, <3>1, <3>2 DEF Ahead!ChildExits
  <2> QED BY <2>1, <2>2
<1>2. GatherTypes'
  BY <1>1 DEF GatherTypes
<1>3. Flow'
  <2>1. taken' <= child'.wrote
    BY <1>1 DEF Flow, GatherTypes
  <2> QED BY <1>1, <2>1 DEF Flow, QueueFrom, QueueTo, Filling, Ahead!Held, Start, Chain
<1>4. GatherPlaces'
  <2>1. parser.pc = "done" => taken' = child'.wrote
    BY <1>1 DEF GatherPlaces
  <2> QED BY <1>1, <2>1 DEF GatherPlaces
<1>5. Slotted'
  BY <1>1 DEF Slotted, Current, Ahead!Held
<1> QED BY <1>2, <1>3, <1>4, <1>5

(* The worker takes a buffer or leaves. *)
LEMMA TakesBufferKeeps ==
  ASSUME GatherInv, Ahead!WorkerTakesBuffer
  PROVE  GatherInv'
<1> USE DEF GatherInv
<1>1. /\ worker.pc = "top"
      /\ UNCHANGED <<child, taken, parser, ready, wake, heard, cut>>
      /\ \/ worker' = [worker EXCEPT !.pc = "gone"] /\ UNCHANGED gst
         \/ /\ gst.free > 0
            /\ gst' = [gst EXCEPT !.free = @ - 1]
            /\ worker' = [pc |-> "read", from |-> taken + 1, len |-> 0,
                          generation |-> gst.generation, done |-> FALSE]
  BY DEF Ahead!WorkerTakesBuffer
<1>2. GatherTypes'
  <2>1. gst' \in [free : Nat, ready : Seq(Batches), stop : BOOLEAN, busy : BOOLEAN,
                  bridging : BOOLEAN, generation : Nat, eof : BOOLEAN]
    <3>1. gst.free > 0 => gst.free - 1 \in Nat
      BY DEF GatherTypes
    <3> QED BY <1>1, <3>1 DEF GatherTypes
  <2>2. worker' \in [pc : {"top", "read", "poll", "publish", "gone"}, from : Nat, len : Nat,
                     generation : Nat, done : BOOLEAN]
    <3>1. taken + 1 \in Nat /\ gst.generation \in Nat
      BY DEF GatherTypes
    <3>2. CASE worker' = [worker EXCEPT !.pc = "gone"]
      BY <3>2 DEF GatherTypes
    <3>3. CASE worker' = [pc |-> "read", from |-> taken + 1, len |-> 0,
                          generation |-> gst.generation, done |-> FALSE]
      BY <3>1, <3>3
    <3> QED BY <1>1, <3>2, <3>3
  <2> QED BY <1>1, <2>1, <2>2 DEF GatherTypes
<1>3. gst'.ready = gst.ready /\ gst'.generation = gst.generation /\ gst'.eof = gst.eof
  BY <1>1 DEF GatherTypes
<1>4. ~Filling /\ ~Filling' /\ ~Ahead!Held
  BY <1>1 DEF Filling, Ahead!Held, GatherTypes
<1>5. Flow'
  BY <1>1, <1>3, <1>4 DEF Flow, QueueFrom, QueueTo, Start, Chain
<1>6. GatherPlaces'
  BY <1>1, <1>3 DEF GatherPlaces, GatherTypes
<1>7. Slotted'
  <2>1. \/ gst'.free = gst.free /\ ~Ahead!Held'
        \/ gst'.free = gst.free - 1 /\ Ahead!Held'
    BY <1>1 DEF GatherTypes, Ahead!Held
  <2>2. gst.free \in Nat /\ ready \in Nat /\ Len(gst.ready) \in Nat
    BY DEF GatherTypes
  <2>3. Current' = Current /\ Current \in {0, 1} /\ ready' = ready
    BY <1>1 DEF Current
  <2>4. /\ gst'.free + Len(gst'.ready) + Current' + (IF Ahead!Held' THEN 1 ELSE 0) = Buffers
    BY <1>3, <1>4, <2>1, <2>2, <2>3 DEF Slotted
  <2> QED BY <1>3, <2>3, <2>4 DEF Slotted
<1> QED BY <1>2, <1>5, <1>6, <1>7

(* Reading adds to the end of the worker's buffer. *)
LEMMA ReadsKeeps ==
  ASSUME GatherAssumption, GatherInv, Ahead!WorkerReads
  PROVE  GatherInv'
<1> USE DEF GatherInv
<1>1. /\ worker.pc = "read"
      /\ UNCHANGED <<child, parser, ready, wake, heard, cut>>
      /\ \/ /\ gst' \in {gst, [gst EXCEPT !.bridging = TRUE]}
            /\ UNCHANGED taken
            /\ \/ \E p \in {"publish", "poll"} : worker' = [worker EXCEPT !.pc = p]
               \/ worker' = [worker EXCEPT !.done = TRUE, !.pc = "publish"]
         \/ /\ gst.generation = worker.generation /\ UNCHANGED gst
            /\ \E n \in 1..(BufferSize - worker.len) :
                 /\ taken + n <= child.wrote /\ taken' = taken + n
                 /\ worker' = [worker EXCEPT !.len = @ + n,
                                             !.from = IF worker.len = 0 THEN taken + 1 ELSE @,
                                             !.pc = IF worker.len + n = BufferSize
                                                    THEN "publish" ELSE "read"]
  BY DEF Ahead!WorkerReads
<1>2. /\ gst' \in [free : Nat, ready : Seq(Batches), stop : BOOLEAN, busy : BOOLEAN,
                   bridging : BOOLEAN, generation : Nat, eof : BOOLEAN]
      /\ gst'.ready = gst.ready /\ gst'.generation = gst.generation /\ gst'.eof = gst.eof
      /\ gst'.free = gst.free
  BY <1>1 DEF GatherTypes
<1>3. /\ worker.pc \in {"read", "poll", "publish"} /\ worker'.pc \in {"read", "poll", "publish"}
      /\ worker'.generation = worker.generation
      /\ worker'.done => worker'.pc = "publish"
      /\ worker' \in [pc : {"top", "read", "poll", "publish", "gone"}, from : Nat, len : Nat,
                      generation : Nat, done : BOOLEAN]
      /\ \/ taken' = taken /\ worker'.from = worker.from /\ worker'.len = worker.len
         \/ /\ gst.generation = worker.generation
            /\ taken' > taken /\ taken' <= child.wrote /\ taken' \in Nat
            /\ worker'.len = worker.len + (taken' - taken)
            /\ worker'.from = IF worker.len = 0 THEN taken + 1 ELSE worker.from
  <2> DEFINE W == [pc : {"top", "read", "poll", "publish", "gone"}, from : Nat, len : Nat,
                   generation : Nat, done : BOOLEAN]
  <2>0. ~worker.done /\ worker \in W
    BY <1>1 DEF GatherPlaces, GatherTypes
  <2>1. CASE taken' = taken /\ \E p \in {"publish", "poll"} : worker' = [worker EXCEPT !.pc = p]
    <3>1. PICK p \in {"publish", "poll"} : worker' = [worker EXCEPT !.pc = p]
      BY <2>1
    <3>2. worker' \in W /\ worker'.pc = p /\ worker'.generation = worker.generation
          /\ worker'.from = worker.from /\ worker'.len = worker.len /\ worker'.done = worker.done
      BY <2>0, <3>1
    <3> QED BY <1>1, <2>0, <2>1, <3>2
  <2>2. CASE taken' = taken /\ worker' = [worker EXCEPT !.done = TRUE, !.pc = "publish"]
    <3>1. worker' \in W /\ worker'.pc = "publish" /\ worker'.generation = worker.generation
          /\ worker'.from = worker.from /\ worker'.len = worker.len
      BY <2>0, <2>2
    <3> QED BY <1>1, <2>2, <3>1
  <2>3. ASSUME NEW n \in 1..(BufferSize - worker.len),
               gst.generation = worker.generation,
               taken + n <= child.wrote, taken' = taken + n,
               worker' = [worker EXCEPT !.len = @ + n,
                                        !.from = IF worker.len = 0 THEN taken + 1 ELSE @,
                                        !.pc = IF worker.len + n = BufferSize
                                               THEN "publish" ELSE "read"]
        PROVE  /\ worker'.pc \in {"read", "publish"} /\ worker'.done = worker.done
               /\ worker'.generation = worker.generation
               /\ taken' > taken /\ taken' <= child.wrote /\ taken' \in Nat
               /\ worker'.len = worker.len + (taken' - taken)
               /\ worker'.from = IF worker.len = 0 THEN taken + 1 ELSE worker.from
               /\ worker' \in W
    <3>1. n \in Nat /\ n >= 1 /\ taken \in Nat /\ worker.len \in Nat
      BY <2>0 DEF GatherTypes, GatherAssumption
    <3>2. worker.len + n \in Nat /\ taken + 1 \in Nat
      BY <3>1
    <3>3. /\ worker'.pc \in {"read", "publish"} /\ worker'.done = worker.done
          /\ worker'.generation = worker.generation
          /\ worker'.len = worker.len + n
          /\ worker'.from = IF worker.len = 0 THEN taken + 1 ELSE worker.from
          /\ worker' \in W
      BY <2>0, <2>3, <3>2
    <3> QED BY <2>3, <3>1, <3>3
  <2> QED BY <1>1, <2>0, <2>1, <2>2, <2>3
<1>4. GatherTypes'
  BY <1>1, <1>2, <1>3 DEF GatherTypes
<1>5. Flow'
  <2>1. /\ heard \in Nat /\ cut \in Nat /\ taken \in Nat /\ taken' \in Nat /\ child.wrote \in Nat
        /\ worker.len \in Nat /\ worker.from \in Nat
    BY <1>4 DEF GatherTypes
  <2>2. heard' <= taken' /\ cut' <= taken' /\ taken' <= child'.wrote
    <3>1. heard <= taken /\ cut <= taken /\ taken <= child.wrote
      BY DEF Flow
    <3>2. taken <= taken' /\ taken' <= child.wrote
      BY <1>3, <2>1, <3>1
    <3>3. heard' = heard /\ cut' = cut /\ child' = child
      BY <1>1
    <3> QED BY <2>1, <3>1, <3>2, <3>3
  <2>3. Ahead!Held /\ Ahead!Held'
    BY <1>3 DEF Ahead!Held
  <2>4. QueueTo' = QueueTo /\ (Filling' => worker'.from >= 1 /\ worker'.from + worker'.len - 1 = taken')
    <3>1. Filling <=> worker.len > 0 /\ worker.generation = gst.generation
      BY <2>3 DEF Filling
    <3>2. Filling' <=> worker'.len > 0 /\ worker.generation = gst.generation
      BY <1>2, <1>3, <2>3 DEF Filling
    <3> QED BY <1>3, <2>1, <3>1, <3>2 DEF Flow, QueueTo
  <2>5. QueueFrom' = QueueFrom /\ Start' = Start /\ parser' = parser /\ gst'.ready = gst.ready
    BY <1>1, <1>2 DEF QueueFrom, Start
  <2> QED BY <2>2, <2>4, <2>5 DEF Flow
<1>6. GatherPlaces'
  BY <1>1, <1>2, <1>3 DEF GatherPlaces
<1>7. Slotted'
  <2>1. Ahead!Held /\ Ahead!Held'
    BY <1>3 DEF Ahead!Held
  <2> QED BY <1>1, <1>2, <2>1 DEF Slotted, Current
<1> QED BY <1>4, <1>5, <1>6, <1>7
(* A poll that returns changes the worker's place only. *)
LEMMA PollsKeeps ==
  ASSUME GatherInv, Ahead!WorkerPolls
  PROVE  GatherInv'
<1> USE DEF GatherInv
<1>1. /\ worker.pc = "poll" /\ wake' = FALSE
      /\ UNCHANGED <<child, taken, parser, ready, heard, cut>>
      /\ gst' = [gst EXCEPT !.bridging = FALSE]
      /\ \E p \in {"publish", "read"} : worker' = [worker EXCEPT !.pc = p]
  BY DEF Ahead!WorkerPolls
<1>2. PICK p \in {"publish", "read"} : worker' = [worker EXCEPT !.pc = p]
  BY <1>1
<1>3. /\ gst' \in [free : Nat, ready : Seq(Batches), stop : BOOLEAN, busy : BOOLEAN,
                   bridging : BOOLEAN, generation : Nat, eof : BOOLEAN]
      /\ gst'.ready = gst.ready /\ gst'.generation = gst.generation /\ gst'.eof = gst.eof
      /\ gst'.free = gst.free
  BY <1>1 DEF GatherTypes
<1>4. /\ worker' \in [pc : {"top", "read", "poll", "publish", "gone"}, from : Nat, len : Nat,
                      generation : Nat, done : BOOLEAN]
      /\ worker'.pc = p /\ worker'.from = worker.from /\ worker'.len = worker.len
      /\ worker'.generation = worker.generation /\ worker'.done = worker.done
  BY <1>2 DEF GatherTypes
<1>5. GatherTypes'
  BY <1>1, <1>3, <1>4 DEF GatherTypes
<1>6. (Ahead!Held <=> Ahead!Held') /\ (Filling <=> Filling')
  BY <1>1, <1>3, <1>4 DEF Ahead!Held, Filling
<1>7. Flow'
  <2>1. QueueFrom' = QueueFrom /\ Start' = Start /\ QueueTo' = QueueTo
    BY <1>1, <1>3, <1>4, <1>6 DEF QueueFrom, Start, QueueTo
  <2> QED BY <1>1, <1>3, <1>4, <1>6, <2>1 DEF Flow
<1>8. GatherPlaces'
  BY <1>1, <1>3, <1>4 DEF GatherPlaces
<1>9. Slotted'
  BY <1>1, <1>3, <1>6 DEF Slotted, Current
<1> QED BY <1>5, <1>7, <1>8, <1>9

(* What is published continues the queue; what a reset made stale was cut. *)
LEMMA PublishesKeeps ==
  ASSUME GatherInv, Ahead!WorkerPublishes
  PROVE  GatherInv'
<1> USE DEF GatherInv
<1> DEFINE fresh == worker.len > 0 /\ worker.generation = gst.generation
           last == worker.from + worker.len - 1
<1>1. /\ worker.pc = "publish"
      /\ UNCHANGED <<child, taken, parser, wake, heard, cut>>
      /\ gst' = [gst EXCEPT !.bridging = FALSE,
                            !.ready = IF fresh THEN Append(@, <<worker.from, last>>) ELSE @,
                            !.free = IF fresh THEN @ ELSE @ + 1,
                            !.eof = @ \/ worker.done]
      /\ ready' = ready + (IF fresh THEN 1 ELSE 0) + (IF worker.done THEN 1 ELSE 0)
      /\ worker' = [worker EXCEPT !.pc = IF worker.done \/ gst.stop THEN "gone" ELSE "top"]
  BY DEF Ahead!WorkerPublishes
<1>2. /\ taken \in Nat /\ ready \in Nat /\ heard \in Nat /\ cut \in Nat
      /\ gst.free \in Nat /\ gst.ready \in Seq(Batches) /\ Len(gst.ready) \in Nat
      /\ worker.from \in Nat /\ worker.len \in Nat
      /\ worker.done \in BOOLEAN /\ gst.eof \in BOOLEAN /\ ~gst.eof
  BY <1>1 DEF GatherTypes, GatherPlaces
<1>3. Ahead!Held /\ ~Ahead!Held' /\ ~Filling' /\ (Filling <=> fresh)
  <2>1. worker'.pc \in {"gone", "top"}
    BY <1>1 DEF GatherTypes
  <2> QED BY <1>1, <2>1 DEF Ahead!Held, Filling
<1>4. fresh => last \in Nat /\ last = taken /\ worker.from >= 1 /\ worker.from <= last
  BY <1>2, <1>3 DEF Flow
<1>5. /\ gst'.ready = IF fresh THEN Append(gst.ready, <<worker.from, last>>) ELSE gst.ready
      /\ gst'.free = IF fresh THEN gst.free ELSE gst.free + 1
      /\ gst'.generation = gst.generation
      /\ gst'.eof = (gst.eof \/ worker.done)
      /\ gst'.stop = gst.stop /\ gst'.busy = gst.busy /\ gst'.bridging = FALSE
      /\ DOMAIN gst' = DOMAIN gst
  BY <1>1 DEF GatherTypes
<1>6. gst'.ready \in Seq(Batches) /\ Len(gst'.ready) = Len(gst.ready) + (IF fresh THEN 1 ELSE 0)
  <2>1. fresh => <<worker.from, last>> \in Batches
    BY <1>2, <1>4 DEF Batches
  <2> HIDE DEF last, fresh
  <2>2. CASE fresh
    BY <1>2, <1>5, <2>1, <2>2
  <2>3. CASE ~fresh
    BY <1>2, <1>5, <2>3
  <2> QED BY <2>2, <2>3
<1>7. /\ worker' \in [pc : {"top", "read", "poll", "publish", "gone"}, from : Nat, len : Nat,
                      generation : Nat, done : BOOLEAN]
      /\ worker'.pc = (IF worker.done \/ gst.stop THEN "gone" ELSE "top")
      /\ worker'.generation = worker.generation /\ worker'.done = worker.done
  BY <1>1 DEF GatherTypes
<1> HIDE DEF last
<1>8. GatherTypes'
  <2>1. gst'.free \in Nat /\ gst'.eof \in BOOLEAN
    BY <1>2, <1>5
  <2>2. gst' \in [free : Nat, ready : Seq(Batches), stop : BOOLEAN, busy : BOOLEAN,
                  bridging : BOOLEAN, generation : Nat, eof : BOOLEAN]
    BY <1>1, <1>5, <1>6, <2>1 DEF GatherTypes
  <2>3. ready' \in Nat
    BY <1>1, <1>2
  <2> QED BY <1>1, <1>7, <2>2, <2>3 DEF GatherTypes
<1>9. Flow'
  <2>1. QueueFrom' = QueueFrom /\ QueueFrom \in Nat
    BY <1>1, <1>2 DEF QueueFrom, Start, GatherTypes, Batches
  <2>2. QueueTo' = taken
    BY <1>1, <1>3 DEF QueueTo
  <2>3. Chain(gst.ready, QueueFrom, QueueTo)
    BY DEF Flow
  <2>4. Chain(gst'.ready, QueueFrom, taken)
    <3>1. CASE fresh
      <4>1. QueueTo = worker.from - 1 /\ QueueTo \in Nat /\ worker.from = QueueTo + 1
        BY <1>2, <1>3, <1>4, <3>1 DEF QueueTo
      <4>2. Chain(Append(gst.ready, <<worker.from, last>>), QueueFrom, last)
        BY <1>2, <1>4, <2>1, <2>3, <3>1, <4>1, ChainAppend
      <4> QED BY <1>4, <1>5, <3>1, <4>2
    <3>2. CASE ~fresh
      BY <1>3, <1>5, <2>3, <3>2 DEF QueueTo
    <3> QED BY <3>1, <3>2
  <2>5. Start' = Start
    BY <1>1 DEF Start
  <2> QED BY <1>1, <1>3, <2>1, <2>2, <2>4, <2>5 DEF Flow
<1>10. GatherPlaces'
  <2>1. parser.draining /\ parser.pc # "join" => worker.pc = "gone"
    BY DEF GatherPlaces
  <2>2. ~(parser.draining /\ parser.pc # "join")
    BY <1>1, <2>1
  <2>3. parser.pc \notin {"drain", "done"}
    BY <2>2 DEF GatherPlaces
  <2> QED BY <1>1, <1>2, <1>5, <1>7, <2>2, <2>3 DEF GatherPlaces
<1>11. Slotted'
  <2>1. Current' = Current /\ Current \in {0, 1}
    BY <1>1 DEF Current
  <2>2. gst'.eof <=> worker.done
    BY <1>2, <1>5
  <2>3. gst.free + Len(gst.ready) + Current + 1 = Buffers /\ Len(gst.ready) + Current <= ready
        /\ ready <= Len(gst.ready) + Current
    <3>1. Slotted /\ Ahead!Held /\ ~gst.eof
      BY <1>2, <1>3
    <3>2. Len(gst.ready) \in Nat
      BY <1>2
    <3> QED BY <2>1, <3>1, <3>2 DEF Slotted
  <2>6. ready' = ready + (IF fresh THEN 1 ELSE 0) + (IF worker.done THEN 1 ELSE 0)
    BY <1>1
  <2>7. gst'.free = IF fresh THEN gst.free ELSE gst.free + 1
    BY <1>5
  <2>8. gst.free \in Nat /\ Len(gst.ready) \in Nat /\ ready \in Nat
    BY <1>2
  <2>9. Len(gst'.ready) = Len(gst.ready) + (IF fresh THEN 1 ELSE 0)
    BY <1>6
  <2> HIDE DEF fresh
  <2>4. gst'.free + Len(gst'.ready) + Current' + 0 = Buffers
    <3>1. CASE fresh
      BY <3>1, <2>9, <2>1, <2>3, <2>7, <2>8
    <3>2. CASE ~fresh
      BY <3>2, <2>9, <2>1, <2>3, <2>7, <2>8
    <3> QED BY <3>1, <3>2
  <2>5. Len(gst'.ready) + Current' <= ready'
        /\ ready' <= Len(gst'.ready) + Current' + (IF gst'.eof THEN 1 ELSE 0)
    <3> DEFINE ended == IF worker.done THEN 1 ELSE 0
               added == IF fresh THEN 1 ELSE 0
    <3>1. ended \in {0, 1} /\ added \in {0, 1} /\ (IF gst'.eof THEN 1 ELSE 0) = ended
      BY <2>2
    <3>2. ready' = ready + added + ended /\ Len(gst'.ready) = Len(gst.ready) + added
      BY <2>6, <2>9
    <3> HIDE DEF ended, added
    <3>3. /\ Len(gst'.ready) + Current' <= ready'
          /\ ready' <= Len(gst'.ready) + Current' + ended
      BY <2>1, <2>3, <2>8, <3>1, <3>2
    <3> QED BY <3>1, <3>3
  <2> QED BY <1>3, <2>4, <2>5 DEF Slotted
<1> QED BY <1>8, <1>9, <1>10, <1>11
(* The terminal worker going from its poll to a read, back to the poll     *)
(* with a batch half read, stopping the worker and joining it: only places *)
(* and flags change.                                                       *)
LEMMA ParserMovesKeeps ==
  ASSUME GatherInv, Ahead!ParserWakes \/ Ahead!ParserYields \/ Ahead!ParserStops \/ Ahead!ParserJoins
  PROVE  GatherInv'
<1> USE DEF GatherInv
<1>1. /\ UNCHANGED <<child, taken, worker, ready, heard, cut>>
      /\ wake' \in BOOLEAN
      /\ \E st, b, br \in BOOLEAN :
            gst' = [gst EXCEPT !.stop = st, !.busy = b, !.bridging = br]
      /\ \/ /\ parser.pc = "poll" /\ parser' = [parser EXCEPT !.pc = "read"]
         \/ /\ parser.pc = "read" /\ ~parser.draining
            /\ parser' = [parser EXCEPT !.pc = "poll"]
         \/ /\ parser.pc = "poll" /\ ~child.open
            /\ parser' = [parser EXCEPT !.pc = "join", !.draining = TRUE]
         \/ /\ parser.pc = "join" /\ worker.pc = "gone"
            /\ parser' = [parser EXCEPT !.pc = "read"]
  <2>0. gst.stop \in BOOLEAN /\ gst.busy \in BOOLEAN /\ gst.bridging \in BOOLEAN
        /\ wake \in BOOLEAN
        /\ gst = [gst EXCEPT !.stop = gst.stop, !.busy = gst.busy, !.bridging = gst.bridging]
    BY DEF GatherTypes
  <2>1. CASE Ahead!ParserWakes
    BY <2>0, <2>1 DEF Ahead!ParserWakes
  <2>2. CASE Ahead!ParserYields
    <3>1. gst' = [gst EXCEPT !.stop = gst.stop, !.busy = FALSE, !.bridging = gst.bridging]
      BY <2>2 DEF Ahead!ParserYields, GatherTypes
    <3> QED BY <2>0, <2>2, <3>1 DEF Ahead!ParserYields
  <2>3. CASE Ahead!ParserStops
    <3>1. gst' = [gst EXCEPT !.stop = TRUE, !.busy = gst.busy, !.bridging = gst.bridging]
      BY <2>3 DEF Ahead!ParserStops, GatherTypes
    <3> QED BY <2>0, <2>3, <3>1 DEF Ahead!ParserStops
  <2>4. CASE Ahead!ParserJoins
    BY <2>0, <2>4 DEF Ahead!ParserJoins
  <2> QED BY <2>1, <2>2, <2>3, <2>4
<1>2. /\ gst' \in [free : Nat, ready : Seq(Batches), stop : BOOLEAN, busy : BOOLEAN,
                   bridging : BOOLEAN, generation : Nat, eof : BOOLEAN]
      /\ gst'.ready = gst.ready /\ gst'.generation = gst.generation /\ gst'.eof = gst.eof
      /\ gst'.free = gst.free
  <2>1. PICK st \in BOOLEAN, b \in BOOLEAN, br \in BOOLEAN :
            gst' = [gst EXCEPT !.stop = st, !.busy = b, !.bridging = br]
    BY <1>1
  <2> QED BY <2>1 DEF GatherTypes
<1>3. /\ parser' \in [pc : {"poll", "read", "join", "drain", "done"}, current : Batches \cup {Ahead!None},
                      offset : Nat, draining : BOOLEAN]
      /\ parser'.current = parser.current /\ parser'.offset = parser.offset
      /\ \/ parser.pc = "poll" /\ parser'.pc = "read" /\ parser'.draining = parser.draining
         \/ parser.pc = "read" /\ parser'.pc = "poll" /\ ~parser.draining /\ ~parser'.draining
         \/ parser'.pc = "join" /\ ~child.open /\ parser'.draining
         \/ /\ parser.pc = "join" /\ parser'.pc = "read" /\ worker.pc = "gone"
            /\ parser'.draining = parser.draining
  <2>1. CASE parser.pc = "poll" /\ parser' = [parser EXCEPT !.pc = "read"]
    BY <2>1 DEF GatherTypes
  <2>2. CASE parser.pc = "read" /\ ~parser.draining /\ parser' = [parser EXCEPT !.pc = "poll"]
    BY <2>2 DEF GatherTypes
  <2>3. CASE ~child.open /\ parser' = [parser EXCEPT !.pc = "join", !.draining = TRUE]
    BY <2>3 DEF GatherTypes
  <2>4. CASE parser.pc = "join" /\ worker.pc = "gone" /\ parser' = [parser EXCEPT !.pc = "read"]
    BY <2>4 DEF GatherTypes
  <2> QED BY <1>1, <2>1, <2>2, <2>3, <2>4
<1>4. GatherTypes'
  BY <1>1, <1>2, <1>3 DEF GatherTypes
<1>5. Flow'
  <2>1. (Filling <=> Filling') /\ (Ahead!Held <=> Ahead!Held')
    BY <1>1, <1>2 DEF Ahead!Held, Filling
  <2>2. QueueFrom' = QueueFrom /\ Start' = Start /\ QueueTo' = QueueTo
    BY <1>1, <1>2, <1>3, <2>1 DEF QueueFrom, Start, QueueTo
  <2> QED BY <1>1, <1>2, <1>3, <2>1, <2>2 DEF Flow
<1>6. GatherPlaces'
  <2>1. /\ worker' = worker /\ child' = child /\ taken' = taken
        /\ gst'.generation = gst.generation /\ gst'.eof = gst.eof /\ gst'.ready = gst.ready
    BY <1>1, <1>2
  <2>2. parser'.pc \notin {"drain", "done"}
    BY <1>3
  <2> QED BY <1>3, <2>1, <2>2 DEF GatherPlaces
<1>7. Slotted'
  <2>1. Current' = Current /\ (Ahead!Held <=> Ahead!Held')
    BY <1>1, <1>3 DEF Current, Ahead!Held
  <2> QED BY <1>1, <1>2, <2>1 DEF Slotted
<1> QED BY <1>4, <1>5, <1>6, <1>7

(* The parser hands on some of the batch at hand, from where it was left.  *)
LEMMA ParserReadsKeeps ==
  ASSUME GatherInv, Ahead!ParserReads
  PROVE  GatherInv'
<1> USE DEF GatherInv
<1> DEFINE batch == IF parser.current # Ahead!None THEN parser.current ELSE Head(gst.ready)
           first == IF parser.current # Ahead!None THEN parser.offset ELSE batch[1]
           rest == IF parser.current # Ahead!None THEN gst.ready ELSE Tail(gst.ready)
<1>1. /\ parser.pc = "read" /\ (parser.current # Ahead!None \/ gst.ready # <<>>)
      /\ UNCHANGED <<child, taken, worker, wake, cut>>
  BY DEF Ahead!ParserReads
<1>2. PICK last \in first..batch[2] :
        /\ heard' = last
        /\ parser' = [parser EXCEPT !.current = IF last = batch[2] THEN Ahead!None ELSE batch,
                                    !.offset = last + 1]
        /\ gst' = [gst EXCEPT !.ready = IF parser.current # Ahead!None THEN @ ELSE Tail(@),
                              !.busy = TRUE,
                              !.free = IF last = batch[2] THEN @ + 1 ELSE @]
        /\ ready' = IF last = batch[2] THEN Ahead!Monus(ready, 1) ELSE ready
  BY DEF Ahead!ParserReads
<1>3. /\ taken \in Nat /\ ready \in Nat /\ heard \in Nat /\ cut \in Nat /\ Start \in Nat
      /\ gst.free \in Nat /\ gst.ready \in Seq(Batches) /\ Len(gst.ready) \in Nat
      /\ worker.from \in Nat /\ worker.len \in Nat /\ QueueFrom \in Nat
      /\ parser.current \in Batches \cup {Ahead!None} /\ parser.offset \in Nat
  BY DEF GatherTypes, QueueFrom, Start, Batches
<1>4. QueueTo \in Nat /\ QueueTo <= taken
  <2>1. CASE Filling
    BY <1>3, <2>1 DEF Flow, QueueTo, Filling
  <2>2. CASE ~Filling
    BY <1>3, <2>2 DEF QueueTo
  <2> QED BY <2>1, <2>2
<1>5. Chain(gst.ready, QueueFrom, QueueTo)
  BY DEF Flow
<1>6. /\ batch \in Batches /\ first = Start + 1 /\ first <= batch[2]
      /\ rest \in Seq(Batches) /\ Chain(rest, batch[2], QueueTo)
      /\ Len(rest) = (IF parser.current # Ahead!None THEN Len(gst.ready) ELSE Len(gst.ready) - 1)
  <2>1. CASE parser.current # Ahead!None
    BY <1>3, <1>5, <2>1 DEF Flow, QueueFrom, Ahead!None
  <2>2. CASE parser.current = Ahead!None
    <3>1. QueueFrom = Start /\ gst.ready # <<>>
      BY <1>1, <2>2 DEF QueueFrom
    <3>2. /\ Head(gst.ready) \in Batches
          /\ Head(gst.ready)[1] = Start + 1 /\ Head(gst.ready)[1] <= Head(gst.ready)[2]
          /\ Chain(Tail(gst.ready), Head(gst.ready)[2], QueueTo)
      BY <1>3, <1>4, <1>5, <3>1, ChainTail
    <3>3. Tail(gst.ready) \in Seq(Batches) /\ Len(Tail(gst.ready)) = Len(gst.ready) - 1
      BY <1>3, <3>1
    <3> QED BY <2>2, <3>2, <3>3
  <2> QED BY <2>1, <2>2
<1> HIDE DEF rest
<1>7. /\ batch[2] \in Nat /\ first \in Nat /\ last \in Nat
      /\ Start + 1 <= last /\ last <= batch[2] /\ batch[2] <= taken
  <2>1. batch[2] \in Nat /\ first \in Nat /\ batch[2] <= QueueTo
    BY <1>3, <1>6 DEF Batches, Chain
  <2> HIDE DEF batch, first
  <2>2. last \in Nat /\ first <= last /\ last <= batch[2]
    BY <2>1
  <2> QED BY <1>3, <1>4, <1>6, <2>1, <2>2
<1>8. /\ gst'.ready = rest /\ gst'.generation = gst.generation /\ gst'.eof = gst.eof
      /\ gst'.free = IF last = batch[2] THEN gst.free + 1 ELSE gst.free
      /\ gst' \in [free : Nat, ready : Seq(Batches), stop : BOOLEAN, busy : BOOLEAN,
                   bridging : BOOLEAN, generation : Nat, eof : BOOLEAN]
  <2>1. gst.free + 1 \in Nat /\ rest \in Seq(Batches)
    BY <1>3, <1>6
  <2>2. gst' = [gst EXCEPT !.ready = rest, !.busy = TRUE,
                           !.free = IF last = batch[2] THEN gst.free + 1 ELSE gst.free]
    BY <1>2 DEF rest
  <2> HIDE DEF batch
  <2> QED BY <2>1, <2>2 DEF GatherTypes
<1>9. /\ parser'.current = (IF last = batch[2] THEN Ahead!None ELSE batch)
      /\ parser'.offset = last + 1 /\ parser'.pc = parser.pc
      /\ parser'.draining = parser.draining
      /\ parser' \in [pc : {"poll", "read", "join", "drain", "done"}, current : Batches \cup {Ahead!None},
                      offset : Nat, draining : BOOLEAN]
  <2>1. last + 1 \in Nat
    BY <1>7
  <2> HIDE DEF batch
  <2> QED BY <1>2, <1>6, <2>1 DEF GatherTypes
<1>10. batch # Ahead!None
  BY <1>6 DEF Ahead!None, Batches
<1> HIDE DEF batch, first
<1>11. GatherTypes'
  <2>1. ready' \in Nat
    BY <1>2, <1>3 DEF Ahead!Monus
  <2>2. heard' \in Nat
    BY <1>2, <1>7
  <2> QED BY <1>1, <1>8, <1>9, <2>1, <2>2 DEF GatherTypes
<1>12. Start' = last
  <2>1. heard' = last /\ cut' = cut /\ cut < last
    BY <1>1, <1>2, <1>3, <1>7 DEF Start
  <2> QED BY <1>3, <1>7, <2>1 DEF Start
<1>13. Flow'
  <2>1. (Filling <=> Filling') /\ QueueTo' = QueueTo
    BY <1>1, <1>8 DEF Ahead!Held, Filling, QueueTo
  <2>2. QueueFrom' = batch[2]
    <3>1. CASE last = batch[2]
      BY <1>9, <1>12, <3>1 DEF QueueFrom
    <3>2. CASE last # batch[2]
      BY <1>9, <1>10, <3>2 DEF QueueFrom
    <3> QED BY <3>1, <3>2
  <2>3. heard' <= taken' /\ cut' <= taken' /\ taken' <= child'.wrote
    BY <1>1, <1>2, <1>3, <1>7 DEF Flow
  <2>4. parser'.current # Ahead!None => parser'.offset = Start' + 1 /\ parser'.offset <= parser'.current[2]
    BY <1>7, <1>9, <1>12
  <2> QED BY <1>1, <1>6, <1>8, <2>1, <2>2, <2>3, <2>4 DEF Flow
<1>14. GatherPlaces'
  BY <1>1, <1>8, <1>9 DEF GatherPlaces
<1>15. Slotted'
  <2> DEFINE held == IF Ahead!Held THEN 1 ELSE 0
             more == IF gst.eof THEN 1 ELSE 0
             l == Len(gst.ready)
             r == Len(rest)
  <2>1. /\ (IF Ahead!Held' THEN 1 ELSE 0) = held /\ (IF gst'.eof THEN 1 ELSE 0) = more
        /\ held \in Nat /\ more \in Nat /\ l \in Nat /\ r \in Nat /\ ready \in Nat
        /\ gst.free \in Nat
    BY <1>1, <1>3, <1>6, <1>8 DEF Ahead!Held
  <2>2. Current + l = 1 + r /\ Current \in {0, 1}
    <3>1. CASE parser.current = Ahead!None
      BY <1>3, <1>6, <3>1 DEF Current
    <3>2. CASE parser.current # Ahead!None
      BY <1>3, <1>6, <3>2 DEF Current
    <3> QED BY <3>1, <3>2
  <2>3. gst.free + l + Current + held = Buffers /\ l + Current <= ready
        /\ ready <= l + Current + more
    BY DEF Slotted
  <2>4. \/ Current' = 0 /\ gst'.free = gst.free + 1 /\ ready' = Ahead!Monus(ready, 1)
        \/ Current' = 1 /\ gst'.free = gst.free /\ ready' = ready
    <3>1. CASE last = batch[2]
      BY <1>2, <1>8, <1>9, <3>1 DEF Current
    <3>2. CASE last # batch[2]
      BY <1>2, <1>8, <1>9, <1>10, <3>2 DEF Current
    <3> QED BY <3>1, <3>2
  <2> SUFFICES gst'.free + r + Current' + held = Buffers /\ r + Current' <= ready'
               /\ ready' <= r + Current' + more
    BY <1>8, <2>1 DEF Slotted
  <2> HIDE DEF held, more, l, r
  <2>5. CASE Current' = 0 /\ gst'.free = gst.free + 1 /\ ready' = Ahead!Monus(ready, 1)
    <3>1. ready' = ready - 1
      BY <2>1, <2>2, <2>3, <2>5 DEF Ahead!Monus
    <3> QED BY <2>1, <2>2, <2>3, <2>5, <3>1
  <2>6. CASE Current' = 1 /\ gst'.free = gst.free /\ ready' = ready
    BY <2>1, <2>2, <2>3, <2>6
  <2> QED BY <2>4, <2>5, <2>6
<1> QED BY <1>11, <1>13, <1>14, <1>15
(* With nothing at hand the parser goes back to its poll, or on to what    *)
(* the PTY still holds.                                                    *)
LEMMA FindsNothingKeeps ==
  ASSUME GatherAssumption, GatherInv, Ahead!ParserFindsNothing
  PROVE  GatherInv'
<1> USE DEF GatherInv
<1>1. /\ parser.pc = "read" /\ parser.current = Ahead!None /\ gst.ready = <<>>
      /\ gst' = [gst EXCEPT !.busy = FALSE]
      /\ wake' \in BOOLEAN
      /\ ready' = IF gst.eof \/ gst.stop THEN Ahead!Monus(ready, Buffers + 1) ELSE ready
      /\ parser' = [parser EXCEPT !.pc = IF parser.draining THEN "drain" ELSE "poll"]
      /\ UNCHANGED <<child, taken, worker, heard, cut>>
  BY DEF Ahead!ParserFindsNothing
<1>2. /\ gst' \in [free : Nat, ready : Seq(Batches), stop : BOOLEAN, busy : BOOLEAN,
                   bridging : BOOLEAN, generation : Nat, eof : BOOLEAN]
      /\ gst'.ready = gst.ready /\ gst'.generation = gst.generation /\ gst'.eof = gst.eof
      /\ gst'.free = gst.free
  BY <1>1 DEF GatherTypes
<1>3. /\ parser' \in [pc : {"poll", "read", "join", "drain", "done"}, current : Batches \cup {Ahead!None},
                      offset : Nat, draining : BOOLEAN]
      /\ parser'.current = parser.current /\ parser'.offset = parser.offset
      /\ parser'.draining = parser.draining
      /\ parser'.pc = IF parser.draining THEN "drain" ELSE "poll"
  BY <1>1 DEF GatherTypes
<1>4. Current = 0 /\ Current' = 0 /\ Len(gst.ready) = 0
  BY <1>1, <1>3 DEF Current
<1>5. /\ ready \in Nat /\ Buffers \in Nat /\ ready <= (IF gst.eof THEN 1 ELSE 0)
      /\ ready' \in Nat /\ ready' <= ready
  <2>1. ready \in Nat /\ Buffers \in Nat
    BY DEF GatherTypes, GatherAssumption
  <2>2. ready <= Len(gst.ready) + Current + (IF gst.eof THEN 1 ELSE 0)
    BY DEF Slotted
  <2>3. ready' \in Nat /\ ready' <= ready
    <3>1. Ahead!Monus(ready, Buffers + 1) \in Nat /\ Ahead!Monus(ready, Buffers + 1) <= ready
      BY <2>1 DEF Ahead!Monus
    <3> QED BY <1>1, <2>1, <3>1
  <2>4. Len(gst.ready) + Current + (IF gst.eof THEN 1 ELSE 0) = (IF gst.eof THEN 1 ELSE 0)
    BY <1>4
  <2> QED BY <2>1, <2>2, <2>3, <2>4
<1>6. GatherTypes'
  BY <1>1, <1>2, <1>3, <1>5 DEF GatherTypes
<1>7. Flow'
  <2>1. (Filling <=> Filling') /\ (Ahead!Held <=> Ahead!Held')
    BY <1>1, <1>2 DEF Ahead!Held, Filling
  <2>2. QueueFrom' = QueueFrom /\ Start' = Start /\ QueueTo' = QueueTo
    BY <1>1, <1>2, <1>3, <2>1 DEF QueueFrom, Start, QueueTo
  <2> QED BY <1>1, <1>2, <1>3, <2>1, <2>2 DEF Flow
<1>8. GatherPlaces'
  <2>1. parser.draining => worker.pc = "gone" /\ ~child.open
    BY <1>1 DEF GatherPlaces
  <2>2. /\ worker' = worker /\ child' = child
        /\ gst'.generation = gst.generation /\ gst'.eof = gst.eof
        /\ gst'.ready = <<>> /\ parser'.current = Ahead!None
    BY <1>1, <1>2, <1>3
  <2> QED BY <1>3, <2>1, <2>2 DEF GatherPlaces
<1>9. Slotted'
  <2> DEFINE more == IF gst.eof THEN 1 ELSE 0
             held == IF Ahead!Held THEN 1 ELSE 0
  <2>1. /\ (IF Ahead!Held' THEN 1 ELSE 0) = held /\ (IF gst'.eof THEN 1 ELSE 0) = more
        /\ more \in Nat /\ held \in Nat
    BY <1>1, <1>2 DEF Ahead!Held
  <2>2. gst.free + Len(gst.ready) + Current + held = Buffers
    BY DEF Slotted
  <2>3. ready' \in Nat /\ ready' <= more
    BY <1>5, <2>1
  <2> HIDE DEF more, held
  <2> QED BY <1>2, <1>4, <2>1, <2>2, <2>3 DEF Slotted
<1> QED BY <1>6, <1>7, <1>8, <1>9

(* A reset discards the batch, the queue and, by the generation, what the  *)
(* worker holds: what continues is what is read from now on.               *)
LEMMA ResetsKeeps ==
  ASSUME GatherAssumption, GatherInv, Ahead!ParserResets
  PROVE  GatherInv'
<1> USE DEF GatherInv
<1>1. /\ parser.pc = "poll" /\ ~parser.draining
      /\ gst' = [gst EXCEPT !.generation = @ + 1, !.ready = <<>>, !.busy = FALSE,
                            !.free = @ + Len(gst.ready) + Current]
      /\ parser' = [parser EXCEPT !.current = Ahead!None, !.offset = 0]
      /\ ready' = Ahead!Monus(ready, Buffers + 1)
      /\ wake' = TRUE /\ cut' = taken
      /\ UNCHANGED <<child, taken, worker, heard>>
  BY DEF Ahead!ParserResets, Current
<1>2. /\ gst.free \in Nat /\ Len(gst.ready) \in Nat /\ Current \in {0, 1} /\ ready \in Nat
      /\ Buffers \in Nat /\ taken \in Nat /\ heard \in Nat /\ gst.generation \in Nat
      /\ worker.generation \in Nat
  BY DEF GatherTypes, Current, GatherAssumption
<1>3. /\ gst'.ready = <<>> /\ gst'.generation = gst.generation + 1 /\ gst'.eof = gst.eof
      /\ gst'.free = gst.free + Len(gst.ready) + Current
      /\ gst' \in [free : Nat, ready : Seq(Batches), stop : BOOLEAN, busy : BOOLEAN,
                   bridging : BOOLEAN, generation : Nat, eof : BOOLEAN]
  <2>1. gst.free + Len(gst.ready) + Current \in Nat /\ gst.generation + 1 \in Nat
    BY <1>2
  <2>2. <<>> \in Seq(Batches)
    OBVIOUS
  <2> HIDE DEF Current
  <2> QED BY <1>1, <2>1, <2>2 DEF GatherTypes
<1>4. /\ parser' \in [pc : {"poll", "read", "join", "drain", "done"}, current : Batches \cup {Ahead!None},
                      offset : Nat, draining : BOOLEAN]
      /\ parser'.current = Ahead!None /\ parser'.pc = "poll" /\ ~parser'.draining
  BY <1>1 DEF GatherTypes
<1>5. Ahead!Held' = Ahead!Held /\ Current' = 0 /\ Len(gst'.ready) = 0
  BY <1>1, <1>3, <1>4 DEF Ahead!Held, Current
<1> DEFINE held == IF Ahead!Held THEN 1 ELSE 0
           more == IF gst.eof THEN 1 ELSE 0
           l == Len(gst.ready)
<1>6. /\ gst.free + l + Current + held = Buffers /\ ready <= l + Current + more
      /\ held \in Nat /\ more \in {0, 1} /\ l \in Nat
  BY <1>2 DEF Slotted
<1>7. ready' = 0
  <2> HIDE DEF held, more, l
  <2>1. ready <= Buffers + 1
    BY <1>2, <1>6
  <2> QED BY <1>1, <1>2, <2>1 DEF Ahead!Monus
<1>8. GatherTypes'
  BY <1>1, <1>3, <1>4, <1>7 DEF GatherTypes
<1>9. Flow'
  <2>1. gst'.generation # worker'.generation
    BY <1>1, <1>2, <1>3 DEF GatherPlaces
  <2>2. ~Filling'
    BY <2>1 DEF Filling
  <2>3. heard' <= taken' /\ cut' <= taken' /\ taken' <= child'.wrote /\ taken' = taken
    BY <1>1, <1>2 DEF Flow
  <2>4. Start' = taken
    BY <1>1, <1>2, <2>3 DEF Start
  <2>5. QueueFrom' = taken /\ QueueTo' = taken
    BY <1>4, <2>2, <2>3, <2>4 DEF QueueFrom, QueueTo
  <2>6. Chain(<<>>, taken, taken)
    BY <1>2, ChainEmpty
  <2> QED BY <1>3, <1>4, <2>2, <2>3, <2>5, <2>6 DEF Flow
<1>10. GatherPlaces'
  <2>1. worker'.generation <= gst'.generation /\ worker' = worker
    BY <1>1, <1>2, <1>3 DEF GatherPlaces
  <2> QED BY <1>3, <1>4, <2>1 DEF GatherPlaces
<1>11. Slotted'
  <2>1. (IF Ahead!Held' THEN 1 ELSE 0) = held /\ (IF gst'.eof THEN 1 ELSE 0) = more
    BY <1>3, <1>5
  <2>2. gst'.free = gst.free + l + Current
    BY <1>3
  <2> HIDE DEF held, more, l
  <2> QED BY <1>2, <1>5, <1>6, <1>7, <2>1, <2>2 DEF Slotted
<1> QED BY <1>8, <1>9, <1>10, <1>11

(* Draining hands on what is read from the PTY at once. *)
LEMMA DrainsKeeps ==
  ASSUME GatherInv, Ahead!ParserDrains
  PROVE  GatherInv'
<1> USE DEF GatherInv
<1>1. /\ parser.pc = "drain"
      /\ UNCHANGED <<child, gst, worker, ready, wake, cut>>
      /\ \/ /\ taken < child.wrote /\ taken' = taken + 1 /\ heard' = taken' /\ UNCHANGED parser
         \/ /\ ~(taken < child.wrote) /\ UNCHANGED <<taken, heard>>
            /\ parser' = [parser EXCEPT !.pc = "done"]
  BY DEF Ahead!ParserDrains
<1>2. /\ parser.current = Ahead!None /\ gst.ready = <<>> /\ parser.draining /\ worker.pc = "gone"
      /\ ~child.open
  BY <1>1 DEF GatherPlaces
<1>3. ~Ahead!Held /\ ~Filling /\ ~Ahead!Held' /\ ~Filling' /\ gst' = gst /\ worker' = worker
      /\ child' = child /\ cut' = cut /\ ready' = ready /\ wake' = wake
  BY <1>1, <1>2 DEF Ahead!Held, Filling
<1>4. /\ taken \in Nat /\ heard \in Nat /\ cut \in Nat /\ child.wrote \in Nat
      /\ heard <= taken /\ cut <= taken /\ taken <= child.wrote
  BY DEF GatherTypes, Flow
<1>5. taken = Start
  <2>1. QueueFrom = Start /\ QueueTo = taken
    BY <1>2, <1>3 DEF QueueFrom, QueueTo
  <2> QED BY <1>2, <2>1 DEF Flow, Chain
<1>6. /\ parser' \in [pc : {"poll", "read", "join", "drain", "done"}, current : Batches \cup {Ahead!None},
                      offset : Nat, draining : BOOLEAN]
      /\ parser'.current = Ahead!None /\ parser'.draining /\ parser'.pc \in {"drain", "done"}
      /\ parser'.pc = "done" => ~(taken < child.wrote) /\ taken' = taken
  <2>1. CASE parser' = parser
    BY <1>1, <1>2, <2>1 DEF GatherTypes
  <2>2. CASE parser' = [parser EXCEPT !.pc = "done"] /\ ~(taken < child.wrote) /\ taken' = taken
    BY <1>2, <2>2 DEF GatherTypes
  <2> QED BY <1>1, <2>1, <2>2
<1>7. /\ taken' \in Nat /\ heard' \in Nat /\ heard' <= taken' /\ cut <= taken'
      /\ taken' <= child.wrote /\ Start' = taken'
  BY <1>1, <1>3, <1>4, <1>5 DEF Start
<1>8. GatherTypes'
  BY <1>3, <1>6, <1>7 DEF GatherTypes
<1>9. Flow'
  <2>1. QueueFrom' = taken' /\ QueueTo' = taken'
    BY <1>3, <1>6, <1>7 DEF QueueFrom, QueueTo
  <2>2. Chain(<<>>, taken', taken')
    BY <1>7, ChainEmpty
  <2> QED BY <1>2, <1>3, <1>6, <1>7, <2>1, <2>2 DEF Flow
<1>10. GatherPlaces'
  <2>1. parser'.pc = "done" => taken' = child'.wrote
    BY <1>3, <1>4, <1>6
  <2>2. /\ worker' = worker /\ gst' = gst /\ child' = child
    BY <1>3
  <2> QED BY <1>2, <1>6, <2>1, <2>2 DEF GatherPlaces
<1>11. Slotted'
  <2>1. Current' = Current /\ (Ahead!Held <=> Ahead!Held')
    BY <1>2, <1>3, <1>6 DEF Current
  <2> QED BY <1>3, <2>1 DEF Slotted
<1> QED BY <1>8, <1>9, <1>10, <1>11
-----------------------------------------------------------------------------
(* Every step of the two threads and of the child keeps IInv. *)
LEMMA GatherStep ==
  ASSUME GatherAssumption, GatherInv, Ahead!Next \/ UNCHANGED Ahead!vars
  PROVE  GatherInv'
<1>1. CASE UNCHANGED Ahead!vars
  <2>1. /\ child' = child /\ taken' = taken /\ gst' = gst /\ worker' = worker
        /\ parser' = parser /\ ready' = ready /\ wake' = wake /\ heard' = heard /\ cut' = cut
    BY <1>1 DEF Ahead!vars
  <2>2. GatherTypes' /\ GatherPlaces'
    BY <2>1 DEF GatherInv, GatherTypes, GatherPlaces
  <2>3. Ahead!Held' = Ahead!Held /\ Filling' = Filling /\ Start' = Start /\ Current' = Current
    BY <2>1 DEF Ahead!Held, Filling, Start, Current
  <2>4. QueueFrom' = QueueFrom /\ QueueTo' = QueueTo
    BY <2>1, <2>3 DEF QueueFrom, QueueTo
  <2>5. Flow' /\ Slotted'
    BY <2>1, <2>3, <2>4 DEF GatherInv, Flow, Slotted
  <2> QED BY <2>2, <2>5 DEF GatherInv
<1>2. CASE Ahead!Next
  BY <1>2, ChildKeeps, TakesBufferKeeps, ReadsKeeps, PollsKeeps, PublishesKeeps,
     ParserMovesKeeps, ParserReadsKeeps, FindsNothingKeeps, ResetsKeeps, DrainsKeeps DEF
     Ahead!Next
<1> QED BY <1>1, <1>2

(* A sequence of one batch. *)
LEMMA ChainOne ==
  ASSUME NEW f \in Nat, NEW l \in Nat, NEW a \in Nat, f = a + 1, f <= l
  PROVE  << <<f, l>> >> \in Seq(Batches) /\ Chain(<< <<f, l>> >>, a, l)
<1> DEFINE s == << <<f, l>> >>
<1>1. <<f, l>> \in Batches
  BY DEF Batches
<1>2. s \in Seq(Batches) /\ Len(s) = 1 /\ s[1] = <<f, l>> /\ s # <<>>
  BY <1>1
<1> HIDE DEF s
<1>3. \A i \in 1..Len(s) : i = 1
  BY <1>2
<1>4. Chain(s, a, l)
  BY <1>2, <1>3 DEF Chain
<1> QED BY <1>2, <1>4 DEF s

(* What is on its way to the parser continues what it heard, or what was   *)
(* cut, up to the last byte read.                                          *)
LEMMA PipelineChain ==
  ASSUME GatherInv
  PROVE  Ahead!Pipeline \in Seq(Batches) /\ Chain(Ahead!Pipeline, Start, taken) /\ Start \in Nat
<1> USE DEF GatherInv
<1> DEFINE p == IF parser.current = Ahead!None THEN <<>> ELSE << <<parser.offset, parser.current[2]>> >>
           w == IF Ahead!Held /\ worker.len > 0 /\ worker.generation = gst.generation
                THEN << <<worker.from, worker.from + worker.len - 1>> >> ELSE <<>>
<1>1. /\ Start \in Nat /\ QueueFrom \in Nat /\ taken \in Nat /\ gst.ready \in Seq(Batches)
      /\ parser.offset \in Nat /\ worker.from \in Nat /\ worker.len \in Nat
      /\ parser.current \in Batches \cup {Ahead!None}
  BY DEF GatherTypes, QueueFrom, Start, Batches
<1>2. p \in Seq(Batches) /\ Chain(p, Start, QueueFrom)
  <2>1. CASE parser.current = Ahead!None
    BY <1>1, <2>1, ChainEmpty DEF QueueFrom
  <2>2. CASE parser.current # Ahead!None
    <3>1. parser.current[2] \in Nat /\ QueueFrom = parser.current[2]
      BY <1>1, <2>2 DEF Batches, QueueFrom
    <3>2. parser.offset = Start + 1 /\ parser.offset <= parser.current[2]
      BY <2>2 DEF Flow
    <3> QED BY <1>1, <2>2, <3>1, <3>2, ChainOne
  <2> QED BY <2>1, <2>2
<1>3. QueueTo \in Nat /\ w \in Seq(Batches) /\ Chain(w, QueueTo, taken)
  <2>1. CASE Filling
    <3>1. worker.from >= 1 /\ worker.from + worker.len - 1 = taken /\ QueueTo = worker.from - 1
          /\ worker.len > 0
      BY <2>1 DEF Flow, QueueTo, Filling
    <3>2. QueueTo \in Nat /\ worker.from = QueueTo + 1 /\ worker.from <= taken
      BY <1>1, <3>1
    <3>3. w = << <<worker.from, taken>> >>
      BY <2>1, <3>1 DEF Filling
    <3> QED BY <1>1, <3>2, <3>3, ChainOne
  <2>2. CASE ~Filling
    BY <1>1, <2>2, ChainEmpty DEF QueueTo, Filling
  <2> QED BY <2>1, <2>2
<1>4. Chain(gst.ready, QueueFrom, QueueTo)
  BY DEF Flow
<1>5. Ahead!Pipeline = (p \o gst.ready) \o w
  BY DEF Ahead!Pipeline
<1> HIDE DEF p, w
<1>6. p \o gst.ready \in Seq(Batches) /\ Chain(p \o gst.ready, Start, QueueTo)
  BY <1>1, <1>2, <1>3, <1>4, ChainConcat
<1> DEFINE r == p \o gst.ready
<1> HIDE DEF r
<1>7. r \in Seq(Batches) /\ Chain(r, Start, QueueTo)
  BY <1>6 DEF r
<1>8. r \o w \in Seq(Batches)
  BY <1>3, <1>7
<1>9. Chain(r \o w, Start, taken)
  BY <1>1, <1>3, <1>7, ChainConcat
<1> QED BY <1>1, <1>5, <1>8, <1>9 DEF r

(* OutputWhole follows: its ends are the start and the ends of the chain,  *)
(* and at the end nothing is on its way and the PTY is empty.              *)
LEMMA Whole == ASSUME GatherInv PROVE Ahead!OutputWhole
<1> DEFINE p == Ahead!Pipeline
           ends == <<Start>> \o [i \in DOMAIN p |-> p[i][2]]
<1>1. p \in Seq(Batches) /\ Chain(p, Start, taken) /\ Start \in Nat
  BY PipelineChain
<1>2. parser.pc = "done" => heard = child.wrote \/ (cut = child.wrote)
  <2> SUFFICES ASSUME parser.pc = "done" PROVE heard = child.wrote \/ cut = child.wrote
    OBVIOUS
  <2>1. taken = child.wrote /\ parser.current = Ahead!None /\ gst.ready = <<>> /\ worker.pc = "gone"
    BY DEF GatherInv, GatherPlaces
  <2>2. QueueFrom = Start /\ QueueTo = taken
    BY <2>1 DEF QueueFrom, QueueTo, Filling, Ahead!Held
  <2>3. Start = taken
    BY <2>1, <2>2 DEF GatherInv, Flow, Chain
  <2> QED BY <2>1, <2>3 DEF Start
<1> HIDE DEF p
<1>3. DOMAIN p = 1..Len(p) /\ Len(p) \in Nat /\ \A i \in 1..Len(p) : p[i][2] \in Nat
  BY <1>1 DEF Batches
<1> DEFINE e == [i \in DOMAIN p |-> p[i][2]]
<1>4. e \in Seq(Nat) /\ Len(e) = Len(p) /\ \A i \in 1..Len(p) : e[i] = p[i][2]
  BY <1>3
<1> HIDE DEF e
<1>5. /\ ends = <<Start>> \o e
      /\ Len(ends) = Len(p) + 1 /\ ends[1] = Start
      /\ \A i \in 1..Len(p) : ends[i + 1] = p[i][2]
  <2>1. ends = <<Start>> \o e
    BY DEF e
  <2>2. <<Start>> \in Seq(Nat) /\ Len(<<Start>>) = 1 /\ <<Start>>[1] = Start
    BY <1>1
  <2>3. Len(<<Start>> \o e) = 1 + Len(e) /\ (<<Start>> \o e)[1] = Start
        /\ \A i \in 1..Len(e) : (<<Start>> \o e)[i + 1] = e[i]
    BY <1>4, <2>2
  <2> QED BY <1>3, <1>4, <2>1, <2>3
<1> HIDE DEF ends
<1>6. ASSUME NEW i \in DOMAIN p PROVE p[i][1] = ends[i] + 1
  <2>1. i \in 1..Len(p)
    BY <1>3
  <2>2. p[i][1] = (IF i = 1 THEN Start ELSE p[i - 1][2]) + 1
    BY <1>1, <2>1 DEF Chain
  <2>3. CASE i = 1
    BY <1>5, <2>2, <2>3
  <2>4. CASE i # 1
    <3>1. i - 1 \in 1..Len(p) /\ (i - 1) + 1 = i
      BY <1>3, <2>1, <2>4
    <3>2. ends[i] = p[i - 1][2]
      BY <1>5, <3>1
    <3> QED BY <2>2, <2>4, <3>2
  <2> QED BY <2>3, <2>4
<1>7. ends[Len(ends)] = taken
  <2>1. CASE p = <<>>
    BY <1>1, <1>5, <2>1 DEF Chain
  <2>2. CASE p # <<>>
    <3>1. Len(p) \in 1..Len(p)
      BY <1>1, <2>2
    <3> QED BY <1>1, <1>5, <2>2, <3>1 DEF Chain
  <2> QED BY <2>1, <2>2
<1> QED BY <1>2, <1>6, <1>7 DEF Ahead!OutputWhole, p, ends, Start

(* Nothing is lost, repeated or stranded on the way.                       *)
LEMMA AheadOfParser ==
  ASSUME GatherAssumption, GatherInv
  PROVE  Ahead!ReadAhead
<1>1. Ahead!OutputWhole
  BY Whole
<1>2. Ahead!NothingStranded
  <2>1. Slotted /\ gst.ready \in Seq(Batches) /\ ready \in Nat
    BY DEF GatherInv, GatherTypes
  <2>2. gst.ready # <<>> => Len(gst.ready) >= 1
    BY <2>1
  <2>3. gst.ready # <<>> \/ parser.current # Ahead!None => ready > 0
    <3> DEFINE l == Len(gst.ready)
    <3>1. l \in Nat /\ l + Current <= ready /\ (gst.ready # <<>> => l >= 1)
      BY <2>1, <2>2 DEF Slotted
    <3> HIDE DEF l
    <3>2. CASE parser.current = Ahead!None
      BY <2>1, <3>1, <3>2 DEF Current
    <3>3. CASE parser.current # Ahead!None
      BY <2>1, <3>1, <3>3 DEF Current
    <3> QED BY <3>2, <3>3
  <2> QED BY <2>1, <2>3 DEF Ahead!NothingStranded, Slotted, Current
<1> QED BY <1>1, <1>2 DEF Ahead!ReadAhead

(* The queue and the socket never hold more than SLOTS batches and the end *)
(* of the output.                                                          *)
LEMMA QueueBounded ==
  ASSUME GatherAssumption, GatherInv
  PROVE  Ahead!TypeOK
<1> DEFINE l == Len(gst.ready)
           held == IF Ahead!Held THEN 1 ELSE 0
           more == IF gst.eof THEN 1 ELSE 0
<1>1. /\ gst.free \in Nat /\ l \in Nat /\ ready \in Nat /\ Buffers \in Nat
      /\ worker.pc \in {"top", "read", "poll", "publish", "gone"}
      /\ parser.pc \in {"poll", "read", "join", "drain", "done"}
  BY DEF GatherInv, GatherTypes, GatherAssumption
<1>2. Current \in {0, 1} /\ held \in {0, 1} /\ more \in {0, 1}
  BY DEF Current
<1>3. gst.free + l + Current + held = Buffers /\ ready <= l + Current + more
  BY DEF GatherInv, Slotted
<1> HIDE DEF l, held, more
<1>4. gst.free \in 0..Buffers /\ l <= Buffers /\ ready \in 0..(Buffers + 1)
  BY <1>1, <1>2, <1>3
<1> QED BY <1>1, <1>4 DEF Ahead!TypeOK, l



-----------------------------------------------------------------------------
(* The sessions on disk. *)
Life == Lives \cup {NoLife}
Stages == {"unborn", "prepare", "probe", "unlink", "bind", "bound", "running", "guard", "files",
           "gone", "refused", "stuck", "barred"}
Over == {"unborn", "gone", "refused", "stuck", "barred"}

(* A life that wrote its record, whatever became of it. *)
Published(l) == l \in Lives /\ daemon[l].at \in {"running", "guard", "files", "gone"}
Gone(l) == l \in Lives /\ daemon[l].at = "gone"

SessionTypes ==
  /\ registry \in Life /\ socket \in [Paths -> Life] /\ launched \in Launches
  /\ holder \in [Pids -> Life \cup {Other}]
  /\ daemon \in [Lives -> [pid : Pids \cup {0}, headless : BOOLEAN, at : Stages]]
  /\ client \in [Clients -> [at : {"idle", "read", "open", "pinned", "signal", "reaping"},
                             read : Life, pidfd : Life \cup {Other}]]
  /\ rm \in [Disk!Processes -> [at : {"idle", "first", "second", "socket", "third", "registry"},
                                expected : Life]]
  /\ overlapped \in BOOLEAN

(* A PID names the one process that has it. *)
Holders ==
  /\ \A l \in Lives : /\ daemon[l].at # "unborn" => daemon[l].pid \in Pids
                      /\ daemon[l].at \notin Over => holder[daemon[l].pid] = l
  /\ \A p \in Pids : holder[p] \in Lives =>
       daemon[holder[p]].at \notin Over /\ daemon[holder[p]].pid = p

(* What was read from the registry is a life that wrote it. *)
Records ==
  /\ registry # NoLife => Published(registry)
  /\ \A c \in Clients :
       /\ client[c].at # "idle" => Published(client[c].read)
       /\ client[c].at = "pinned" => client[c].pidfd = client[c].read \/ Gone(client[c].read)
       /\ client[c].at = "signal" => client[c].pidfd = client[c].read

(* What is removed belongs to a process that is over, or is its own. *)
ExpectedOf(a) ==
  /\ rm[a].at # "idle" =>
       \/ Gone(rm[a].expected)
       \/ a \in Lives /\ rm[a].expected = a /\ daemon[a].at = "guard"
  /\ a \in Lives /\ rm[a].at # "idle" => daemon[a].at \in {"prepare", "guard"}
Expected == \A a \in Disk!Processes : ExpectedOf(a)

(* At most one process is at work at a time, unless two have been before. *)
Alone ==
  ~overlapped => \A a, b \in Disk!Processes : a # b => ~(Disk!Busy(a) /\ Disk!Busy(b))

(* What the files hold while process a is about its work. *)
FilesOf(a) ==
  /\ rm[a].at \in {"socket", "third", "registry"} => registry = rm[a].expected
  /\ rm[a].at \in {"third", "registry"} => Disk!Bound(rm[a].expected) = NoLife
  /\ a \in Lives =>
       /\ rm[a].at # "idle" =>
            registry = rm[a].expected /\ Disk!Path(rm[a].expected) = Disk!Path(a)
       /\ daemon[a].at \in {"probe", "unlink", "bind", "bound"} => registry = NoLife
       /\ daemon[a].at = "bind" => Disk!Bound(a) = NoLife
       /\ daemon[a].at = "bound" => Disk!Bound(a) = a
       /\ daemon[a].at \in {"guard", "files"} => \A m \in Lives : daemon[m].at # "running"

Files == ~overlapped => \A a \in Disk!Processes : FilesOf(a)

-----------------------------------------------------------------------------
(* What holds however processes overlap. *)
Always == SessionTypes /\ Holders /\ Records /\ Expected /\ Disk!SignalsTheRecorded

(* The ways a step changes a life: none, on to another stage, over, and born.  *)
Continues(l) ==
  \E at \in Stages : /\ Disk!Live(l) /\ Disk!Goes(l, at) /\ at \notin {"unborn", "gone", "refused", "stuck", "barred"}
                     /\ Published(l) => at \in {"running", "guard", "files"}
Ends(l) ==
  \E at \in {"gone", "refused", "stuck", "barred"} :
    Disk!Live(l) /\ Disk!Leaves(l, at) /\ (Published(l) => at = "gone")
Born(l) ==
  /\ daemon[l].at = "unborn"
  /\ \E p \in Pids :
       /\ holder[p] = NoLife
       /\ holder' = [holder EXCEPT ![p] = l]
       /\ daemon' = [daemon EXCEPT ![l] = [@ EXCEPT !.pid = p, !.at = "prepare"]]
Same ==
  /\ UNCHANGED daemon
  /\ \/ UNCHANGED holder
     \/ \E p \in Pids : /\ holder[p] \notin Lives
                        /\ \E x \in {Other, NoLife} : holder' = [holder EXCEPT ![p] = x]

(* A record is matched exactly by a process that is not over. *)
LEMMA MatchIsLive ==
  ASSUME SessionsAssumption, SessionTypes, Holders, NEW l \in Lives, Published(l)
  PROVE  /\ Disk!registry_process_matches(l) <=> Disk!Live(l)
         /\ ~Disk!Live(l) <=> Gone(l)
<1>1. ~Disk!Live(l) <=> Gone(l)
  BY DEF Published, Disk!Live, Gone
<1>2. CASE Disk!Live(l)
  BY <1>1, <1>2 DEF Holders, Disk!registry_process_matches, Disk!Live, Over
<1>3. CASE ~Disk!Live(l)
  <2>1. daemon[l].pid \in Pids
    BY DEF Holders, Published
  <2>. QED BY <1>1, <1>3, <2>1 DEF Holders, Disk!registry_process_matches, Disk!Live, Over
<1>. QED BY <1>2, <1>3, <1>1

(* Lives go on, end and begin without two of them ever sharing a PID, and a    *)
(* life that was over stays over.                                              *)
LEMMA HoldersKept ==
  ASSUME SessionsAssumption, SessionTypes, Holders,
         Same \/ \E l \in Lives : Continues(l) \/ Ends(l) \/ Born(l)
  PROVE  /\ Holders'
         /\ daemon' \in [Lives -> [pid : Pids \cup {0}, headless : BOOLEAN, at : Stages]]
         /\ holder' \in [Pids -> Life \cup {Other}]
         /\ \A m : Published(m) => Published(m)'
         /\ \A m : Gone(m) => Gone(m)'
<1>. USE DEF SessionsAssumption, Life
<1>1. CASE Same
  <2>1. /\ holder' \in [Pids -> Life \cup {Other}] /\ daemon' = daemon
        /\ \A p \in Pids : holder'[p] # holder[p] => holder[p] \notin Lives /\ holder'[p] \notin Lives
    BY <1>1 DEF Same, SessionTypes
  <2>2. Holders'
    <3>1. \A m \in Lives : /\ daemon'[m].at # "unborn" => daemon'[m].pid \in Pids
                           /\ daemon'[m].at \notin Over => holder'[daemon'[m].pid] = m
      BY <2>1 DEF Holders, Over
    <3>2. \A p \in Pids : holder'[p] \in Lives =>
            daemon'[holder'[p]].at \notin Over /\ daemon'[holder'[p]].pid = p
      BY <2>1 DEF Holders
    <3>. QED BY <3>1, <3>2 DEF Holders
  <2>. QED BY <2>1, <2>2 DEF SessionTypes, Published, Gone
<1>2. ASSUME NEW l \in Lives, Continues(l)
      PROVE  /\ Holders'
             /\ daemon' \in [Lives -> [pid : Pids \cup {0}, headless : BOOLEAN, at : Stages]]
             /\ holder' \in [Pids -> Life \cup {Other}]
             /\ \A m : Published(m) => Published(m)'
             /\ \A m : Gone(m) => Gone(m)'
  <2>1. PICK at \in Stages : /\ Disk!Live(l) /\ Disk!Goes(l, at)
                             /\ at \notin {"unborn", "gone", "refused", "stuck", "barred"}
                             /\ Published(l) => at \in {"running", "guard", "files"}
    BY <1>2 DEF Continues
  <2>2. /\ \A m \in Lives : daemon'[m].pid = daemon[m].pid /\ (m # l => daemon'[m] = daemon[m])
        /\ daemon'[l].at = at /\ holder' = holder /\ Disk!Live(l)'
        /\ daemon' \in [Lives -> [pid : Pids \cup {0}, headless : BOOLEAN, at : Stages]]
    BY <2>1 DEF Disk!Goes, SessionTypes, Disk!Live
  <2>3. \A m \in Lives : Disk!Live(m)' <=> Disk!Live(m)
    BY <2>1, <2>2 DEF Disk!Live
  <2>4. Holders'
    BY <2>1, <2>2, <2>3 DEF Holders, SessionTypes, Disk!Live, Over
  <2>5. \A m : (Published(m) => Published(m)') /\ (Gone(m) => Gone(m)')
    BY <2>1, <2>2 DEF Published, Gone, Disk!Live
  <2>. QED BY <2>2, <2>4, <2>5 DEF SessionTypes
<1>3. ASSUME NEW l \in Lives, Ends(l)
      PROVE  /\ Holders'
             /\ daemon' \in [Lives -> [pid : Pids \cup {0}, headless : BOOLEAN, at : Stages]]
             /\ holder' \in [Pids -> Life \cup {Other}]
             /\ \A m : Published(m) => Published(m)'
             /\ \A m : Gone(m) => Gone(m)'
  <2>1. PICK at \in {"gone", "refused", "stuck", "barred"} :
          Disk!Live(l) /\ Disk!Leaves(l, at) /\ (Published(l) => at = "gone")
    BY <1>3 DEF Ends
  <2>2. /\ \A m \in Lives : daemon'[m].pid = daemon[m].pid /\ (m # l => daemon'[m] = daemon[m])
        /\ daemon'[l].at = at /\ ~Disk!Live(l)'
        /\ daemon' \in [Lives -> [pid : Pids \cup {0}, headless : BOOLEAN, at : Stages]]
    BY <2>1 DEF Disk!Leaves, SessionTypes, Disk!Live, Stages
  <2>3. /\ daemon[l].pid \in Pids /\ holder[daemon[l].pid] = l
        /\ holder' = [holder EXCEPT ![daemon[l].pid] = NoLife]
    BY <2>1 DEF Disk!Leaves, Holders, Disk!Live, Over
  <2>5. Holders'
    <3>1. \A m \in Lives : /\ daemon'[m].at # "unborn" => daemon'[m].pid \in Pids
                           /\ daemon'[m].at \notin Over => holder'[daemon'[m].pid] = m
      <4>. SUFFICES ASSUME NEW m \in Lives
                    PROVE  /\ daemon'[m].at # "unborn" => daemon'[m].pid \in Pids
                           /\ daemon'[m].at \notin Over => holder'[daemon'[m].pid] = m
        OBVIOUS
      <4>1. CASE m = l
        BY <2>2, <2>3, <4>1 DEF Over
      <4>2. CASE m # l
        BY <2>2, <2>3, <4>2 DEF Holders, SessionTypes
      <4>. QED BY <4>1, <4>2
    <3>2. \A p \in Pids : holder'[p] \in Lives =>
            daemon'[holder'[p]].at \notin Over /\ daemon'[holder'[p]].pid = p
      <4>. SUFFICES ASSUME NEW p \in Pids, holder'[p] \in Lives
                    PROVE  daemon'[holder'[p]].at \notin Over /\ daemon'[holder'[p]].pid = p
        OBVIOUS
      <4>1. p # daemon[l].pid /\ holder'[p] = holder[p]
        BY <2>3 DEF SessionTypes
      <4>2. holder[p] # l
        BY <4>1, <2>3 DEF Holders
      <4>. QED BY <4>1, <4>2, <2>2 DEF Holders
    <3>. QED BY <3>1, <3>2 DEF Holders
  <2>6. \A m : (Published(m) => Published(m)') /\ (Gone(m) => Gone(m)')
    BY <2>1, <2>2 DEF Published, Gone, Disk!Live
  <2>. QED BY <2>2, <2>3, <2>5, <2>6 DEF SessionTypes
<1>4. ASSUME NEW l \in Lives, Born(l)
      PROVE  /\ Holders'
             /\ daemon' \in [Lives -> [pid : Pids \cup {0}, headless : BOOLEAN, at : Stages]]
             /\ holder' \in [Pids -> Life \cup {Other}]
             /\ \A m : Published(m) => Published(m)'
             /\ \A m : Gone(m) => Gone(m)'
  <2>1. PICK p \in Pids :
          /\ holder[p] = NoLife
          /\ holder' = [holder EXCEPT ![p] = l]
          /\ daemon' = [daemon EXCEPT ![l] = [@ EXCEPT !.pid = p, !.at = "prepare"]]
    BY <1>4 DEF Born
  <2>2. /\ \A m \in Lives : m # l => daemon'[m] = daemon[m]
        /\ daemon'[l].pid = p /\ daemon'[l].at = "prepare" /\ daemon[l].at = "unborn"
        /\ daemon' \in [Lives -> [pid : Pids \cup {0}, headless : BOOLEAN, at : Stages]]
    <3>. DEFINE born == [daemon[l] EXCEPT !.pid = p, !.at = "prepare"]
    <3>0. daemon[l] \in [pid : Pids \cup {0}, headless : BOOLEAN, at : Stages]
      BY DEF SessionTypes
    <3>1. /\ born \in [pid : Pids \cup {0}, headless : BOOLEAN, at : Stages]
          /\ born.pid = p /\ born.at = "prepare" /\ daemon[l].at = "unborn"
      BY ONLY <1>4, <3>0 DEF Born, Stages
    <3>2. daemon' = [daemon EXCEPT ![l] = born]
      BY <2>1
    <3>. HIDE DEF born
    <3>. QED BY <3>1, <3>2 DEF SessionTypes
  <2>3. Holders'
    <3>1. \A m \in Lives : /\ daemon'[m].at # "unborn" => daemon'[m].pid \in Pids
                           /\ daemon'[m].at \notin Over => holder'[daemon'[m].pid] = m
      <4>. SUFFICES ASSUME NEW m \in Lives
                    PROVE  /\ daemon'[m].at # "unborn" => daemon'[m].pid \in Pids
                           /\ daemon'[m].at \notin Over => holder'[daemon'[m].pid] = m
        OBVIOUS
      <4>1. CASE m = l
        BY <2>1, <2>2, <4>1 DEF SessionTypes
      <4>2. CASE m # l
        BY <2>1, <2>2, <4>2 DEF Holders, SessionTypes, Over
      <4>. QED BY <4>1, <4>2
    <3>2. \A q \in Pids : holder'[q] \in Lives =>
            daemon'[holder'[q]].at \notin Over /\ daemon'[holder'[q]].pid = q
      <4>. SUFFICES ASSUME NEW q \in Pids, holder'[q] \in Lives
                    PROVE  daemon'[holder'[q]].at \notin Over /\ daemon'[holder'[q]].pid = q
        OBVIOUS
      <4>1. CASE q = p
        BY <2>1, <2>2, <4>1 DEF SessionTypes, Over
      <4>2. CASE q # p
        <5>1. holder'[q] = holder[q] /\ daemon[holder[q]].at \notin Over
          BY <2>1, <4>2 DEF SessionTypes, Holders
        <5>. QED BY <2>2, <5>1 DEF Holders, Over
      <4>. QED BY <4>1, <4>2
    <3>. QED BY <3>1, <3>2 DEF Holders
  <2>4. \A m : (Published(m) => Published(m)') /\ (Gone(m) => Gone(m)')
    BY <2>2 DEF Published, Gone
  <2>. QED BY <2>1, <2>2, <2>3, <2>4 DEF SessionTypes
<1>. QED BY <1>1, <1>2, <1>3, <1>4

(* What remove_instance's caller does next is one of these. *)
LEMMA RmDoneShape ==
  ASSUME Always, NEW a \in Disk!Processes, rm[a].at # "idle", NEW failed \in BOOLEAN,
         Disk!RmDone(a, failed)
  PROVE  Same \/ (a \in Lives /\ (Continues(a) \/ Ends(a)))
<1>1. CASE a \in Lives /\ daemon[a].at = "prepare"
  <2>1. Disk!Live(a) /\ ~Published(a)
    BY <1>1 DEF Disk!Live, Published
  <2>2. CASE Disk!Refuse(a)
    BY <1>1, <2>1, <2>2 DEF Disk!Refuse, Ends
  <2>3. CASE Disk!Goes(a, "bind")
    BY <1>1, <2>1, <2>3 DEF Continues, Stages
  <2>4. CASE Same
    BY <2>4
  <2>. QED BY <1>1, <2>2, <2>3, <2>4 DEF Disk!RmDone, Same
<1>2. CASE a \in Lives /\ daemon[a].at = "guard"
  <2>1. Disk!Live(a)
    BY <1>2 DEF Disk!Live
  <2>2. CASE Disk!EndLife(a)
    BY <1>2, <2>1, <2>2 DEF Disk!EndLife, Ends
  <2>3. CASE Disk!Goes(a, "files")
    BY <1>2, <2>1, <2>3 DEF Continues, Stages
  <2>4. CASE Same
    BY <2>4
  <2>5. daemon[a].headless \in BOOLEAN
    BY <1>2 DEF Always, SessionTypes
  <2>. QED BY <1>2, <2>2, <2>3, <2>4, <2>5 DEF Disk!RmDone, Same
<1>3. CASE a \notin Lives
  BY <1>3 DEF Disk!RmDone, Same
<1>. QED BY <1>1, <1>2, <1>3 DEF Always, Expected, ExpectedOf, Disk!Processes

(* A read that does not find the record ends the removal, failed or not. *)
LEMMA ReadFails ==
  ASSUME NEW a, Disk!RmRead(a), registry # rm[a].expected
  PROVE  \E failed \in BOOLEAN : Disk!RmDone(a, failed)
<1>. DEFINE failed == /\ rm[a].at = "first" /\ registry # NoLife
                      /\ ~Disk!validate_identity(a, registry, Disk!Path(rm[a].expected))
<1>1. Disk!RmDone(a, failed)
  BY DEF Disk!RmRead
<1>2. failed \in BOOLEAN
  OBVIOUS
<1>. HIDE DEF failed
<1>. QED BY <1>1, <1>2

(* So is every step of a process. *)
LEMMA StepShape ==
  ASSUME SessionsAssumption, Always, Disk!Step
  PROVE  Same \/ \E l \in Lives : Continues(l) \/ Ends(l) \/ Born(l)
<1>1. ASSUME NEW a \in Disk!Processes, Disk!RmRead(a) \/ Disk!RmSocket(a) \/ Disk!RmRegistry(a)
      PROVE  Same \/ \E l \in Lives : Continues(l) \/ Ends(l) \/ Born(l)
  <2>1. Same \/ \E failed \in BOOLEAN : rm[a].at # "idle" /\ Disk!RmDone(a, failed)
    BY <1>1, ReadFails DEF Disk!RmRead, Disk!RmSocket, Disk!RmRegistry, Same
  <2>. QED BY <2>1, RmDoneShape
<1>2. ASSUME NEW l \in Lives,
             \/ Disk!Birth(l) \/ Disk!prepare_endpoint(l) \/ Disk!Probe(l) \/ Disk!Unlink(l) \/ Disk!bind(l)
             \/ Disk!write_registry(l)
      PROVE  Same \/ Continues(l) \/ Ends(l) \/ Born(l)
  <2>1. CASE Disk!Birth(l)
    BY <2>1 DEF Disk!Birth, Born
  <2>2. CASE Disk!prepare_endpoint(l) \/ Disk!Probe(l) \/ Disk!Unlink(l) \/ Disk!bind(l) \/ Disk!write_registry(l)
    <3>1. Disk!Live(l) /\ ~Published(l)
      BY <2>2 DEF Disk!prepare_endpoint, Disk!Probe, Disk!Unlink, Disk!bind,
         Disk!write_registry, Disk!Live, Published
    <3>2. \/ UNCHANGED <<daemon, holder>> \/ Disk!Refuse(l) \/ Disk!Leaves(l, "barred")
          \/ \E at \in {"probe", "unlink", "bind", "bound", "running"} : Disk!Goes(l, at)
      BY <2>2 DEF Disk!prepare_endpoint, Disk!Probe, Disk!Unlink, Disk!bind, Disk!write_registry
    <3>. QED BY <3>1, <3>2 DEF Same, Disk!Refuse, Ends, Continues, Stages
  <2>. QED BY <1>2, <2>1, <2>2
<1>3. ASSUME NEW l \in Lives, Disk!EndHeadless(l) \/ Disk!EndHeaded(l) \/ Disk!TemporaryFiles(l) \/ Disk!Crash(l)
      PROVE  Continues(l) \/ Ends(l)
  <2>1. Disk!Live(l)
    BY <1>3 DEF Disk!EndHeadless, Disk!EndHeaded, Disk!TemporaryFiles, Disk!Crash, Disk!Live
  <2>2. Disk!EndLife(l) \/ (daemon[l].at = "running" /\ Disk!Goes(l, "guard"))
    BY <1>3 DEF Disk!EndHeadless, Disk!EndHeaded, Disk!TemporaryFiles, Disk!Crash
  <2>. QED BY <2>1, <2>2 DEF Disk!EndLife, Ends, Continues, Stages
<1>4. ASSUME NEW c \in Clients,
             \/ Disk!ReadRegistry(c) \/ Disk!registered_instance(c) \/ Disk!OpenPidfd(c) \/ Disk!Recheck(c)
             \/ Disk!signal_session(c)
      PROVE  Same
  BY <1>4 DEF Disk!ReadRegistry, Disk!registered_instance, Disk!OpenPidfd, Disk!Recheck,
     Disk!signal_session, Same
<1>5. ASSUME NEW p \in Pids, Disk!Recycle(p)
      PROVE  Same
  <2>1. CASE holder[p] = NoLife
    BY <1>5, <2>1 DEF Disk!Recycle, Same, SessionsAssumption
  <2>. QED BY <1>5, <2>1 DEF Disk!Recycle, Same, SessionsAssumption
<1>. QED BY <1>1, <1>2, <1>3, <1>4, <1>5 DEF Disk!Step

(* What the registry records afterwards is a life that has written it. *)
LEMMA FilesTypes ==
  ASSUME SessionsAssumption, Always, Disk!Step
  PROVE  /\ registry' \in Life /\ socket' \in [Paths -> Life]
         /\ registry' # NoLife => Published(registry)'
<1>1. \A m : Published(m) => Published(m)'
  BY StepShape, HoldersKept DEF Always
<1>2. socket' \in [Paths -> Life]
  <2>1. \/ socket' = socket
        \/ \E p, l : socket' = [socket EXCEPT ![p] = l] /\ l \in Life
    BY DEF Life, Disk!Unlinked, Disk!Step, Disk!RmRead, Disk!RmSocket, Disk!RmRegistry, Disk!Birth,
       Disk!prepare_endpoint, Disk!Probe, Disk!Unlink, Disk!bind, Disk!write_registry,
       Disk!EndHeadless, Disk!EndHeaded, Disk!TemporaryFiles, Disk!Crash, Disk!ReadRegistry,
       Disk!registered_instance, Disk!OpenPidfd, Disk!Recheck, Disk!signal_session, Disk!Recycle
  <2>2. socket \in [Paths -> Life]
    BY DEF Always, SessionTypes
  <2>. QED BY <2>1, <2>2
<1>3. \/ registry' = registry \/ registry' = NoLife
      \/ \E l \in Lives : registry' = l /\ Published(l)'
  <2>1. ASSUME NEW l \in Lives, Disk!write_registry(l)
        PROVE  registry' = l /\ Published(l)'
    BY <2>1 DEF Disk!write_registry, Disk!Goes, Published, Always, SessionTypes
  <2>. QED BY <2>1 DEF Disk!Step, Disk!RmRead, Disk!RmSocket, Disk!RmRegistry, Disk!Birth,
              Disk!prepare_endpoint, Disk!Probe, Disk!Unlink, Disk!bind, Disk!EndHeadless,
              Disk!EndHeaded, Disk!TemporaryFiles, Disk!Crash, Disk!ReadRegistry,
              Disk!registered_instance, Disk!OpenPidfd, Disk!Recheck, Disk!signal_session,
              Disk!Recycle
<1>4. registry' \in Life
  BY <1>3 DEF Always, SessionTypes, Life
<1>5. ASSUME registry' # NoLife PROVE Published(registry)'
  <2>1. CASE registry' = registry
    <3>1. Published(registry)
      BY <1>5, <2>1 DEF Always, Records
    <3>. QED BY <1>1, <2>1, <3>1 DEF Published
  <2>2. ASSUME NEW l \in Lives, registry' = l, Published(l)'
        PROVE  Published(registry)'
    BY <2>2 DEF Published
  <2>. QED BY <1>3, <1>5, <2>1, <2>2
<1>. QED BY <1>2, <1>4, <1>5

(* A record found without its process is that of a life that is over. *)
LEMMA MismatchIsGone ==
  ASSUME SessionsAssumption, Always
  PROVE  /\ registry # NoLife /\ ~Disk!registry_process_matches(registry) => Gone(registry)
         /\ \A c \in Clients :
              client[c].at # "idle" /\ ~Disk!registry_process_matches(client[c].read)
                => Gone(client[c].read)
BY MatchIsLive DEF Always, Records, Published

Removals == [at : {"idle", "first", "second", "socket", "third", "registry"}, expected : Life]

(* A step of process a leaves what the others are about. *)
Elsewhere(a) ==
  /\ rm' \in [Disk!Processes -> Removals]
  /\ \A b \in Disk!Processes : b # a => rm'[b] = rm[b]
  /\ \A l \in Lives : l # a => daemon'[l] = daemon[l]

LEMMA RmDoneElsewhere ==
  ASSUME Always, NEW a \in Disk!Processes, rm[a].at # "idle", NEW failed \in BOOLEAN,
         Disk!RmDone(a, failed)
  PROVE  Elsewhere(a) /\ rm'[a].at = "idle"
<1>1. \/ UNCHANGED daemon
      \/ a \in Lives /\ \E at \in Stages : daemon' = [daemon EXCEPT ![a].at = at]
  BY RmDoneShape DEF Same, Continues, Ends, Disk!Goes, Disk!Leaves, Stages
<1>2. \A l \in Lives : l # a => daemon'[l] = daemon[l]
  BY <1>1 DEF Always, SessionTypes
<1>3. rm \in [Disk!Processes -> Removals] /\ rm' = [rm EXCEPT ![a] = [at |-> "idle", expected |-> NoLife]]
  BY DEF Disk!RmDone, Always, SessionTypes, Removals
<1>4. [at |-> "idle", expected |-> NoLife] \in Removals
  BY DEF Removals, Life
<1>5. rm' \in [Disk!Processes -> Removals] /\ rm'[a].at = "idle" /\ \A b \in Disk!Processes : b # a => rm'[b] = rm[b]
  BY <1>3, <1>4
<1>. QED BY <1>2, <1>5 DEF Elsewhere

(* What is removed is gone or one's own after each process's step. *)
LEMMA ExpectedKept ==
  ASSUME SessionsAssumption, Always, NEW a,
         \/ a \in Disk!Processes /\ (Disk!RmRead(a) \/ Disk!RmSocket(a) \/ Disk!RmRegistry(a))
         \/ a \in Lives /\ (\/ Disk!Birth(a) \/ Disk!prepare_endpoint(a) \/ Disk!Probe(a) \/ Disk!Unlink(a) \/ Disk!bind(a)
                            \/ Disk!write_registry(a) \/ Disk!EndHeadless(a) \/ Disk!EndHeaded(a)
                            \/ Disk!TemporaryFiles(a) \/ Disk!Crash(a))
         \/ a \in Clients /\ (\/ Disk!ReadRegistry(a) \/ Disk!registered_instance(a) \/ Disk!OpenPidfd(a)
                              \/ Disk!Recheck(a) \/ Disk!signal_session(a)),
         \A m : Gone(m) => Gone(m)'
  PROVE  Elsewhere(a) /\ Expected'
<1>1. /\ rm \in [Disk!Processes -> Removals] /\ Lives \subseteq Disk!Processes /\ Clients \subseteq Disk!Processes
      /\ daemon \in [Lives -> [pid : Pids \cup {0}, headless : BOOLEAN, at : Stages]]
      /\ registry \in Life /\ \A c \in Clients : client[c].read \in Life
      /\ NoLife \in Life
  BY DEF Always, SessionTypes, Removals, Disk!Processes, Life
<1>2. ASSUME Elsewhere(a), a \in Disk!Processes => ExpectedOf(a)'
      PROVE  Expected'
  <2>. SUFFICES ASSUME NEW b \in Disk!Processes PROVE ExpectedOf(b)'
    BY DEF Expected
  <2>1. CASE b = a
    BY <1>2, <2>1
  <2>2. CASE b # a
    <3>1. rm'[b] = rm[b] /\ (b \in Lives => daemon'[b] = daemon[b]) /\ ExpectedOf(b)
      BY <1>2, <2>2 DEF Elsewhere, Always, Expected
    <3>2. Gone(rm[b].expected) => Gone(rm[b].expected)'
      <4>. DEFINE m == rm[b].expected
      <4>1. \A x : Gone(x) => (x \in Lives /\ daemon'[x].at = "gone")
        BY DEF Gone
      <4>2. Gone(m) => m \in Lives /\ daemon'[m].at = "gone"
        BY <4>1
      <4>. QED BY <3>1, <4>2 DEF Gone
    <3>. QED BY <3>1, <3>2 DEF ExpectedOf, Gone
  <2>. QED BY <2>1, <2>2
<1>3. CASE a \in Disk!Processes /\ Disk!RmRead(a)
  <2>1. CASE registry = rm[a].expected
    <3>1. \E at \in {"second", "socket", "registry"} :
            rm' = [rm EXCEPT ![a].at = at] /\ UNCHANGED daemon /\ rm[a].at # "idle"
      BY <1>3, <2>1 DEF Disk!RmRead
    <3>2. Elsewhere(a) /\ rm'[a].expected = rm[a].expected
      BY <1>1, <1>3, <3>1 DEF Elsewhere, Removals
    <3>3. ExpectedOf(a)'
      BY <1>3, <3>1, <3>2 DEF ExpectedOf, Always, Expected, Gone
    <3>. QED BY <1>2, <3>2, <3>3
  <2>2. CASE registry # rm[a].expected
    <3>1. \E failed \in BOOLEAN : Disk!RmDone(a, failed)
      BY <1>3, <2>2, ReadFails DEF Disk!RmRead
    <3>2. Elsewhere(a) /\ rm'[a].at = "idle"
      BY <1>3, <3>1, RmDoneElsewhere DEF Disk!RmRead
    <3>. QED BY <1>2, <3>2 DEF ExpectedOf
  <2>. QED BY <2>1, <2>2
<1>4. CASE a \in Disk!Processes /\ Disk!RmSocket(a)
  <2>1. rm' = [rm EXCEPT ![a].at = "third"] /\ UNCHANGED daemon /\ rm[a].at # "idle"
    BY <1>4 DEF Disk!RmSocket
  <2>2. Elsewhere(a) /\ rm'[a].expected = rm[a].expected
    BY <1>1, <1>4, <2>1 DEF Elsewhere, Removals
  <2>3. ExpectedOf(a)'
    BY <1>4, <2>1, <2>2 DEF ExpectedOf, Always, Expected, Gone
  <2>. QED BY <1>2, <2>2, <2>3
<1>5. CASE a \in Disk!Processes /\ Disk!RmRegistry(a)
  <2>1. Disk!RmDone(a, registry = NoLife) /\ (registry = NoLife) \in BOOLEAN
    BY <1>5 DEF Disk!RmRegistry
  <2>2. Elsewhere(a) /\ rm'[a].at = "idle"
    <3>. DEFINE failed == registry = NoLife
    <3>1. failed \in BOOLEAN /\ Disk!RmDone(a, failed)
      BY <2>1
    <3>. HIDE DEF failed
    <3>. QED BY <1>5, <3>1, RmDoneElsewhere DEF Disk!RmRegistry
  <2>. QED BY <1>2, <2>2 DEF ExpectedOf
(* The starts of a removal. *)
<1>6. ASSUME a \in Disk!Processes, NEW l \in Life, Disk!remove_instance(a, l), Gone(l)' \/ (l = a /\ a \in Lives /\ daemon'[a].at = "guard"),
             a \in Lives => daemon'[a].at \in {"prepare", "guard"},
             \A m \in Lives : m # a => daemon'[m] = daemon[m]
      PROVE  Elsewhere(a) /\ Expected'
  <2>1. Elsewhere(a) /\ rm'[a] = [at |-> "first", expected |-> l]
    BY <1>1, <1>6 DEF Disk!remove_instance, Elsewhere, Removals
  <2>. QED BY <1>2, <1>6, <2>1 DEF ExpectedOf, Gone, Life
<1>7. ASSUME UNCHANGED rm, a \in Lives => rm[a].at = "idle" \/ daemon'[a] = daemon[a],
             \A m \in Lives : m # a => daemon'[m] = daemon[m]
      PROVE  Elsewhere(a) /\ Expected'
  <2>1. Elsewhere(a)
    BY <1>1, <1>7 DEF Elsewhere
  <2>2. a \in Disk!Processes => ExpectedOf(a)'
    BY <1>7 DEF ExpectedOf, Always, Expected, Gone
  <2>. QED BY <1>2, <2>1, <2>2
<1>8. CASE a \in Lives /\ (\/ Disk!Birth(a) \/ Disk!Probe(a) \/ Disk!Unlink(a) \/ Disk!bind(a) \/ Disk!write_registry(a)
                          \/ Disk!TemporaryFiles(a))
  <2>1. UNCHANGED rm /\ daemon[a].at \notin {"prepare", "guard"}
    BY <1>8 DEF Disk!Birth, Disk!Probe, Disk!Unlink, Disk!bind, Disk!write_registry,
       Disk!TemporaryFiles
  <2>2. rm[a].at = "idle"
    BY <1>1, <1>8, <2>1 DEF Always, Expected, ExpectedOf
  <2>3. \A m \in Lives : m # a => daemon'[m] = daemon[m]
    BY <1>1, <1>8 DEF Disk!Birth, Disk!Probe, Disk!Unlink, Disk!bind, Disk!write_registry,
       Disk!TemporaryFiles, Disk!Goes, Disk!Refuse, Disk!Leaves, Disk!EndLife
  <2>. QED BY <1>7, <2>1, <2>2, <2>3
<1>9. CASE a \in Lives /\ Disk!prepare_endpoint(a)
  <2>1. \A m \in Lives : m # a => daemon'[m] = daemon[m]
    BY <1>1, <1>9 DEF Disk!prepare_endpoint, Disk!Goes, Disk!Refuse, Disk!Leaves
  <2>2. CASE Disk!remove_instance(a, registry) /\ UNCHANGED daemon /\ Gone(registry)
    <3>1. daemon'[a].at = "prepare" /\ a \in Disk!Processes
      BY <1>1, <1>9, <2>2 DEF Disk!prepare_endpoint
    <3>. QED BY <1>1, <1>2, <2>1, <2>2, <3>1 DEF Disk!remove_instance, Elsewhere, Removals,
                ExpectedOf, Gone
  <2>3. CASE UNCHANGED rm
    <3>1. rm[a].at = "idle"
      BY <1>9 DEF Disk!prepare_endpoint
    <3>. QED BY <1>7, <2>1, <2>3, <3>1
  <2>. QED BY <1>9, <2>2, <2>3, MismatchIsGone DEF Disk!prepare_endpoint
<1>10. CASE a \in Lives /\ (Disk!EndHeadless(a) \/ Disk!EndHeaded(a))
  <2>1. Disk!remove_instance(a, a) /\ Disk!Goes(a, "guard")
    BY <1>10 DEF Disk!EndHeadless, Disk!EndHeaded
  <2>2. daemon'[a].at = "guard" /\ \A m \in Lives : m # a => daemon'[m] = daemon[m]
    BY <1>1, <1>10, <2>1 DEF Disk!Goes
  <2>3. a \in Life
    BY <1>10 DEF Life
  <2>. QED BY <1>1, <1>6, <1>10, <2>1, <2>2, <2>3
<1>11. CASE a \in Lives /\ Disk!Crash(a)
  <2>1. rm' = [rm EXCEPT ![a] = [at |-> "idle", expected |-> NoLife]]
        /\ \A m \in Lives : m # a => daemon'[m] = daemon[m]
    BY <1>1, <1>11 DEF Disk!Crash, Disk!EndLife, Disk!Leaves
  <2>2. Elsewhere(a) /\ rm'[a].at = "idle"
    BY <1>1, <1>11, <2>1 DEF Elsewhere, Removals
  <2>. QED BY <1>2, <2>2 DEF ExpectedOf
<1>12. CASE a \in Clients /\ (\/ Disk!ReadRegistry(a) \/ Disk!registered_instance(a) \/ Disk!OpenPidfd(a)
                              \/ Disk!Recheck(a) \/ Disk!signal_session(a))
  <2>1. UNCHANGED daemon /\ a \notin Lives /\ a \in Disk!Processes
    BY <1>1, <1>12 DEF Disk!ReadRegistry, Disk!registered_instance, Disk!OpenPidfd,
       Disk!Recheck, Disk!signal_session, SessionsAssumption
  <2>2. CASE UNCHANGED rm
    BY <1>7, <2>1, <2>2
  <2>3. CASE Disk!remove_instance(a, client[a].read) /\ Gone(client[a].read)
    <3>. DEFINE l == client[a].read
    <3>1. l \in Life /\ l \in Lives /\ daemon'[l].at = "gone"
      BY <1>1, <1>12, <2>1, <2>3 DEF Gone
    <3>2. rm' = [rm EXCEPT ![a] = [at |-> "first", expected |-> l]]
      BY <2>3 DEF Disk!remove_instance
    <3>3. Elsewhere(a) /\ rm'[a] = [at |-> "first", expected |-> l]
      BY <1>1, <2>1, <3>1, <3>2 DEF Elsewhere, Removals
    <3>. QED BY <1>2, <2>1, <3>1, <3>3 DEF ExpectedOf, Gone
  <2>4. Disk!OpenPidfd(a) /\ holder[daemon[client[a].read].pid] = NoLife
               => ~Disk!registry_process_matches(client[a].read)
    BY <1>12 DEF Disk!OpenPidfd, Disk!registry_process_matches, Always, Records, Published,
                SessionsAssumption
  <2>5. \/ UNCHANGED rm
        \/ Disk!remove_instance(a, client[a].read) /\ client[a].at # "idle"
           /\ ~Disk!registry_process_matches(client[a].read)
    BY <1>12, <2>4 DEF Disk!ReadRegistry, Disk!registered_instance, Disk!OpenPidfd,
       Disk!Recheck, Disk!signal_session
  <2>. QED BY <1>12, <2>2, <2>3, <2>5, MismatchIsGone
<1>. QED BY <1>3, <1>4, <1>5, <1>8, <1>9, <1>10, <1>11, <1>12

Readers == [at : {"idle", "read", "open", "pinned", "signal", "reaping"},
            read : Life, pidfd : Life \cup {Other}]

(* A client acts on the record it read, and signals what it pinned while the   *)
(* record matched.                                                            *)
LEMMA ClientsKept ==
  ASSUME SessionsAssumption, Always, Disk!Step,
         \A m : Published(m) => Published(m)', \A m : Gone(m) => Gone(m)'
  PROVE  /\ client' \in [Clients -> Readers]
         /\ Disk!SignalsTheRecorded'
         /\ \A c \in Clients :
              /\ client'[c].at # "idle" => Published(client[c].read)'
              /\ client'[c].at = "pinned" =>
                   client'[c].pidfd = client'[c].read \/ Gone(client[c].read)'
              /\ client'[c].at = "signal" => client'[c].pidfd = client'[c].read
<1>. DEFINE Client(c) ==
       /\ client[c].at # "idle" => Published(client[c].read)
       /\ client[c].at = "pinned" => client[c].pidfd = client[c].read \/ Gone(client[c].read)
       /\ client[c].at = "signal" => client[c].pidfd = client[c].read
<1>1. /\ client \in [Clients -> Readers] /\ registry \in Life
      /\ holder \in [Pids -> Life \cup {Other}] /\ daemon \in [Lives -> [pid : Pids \cup {0}, headless : BOOLEAN, at : Stages]]
      /\ \A c \in Clients : Client(c)
  BY DEF Always, SessionTypes, Readers, Records
<1>2. ASSUME NEW c \in Clients, client'[c] = client[c]
      PROVE  Client(c)'
  BY <1>1, <1>2 DEF Published, Gone
<1>3. CASE UNCHANGED <<client, signalled>>
  BY <1>1, <1>2, <1>3 DEF Always, Disk!SignalsTheRecorded
<1>4. ASSUME NEW c \in Clients, NEW next \in Readers, client' = [client EXCEPT ![c] = next],
             Client(c)'
      PROVE  client' \in [Clients -> Readers] /\ \A d \in Clients : Client(d)'
  <2>1. client' \in [Clients -> Readers] /\ \A d \in Clients : d # c => client'[d] = client[d]
    BY <1>1, <1>4
  <2>. QED BY <1>2, <1>4, <2>1
<1>. DEFINE idle == [at |-> "idle", read |-> NoLife, pidfd |-> NoLife]
<1>5. ASSUME NEW a \in Disk!Processes, NEW failed \in BOOLEAN, Disk!RmDone(a, failed), UNCHANGED signalled
      PROVE  /\ client' \in [Clients -> Readers] /\ Disk!SignalsTheRecorded'
             /\ \A c \in Clients : Client(c)'
  <2>1. CASE a \in Clients /\ client' = [client EXCEPT ![a] = idle]
    <3>1. idle \in Readers
      BY DEF Readers, Life
    <3>2. client'[a].at = "idle"
      BY <1>1, <2>1
    <3>3. Client(a)'
      BY <3>2
    <3>. QED BY <1>4, <1>5, <2>1, <3>1, <3>3 DEF Always, Disk!SignalsTheRecorded
  <2>. QED BY <1>3, <1>5, <2>1 DEF Disk!RmDone
<1>6. ASSUME NEW a \in Disk!Processes, Disk!RmRead(a) \/ Disk!RmSocket(a) \/ Disk!RmRegistry(a)
      PROVE  /\ client' \in [Clients -> Readers] /\ Disk!SignalsTheRecorded'
             /\ \A c \in Clients : Client(c)'
  <2>1. \/ UNCHANGED <<client, signalled>>
        \/ \E failed \in BOOLEAN : Disk!RmDone(a, failed) /\ UNCHANGED signalled
    BY <1>6, ReadFails DEF Disk!RmRead, Disk!RmSocket, Disk!RmRegistry
  <2>. QED BY <1>3, <1>5, <2>1
<1>7. ASSUME NEW c \in Clients, Disk!ReadRegistry(c)
      PROVE  /\ client' \in [Clients -> Readers] /\ Disk!SignalsTheRecorded'
             /\ \A d \in Clients : Client(d)'
  <2>. DEFINE next == [client[c] EXCEPT !.at = "read", !.read = registry]
  <2>1. next \in Readers /\ next.at = "read" /\ next.read = registry
    BY <1>1 DEF Readers
  <2>2. client' = [client EXCEPT ![c] = next] /\ Published(registry) /\ UNCHANGED signalled
    BY <1>7 DEF Disk!ReadRegistry, Always, Records
  <2>. HIDE DEF next
  <2>3. Client(c)'
    BY <1>1, <2>1, <2>2 DEF Published
  <2>. QED BY <1>4, <2>1, <2>2, <2>3 DEF Always, Disk!SignalsTheRecorded
<1>8. ASSUME NEW c \in Clients, Disk!registered_instance(c)
      PROVE  /\ client' \in [Clients -> Readers] /\ Disk!SignalsTheRecorded'
             /\ \A d \in Clients : Client(d)'
  <2>1. PICK at \in {"reaping", "open", "idle"} : client' = [client EXCEPT ![c].at = at]
    BY <1>8 DEF Disk!registered_instance
  <2>. DEFINE next == [client[c] EXCEPT !.at = at]
  <2>2. next \in Readers /\ next.at = at /\ next.read = client[c].read
    BY <1>1 DEF Readers
  <2>3. client' = [client EXCEPT ![c] = next] /\ Published(client[c].read) /\ UNCHANGED signalled
    BY <1>1, <1>8, <2>1 DEF Disk!registered_instance
  <2>. HIDE DEF next
  <2>4. Client(c)'
    BY <1>1, <2>2, <2>3 DEF Published
  <2>. QED BY <1>4, <2>2, <2>3, <2>4 DEF Always, Disk!SignalsTheRecorded
<1>9. ASSUME NEW c \in Clients, Disk!OpenPidfd(c)
      PROVE  /\ client' \in [Clients -> Readers] /\ Disk!SignalsTheRecorded'
             /\ \A d \in Clients : Client(d)'
  <2>. DEFINE held == holder[daemon[client[c].read].pid]
  <2>0. Published(client[c].read) /\ UNCHANGED <<signalled, daemon>> /\ client[c].read \in Lives
    BY <1>1, <1>9 DEF Disk!OpenPidfd, Published
  <2>1. CASE client' = [client EXCEPT ![c].at = "reaping"]
    <3>. DEFINE next == [client[c] EXCEPT !.at = "reaping"]
    <3>2. next \in Readers /\ next.at = "reaping" /\ next.read = client[c].read
      BY <1>1 DEF Readers
    <3>3. client' = [client EXCEPT ![c] = next]
      BY <2>1
    <3>. HIDE DEF next
    <3>4. Client(c)'
      BY <1>1, <2>0, <3>2, <3>3 DEF Published
    <3>. QED BY <1>4, <2>0, <3>2, <3>3, <3>4 DEF Always, Disk!SignalsTheRecorded
  <2>2. CASE client' = [client EXCEPT ![c] = [@ EXCEPT !.at = "pinned", !.pidfd = held]]
    <3>. DEFINE next == [client[c] EXCEPT !.at = "pinned", !.pidfd = held]
    <3>1. daemon[client[c].read].pid \in Pids
      BY <2>0 DEF Always, Holders, Published
    <3>2. held \in Life \cup {Other}
      BY <1>1, <3>1
    <3>3. held = client[c].read \/ Gone(client[c].read)
      BY <2>0, MatchIsLive DEF Always, Disk!registry_process_matches
    <3>. HIDE DEF held
    <3>4. next \in Readers /\ next.at = "pinned" /\ next.read = client[c].read /\ next.pidfd = held
      BY <1>1, <3>2 DEF Readers
    <3>5. client' = [client EXCEPT ![c] = next]
      BY <2>2
    <3>. HIDE DEF next
    <3>6. Client(c)'
      BY <1>1, <2>0, <3>3, <3>4, <3>5 DEF Published, Gone
    <3>. QED BY <1>4, <2>0, <3>4, <3>5, <3>6 DEF Always, Disk!SignalsTheRecorded
  <2>. QED BY <1>9, <2>1, <2>2 DEF Disk!OpenPidfd
<1>10. ASSUME NEW c \in Clients, Disk!Recheck(c)
      PROVE  /\ client' \in [Clients -> Readers] /\ Disk!SignalsTheRecorded'
             /\ \A d \in Clients : Client(d)'
  <2>1. PICK at \in {"reaping", "signal"} :
          /\ client' = [client EXCEPT ![c].at = at]
          /\ at = "signal" => Disk!registry_process_matches(client[c].read)
    BY <1>10 DEF Disk!Recheck
  <2>. DEFINE next == [client[c] EXCEPT !.at = at]
  <2>2. next \in Readers /\ next.at = at /\ next.read = client[c].read
        /\ next.pidfd = client[c].pidfd
    BY <1>1 DEF Readers
  <2>3. client' = [client EXCEPT ![c] = next] /\ Published(client[c].read) /\ UNCHANGED signalled
        /\ client[c].read \in Lives
    BY <1>1, <1>10, <2>1 DEF Disk!Recheck, Published
  <2>4. at = "signal" => client[c].pidfd = client[c].read
    BY <1>1, <1>10, <2>1, <2>3, MatchIsLive DEF Always, Disk!Recheck
  <2>. HIDE DEF next
  <2>5. Client(c)'
    BY <1>1, <2>2, <2>3, <2>4 DEF Published
  <2>. QED BY <1>4, <2>2, <2>3, <2>5 DEF Always, Disk!SignalsTheRecorded
<1>11. ASSUME NEW c \in Clients, Disk!signal_session(c)
      PROVE  /\ client' \in [Clients -> Readers] /\ Disk!SignalsTheRecorded'
             /\ \A d \in Clients : Client(d)'
  <2>1. idle \in Readers /\ client' = [client EXCEPT ![c] = idle] /\ client'[c].at = "idle"
    BY <1>1, <1>11 DEF Readers, Life, Disk!signal_session
  <2>2. Client(c)'
    BY <2>1
  <2>3. Disk!SignalsTheRecorded'
    BY <1>1, <1>11 DEF Disk!signal_session, Disk!SignalsTheRecorded
  <2>. QED BY <1>4, <2>1, <2>2, <2>3
<1>12. ASSUME NEW l \in Lives,
         \/ Disk!Birth(l) \/ Disk!prepare_endpoint(l) \/ Disk!Probe(l) \/ Disk!Unlink(l) \/ Disk!bind(l)
         \/ Disk!write_registry(l) \/ Disk!EndHeadless(l) \/ Disk!EndHeaded(l) \/ Disk!TemporaryFiles(l) \/ Disk!Crash(l)
       PROVE UNCHANGED <<client, signalled>>
  BY <1>12 DEF Disk!Birth, Disk!prepare_endpoint, Disk!Probe, Disk!Unlink, Disk!bind,
     Disk!write_registry, Disk!EndHeadless, Disk!EndHeaded, Disk!TemporaryFiles, Disk!Crash
<1>13. ASSUME NEW p \in Pids, Disk!Recycle(p) PROVE UNCHANGED <<client, signalled>>
  BY <1>13 DEF Disk!Recycle
<1>. HIDE DEF Client
<1>14. /\ client' \in [Clients -> Readers] /\ Disk!SignalsTheRecorded'
       /\ \A d \in Clients : Client(d)'
  <2>. DEFINE Good == /\ client' \in [Clients -> Readers] /\ Disk!SignalsTheRecorded'
                      /\ \A d \in Clients : Client(d)'
  <2>1. \A a \in Disk!Processes : Disk!RmRead(a) \/ Disk!RmSocket(a) \/ Disk!RmRegistry(a) => Good
    BY <1>6
  <2>2. \A l \in Lives :
          (\/ Disk!Birth(l) \/ Disk!prepare_endpoint(l) \/ Disk!Probe(l) \/ Disk!Unlink(l) \/ Disk!bind(l)
           \/ Disk!write_registry(l) \/ Disk!EndHeadless(l) \/ Disk!EndHeaded(l) \/ Disk!TemporaryFiles(l)
           \/ Disk!Crash(l)) => Good
    BY <1>3, <1>12 DEF Client, Published, Gone
  <2>3. \A c \in Clients :
          (\/ Disk!ReadRegistry(c) \/ Disk!registered_instance(c) \/ Disk!OpenPidfd(c) \/ Disk!Recheck(c)
           \/ Disk!signal_session(c)) => Good
    BY <1>7, <1>8, <1>9, <1>10, <1>11
  <2>4. \A p \in Pids : Disk!Recycle(p) => Good
    BY <1>3, <1>13 DEF Client, Published, Gone
  <2>. HIDE DEF Good
  <2>5. Good
    BY <2>1, <2>2, <2>3, <2>4 DEF Disk!Step
  <2>. QED BY <2>5 DEF Good
<1>. QED BY <1>14 DEF Client, Published, Gone

(* Whatever overlaps. *)
LEMMA AlwaysKept ==
  ASSUME SessionsAssumption, Always, Disk!Next
  PROVE  Always' /\ \A m : Gone(m) => Gone(m)'
<1>. USE DEF Disk!Next
<1>1. /\ Holders'
      /\ daemon' \in [Lives -> [pid : Pids \cup {0}, headless : BOOLEAN, at : Stages]]
      /\ holder' \in [Pids -> Life \cup {Other}]
      /\ \A m : Published(m) => Published(m)'
      /\ \A m : Gone(m) => Gone(m)'
  BY StepShape, HoldersKept DEF Always
<1>2. rm' \in [Disk!Processes -> Removals] /\ Expected'
  <2>1. CASE \E p \in Pids : Disk!Recycle(p)
    <3>1. UNCHANGED <<rm, daemon>>
      BY <2>1 DEF Disk!Recycle
    <3>. QED BY <3>1 DEF Always, SessionTypes, Removals, Expected, ExpectedOf, Gone
  <2>2. CASE ~\E p \in Pids : Disk!Recycle(p)
    <3>1. \E a : Elsewhere(a) /\ Expected'
      BY <1>1, <2>2, ExpectedKept DEF Disk!Step
    <3>. QED BY <3>1 DEF Elsewhere
  <2>. QED BY <2>1, <2>2
<1>3. registry' \in Life /\ socket' \in [Paths -> Life] /\ (registry' # NoLife => Published(registry)')
  BY FilesTypes
<1>4. overlapped' \in BOOLEAN
  BY DEF Disk!Step, Disk!NoteOverlap, Always, SessionTypes, Disk!RmRead, Disk!RmSocket,
     Disk!RmRegistry, Disk!Birth, Disk!prepare_endpoint, Disk!Probe, Disk!Unlink, Disk!bind,
     Disk!write_registry, Disk!EndHeadless, Disk!EndHeaded, Disk!TemporaryFiles, Disk!Crash,
     Disk!ReadRegistry, Disk!registered_instance, Disk!OpenPidfd, Disk!Recheck,
     Disk!signal_session, Disk!Recycle
<1>5. /\ client' \in [Clients -> Readers]
      /\ Disk!SignalsTheRecorded'
      /\ \A c \in Clients :
           /\ client'[c].at # "idle" => Published(client[c].read)'
           /\ client'[c].at = "pinned" =>
                client'[c].pidfd = client'[c].read \/ Gone(client[c].read)'
           /\ client'[c].at = "signal" => client'[c].pidfd = client'[c].read
  BY <1>1, ClientsKept
<1>8. launched' \in Launches
  BY DEF Always, SessionTypes
<1>6. SessionTypes'
  BY <1>1, <1>2, <1>8, <1>3, <1>4, <1>5 DEF SessionTypes, Removals, Readers
<1>7. Records'
  BY <1>3, <1>5 DEF Records
<1>. QED BY <1>1, <1>2, <1>5, <1>6, <1>7 DEF Always

-----------------------------------------------------------------------------
(* What holds as long as no two processes have been at work at once.           *)
Orderly == Alone /\ Files /\ Disk!OneAtATime

(* Each daemon has a socket path. *)
LEMMA PathTyped ==
  ASSUME SessionsAssumption, Always
  PROVE  \A l \in Lives : Disk!Path(l) \in Paths
BY DEF SessionsAssumption, Always, SessionTypes, Disk!Path

(* A step of one process, when the files are those of the process at work.     *)
LEMMA OrderlyStep ==
  ASSUME SessionsAssumption, Always, Orderly, NEW a, Elsewhere(a), Disk!NoteOverlap,
         UNCHANGED launched,
         \/ UNCHANGED <<registry, socket>>
         \/ a \in Disk!Processes /\ Disk!Busy(a)
         \/ a \in Disk!Processes /\ Disk!Busy(a)',
         ~overlapped' =>
           /\ a \in Disk!Processes => FilesOf(a)'
           /\ a \in Lives /\ daemon'[a].at = "running" => daemon[a].at = "running" \/ Disk!Busy(a)
           /\ Disk!EndpointKept'
           /\ a \in Lives => daemon'[a].at # "stuck"
  PROVE  Orderly'
<1>1. CASE overlapped'
  BY <1>1 DEF Orderly, Alone, Files, Disk!OneAtATime
<1>2. CASE ~overlapped'
  <2>1. ~overlapped /\ Alone'
    BY <1>2 DEF Disk!NoteOverlap, Alone
  <2>2. /\ \A x, y \in Disk!Processes : x # y => ~(Disk!Busy(x) /\ Disk!Busy(y))
        /\ \A x, y \in Disk!Processes : x # y => ~(Disk!Busy(x)' /\ Disk!Busy(y)')
    BY <1>2, <2>1 DEF Orderly, Alone
  <2>3. ASSUME NEW b \in Disk!Processes, b # a
        PROVE  FilesOf(b)'
    <3>1. rm'[b] = rm[b] /\ (b \in Lives => daemon'[b] = daemon[b])
      BY <2>3 DEF Elsewhere
    <3>2. CASE ~Disk!Busy(b)'
      BY <3>1, <3>2 DEF Disk!Busy, FilesOf, Disk!Live, Disk!Bound, Disk!Path
    <3>3. CASE Disk!Busy(b)'
      <4>1. Disk!Busy(b)
        BY <3>1, <3>3 DEF Disk!Busy, Disk!Live
      <4>2. a \in Disk!Processes => ~Disk!Busy(a) /\ ~Disk!Busy(a)'
        BY <2>2, <2>3, <3>3, <4>1
      <4>3. UNCHANGED <<registry, socket>>
        BY <4>2
      <4>4. \A m \in Lives : daemon'[m].at = "running" => daemon[m].at = "running"
        BY <1>2, <4>2 DEF Elsewhere, Disk!Processes
      <4>5. FilesOf(b)
        BY <2>1 DEF Orderly, Files
      <4>. QED BY <3>1, <4>3, <4>4, <4>5 DEF FilesOf, Disk!Bound, Disk!Path
    <3>. QED BY <3>2, <3>3
  <2>4. Files'
    <3>1. \A b \in Disk!Processes : FilesOf(b)'
      BY <1>2, <2>3
    <3>. QED BY <3>1 DEF Files
  <2>5. Disk!OneAtATime'
    <3>1. \A l \in Lives : daemon'[l].at # "stuck"
      BY <1>2, <2>1 DEF Orderly, Disk!OneAtATime, Elsewhere
    <3>. QED BY <1>2, <3>1 DEF Disk!OneAtATime
  <2>. QED BY <2>1, <2>4, <2>5 DEF Orderly
<1>. QED BY <1>1, <1>2

(* Nothing runs while the registry records none or one that is over, or a       *)
(* process removes files.                                                      *)
LEMMA NoneRuns ==
  ASSUME SessionsAssumption, Always, Orderly, ~overlapped
  PROVE  /\ registry = NoLife => \A m \in Lives : daemon[m].at # "running"
         /\ \A a \in Disk!Processes : rm[a].at \in {"socket", "third", "registry"} =>
              /\ registry = rm[a].expected /\ registry \in Lives
              /\ \A m \in Lives : daemon[m].at # "running"
<1>1. Disk!EndpointKept /\ \A a \in Disk!Processes : FilesOf(a) /\ ExpectedOf(a)
  BY DEF Orderly, Disk!OneAtATime, Files, Always, Expected
<1>2. registry = NoLife => \A m \in Lives : daemon[m].at # "running"
  BY <1>1 DEF Disk!EndpointKept, SessionsAssumption
<1>3. ASSUME NEW a \in Disk!Processes, rm[a].at \in {"socket", "third", "registry"}
      PROVE  /\ registry = rm[a].expected /\ registry \in Lives
             /\ \A m \in Lives : daemon[m].at # "running"
  BY <1>1, <1>3 DEF FilesOf, ExpectedOf, Gone, Disk!EndpointKept
<1>. QED BY <1>2, <1>3

(* The removal of another's files, or of one's own.                            *)
LEMMA RemovalOrderly ==
  ASSUME SessionsAssumption, Always, Orderly, NEW a \in Disk!Processes, Elsewhere(a), ~overlapped,
         UNCHANGED launched,
         Disk!RmRead(a) \/ Disk!RmSocket(a) \/ Disk!RmRegistry(a)
  PROVE  /\ Disk!Busy(a) /\ FilesOf(a)' /\ Disk!EndpointKept'
         /\ a \in Lives => daemon'[a].at \notin {"running", "stuck"}
<1>1. /\ rm \in [Disk!Processes -> Removals]
      /\ daemon \in [Lives -> [pid : Pids \cup {0}, headless : BOOLEAN, at : Stages]]
      /\ FilesOf(a) /\ ExpectedOf(a) /\ Disk!EndpointKept
      /\ a \in Lives \/ a \in Clients
      /\ ~(a \in Lives /\ a \in Clients)
      /\ socket \in [Paths -> Life] /\ (rm[a].expected \in Lives => Disk!Path(rm[a].expected) \in Paths)
      /\ \A l : Disk!Path(l)' = Disk!Path(l)
  BY PathTyped DEF Orderly, Disk!OneAtATime, Files, Always, Expected, SessionTypes, Removals,
     Disk!Processes, SessionsAssumption, Disk!Path
<1>2. Disk!Busy(a)
  BY DEF Disk!RmRead, Disk!RmSocket, Disk!RmRegistry, Disk!Busy
<1>3. a \in Lives => daemon[a].at \in {"prepare", "guard"}
  BY <1>1 DEF Disk!RmRead, Disk!RmSocket, Disk!RmRegistry, ExpectedOf
<1>4. ASSUME UNCHANGED daemon, UNCHANGED <<registry, socket>> \/ \A m \in Lives : daemon[m].at # "running"
      PROVE  Disk!EndpointKept'
  BY <1>1, <1>4 DEF Disk!EndpointKept, Disk!Bound
<1>5. CASE Disk!RmRead(a) /\ registry = rm[a].expected
  <2>1. /\ UNCHANGED <<daemon, registry, socket>>
        /\ \/ rm[a].at = "first" /\ rm' = [rm EXCEPT ![a].at = "second"]
           \/ rm[a].at = "second" /\ rm' = [rm EXCEPT ![a].at = "socket"]
           \/ rm[a].at = "third" /\ rm' = [rm EXCEPT ![a].at = "registry"]
    BY <1>5 DEF Disk!RmRead
  <2>2. /\ rm'[a].expected = rm[a].expected
        /\ rm'[a].at \in {"second", "socket", "registry"}
        /\ rm'[a].at = "registry" => rm[a].at = "third"
    BY <1>1, <2>1 DEF Removals
  <2>3. FilesOf(a)'
    <3>1. registry' = rm'[a].expected
      BY <1>5, <2>1, <2>2
    <3>2. rm'[a].at = "registry" => Disk!Bound(rm[a].expected)' = NoLife
      BY <1>1, <2>1, <2>2 DEF FilesOf, Disk!Bound
    <3>3. rm'[a].at # "third" /\ rm[a].at # "idle"
      BY <2>1, <2>2
    <3>. QED BY <1>1, <1>3, <2>1, <2>2, <3>1, <3>2, <3>3 DEF FilesOf, Disk!Bound
  <2>. QED BY <1>2, <1>3, <1>4, <2>1, <2>3
<1>6. CASE Disk!RmRead(a) /\ registry # rm[a].expected
  <2>1. a \notin Lives /\ a \in Clients
    BY <1>1, <1>6 DEF Disk!RmRead, FilesOf
  <2>2. rm'[a].at = "idle" /\ UNCHANGED <<daemon, registry, socket>>
    <3>1. (\E failed \in BOOLEAN : Disk!RmDone(a, failed)) /\ UNCHANGED <<registry, socket>>
      BY <1>6, ReadFails DEF Disk!RmRead
    <3>2. PICK failed \in BOOLEAN : Disk!RmDone(a, failed)
      BY <3>1
    <3>. QED BY <1>1, <2>1, <3>1, <3>2 DEF Disk!RmDone
  <2>. QED BY <1>2, <1>4, <2>1, <2>2 DEF FilesOf
<1>7. CASE Disk!RmSocket(a)
  <2>1. /\ Disk!Bound(rm[a].expected)' = NoLife /\ UNCHANGED <<registry, daemon>>
        /\ rm' = [rm EXCEPT ![a].at = "third"] /\ rm[a].at = "socket"
    <3>1. rm[a].expected \in Lives
      BY <1>7 DEF Disk!RmSocket, Always, Expected, ExpectedOf, Gone
    <3>. DEFINE e == Disk!Path(rm[a].expected)
    <3>2. e \in Paths /\ socket' = [socket EXCEPT ![e] = NoLife]
      BY <1>1, <1>7, <3>1 DEF Disk!RmSocket, Disk!Unlinked
    <3>3. socket'[e] = NoLife
      BY <1>1, <3>2
    <3>4. \A l : Disk!Bound(l)' = socket'[Disk!Path(l)]
      BY <1>1 DEF Disk!Bound
    <3>. QED BY <1>7, <3>3, <3>4 DEF Disk!RmSocket
  <2>2. rm'[a].expected = rm[a].expected /\ rm'[a].at = "third"
    BY <1>1, <2>1
  <2>3. FilesOf(a)'
    <3>1. socket'[launched'[rm'[a].expected].path] = NoLife
      BY <2>1, <2>2 DEF Disk!Bound, Disk!Path
    <3>. QED BY <1>1, <1>3, <2>1, <2>2, <3>1 DEF FilesOf, Disk!Bound, Disk!Path
  <2>. QED BY <1>2, <1>3, <1>4, <2>1, <2>3, NoneRuns
<1>8. CASE Disk!RmRegistry(a)
  <2>1. registry \in Lives /\ registry # NoLife /\ \A m \in Lives : daemon[m].at # "running"
    BY <1>8, NoneRuns DEF Disk!RmRegistry, SessionsAssumption
  <2>2. /\ registry' = NoLife /\ socket' = socket /\ rm[a].at = "registry"
        /\ Disk!Bound(rm[a].expected) = NoLife
        /\ a \in Lives => Disk!Path(rm[a].expected) = Disk!Path(a)
    BY <1>1, <1>8 DEF Disk!RmRegistry, FilesOf
  <2>3. Disk!RmDone(a, FALSE)
    BY <1>8, <2>1 DEF Disk!RmRegistry
  <2>4. rm'[a].at = "idle"
    BY <1>1, <2>3 DEF Disk!RmDone
  <2>5. CASE a \in Clients
    <3>1. UNCHANGED daemon
      BY <1>1, <2>3, <2>5 DEF Disk!RmDone
    <3>. QED BY <1>1, <1>2, <1>4, <2>1, <2>4, <2>5, <3>1 DEF FilesOf
  <2>6. CASE a \in Lives
    <3>1. \/ daemon[a].at = "prepare" /\ daemon' = [daemon EXCEPT ![a].at = "bind"]
          \/ daemon[a].at = "guard" /\ daemon' = [daemon EXCEPT ![a].at = "gone"]
          \/ daemon[a].at = "guard" /\ daemon' = [daemon EXCEPT ![a].at = "files"]
      <4>1. daemon[a].headless \in BOOLEAN
        BY <1>1, <2>6
      <4>. QED BY <1>1, <1>3, <2>3, <2>6, <4>1 DEF Disk!RmDone, Disk!Goes, Disk!EndLife,
                  Disk!Leaves
    <3>2. \A m \in Lives : daemon'[m].at # "running"
      BY <1>1, <2>1, <2>6, <3>1
    <3>3. daemon'[a].at \in {"bind", "gone", "files"}
      BY <1>1, <2>6, <3>1
    <3>4. FilesOf(a)'
      <4>1. Disk!Bound(a)' = NoLife
        BY <1>1, <2>2, <2>6 DEF Disk!Bound
      <4>. QED BY <2>2, <2>4, <3>2, <3>3, <4>1 DEF FilesOf
    <3>. QED BY <1>2, <3>2, <3>3, <3>4 DEF Disk!EndpointKept
  <2>. QED BY <1>1, <2>5, <2>6
<1>. QED BY <1>5, <1>6, <1>7, <1>8

(* The start of a daemon.                                                      *)
LEMMA StartOrderly ==
  ASSUME SessionsAssumption, Always, Orderly, NEW a \in Lives, ~overlapped, UNCHANGED launched,
         \/ Disk!Birth(a) \/ Disk!prepare_endpoint(a) \/ Disk!Probe(a) \/ Disk!Unlink(a) \/ Disk!bind(a)
         \/ Disk!write_registry(a)
  PROVE  /\ UNCHANGED <<registry, socket>> \/ Disk!Busy(a)
         /\ FilesOf(a)' /\ Disk!EndpointKept' /\ daemon'[a].at # "stuck"
         /\ daemon'[a].at = "running" => Disk!Busy(a)
<1>1. /\ rm \in [Disk!Processes -> Removals] /\ a \in Disk!Processes
      /\ daemon \in [Lives -> [pid : Pids \cup {0}, headless : BOOLEAN, at : Stages]]
      /\ FilesOf(a) /\ ExpectedOf(a) /\ Disk!EndpointKept
      /\ registry \in Life /\ socket \in [Paths -> Life] /\ (registry # NoLife => Published(registry))
      /\ Disk!Path(a) \in Paths /\ \A l : Disk!Path(l)' = Disk!Path(l)
  BY PathTyped DEF Orderly, Disk!OneAtATime, Files, Always, Expected, SessionTypes, Removals,
     Disk!Processes, Records, Disk!Path
<1>2. daemon[a].at # "running" /\ (daemon[a].at # "unborn" => Disk!Busy(a))
  BY DEF Disk!Birth, Disk!prepare_endpoint, Disk!Probe, Disk!Unlink, Disk!bind,
     Disk!write_registry, Disk!Busy, Disk!Live
<1>3. rm[a].at = "idle"
  BY <1>1 DEF ExpectedOf, Disk!Birth, Disk!prepare_endpoint, Disk!Probe, Disk!Unlink, Disk!bind,
     Disk!write_registry
(* No other life changes: who runs, ran. *)
<1>4. ASSUME NEW at \in Stages, daemon' = [daemon EXCEPT ![a].at = at], at # "running",
             UNCHANGED <<registry, socket>> \/ \A m \in Lives : daemon[m].at # "running"
      PROVE  Disk!EndpointKept' /\ daemon'[a].at = at
  BY <1>1, <1>4 DEF Disk!EndpointKept, Disk!Bound
<1>5. registry = NoLife => \A m \in Lives : daemon[m].at # "running"
  BY NoneRuns
<1>6. CASE Disk!Birth(a)
  <2>1. /\ UNCHANGED <<registry, socket, rm>>
        /\ \E p \in Pids : daemon' = [daemon EXCEPT ![a] = [@ EXCEPT !.pid = p, !.at = "prepare"]]
    BY <1>6 DEF Disk!Birth
  <2>2. daemon'[a].at = "prepare" /\ \A m \in Lives : m # a => daemon'[m] = daemon[m]
    BY <1>1, <2>1
  <2>. QED BY <1>1, <1>3, <2>1, <2>2 DEF FilesOf, Disk!EndpointKept, Disk!Bound
<1>7. CASE Disk!prepare_endpoint(a)
  <2>1. UNCHANGED <<registry, socket>> /\ daemon[a].at = "prepare"
    BY <1>7 DEF Disk!prepare_endpoint
  <2>2. CASE registry # NoLife /\ Disk!registry_process_matches(registry) /\ Disk!Refuse(a) /\ UNCHANGED rm
    <3>1. Disk!Live(registry) /\ registry \in Lives /\ registry # a
      BY <2>1, <2>2, <1>1, MatchIsLive DEF Always, Published
    <3>2. daemon' = [daemon EXCEPT ![a].at = "refused"]
      BY <2>2, <3>1 DEF Disk!Refuse, Disk!Leaves
    <3>3. Disk!EndpointKept' /\ daemon'[a].at = "refused"
      BY <1>4, <2>1, <3>2 DEF Stages
    <3>. QED BY <1>3, <2>1, <2>2, <3>3 DEF FilesOf
  <2>3. CASE /\ Disk!remove_instance(a, registry) /\ UNCHANGED daemon
             /\ Disk!validate_identity(a, registry, Disk!Path(a))
    <3>1. rm'[a].at = "first" /\ rm'[a].expected = registry
      BY <1>1, <2>3 DEF Disk!remove_instance
    <3>2. FilesOf(a)'
      BY <1>1, <2>1, <2>3, <3>1 DEF FilesOf, Disk!validate_identity
    <3>3. Disk!EndpointKept'
      BY <1>1, <2>1, <2>3 DEF Disk!EndpointKept, Disk!Bound
    <3>. QED BY <2>1, <2>3, <3>2, <3>3
  <2>4. CASE registry = NoLife /\ Disk!Goes(a, "probe") /\ UNCHANGED rm
    <3>1. Disk!EndpointKept' /\ daemon'[a].at = "probe"
      BY <1>4, <2>1, <2>4 DEF Disk!Goes, Stages
    <3>. QED BY <1>3, <2>1, <2>4, <3>1 DEF FilesOf
  <2>5. CASE Disk!Leaves(a, "barred") /\ UNCHANGED rm
    <3>1. Disk!EndpointKept' /\ daemon'[a].at = "barred"
      BY <1>4, <2>1, <2>5 DEF Disk!Leaves, Stages
    <3>. QED BY <1>3, <2>1, <2>5, <3>1 DEF FilesOf
  <2>. QED BY <1>7, <2>2, <2>3, <2>4, <2>5 DEF Disk!prepare_endpoint
<1>8. CASE Disk!Probe(a)
  <2>1. UNCHANGED <<registry, socket, rm>> /\ daemon[a].at = "probe" /\ registry = NoLife
    BY <1>1, <1>8 DEF Disk!Probe, FilesOf
  <2>2. CASE Disk!Bound(a) = NoLife /\ Disk!Goes(a, "bind")
    <3>1. Disk!EndpointKept' /\ daemon'[a].at = "bind"
      BY <1>4, <2>1, <2>2 DEF Disk!Goes, Stages
    <3>2. Disk!Bound(a)' = NoLife
      BY <1>1, <2>1, <2>2 DEF Disk!Bound
    <3>. QED BY <1>3, <2>1, <3>1, <3>2 DEF FilesOf
  <2>3. CASE Disk!Bound(a) # NoLife /\ Disk!Answers(Disk!Bound(a)) /\ Disk!Refuse(a)
    <3>1. Disk!Live(Disk!Bound(a)) /\ Disk!Bound(a) \in Lives /\ Disk!Bound(a) # a
      BY <1>1, <2>1, <2>3 DEF Disk!Answers, Life, Disk!Bound
    <3>2. daemon' = [daemon EXCEPT ![a].at = "refused"]
      BY <2>3, <3>1 DEF Disk!Refuse, Disk!Leaves
    <3>3. Disk!EndpointKept' /\ daemon'[a].at = "refused"
      BY <1>4, <2>1, <3>2 DEF Stages
    <3>. QED BY <1>3, <2>1, <3>3 DEF FilesOf
  <2>4. CASE Disk!Goes(a, "unlink")
    <3>1. Disk!EndpointKept' /\ daemon'[a].at = "unlink"
      BY <1>4, <2>1, <2>4 DEF Disk!Goes, Stages
    <3>. QED BY <1>3, <2>1, <3>1 DEF FilesOf
  <2>5. Disk!Answers(Disk!Bound(a)) \in BOOLEAN
    BY DEF Disk!Answers
  <2>. QED BY <1>8, <2>2, <2>3, <2>4, <2>5 DEF Disk!Probe
<1>9. CASE Disk!Unlink(a)
  <2>1. registry = NoLife /\ registry' = registry /\ Disk!Bound(a)' = NoLife /\ UNCHANGED rm
        /\ Disk!Goes(a, "bind") /\ daemon[a].at = "unlink"
    BY <1>1, <1>9 DEF Disk!Unlink, FilesOf, Disk!Unlinked, Disk!Bound
  <2>2. Disk!EndpointKept' /\ daemon'[a].at = "bind"
    BY <1>4, <1>5, <2>1 DEF Disk!Goes, Stages
  <2>. QED BY <1>2, <1>3, <2>1, <2>2 DEF FilesOf
<1>10. CASE Disk!bind(a)
  <2>1. registry = NoLife /\ registry' = registry /\ Disk!Bound(a)' = a
        /\ UNCHANGED rm /\ Disk!Goes(a, "bound") /\ daemon[a].at = "bind"
    BY <1>1, <1>10 DEF Disk!bind, FilesOf, Disk!Bound
  <2>2. Disk!EndpointKept' /\ daemon'[a].at = "bound"
    BY <1>4, <1>5, <2>1 DEF Disk!Goes, Stages
  <2>. QED BY <1>2, <1>3, <2>1, <2>2 DEF FilesOf
<1>11. CASE Disk!write_registry(a)
  <2>1. registry = NoLife /\ Disk!Bound(a)' = a /\ registry' = a /\ socket' = socket
        /\ UNCHANGED rm /\ Disk!Goes(a, "running") /\ daemon[a].at = "bound"
    BY <1>1, <1>11 DEF Disk!write_registry, FilesOf, Disk!Bound
  <2>2. daemon'[a].at = "running" /\ \A m \in Lives : m # a => daemon'[m].at # "running"
    BY <1>1, <1>5, <2>1 DEF Disk!Goes
  <2>3. Disk!EndpointKept'
    BY <2>1, <2>2 DEF Disk!EndpointKept
  <2>. QED BY <1>2, <1>3, <2>1, <2>2, <2>3 DEF FilesOf
<1>. QED BY <1>6, <1>7, <1>8, <1>9, <1>10, <1>11

(* The end of one.                                                             *)
LEMMA EndOrderly ==
  ASSUME SessionsAssumption, Always, Orderly, NEW a \in Lives, ~overlapped, UNCHANGED launched,
         Disk!EndHeadless(a) \/ Disk!EndHeaded(a) \/ Disk!TemporaryFiles(a) \/ Disk!Crash(a)
  PROVE  /\ UNCHANGED <<registry, socket>> \/ Disk!Busy(a) \/ Disk!Busy(a)'
         /\ FilesOf(a)' /\ Disk!EndpointKept' /\ daemon'[a].at \notin {"stuck", "running"}
<1>1. /\ rm \in [Disk!Processes -> Removals] /\ a \in Disk!Processes
      /\ daemon \in [Lives -> [pid : Pids \cup {0}, headless : BOOLEAN, at : Stages]]
      /\ FilesOf(a) /\ ExpectedOf(a) /\ Disk!EndpointKept
      /\ \A l : Disk!Path(l)' = Disk!Path(l)
  BY DEF Orderly, Disk!OneAtATime, Files, Always, Expected, SessionTypes, Removals,
     Disk!Processes, Disk!Path
<1>2. CASE Disk!EndHeadless(a) \/ Disk!EndHeaded(a)
  <2>1. /\ daemon[a].at = "running" /\ Disk!Goes(a, "guard") /\ Disk!remove_instance(a, a)
        /\ registry' = registry
    BY <1>2 DEF Disk!EndHeadless, Disk!EndHeaded
  <2>2. registry = a /\ \A m \in Lives : m # a => daemon[m].at # "running"
    BY <1>1, <2>1 DEF Disk!EndpointKept
  <2>3. daemon'[a].at = "guard" /\ \A m \in Lives : daemon'[m].at # "running"
    BY <1>1, <2>1, <2>2 DEF Disk!Goes
  <2>4. rm'[a].at = "first" /\ rm'[a].expected = a
    BY <1>1, <2>1 DEF Disk!remove_instance
  <2>5. FilesOf(a)'
    BY <1>1, <2>1, <2>2, <2>3, <2>4 DEF FilesOf
  <2>. QED BY <2>3, <2>4, <2>5 DEF Disk!EndpointKept, Disk!Busy
<1>3. CASE Disk!TemporaryFiles(a)
  <2>1. daemon' = [daemon EXCEPT ![a].at = "gone"] /\ UNCHANGED <<registry, rm>>
        /\ daemon[a].at \in {"files", "bound"}
    BY <1>3 DEF Disk!TemporaryFiles, Disk!EndLife, Disk!Leaves
  <2>2. \A m \in Lives : daemon[m].at # "running"
    BY <1>1, <2>1, NoneRuns DEF FilesOf
  <2>3. daemon'[a].at = "gone" /\ \A m \in Lives : daemon'[m].at # "running"
    BY <1>1, <2>1, <2>2
  <2>4. rm[a].at = "idle" /\ Disk!Busy(a)
    BY <1>1, <2>1 DEF ExpectedOf, Disk!Busy, Disk!Live
  <2>. QED BY <2>1, <2>3, <2>4 DEF FilesOf, Disk!EndpointKept
<1>4. CASE Disk!Crash(a)
  <2>1. daemon' = [daemon EXCEPT ![a].at = "gone"] /\ UNCHANGED <<registry, socket>>
        /\ rm' = [rm EXCEPT ![a] = [at |-> "idle", expected |-> NoLife]]
    BY <1>4 DEF Disk!Crash, Disk!EndLife, Disk!Leaves
  <2>2. /\ daemon'[a].at = "gone" /\ rm'[a].at = "idle"
        /\ \A m \in Lives : m # a => daemon'[m] = daemon[m]
    BY <1>1, <2>1
  <2>. QED BY <1>1, <2>1, <2>2 DEF FilesOf, Disk!EndpointKept, Disk!Bound
<1>. QED BY <1>2, <1>3, <1>4

SessionInv == Always /\ Orderly

LEMMA SessionsInit ==
  ASSUME SessionsAssumption, Disk!Init
  PROVE  SessionInv
<1>1. \A l \in Lives : daemon[l].at = "unborn" /\ daemon[l].pid = 0
  BY DEF Disk!Init
<1>2. SessionTypes
  <2>1. daemon \in [Lives -> [pid : Pids \cup {0}, headless : BOOLEAN, at : Stages]]
    BY DEF Disk!Init, Stages
  <2>2. /\ client \in [Clients -> Readers] /\ rm \in [Disk!Processes -> Removals]
        /\ holder \in [Pids -> Life \cup {Other}]
    BY DEF Disk!Init, Readers, Removals, Life
  <2>. QED BY <2>1, <2>2 DEF Disk!Init, SessionTypes, Readers, Removals, Life
<1>7. Holders /\ Records /\ Expected
  BY <1>1 DEF SessionsAssumption, Disk!Init, Holders, Records, Expected, ExpectedOf, Over
<1>3. Disk!SignalsTheRecorded
  BY DEF Disk!Init, Disk!SignalsTheRecorded, Disk!NoSignal
<1>4. Alone
  BY <1>1 DEF Disk!Init, Alone, Disk!Busy, Disk!Live
<1>5. Files
  BY <1>1 DEF Disk!Init, Files, FilesOf
<1>6. Disk!OneAtATime
  BY <1>1 DEF Disk!OneAtATime, Disk!EndpointKept
<1>. QED BY <1>2, <1>3, <1>4, <1>5, <1>6, <1>7 DEF SessionInv, Always, Orderly

LEMMA SessionsStep ==
  ASSUME SessionsAssumption, SessionInv, Disk!Next \/ UNCHANGED Disk!vars
  PROVE  SessionInv'
<1>. USE DEF SessionInv
<1>1. CASE UNCHANGED Disk!vars
  BY <1>1 DEF Disk!vars, Always, SessionTypes, Holders, Records, Expected, ExpectedOf,
     Disk!Bound, Disk!Path, Disk!SignalsTheRecorded, Orderly, Alone, Disk!Busy, Disk!Live, Files, FilesOf,
     Disk!OneAtATime, Disk!EndpointKept, Published, Gone
<1>2. ASSUME Disk!Next PROVE Always' /\ \A m : Gone(m) => Gone(m)'
  BY <1>2, AlwaysKept
<1>3. ASSUME UNCHANGED launched, NEW a \in Disk!Processes, Disk!RmRead(a) \/ Disk!RmSocket(a) \/ Disk!RmRegistry(a)
      PROVE  Always' /\ Orderly'
  <2>1. Disk!Next /\ Disk!NoteOverlap
    BY <1>3 DEF Disk!Next, Disk!Step, Disk!RmRead, Disk!RmSocket, Disk!RmRegistry
  <2>2. Elsewhere(a)
    BY <1>2, <1>3, <2>1, ExpectedKept
  <2>3. ~overlapped' => ~overlapped
    BY <2>1 DEF Disk!NoteOverlap
  <2>4. Disk!Busy(a)
    BY <1>3 DEF Disk!RmRead, Disk!RmSocket, Disk!RmRegistry, Disk!Busy
  <2>. QED BY <1>2, <1>3, <2>1, <2>2, <2>3, <2>4, RemovalOrderly, OrderlyStep
<1>4. ASSUME UNCHANGED launched, NEW a \in Lives,
             \/ Disk!Birth(a) \/ Disk!prepare_endpoint(a) \/ Disk!Probe(a) \/ Disk!Unlink(a) \/ Disk!bind(a)
             \/ Disk!write_registry(a)
      PROVE  Always' /\ Orderly'
  <2>1. Disk!Next /\ Disk!NoteOverlap /\ a \in Disk!Processes
    BY <1>4 DEF Disk!Next, Disk!Step, Disk!Birth, Disk!prepare_endpoint, Disk!Probe, Disk!Unlink,
       Disk!bind, Disk!write_registry, Disk!Processes
  <2>2. Elsewhere(a)
    BY <1>2, <1>4, <2>1, ExpectedKept
  <2>3. ~overlapped' => ~overlapped
    BY <2>1 DEF Disk!NoteOverlap
  <2>4. UNCHANGED <<registry, socket>> \/ Disk!Busy(a)
    BY <1>4 DEF Disk!Birth, Disk!prepare_endpoint, Disk!Probe, Disk!Unlink, Disk!bind,
       Disk!write_registry, Disk!Busy, Disk!Live
  <2>. QED BY <1>2, <1>4, <2>1, <2>2, <2>3, <2>4, StartOrderly, OrderlyStep
<1>5. ASSUME UNCHANGED launched, NEW a \in Lives,
             Disk!EndHeadless(a) \/ Disk!EndHeaded(a) \/ Disk!TemporaryFiles(a) \/ Disk!Crash(a)
      PROVE  Always' /\ Orderly'
  <2>1. Disk!Next /\ Disk!NoteOverlap /\ a \in Disk!Processes
    BY <1>5 DEF Disk!Next, Disk!Step, Disk!EndHeadless, Disk!EndHeaded, Disk!TemporaryFiles, Disk!Crash,
       Disk!Processes
  <2>2. Elsewhere(a)
    BY <1>2, <1>5, <2>1, ExpectedKept
  <2>3. ~overlapped' => ~overlapped
    BY <2>1 DEF Disk!NoteOverlap
  <2>4. UNCHANGED <<registry, socket>> \/ Disk!Busy(a) \/ Disk!Busy(a)'
    <3>1. CASE Disk!EndHeadless(a) \/ Disk!EndHeaded(a)
      <4>1. rm'[a].at = "first"
        BY <2>1, <3>1 DEF Disk!EndHeadless, Disk!EndHeaded, Disk!remove_instance, Always,
           SessionTypes
      <4>. QED BY <4>1 DEF Disk!Busy
    <3>. QED BY <1>5, <3>1 DEF Disk!TemporaryFiles, Disk!Crash, Disk!Busy, Disk!Live
  <2>. QED BY <1>2, <1>5, <2>1, <2>2, <2>3, <2>4, EndOrderly, OrderlyStep
<1>6. ASSUME UNCHANGED launched, NEW a \in Clients,
             \/ Disk!ReadRegistry(a) \/ Disk!registered_instance(a) \/ Disk!OpenPidfd(a) \/ Disk!Recheck(a)
             \/ Disk!signal_session(a)
      PROVE  Always' /\ Orderly'
  <2>1. /\ Disk!Next /\ Disk!NoteOverlap /\ a \in Disk!Processes /\ a \notin Lives
        /\ UNCHANGED <<registry, socket, daemon>>
    BY <1>6 DEF Disk!Next, Disk!Step, Disk!ReadRegistry, Disk!registered_instance, Disk!OpenPidfd,
       Disk!Recheck, Disk!signal_session, Disk!Processes, SessionsAssumption
  <2>2. Elsewhere(a)
    BY <1>2, <1>6, <2>1, ExpectedKept
  <2>3. ~overlapped' => FilesOf(a) /\ Disk!EndpointKept
    BY <2>1 DEF Disk!NoteOverlap, Orderly, Files, Disk!OneAtATime
  <2>4. UNCHANGED rm \/ rm'[a].at = "first"
    BY <1>6, <2>1 DEF Disk!ReadRegistry, Disk!registered_instance, Disk!OpenPidfd, Disk!Recheck,
       Disk!signal_session, Disk!remove_instance, Always, SessionTypes
  <2>5. ~overlapped' => FilesOf(a)' /\ Disk!EndpointKept'
    BY <1>6, <2>1, <2>3, <2>4 DEF FilesOf, Disk!EndpointKept, Disk!Bound, Disk!Path
  <2>. QED BY <1>2, <1>6, <2>1, <2>2, <2>5, OrderlyStep
<1>7. ASSUME UNCHANGED launched, NEW p \in Pids, Disk!Recycle(p)
      PROVE  Always' /\ Orderly'
  <2>1. Disk!Next /\ Disk!NoteOverlap /\ UNCHANGED <<registry, socket, daemon, rm>>
    BY <1>7 DEF Disk!Next, Disk!Step, Disk!Recycle
  <2>2. ~overlapped' => ~overlapped /\ Alone'
    BY <2>1 DEF Disk!NoteOverlap, Alone
  <2>3. Orderly'
    BY <1>7, <2>1, <2>2 DEF Orderly, Alone, Files, FilesOf, Disk!OneAtATime, Disk!EndpointKept,
       Disk!Bound, Disk!Path
  <2>. QED BY <1>2, <2>1, <2>3
<1>. QED BY <1>1, <1>3, <1>4, <1>5, <1>6, <1>7 DEF Disk!Next, Disk!Step



-----------------------------------------------------------------------------
(* The text workers of overlays. *)
(* The instance counts as everything else does. *)
LEMMA SameCount ==
  \A S : Text!Cardinality(S) = Cardinality(S) /\ Text!IsFiniteSet(S) = IsFiniteSet(S)
BY DEF Text!Cardinality, Cardinality, Text!IsFiniteSet, IsFiniteSet

Layouts == Producers \X (1 .. MaxLayout)

TextTypes ==
  /\ Text!TypeOK
  /\ granted \in [Producers -> BOOLEAN]
  /\ actor \in [Producers -> {"idle", "unspawned", "dispatch", "revoked"}]
  /\ text_worker \in [Producers -> [at : {"idle", "shaping", "checked", "holding"}, texts : Nat,
                                    retain : BOOLEAN]]
  /\ text_window \in [Producers -> {"none", "open", "dismissed"}]
  /\ text_lane \in [Producers -> BOOLEAN]
  /\ text_jobs \subseteq Producers
  /\ layouts \subseteq Layouts /\ scenes \subseteq Layouts
  /\ IsFiniteSet(Text!Live)

(* One job is one thread's: the actor's that could not start it or the worker's. *)
OneJob == \A s \in Producers : actor[s] = "unspawned" => text_worker[s].at = "idle"

(* The room a batch was admitted for is still there when it installs. *)
RoomKept ==
  \A s \in Producers :
    text_worker[s].at # "idle" /\ text_worker[s].retain =>
           Cardinality(Text!Own(s, Text!Live)) + text_worker[s].texts <= MAX_RETAINED_LAYOUTS

TextInv == TextTypes /\ Text!JobsEnd /\ OneJob /\ Text!RetainedCharged /\ RoomKept /\ Text!LayoutsHaveWindow

-----------------------------------------------------------------------------
(* The layouts of a subset of what is live fit where the live ones did. *)
LEMMA FewerLayouts ==
  ASSUME NEW L, NEW M, IsFiniteSet(L), M \subseteq L
  PROVE  /\ IsFiniteSet(M)
         /\ Cardinality(M) \in Nat /\ Cardinality(L) \in Nat
         /\ Cardinality(M) <= Cardinality(L)
         /\ \A s : /\ Cardinality(Text!Own(s, M)) \in Nat /\ Cardinality(Text!Own(s, L)) \in Nat
                   /\ Cardinality(Text!Own(s, M)) <= Cardinality(Text!Own(s, L))
<1>1. IsFiniteSet(M) /\ Cardinality(M) <= Cardinality(L)
  BY FS_Subset
<1>2. ASSUME NEW s
      PROVE /\ Cardinality(Text!Own(s, M)) \in Nat /\ Cardinality(Text!Own(s, L)) \in Nat
            /\ Cardinality(Text!Own(s, M)) <= Cardinality(Text!Own(s, L))
  <2>1. Text!Own(s, M) \in SUBSET Text!Own(s, L) /\ Text!Own(s, L) \in SUBSET L
    BY DEF Text!Own
  <2>2. IsFiniteSet(Text!Own(s, L))
    BY <2>1, FS_Subset
  <2>3. IsFiniteSet(Text!Own(s, M)) /\ Cardinality(Text!Own(s, M)) <= Cardinality(Text!Own(s, L))
    BY <2>1, <2>2, FS_Subset
  <2>. QED BY <2>2, <2>3, FS_CardinalityType
<1>. QED BY <1>1, <1>2, FS_CardinalityType

(* What Install adds. *)
Batch(s, base, n) == {<<s, base + i>> : i \in 1 .. n}

(* A batch of n texts adds at most n layouts, all of its session. *)
LEMMA BatchBounds ==
  ASSUME NEW L, NEW s, NEW n \in Nat, NEW base \in Nat, IsFiniteSet(L)
  PROVE  /\ IsFiniteSet(L \cup Batch(s, base, n))
         /\ Cardinality(L \cup Batch(s, base, n)) <= Cardinality(L) + n
         /\ Cardinality(Text!Own(s, L \cup Batch(s, base, n))) <= Cardinality(Text!Own(s, L)) + n
<1>. DEFINE new == Batch(s, base, n)
            f == [i \in 1 .. n |-> <<s, base + i>>]
<1>1. IsFiniteSet(1 .. n) /\ Cardinality(1 .. n) = n
  BY FS_Interval
<1>2. f \in Surjection(1 .. n, new)
  BY DEF Surjection, Batch
<1>. HIDE DEF f
<1>3. IsFiniteSet(new) /\ Cardinality(new) <= n
  BY <1>1, <1>2, FS_Surjection
<1>4. \A K : IsFiniteSet(K) => /\ IsFiniteSet(K \cup new)
                               /\ Cardinality(K \cup new) <= Cardinality(K) + n
  <2>. SUFFICES ASSUME NEW K, IsFiniteSet(K)
                PROVE  /\ IsFiniteSet(K \cup new)
                       /\ Cardinality(K \cup new) <= Cardinality(K) + n
    OBVIOUS
  <2>. HIDE DEF new
  <2>1. /\ IsFiniteSet(K \cup new)
        /\ Cardinality(K \cup new) = Cardinality(K) + Cardinality(new) - Cardinality(K \cap new)
    BY <1>3, FS_Union
  <2>2. IsFiniteSet(K \cap new)
    BY FS_Intersection
  <2>3. Cardinality(K) \in Nat /\ Cardinality(new) \in Nat /\ Cardinality(K \cap new) \in Nat
    BY <1>3, <2>2, FS_CardinalityType
  <2>. QED BY <1>3, <2>1, <2>3
<1>5. IsFiniteSet(Text!Own(s, L))
  BY FS_Subset, Text!Own(s, L) \in SUBSET L DEF Text!Own
<1>6. Text!Own(s, L \cup new) = Text!Own(s, L) \cup new
  BY DEF Text!Own, Batch
<1>. HIDE DEF new
<1>7. QED
  <2>1. IsFiniteSet(L \cup new) /\ Cardinality(L \cup new) <= Cardinality(L) + n
    BY <1>4
  <2>2. Cardinality(Text!Own(s, L \cup new)) <= Cardinality(Text!Own(s, L)) + n
    BY <1>4, <1>5, <1>6
  <2>. QED BY <2>1, <2>2 DEF new

-----------------------------------------------------------------------------
(* Under the invariant the charges that still count are those of what lives. *)
LEMMA RetainedIsLive ==
  ASSUME TextInv
  PROVE  Text!Retained = Text!Live
BY DEF TextInv, Text!RetainedCharged, Text!Retained

LEMMA TextInit ==
  ASSUME TextAssumption, Text!Init
  PROVE  TextInv
<1>1. \A s : Text!Own(s, Text!Live) = {}
  BY DEF Text!Init, Text!Live, Text!Own
<1>2. IsFiniteSet(Text!Live) /\ Cardinality(Text!Live) = 0 /\ \A s : Cardinality(Text!Own(s, Text!Live)) = 0
  BY <1>1, FS_EmptySet DEF Text!Init, Text!Live
<1>3. TextTypes
  BY <1>2 DEF TextAssumption, Text!Init, TextTypes, Text!TypeOK, Layouts, Text!Idle
<1>4. Text!JobsEnd /\ OneJob /\ RoomKept /\ Text!LayoutsHaveWindow
  BY DEF Text!Init, Text!JobsEnd, OneJob, RoomKept, Text!LayoutsHaveWindow, Text!Idle, Text!Live
<1>5. Text!RetainedCharged
  <2>1. Text!Live = {} BY DEF Text!Init, Text!Live
  <2>2. 0 <= MAX_RETAINED_LAYOUTS * MAX_OWNERS BY DEF TextAssumption
  <2>. QED BY <1>2, <2>1, <2>2, SameCount DEF Text!RetainedCharged, TextAssumption
<1>. QED BY <1>3, <1>4, <1>5 DEF TextInv

(* The steps that install nothing: what lives afterwards lived before, was     *)
(* charged and is charged, and no worker's batch has grown.                    *)
LEMMA NothingInstalled ==
  ASSUME TextAssumption, TextInv, Text!Live' \subseteq Text!Live, Text!Live' \subseteq layout_charges',
         \A s \in Producers :
           /\ text_worker'[s].at # "idle" /\ text_worker'[s].retain
           /\ ~(text_worker[s].at # "idle" /\ text_worker[s].retain /\ text_worker'[s].texts = text_worker[s].texts)
           => Cardinality(Text!Own(s, Text!Live)) + text_worker'[s].texts <= MAX_RETAINED_LAYOUTS,
         text_worker' \in [Producers -> [at : {"idle", "shaping", "checked", "holding"}, texts : Nat,
                                         retain : BOOLEAN]]
  PROVE  Text!RetainedCharged' /\ RoomKept' /\ IsFiniteSet(Text!Live')
<1>1. /\ IsFiniteSet(Text!Live) /\ \A s \in Producers : Cardinality(Text!Own(s, Text!Live)) <= MAX_RETAINED_LAYOUTS
      /\ Cardinality(Text!Live) <= MAX_RETAINED_LAYOUTS * MAX_OWNERS
  BY SameCount DEF TextInv, TextTypes, Text!RetainedCharged
<1>2. /\ IsFiniteSet(Text!Live')
      /\ Cardinality(Text!Live') \in Nat /\ Cardinality(Text!Live) \in Nat
      /\ Cardinality(Text!Live') <= Cardinality(Text!Live)
      /\ \A s : /\ Cardinality(Text!Own(s, Text!Live')) \in Nat /\ Cardinality(Text!Own(s, Text!Live)) \in Nat
                /\ Cardinality(Text!Own(s, Text!Live')) <= Cardinality(Text!Own(s, Text!Live))
  <2>. DEFINE L == Text!Live  M == Text!Live'
  <2>. HIDE DEF L, M
  <2>1. IsFiniteSet(L) /\ M \subseteq L BY <1>1 DEF L, M
  <2>2. /\ IsFiniteSet(M)
      /\ Cardinality(M) \in Nat /\ Cardinality(L) \in Nat
      /\ Cardinality(M) <= Cardinality(L)
      /\ \A s : /\ Cardinality(Text!Own(s, M)) \in Nat /\ Cardinality(Text!Own(s, L)) \in Nat
                /\ Cardinality(Text!Own(s, M)) <= Cardinality(Text!Own(s, L))
    BY ONLY <2>1, FewerLayouts
  <2>. QED BY <2>2 DEF L, M
<1>3. MAX_RETAINED_LAYOUTS \in Nat /\ MAX_RETAINED_LAYOUTS * MAX_OWNERS \in Nat
  BY DEF TextAssumption
<1>4. Text!RetainedCharged'
  <2>1. Cardinality(Text!Live') <= MAX_RETAINED_LAYOUTS * MAX_OWNERS
    BY <1>1, <1>2, <1>3
  <2>2. \A s \in Producers : Cardinality(Text!Own(s, Text!Live')) <= MAX_RETAINED_LAYOUTS
    BY <1>1, <1>2, <1>3
  <2>3. Text!Own(0, 0)' = Text!Own(0, 0) /\ \A s : Text!Own(s, Text!Live)' = Text!Own(s, Text!Live')
    BY DEF Text!Own
  <2>. QED BY <2>1, <2>2, <2>3, SameCount DEF Text!RetainedCharged
<1>5. RoomKept'
  <2>. SUFFICES ASSUME NEW s \in Producers, text_worker'[s].at # "idle", text_worker'[s].retain
                PROVE  Cardinality(Text!Own(s, Text!Live')) + text_worker'[s].texts <= MAX_RETAINED_LAYOUTS
    BY DEF RoomKept, Text!Own
  <2>0. text_worker'[s].texts \in Nat
    OBVIOUS
  <2>1. Cardinality(Text!Own(s, Text!Live)) + text_worker'[s].texts <= MAX_RETAINED_LAYOUTS
    BY DEF TextInv, RoomKept
  <2>. QED BY <1>2, <1>3, <2>0, <2>1
<1>. QED BY <1>2, <1>4, <1>5

-----------------------------------------------------------------------------
(* One lemma for each group of steps that leave the layouts or only remove     *)
(* some; each uses NothingInstalled for the bounds.                            *)
LEMMA MeasureKeeps ==
  ASSUME TextAssumption, TextInv, NEW s \in Producers, NEW n \in Nat, NEW retain \in BOOLEAN,
         Text!Measure(s, n, retain)
  PROVE  TextInv'
<1>. USE DEF TextInv, TextTypes, Text!TypeOK
<1>1. Text!Retained = Text!Live
  BY RetainedIsLive
<1>2. text_worker[s].at = "idle" /\ actor[s] = "idle" /\ s \notin text_jobs
  BY DEF Text!Measure, Text!JobsEnd
<1>3. Text!Live' = Text!Live /\ Text!Live' \subseteq layout_charges' /\ layout_charges' \subseteq layout_charges
  BY <1>1 DEF Text!Measure, Text!Live, Text!RetainedCharged, Text!Retained
<1>4. text_worker' \in [Producers -> [at : {"idle", "shaping", "checked", "holding"}, texts : Nat,
                                      retain : BOOLEAN]]
  BY DEF Text!Measure
<1>5. \A u \in Producers :
        /\ text_worker'[u].at # "idle" /\ text_worker'[u].retain
        /\ ~(text_worker[u].at # "idle" /\ text_worker[u].retain /\ text_worker'[u].texts = text_worker[u].texts)
        => Cardinality(Text!Own(u, Text!Live)) + text_worker'[u].texts <= MAX_RETAINED_LAYOUTS
  <2>1. retain => Cardinality(Text!Own(s, Text!Live)) + n <= MAX_RETAINED_LAYOUTS
    BY <1>1, SameCount DEF Text!Measure, Text!Fits
  <2>2. CASE UNCHANGED text_worker
    BY <2>2
  <2>3. CASE text_worker' = [text_worker EXCEPT ![s] = [at |-> "shaping", texts |-> n,
                                                        retain |-> retain]]
    <3>1. text_worker'[s].texts = n /\ text_worker'[s].retain = retain
      BY <2>3
    <3>2. \A u \in Producers : u # s => text_worker'[u] = text_worker[u]
      BY <2>3
    <3>. QED BY <2>1, <3>1, <3>2
  <2>. QED BY <2>2, <2>3 DEF Text!Measure
<1>6. Text!RetainedCharged' /\ RoomKept' /\ IsFiniteSet(Text!Live')
  BY <1>3, <1>4, <1>5, NothingInstalled
<1>7. TextTypes'
  BY <1>3, <1>4, <1>6 DEF Text!Measure, Text!locks
<1>8. Text!JobsEnd' /\ OneJob'
  BY <1>2 DEF Text!Measure, Text!JobsEnd, OneJob
<1>9. Text!LayoutsHaveWindow'
  BY <1>3 DEF Text!Measure, Text!LayoutsHaveWindow
<1>. QED BY <1>6, <1>7, <1>8, <1>9

(* Steps of the actor, the host and the lane. *)
LEMMA HostKeeps ==
  ASSUME TextAssumption, TextInv, NEW s \in Producers,
         \/ Text!SpawnFails(s) \/ Text!Release(s) \/ Text!Dispatch(s) \/ Text!Dispatched(s) \/ Text!Revoke(s)
         \/ Text!SurfaceRemoved(s) \/ Text!ServiceInput(s) \/ Text!Dismiss(s) \/ Text!Frame(s) \/ Text!LaneLost(s)
         \/ Text!LaneOpen(s)
  PROVE  TextInv'
<1>. USE DEF TextInv, TextTypes, Text!TypeOK
<1>1. text_worker' = text_worker
  BY DEF Text!SpawnFails, Text!Release, Text!Dispatch, Text!Dispatched, Text!Revoke,
     Text!SurfaceRemoved, Text!ServiceInput, Text!Dismiss, Text!Frame, Text!LaneLost,
     Text!LaneOpen
<1>2. Text!Live' \subseteq Text!Live
  BY DEF Text!SpawnFails, Text!Release, Text!Dispatch, Text!Dispatched, Text!Revoke,
     Text!SurfaceRemoved, Text!ServiceInput, Text!Dismiss, Text!Frame, Text!LaneLost,
     Text!LaneOpen, Text!text, Text!Forget, Text!Live, Text!Own
<1>3. Text!Live' \subseteq layout_charges' /\ layout_charges' \subseteq layout_charges
  BY <1>2 DEF Text!SpawnFails, Text!Release, Text!Dispatch, Text!Dispatched, Text!Revoke,
     Text!SurfaceRemoved, Text!ServiceInput, Text!Dismiss, Text!Frame, Text!LaneLost,
     Text!LaneOpen, Text!text, Text!Live, Text!Own, Text!RetainedCharged
<1>4. Text!RetainedCharged' /\ RoomKept' /\ IsFiniteSet(Text!Live')
  BY <1>1, <1>2, <1>3, NothingInstalled
<1>5. TextTypes'
  <2>1. layouts' \subseteq Layouts /\ scenes' \subseteq Layouts
    BY <1>2 DEF Text!Live
  <2>2. layout_charges' \subseteq Layouts /\ next_layout' = next_layout
    BY <1>3 DEF Text!SpawnFails, Text!Release, Text!Dispatch, Text!Dispatched, Text!Revoke,
       Text!SurfaceRemoved, Text!ServiceInput, Text!Dismiss, Text!Frame, Text!LaneLost,
       Text!LaneOpen, Text!text, Layouts
  <2>3. overlays' \in {"free", "actor"} /\ contexts' = contexts
    BY DEF Text!SpawnFails, Text!Release, Text!Dispatch, Text!Dispatched, Text!Revoke,
       Text!SurfaceRemoved, Text!ServiceInput, Text!Dismiss, Text!Frame, Text!LaneLost,
       Text!LaneOpen, Text!locks
  <2>4. /\ granted' \in [Producers -> BOOLEAN]
        /\ actor' \in [Producers -> {"idle", "unspawned", "dispatch", "revoked"}]
        /\ text_jobs' \subseteq Producers
    BY DEF Text!SpawnFails, Text!Release, Text!Dispatch, Text!Dispatched, Text!Revoke,
       Text!SurfaceRemoved, Text!ServiceInput, Text!Dismiss, Text!Frame, Text!LaneLost,
       Text!LaneOpen, Text!text
  <2>5. /\ text_window' \in [Producers -> {"none", "open", "dismissed"}]
        /\ text_lane' \in [Producers -> BOOLEAN]
    BY DEF Text!SpawnFails, Text!Release, Text!Dispatch, Text!Dispatched, Text!Revoke,
       Text!SurfaceRemoved, Text!ServiceInput, Text!Dismiss, Text!Frame, Text!LaneLost,
       Text!LaneOpen, Text!Forget
  <2>. QED BY <1>1, <1>4, <2>1, <2>2, <2>3, <2>4, <2>5 DEF Layouts
<1>6. Text!JobsEnd' /\ OneJob'
  <2>1. \A u \in Producers : actor'[u] = "unspawned" <=> actor[u] = "unspawned" /\ u \in text_jobs'
    BY DEF Text!SpawnFails, Text!Release, Text!Dispatch, Text!Dispatched, Text!Revoke,
       Text!SurfaceRemoved, Text!ServiceInput, Text!Dismiss, Text!Frame, Text!LaneLost,
       Text!LaneOpen, Text!text, Text!JobsEnd
  <2>2. \/ text_jobs' = text_jobs
        \/ actor[s] = "unspawned" /\ text_jobs' = text_jobs \ {s}
    BY DEF Text!SpawnFails, Text!Release, Text!Dispatch, Text!Dispatched, Text!Revoke,
       Text!SurfaceRemoved, Text!ServiceInput, Text!Dismiss, Text!Frame, Text!LaneLost,
       Text!LaneOpen, Text!text
  <2>. QED BY <1>1, <2>1, <2>2 DEF Text!JobsEnd, OneJob
<1>7. Text!LayoutsHaveWindow'
  <2>1. \A l \in Text!Live' : l \in Producers \X (1 .. MaxLayout) /\ text_window[l[1]] # "none" /\ text_lane[l[1]]
    BY <1>2 DEF Text!LayoutsHaveWindow, Text!Live, Layouts
  <2>2. \A u \in Producers : text_window[u] # "none" /\ text_lane[u] /\ ~(text_window'[u] # "none" /\ text_lane'[u])
          => u = s /\ Text!Own(s, Text!Live') = {}
    BY DEF Text!SpawnFails, Text!Release, Text!Dispatch, Text!Dispatched, Text!Revoke,
       Text!SurfaceRemoved, Text!ServiceInput, Text!Dismiss, Text!Frame, Text!LaneLost,
       Text!LaneOpen, Text!text, Text!Forget, Text!Live, Text!Own
  <2>. QED BY <2>1, <2>2 DEF Text!LayoutsHaveWindow, Text!Own
<1>. QED BY <1>4, <1>5, <1>6, <1>7

(* The worker's steps before the batch is installed or given up. *)
LEMMA WorkerKeeps ==
  ASSUME TextAssumption, TextInv, NEW s \in Producers,
         Text!Check(s) \/ Text!Answer(s) \/ Text!HoldContexts(s) \/ Text!InstallFails(s)
  PROVE  TextInv'
<1>. USE DEF TextInv, TextTypes, Text!TypeOK
<1>1. Text!Retained = Text!Live
  BY RetainedIsLive
<1>2. Text!Live' = Text!Live /\ Text!Live' \subseteq layout_charges' /\ layout_charges' \subseteq layout_charges
  BY <1>1 DEF Text!Check, Text!Answer, Text!HoldContexts, Text!InstallFails, Text!Finished,
     Text!text, Text!Live, Text!RetainedCharged, Text!Retained
<1>3. text_worker' \in [Producers -> [at : {"idle", "shaping", "checked", "holding"}, texts : Nat,
                                      retain : BOOLEAN]]
  <2>. DEFINE Workers == [at : {"idle", "shaping", "checked", "holding"}, texts : Nat,
                          retain : BOOLEAN]
  <2>1. text_worker[s] \in Workers
    OBVIOUS
  <2>2. [text_worker[s] EXCEPT !.at = "checked"] \in Workers
        /\ [text_worker[s] EXCEPT !.at = "holding"] \in Workers /\ Text!Idle \in Workers
    BY <2>1 DEF Text!Idle
  <2>3. \E w \in Workers : text_worker' = [text_worker EXCEPT ![s] = w]
    BY <2>2 DEF Text!Check, Text!Answer, Text!HoldContexts, Text!InstallFails, Text!Finished
  <2>. HIDE DEF Workers
  <2>4. text_worker' \in [Producers -> Workers]
    BY <2>3 DEF Workers
  <2>. QED BY <2>4 DEF Workers
<1>4. \A u \in Producers : text_worker'[u].at # "idle" =>
        text_worker[u].at # "idle" /\ text_worker'[u].retain = text_worker[u].retain
        /\ text_worker'[u].texts = text_worker[u].texts
  BY DEF Text!Check, Text!Answer, Text!HoldContexts, Text!InstallFails, Text!Finished, Text!Idle
<1>5. Text!RetainedCharged' /\ RoomKept' /\ IsFiniteSet(Text!Live')
  BY <1>2, <1>3, <1>4, NothingInstalled
<1>6. TextTypes'
  BY <1>2, <1>3, <1>5 DEF Text!Check, Text!Answer, Text!HoldContexts, Text!InstallFails,
     Text!Finished, Text!text, Text!locks
<1>7. Text!JobsEnd' /\ OneJob'
  BY DEF Text!Check, Text!Answer, Text!HoldContexts, Text!InstallFails, Text!Finished,
     Text!text, Text!JobsEnd, OneJob, Text!Idle
<1>8. Text!LayoutsHaveWindow'
  BY <1>2 DEF Text!Check, Text!Answer, Text!HoldContexts, Text!InstallFails, Text!Finished,
     Text!text, Text!LayoutsHaveWindow
<1>. QED BY <1>5, <1>6, <1>7, <1>8

(* The whole batch: the room it was admitted for is there, and the host's is    *)
(* looked at again.                                                            *)
LEMMA InstallKeeps ==
  ASSUME TextAssumption, TextInv, NEW s \in Producers, Text!Install(s)
  PROVE  TextInv'
<1>. USE DEF TextInv, TextTypes, Text!TypeOK
<1>. DEFINE n == text_worker[s].texts
            new == Batch(s, next_layout, n)
<1>1. Text!Retained = Text!Live
  BY RetainedIsLive
<1>2. n \in Nat /\ next_layout \in Nat /\ next_layout + n <= MaxLayout
  BY DEF Text!Install, TextAssumption
<1>3. new \subseteq Layouts
  BY <1>2 DEF Layouts, TextAssumption, Batch
<1>4. /\ Text!Live' = Text!Live \cup new /\ layout_charges' = Text!Live \cup new
      /\ layouts' = layouts \cup new /\ scenes' = scenes
  BY <1>1 DEF Text!Install, Text!Finished, Text!Live, Batch
<1>5. /\ IsFiniteSet(Text!Live \cup new)
      /\ Cardinality(Text!Live \cup new) <= Cardinality(Text!Live) + n
      /\ Cardinality(Text!Own(s, Text!Live \cup new)) <= Cardinality(Text!Own(s, Text!Live)) + n
      /\ \A u : u # s => Text!Own(u, Text!Live \cup new) = Text!Own(u, Text!Live)
  <2>1. ASSUME NEW L, NEW k \in Nat, NEW b \in Nat, IsFiniteSet(L)
        PROVE  /\ IsFiniteSet(L \cup Batch(s, b, k))
               /\ Cardinality(L \cup Batch(s, b, k)) <= Cardinality(L) + k
               /\ Cardinality(Text!Own(s, L \cup Batch(s, b, k))) <= Cardinality(Text!Own(s, L)) + k
    BY ONLY <2>1, BatchBounds
  <2>2. IsFiniteSet(Text!Live)
    OBVIOUS
  <2>3. \A u : u # s => Text!Own(u, Text!Live \cup new) = Text!Own(u, Text!Live)
    BY DEF Text!Own, Batch
  <2>. HIDE DEF n
  <2>. QED BY ONLY <1>2, <2>1, <2>2, <2>3
<1>. HIDE DEF new
<1>6. /\ Cardinality(Text!Own(s, Text!Live)) + n <= MAX_RETAINED_LAYOUTS
      /\ Cardinality(Text!Live) + n <= MAX_RETAINED_LAYOUTS * MAX_OWNERS
  BY <1>1, SameCount DEF Text!Install, RoomKept
<1>7. /\ Cardinality(Text!Live) \in Nat /\ Cardinality(Text!Live \cup new) \in Nat
      /\ \A u : Cardinality(Text!Own(u, Text!Live)) \in Nat /\ Cardinality(Text!Own(u, Text!Live \cup new)) \in Nat
  <2>. DEFINE M == Text!Live  L == Text!Live \cup new
  <2>. HIDE DEF M, L
  <2>1. IsFiniteSet(L) /\ M \subseteq L BY <1>5 DEF M, L
  <2>2. Cardinality(M) \in Nat /\ Cardinality(L) \in Nat
        /\ \A u : Cardinality(Text!Own(u, M)) \in Nat /\ Cardinality(Text!Own(u, L)) \in Nat
    BY ONLY <2>1, FewerLayouts
  <2>. QED BY <2>2 DEF M, L
<1>8. Text!RetainedCharged'
  <2>1. Cardinality(Text!Live \cup new) <= MAX_RETAINED_LAYOUTS * MAX_OWNERS
    BY <1>2, <1>5, <1>6, <1>7 DEF TextAssumption
  <2>2. \A u \in Producers : Cardinality(Text!Own(u, Text!Live \cup new)) <= MAX_RETAINED_LAYOUTS
    <3>. SUFFICES ASSUME NEW u \in Producers
                  PROVE  Cardinality(Text!Own(u, Text!Live \cup new)) <= MAX_RETAINED_LAYOUTS
      OBVIOUS
    <3>1. CASE u = s
      <4>. DEFINE before == Cardinality(Text!Own(s, Text!Live))  after == Cardinality(Text!Own(s, Text!Live \cup new))
      <4>1. /\ before \in Nat /\ after \in Nat /\ n \in Nat /\ MAX_RETAINED_LAYOUTS \in Nat
            /\ after <= before + n /\ before + n <= MAX_RETAINED_LAYOUTS
        BY <1>2, <1>5, <1>6, <1>7 DEF TextAssumption
      <4>. HIDE DEF before, after, n
      <4>2. after <= MAX_RETAINED_LAYOUTS
        BY ONLY <4>1
      <4>. QED BY <3>1, <4>2 DEF after
    <3>2. CASE u # s
      BY <1>5, <3>2, SameCount DEF Text!RetainedCharged
    <3>. QED BY <3>1, <3>2
  <2>3. \A u : Text!Own(u, Text!Live)' = Text!Own(u, Text!Live')
    BY DEF Text!Own
  <2>. QED BY <1>4, <2>1, <2>2, <2>3, SameCount DEF Text!RetainedCharged
<1>9. RoomKept'
  <2>1. text_worker'[s].at = "idle" /\ \A u \in Producers : u # s => text_worker'[u] = text_worker[u]
    BY DEF Text!Install, Text!Finished, Text!Idle
  <2>2. \A u \in Producers : Text!Own(u, Text!Live)' = Text!Own(u, Text!Live')
    BY DEF Text!Own
  <2>. QED BY <1>4, <1>5, <2>1, <2>2 DEF RoomKept
<1>10. TextTypes'
  <2>1. layout_charges' \subseteq Producers \X (1 .. MaxLayout) /\ layouts' \subseteq Layouts
    BY <1>3, <1>4 DEF Layouts, Text!Live
  <2>2. next_layout' \in 0 .. MaxLayout
    BY <1>2 DEF Text!Install, TextAssumption
  <2>. QED BY <1>4, <1>5, <2>1, <2>2 DEF Text!Install, Text!Finished, Text!Idle
<1>11. Text!JobsEnd' /\ OneJob'
  BY DEF Text!Install, Text!Finished, Text!JobsEnd, OneJob, Text!Idle
<1>12. Text!LayoutsHaveWindow'
  <2>1. \A l \in new : l[1] = s
    BY DEF new, Batch
  <2>2. text_window[s] # "none" /\ text_lane[s] /\ text_window' = text_window /\ text_lane' = text_lane
    BY DEF Text!Install, Text!Finished, Text!Authorized
  <2>. QED BY <1>4, <2>1, <2>2 DEF Text!LayoutsHaveWindow
<1>. QED BY <1>8, <1>9, <1>10, <1>11, <1>12

LEMMA TextStep ==
  ASSUME TextAssumption, TextInv, Text!Next \/ UNCHANGED Text!vars
  PROVE  TextInv'
<1>1. CASE UNCHANGED Text!vars
  <2>1. Text!Live' = Text!Live /\ \A u : Text!Own(u, Text!Live)' = Text!Own(u, Text!Live)
    BY <1>1 DEF Text!vars, Text!Live, Text!Own
  <2>. QED BY <1>1, <2>1 DEF TextInv, TextTypes, Text!TypeOK, Text!JobsEnd, OneJob,
              Text!RetainedCharged, RoomKept, Text!LayoutsHaveWindow, Text!vars
<1>2. ASSUME NEW s \in Producers, NEW n \in 1 .. MaxTexts, Text!Measure(s, n, TRUE)
      PROVE TextInv'
  BY <1>2, MeasureKeeps, n \in Nat, TRUE \in BOOLEAN DEF TextAssumption
<1>3. ASSUME NEW s \in Producers, Text!Measure(s, 1, FALSE)
      PROVE TextInv'
  BY <1>3, MeasureKeeps, 1 \in Nat, FALSE \in BOOLEAN
<1>. QED BY <1>1, <1>2, <1>3, HostKeeps, WorkerKeeps, InstallKeeps DEF Text!Next

-----------------------------------------------------------------------------
(* The desktop's notifications, for every limit of the table and of the      *)
(* queues: the table stays within its limit and true, and nothing the worker *)
(* forgot stays up without being told to close.                              *)
(*                                                                         *)
(* The last hangs on the order of the worker's steps: a token is new, its    *)
(* task starts only once it is on the table, and a Done in the queue is      *)
(* about a task that is over, which is why Done may take the task off the    *)
(* table without closing it.                                                 *)
Assemblies == [id : Ids, title : Nat, body : Nat]

Messages ==
  [kind : {"Display", "Close"}, id : Ids \cup {NoId}]
    \cup [kind : {"Clear", "Shutdown"}] \cup [kind : {"Done"}, token : Notes!Tokens]

NotesTypes ==
  /\ next_token \in Nat /\ DOMAIN live \subseteq 1 .. next_token
  /\ pending \in Seq(Assemblies) /\ order \in Seq(Nat) /\ inbox \in Seq(Messages)
  /\ tasks \in [Notes!Tokens -> {"none", "starting", "shown", "ended", "over"}]
  /\ channels \in [Notes!Tokens -> Seq({"Update", "Close"})]
  /\ spawning \in {<<>>, <<next_token>>}

NewTokens ==
  /\ \A t \in Notes!Tokens : t > next_token => tasks[t] = "none"
  /\ spawning # <<>> =>
       /\ next_token \in DOMAIN live
       /\ next_token \in Notes!Tokens => tasks[next_token] = "none"

DoneIsOver ==
  \A i \in DOMAIN inbox : inbox[i].kind = "Done" => tasks[inbox[i].token] = "over"

NotesInv ==
  NotesTypes /\ NewTokens /\ DoneIsOver /\ Notes!Bounded /\ Notes!NamedIsLive /\ Notes!ForgottenIsClosed

LEMMA SameSize ==
  \A S : Notes!Cardinality(S) = Cardinality(S)
BY DEF Notes!Cardinality, Cardinality

(* CutAt loses one element and no other.                                     *)
LEMMA CutAtKeeps ==
  ASSUME NEW S, NEW s \in Seq(S), NEW i \in 1 .. Len(s)
  PROVE  /\ Notes!CutAt(s, i) \in Seq(S) /\ Len(Notes!CutAt(s, i)) = Len(s) - 1
         /\ \A j \in 1 .. Len(s) : j # i => s[j] \in Notes!Range(Notes!CutAt(s, i))
<1>. DEFINE a == SubSeq(s, 1, i - 1)  b == SubSeq(s, i + 1, Len(s))
<1>1. Len(s) \in Nat /\ i \in Nat /\ i >= 1 /\ i <= Len(s)
  BY LenProperties
<1>2. a \in Seq(S) /\ Len(a) = i - 1 /\ \A j \in 1 .. i - 1 : a[j] = s[j]
  <2>1. \A j \in 1 .. i - 1 : s[j] \in S
    BY <1>1, ElementOfSeq
  <2>2. /\ a \in Seq(S) /\ Len(a) = IF 1 <= i - 1 THEN i - 1 - 1 + 1 ELSE 0
        /\ \A j \in 1 .. i - 1 - 1 + 1 : a[j] = s[1 + j - 1]
    BY ONLY <1>1, <2>1, SubSeqProperties, i - 1 \in Int, 1 \in Int
  <2>. HIDE DEF a
  <2>. QED BY <1>1, <2>2
<1>3. b \in Seq(S) /\ Len(b) = Len(s) - i /\ \A j \in 1 .. Len(s) - i : b[j] = s[i + j]
  <2>1. \A j \in i + 1 .. Len(s) : s[j] \in S
    BY <1>1, ElementOfSeq
  <2>2. /\ b \in Seq(S) /\ Len(b) = IF i + 1 <= Len(s) THEN Len(s) - (i + 1) + 1 ELSE 0
        /\ \A j \in 1 .. Len(s) - (i + 1) + 1 : b[j] = s[i + 1 + j - 1]
    BY ONLY <1>1, <2>1, SubSeqProperties, i + 1 \in Int, Len(s) \in Int
  <2>. HIDE DEF b
  <2>. QED BY <1>1, <2>2
<1>. HIDE DEF a, b
<1>4. /\ a \o b \in Seq(S) /\ Len(a \o b) = Len(a) + Len(b)
      /\ \A j \in 1 .. Len(a) + Len(b) : (a \o b)[j] = IF j <= Len(a) THEN a[j] ELSE b[j - Len(a)]
  BY ONLY <1>2, <1>3, ConcatProperties
<1>5. DOMAIN (a \o b) = 1 .. Len(s) - 1
  BY <1>1, <1>2, <1>3, <1>4, LenProperties
<1>6. ASSUME NEW j \in 1 .. Len(s), j # i
      PROVE  s[j] \in Notes!Range(a \o b)
  <2>1. CASE j < i
    <3>1. j \in 1 .. Len(s) - 1 /\ (a \o b)[j] = s[j]
      BY <1>1, <1>2, <1>3, <1>4, <2>1
    <3>. QED BY <1>5, <3>1 DEF Notes!Range
  <2>2. CASE j > i
    <3>1. /\ j - 1 \in 1 .. Len(s) - 1 /\ j - 1 > i - 1 /\ j - i \in 1 .. Len(s) - i
          /\ (j - 1) - (i - 1) = j - i /\ i + (j - i) = j
      BY <1>1, <2>2
    <3>2. (a \o b)[j - 1] = b[j - i]
      BY <1>1, <1>2, <1>3, <1>4, <3>1
    <3>3. (a \o b)[j - 1] = s[j]
      BY <1>3, <3>1, <3>2
    <3>. QED BY <1>5, <3>1, <3>3 DEF Notes!Range
  <2>. QED BY <1>1, <1>6, <2>1, <2>2
<1>7. Len(a \o b) = Len(s) - 1
  BY <1>1, <1>2, <1>3, <1>4
<1>. QED BY <1>4, <1>6, <1>7 DEF Notes!CutAt, a, b

(* What a sequence has after one element more, or one less at its front.     *)
LEMMA Appended ==
  ASSUME NEW S, NEW s \in Seq(S), NEW e \in S
  PROVE  /\ Append(s, e) \in Seq(S) /\ Len(Append(s, e)) = Len(s) + 1
         /\ Notes!Range(s) \subseteq Notes!Range(Append(s, e)) /\ e \in Notes!Range(Append(s, e))
<1>1. /\ Append(s, e) \in Seq(S) /\ Len(Append(s, e)) = Len(s) + 1 /\ Len(s) \in Nat
      /\ DOMAIN s = 1 .. Len(s) /\ DOMAIN Append(s, e) = 1 .. Len(s) + 1
      /\ \A i \in 1 .. Len(s) : Append(s, e)[i] = s[i]
      /\ Append(s, e)[Len(s) + 1] = e
  BY AppendProperties, LenProperties
<1>. QED BY <1>1 DEF Notes!Range

LEMMA Behind ==
  ASSUME NEW S, NEW s \in Seq(S), s # <<>>
  PROVE  /\ Tail(s) \in Seq(S) /\ Len(Tail(s)) = Len(s) - 1 /\ Len(s) \in Nat \ {0}
         /\ Head(s) = s[1] /\ 1 \in DOMAIN s
         /\ \A i \in DOMAIN Tail(s) : i + 1 \in DOMAIN s /\ Tail(s)[i] = s[i + 1]
         /\ \A x \in Notes!Range(s) : x = Head(s) \/ x \in Notes!Range(Tail(s))
<1>1. /\ Tail(s) \in Seq(S) /\ Len(Tail(s)) = Len(s) - 1 /\ Len(s) \in Nat /\ Len(s) # 0
      /\ Head(s) = s[1]
      /\ DOMAIN s = 1 .. Len(s) /\ DOMAIN Tail(s) = 1 .. Len(s) - 1
      /\ \A i \in 1 .. Len(s) - 1 : Tail(s)[i] = s[i + 1]
  BY HeadTailProperties, LenProperties, EmptySeq
<1>2. ASSUME NEW x \in Notes!Range(s), x # Head(s)
      PROVE  x \in Notes!Range(Tail(s))
  <2>1. PICK i \in 1 .. Len(s) : x = s[i]
    BY <1>1 DEF Notes!Range
  <2>2. i - 1 \in 1 .. Len(s) - 1 /\ (i - 1) + 1 = i
    BY <1>1, <1>2, <2>1
  <2>. QED BY <1>1, <2>1, <2>2 DEF Notes!Range
<1>. QED BY <1>1, <1>2

(* What follows the first n elements.                                        *)
LEMMA AfterFirst ==
  ASSUME NEW S, NEW s \in Seq(S), NEW n \in 0 .. Len(s)
  PROVE  /\ SubSeq(s, n + 1, Len(s)) \in Seq(S) /\ Len(SubSeq(s, n + 1, Len(s))) = Len(s) - n
         /\ \A x \in Notes!Range(s) : x \in {s[i] : i \in 1 .. n} \/ x \in Notes!Range(SubSeq(s, n + 1, Len(s)))
<1>. DEFINE b == SubSeq(s, n + 1, Len(s))
<1>1. Len(s) \in Nat /\ n \in Nat /\ n <= Len(s) /\ DOMAIN s = 1 .. Len(s)
  BY LenProperties
<1>2. b \in Seq(S) /\ Len(b) = Len(s) - n /\ \A j \in 1 .. Len(s) - n : b[j] = s[n + j]
  <2>1. \A j \in n + 1 .. Len(s) : s[j] \in S
    BY <1>1, ElementOfSeq
  <2>2. /\ b \in Seq(S) /\ Len(b) = IF n + 1 <= Len(s) THEN Len(s) - (n + 1) + 1 ELSE 0
        /\ \A j \in 1 .. Len(s) - (n + 1) + 1 : b[j] = s[n + 1 + j - 1]
    BY ONLY <1>1, <2>1, SubSeqProperties, n + 1 \in Int, Len(s) \in Int
  <2>. HIDE DEF b
  <2>3. CASE n < Len(s)
    <3>1. n + 1 <= Len(s) /\ Len(s) - (n + 1) + 1 = Len(s) - n
      BY ONLY <1>1, <2>3
    <3>2. \A j \in 1 .. Len(s) - n : n + 1 + j - 1 = n + j
      BY ONLY <1>1
    <3>. QED BY <2>2, <3>1, <3>2
  <2>4. CASE n = Len(s)
    <3>1. ~(n + 1 <= Len(s)) /\ Len(s) - n = 0 /\ 1 .. 0 = {}
      BY ONLY <1>1, <2>4
    <3>. QED BY <2>2, <3>1
  <2>5. \A i, j \in Nat : i <= j => i < j \/ i = j
    OBVIOUS
  <2>. QED BY <1>1, <2>3, <2>4, <2>5
<1>. HIDE DEF b
<1>3. DOMAIN b = 1 .. Len(s) - n
  BY <1>2, LenProperties
<1>4. ASSUME NEW x \in Notes!Range(s), x \notin {s[i] : i \in 1 .. n}
      PROVE  x \in Notes!Range(b)
  <2>1. PICK i \in 1 .. Len(s) : x = s[i]
    BY <1>1 DEF Notes!Range
  <2>2. i \notin 1 .. n
    BY <1>4, <2>1
  <2>3. i - n \in 1 .. Len(s) - n /\ n + (i - n) = i
    BY <1>1, <2>2
  <2>. QED BY <1>2, <1>3, <2>1, <2>3 DEF Notes!Range
<1>. QED BY <1>2, <1>4 DEF b

-----------------------------------------------------------------------------
LEMMA NotesInit ==
  ASSUME NotesAssumption, Notes!Init
  PROVE  NotesInv
<1>1. DOMAIN live = {} /\ DOMAIN by_id = {} /\ IsFiniteSet(DOMAIN live) /\ Cardinality(DOMAIN live) = 0
  <2>1. DOMAIN live = {} /\ DOMAIN by_id = {}
    BY DEF Notes!Init
  <2>. QED BY <2>1, FS_EmptySet
<1>2. \A S : <<>> \in Seq(S) /\ Len(<<>>) = 0
  BY EmptySeq
<1>3. NotesTypes
  BY <1>1, <1>2 DEF Notes!Init, NotesTypes, NotesAssumption
<1>4. NewTokens /\ DoneIsOver /\ Notes!NamedIsLive /\ Notes!ForgottenIsClosed
  BY <1>1 DEF Notes!Init, NewTokens, DoneIsOver, Notes!NamedIsLive, Notes!ForgottenIsClosed,
     Notes!Listening
<1>5. Notes!Bounded
  BY <1>1, <1>2, SameSize DEF Notes!Init, Notes!Bounded, NotesAssumption
<1>. QED BY <1>3, <1>4, <1>5 DEF NotesInv

(* A message that joins the queue, or is lost.                               *)
LEMMA Queued ==
  ASSUME NotesTypes, DoneIsOver, NEW m \in Messages, UNCHANGED tasks,
         m.kind = "Done" => tasks[m.token] = "over",
         inbox' \in {inbox, Append(inbox, m)}
  PROVE  inbox' \in Seq(Messages) /\ DoneIsOver'
<1>1. inbox \in Seq(Messages)
  BY DEF NotesTypes
<1>2. CASE inbox' = inbox
  BY <1>1, <1>2 DEF DoneIsOver
<1>3. CASE inbox' = Append(inbox, m)
  <2>1. /\ inbox' \in Seq(Messages) /\ Len(inbox) \in Nat
        /\ DOMAIN inbox = 1 .. Len(inbox) /\ DOMAIN inbox' = 1 .. Len(inbox) + 1
        /\ \A i \in 1 .. Len(inbox) : inbox'[i] = inbox[i]
        /\ inbox'[Len(inbox) + 1] = m
    BY <1>1, <1>3, AppendProperties, LenProperties
  <2>. QED BY <2>1 DEF DoneIsOver
<1>. QED BY <1>2, <1>3

(* The controller only changes what waits, within the limit, and queues.     *)
LEMMA ControllerKeeps ==
  ASSUME NotesInv, UNCHANGED <<Notes!workerVars, Notes!taskVars>>,
         pending' \in Seq(Assemblies), Len(pending') <= MAX_PENDING,
         NEW m \in Messages, m.kind # "Done", inbox' \in {inbox, Append(inbox, m)}
  PROVE  NotesInv'
<1>1. inbox' \in Seq(Messages) /\ DoneIsOver'
  BY Queued DEF NotesInv, Notes!workerVars, Notes!taskVars
<1>2. NotesTypes' /\ NewTokens'
  BY <1>1 DEF NotesInv, NotesTypes, NewTokens, Notes!workerVars, Notes!taskVars
<1>3. Notes!Bounded' /\ Notes!NamedIsLive' /\ Notes!ForgottenIsClosed'
  BY DEF NotesInv, Notes!Bounded, Notes!NamedIsLive, Notes!ForgottenIsClosed, Notes!Listening,
     Notes!workerVars, Notes!taskVars
<1>. QED BY <1>1, <1>2, <1>3 DEF NotesInv

(* What the controller does with the assemblies.                             *)
LEMMA Expired ==
  ASSUME NotesInv, NEW kept \in Notes!Unexpired
  PROVE  kept \in Seq(Assemblies) /\ Len(kept) <= Len(pending) /\ Len(pending) <= MAX_PENDING
         /\ Len(pending) \in Nat
<1>1. pending \in Seq(Assemblies) /\ Len(pending) <= MAX_PENDING /\ Len(pending) \in Nat
  BY LenProperties DEF NotesInv, NotesTypes, Notes!Bounded
<1>2. PICK k \in 1 .. Len(pending) + 1 : kept = SubSeq(pending, k, Len(pending))
  BY DEF Notes!Unexpired
<1>3. k - 1 \in 0 .. Len(pending) /\ (k - 1) + 1 = k
  BY <1>1, <1>2
<1>4. kept \in Seq(Assemblies) /\ Len(kept) = Len(pending) - (k - 1)
  <2>1. /\ SubSeq(pending, (k - 1) + 1, Len(pending)) \in Seq(Assemblies)
        /\ Len(SubSeq(pending, (k - 1) + 1, Len(pending))) = Len(pending) - (k - 1)
    BY ONLY <1>1, <1>3, AfterFirst
  <2>. QED BY <1>2, <1>3, <2>1
<1>. QED BY <1>1, <1>3, <1>4

LEMMA OthersFewer ==
  ASSUME NEW kept \in Seq(Assemblies), NEW id
  PROVE  /\ Notes!Others(kept, id) \in Seq(Assemblies) /\ Len(Notes!Others(kept, id)) \in Nat
         /\ Len(Notes!Others(kept, id)) <= Len(kept) /\ Len(kept) \in Nat
         /\ Notes!Has(kept, id) => Len(Notes!Others(kept, id)) < Len(kept)
         /\ id \in Ids => Notes!AssemblyOf(kept, id) \in Assemblies
<1>1. Len(kept) \in Nat /\ DOMAIN kept = 1 .. Len(kept)
  BY LenProperties
<1>2. CASE ~Notes!Has(kept, id)
  <2>1. Notes!Empty(id).id = id /\ (id \in Ids => Notes!Empty(id) \in Assemblies)
    BY DEF Notes!Empty, Assemblies
  <2>. QED BY <1>1, <1>2, <2>1 DEF Notes!Others, Notes!AssemblyOf
<1>3. CASE Notes!Has(kept, id)
  <2>1. Notes!Place(kept, id) \in 1 .. Len(kept)
    BY <1>1, <1>3 DEF Notes!Has, Notes!Place
  <2>2. /\ Notes!CutAt(kept, Notes!Place(kept, id)) \in Seq(Assemblies)
        /\ Len(Notes!CutAt(kept, Notes!Place(kept, id))) = Len(kept) - 1
    BY ONLY <2>1, CutAtKeeps, kept \in Seq(Assemblies)
  <2>3. kept[Notes!Place(kept, id)] \in Assemblies
    BY ONLY <2>1, ElementOfSeq, kept \in Seq(Assemblies)
  <2>4. Len(kept) - 1 \in Nat
    BY <1>1, <2>1
  <2>. QED BY <1>1, <1>3, <2>2, <2>3, <2>4 DEF Notes!Others, Notes!AssemblyOf
<1>. QED BY <1>2, <1>3

LEMMA AssembledType ==
  ASSUME NEW assembly \in Assemblies, NEW request \in Notes!Texts
  PROVE  Notes!Assembled(assembly, request) \in Assemblies
BY DEF Notes!Assembled, Assemblies, Notes!Texts

(* Each action of the controller keeps the limit of what waits.              *)
LEMMA Submitted ==
  ASSUME NEW assembly, NEW id \in Ids \cup {NoId}, Notes!submit(assembly, id)
  PROVE  \E m \in Messages : m.kind # "Done" /\ inbox' \in {inbox, Append(inbox, m)}
<1>1. DEFINE m == [kind |-> "Display", id |-> id]
<1>2. m \in Messages /\ m.kind # "Done"
  BY DEF Messages
<1>3. inbox' \in {inbox, Append(inbox, m)}
  BY DEF Notes!submit, Notes!Display, Notes!try_send
<1>. QED BY <1>2, <1>3

LEMMA KittyTextKeeps ==
  ASSUME NotesAssumption, NotesInv, Notes!handle_kitty_text
  PROVE  NotesInv'
<1>1. PICK request \in Notes!Texts, kept \in Notes!Unexpired : Notes!handle_kitty_text!(request, kept)
  BY DEF Notes!handle_kitty_text
<1>2. /\ kept \in Seq(Assemblies) /\ Len(kept) \in Nat /\ Len(kept) <= MAX_PENDING
      /\ MAX_PENDING \in Nat \ {0}
  <2>1. /\ kept \in Seq(Assemblies) /\ Len(kept) <= Len(pending) /\ Len(pending) <= MAX_PENDING
        /\ Len(pending) \in Nat
    BY Expired
  <2>2. Len(kept) \in Nat
    BY ONLY <2>1, LenProperties
  <2>. QED BY <2>1, <2>2 DEF NotesAssumption
<1>3. UNCHANGED <<Notes!workerVars, Notes!taskVars>> /\ request.id \in Ids \cup {NoId}
  BY <1>1 DEF Notes!Asks, Notes!Texts
<1>4. \E m \in Messages : m.kind # "Done" /\ inbox' \in {inbox, Append(inbox, m)}
  <2>1. inbox' = inbox \/ \E assembly : Notes!submit(assembly, request.id)
    BY <1>1
  <2>2. CASE inbox' = inbox
    <3>1. [kind |-> "Clear"] \in Messages
      BY DEF Messages
    <3>. QED BY <2>2, <3>1
  <2>. QED BY <1>3, <2>1, <2>2, Submitted
<1>5. pending' \in Seq(Assemblies) /\ Len(pending') <= MAX_PENDING
  <2>1. CASE request.id = NoId
    BY <1>1, <1>2, <2>1
  <2>2. CASE request.id # NoId
    <3>. DEFINE id == request.id  roomy == Notes!Room(kept, id)  grown == Notes!Assembled(Notes!AssemblyOf(roomy, id), request)
    <3>1. id \in Ids
      BY <1>3, <2>2
    <3>2. pending' = Append(Notes!Others(roomy, id), grown) \/ pending' = Notes!Others(roomy, id)
      BY <1>1, <2>2
    <3>3. /\ roomy \in Seq(Assemblies) /\ Len(roomy) \in Nat /\ Len(roomy) <= MAX_PENDING
          /\ Notes!Has(roomy, id) \/ Len(roomy) < MAX_PENDING
      <4>1. CASE Len(kept) >= MAX_PENDING /\ ~Notes!Has(kept, id)
        <5>1. kept # <<>>
          BY <1>2, <4>1, EmptySeq
        <5>2. Tail(kept) \in Seq(Assemblies) /\ Len(Tail(kept)) = Len(kept) - 1
          BY ONLY <1>2, <5>1, Behind
        <5>. QED BY <1>2, <4>1, <5>2 DEF Notes!Room
      <4>2. CASE ~(Len(kept) >= MAX_PENDING /\ ~Notes!Has(kept, id))
        BY <1>2, <4>2 DEF Notes!Room
      <4>. QED BY <4>1, <4>2
    <3>. HIDE DEF roomy
    <3>4. /\ Notes!Others(roomy, id) \in Seq(Assemblies) /\ Len(Notes!Others(roomy, id)) \in Nat
          /\ Len(Notes!Others(roomy, id)) < MAX_PENDING
          /\ Notes!AssemblyOf(roomy, id) \in Assemblies
      <4>1. /\ Notes!Others(roomy, id) \in Seq(Assemblies) /\ Len(Notes!Others(roomy, id)) \in Nat
            /\ Len(Notes!Others(roomy, id)) <= Len(roomy) /\ Len(roomy) \in Nat
            /\ Notes!Has(roomy, id) => Len(Notes!Others(roomy, id)) < Len(roomy)
            /\ id \in Ids => Notes!AssemblyOf(roomy, id) \in Assemblies
        BY ONLY <3>3, OthersFewer
      <4>. QED BY <1>2, <3>1, <3>3, <4>1
    <3>5. grown \in Assemblies
      BY ONLY <3>4, AssembledType, request \in Notes!Texts
    <3>6. /\ Append(Notes!Others(roomy, id), grown) \in Seq(Assemblies)
          /\ Len(Append(Notes!Others(roomy, id), grown)) = Len(Notes!Others(roomy, id)) + 1
      BY ONLY <3>4, <3>5, Appended
    <3>. HIDE DEF grown
    <3>. QED BY <1>2, <3>2, <3>4, <3>6
  <2>. QED BY <2>1, <2>2
<1>. QED BY <1>3, <1>4, <1>5, ControllerKeeps

LEMMA ControllerStep ==
  ASSUME NotesAssumption, NotesInv,
         \/ Notes!set_enabled \/ Notes!notify_local \/ Notes!handle_legacy \/ Notes!handle_kitty_text
         \/ Notes!handle_kitty_close \/ Notes!Refill \/ Notes!DropWorker
  PROVE  NotesInv'
<1>1. pending \in Seq(Assemblies) /\ Len(pending) <= MAX_PENDING
  BY DEF NotesInv, NotesTypes, Notes!Bounded
<1>2. /\ [kind |-> "Clear"] \in Messages /\ [kind |-> "Shutdown"] \in Messages
      /\ \A id \in Ids \cup {NoId} : /\ [kind |-> "Display", id |-> id] \in Messages
                                     /\ [kind |-> "Close", id |-> id] \in Messages
  BY DEF Messages
<1>3. CASE Notes!set_enabled
  <2>1. pending' \in Seq(Assemblies) /\ Len(pending') <= MAX_PENDING
    <3>1. pending' = pending \/ pending' = <<>>
      BY <1>3 DEF Notes!set_enabled
    <3>2. <<>> \in Seq(Assemblies) /\ Len(<<>>) = 0
      BY EmptySeq
    <3>3. Len(<<>>) <= MAX_PENDING
      BY <3>2 DEF NotesAssumption
    <3>. QED BY <1>1, <3>1, <3>2, <3>3
  <2>2. inbox' \in {inbox, Append(inbox, [kind |-> "Clear"])} /\ UNCHANGED <<Notes!workerVars, Notes!taskVars>>
    BY <1>3 DEF Notes!set_enabled, Notes!try_send, Notes!Asks
  <2>. QED BY <1>2, <2>1, <2>2, ControllerKeeps, [kind |-> "Clear"].kind # "Done"
<1>4. CASE Notes!notify_local
  <2>1. /\ inbox' \in {inbox, Append(inbox, [kind |-> "Display", id |-> NoId])}
        /\ UNCHANGED <<Notes!workerVars, Notes!taskVars>> /\ pending' = pending
    BY <1>4 DEF Notes!notify_local, Notes!Display, Notes!try_send, Notes!Asks
  <2>. QED BY <1>1, <1>2, <2>1, ControllerKeeps, [kind |-> "Display", id |-> NoId].kind # "Done"
<1>5. CASE Notes!handle_legacy
  <2>1. PICK text \in {0, 1}, kept \in Notes!Unexpired : Notes!handle_legacy!(text, kept)
    BY <1>5 DEF Notes!handle_legacy
  <2>2. /\ kept \in Seq(Assemblies) /\ Len(kept) <= Len(pending) /\ Len(pending) <= MAX_PENDING
        /\ Len(pending) \in Nat
    BY Expired
  <2>3. Len(kept) \in Nat
    BY ONLY <2>2, LenProperties
  <2>4. UNCHANGED <<Notes!workerVars, Notes!taskVars>> /\ pending' \in Seq(Assemblies) /\ Len(pending') <= MAX_PENDING
    BY <2>1, <2>2, <2>3 DEF Notes!Asks, NotesAssumption
  <2>5. \E m \in Messages : m.kind # "Done" /\ inbox' \in {inbox, Append(inbox, m)}
    BY <2>1, Submitted
  <2>. QED BY <2>4, <2>5, ControllerKeeps
<1>6. CASE Notes!handle_kitty_close
  <2>1. PICK id \in Ids, kept \in Notes!Unexpired : Notes!handle_kitty_close!(id, kept)
    BY <1>6 DEF Notes!handle_kitty_close
  <2>2. /\ kept \in Seq(Assemblies) /\ Len(kept) <= Len(pending) /\ Len(pending) <= MAX_PENDING
        /\ Len(pending) \in Nat
    BY Expired
  <2>3. /\ Notes!Others(kept, id) \in Seq(Assemblies) /\ Len(Notes!Others(kept, id)) \in Nat
        /\ Len(Notes!Others(kept, id)) <= Len(kept) /\ Len(kept) \in Nat
    BY ONLY <2>2, OthersFewer
  <2>4. /\ UNCHANGED <<Notes!workerVars, Notes!taskVars>>
        /\ pending' \in Seq(Assemblies) /\ Len(pending') <= MAX_PENDING
        /\ inbox' \in {inbox, Append(inbox, [kind |-> "Close", id |-> id])}
    BY <2>1, <2>2, <2>3 DEF Notes!Asks, NotesAssumption, Notes!try_send
  <2>. QED BY <1>2, <2>4, ControllerKeeps, [kind |-> "Close", id |-> id].kind # "Done"
<1>7. CASE Notes!Refill
  <2>1. UNCHANGED <<Notes!workerVars, Notes!taskVars>> /\ pending' = pending /\ inbox' = inbox
    BY <1>7 DEF Notes!Refill, Notes!Asks
  <2>. QED BY <1>1, <1>2, <2>1, ControllerKeeps, [kind |-> "Clear"].kind # "Done"
<1>8. CASE Notes!DropWorker
  <2>1. /\ UNCHANGED <<Notes!workerVars, Notes!taskVars>> /\ pending' = pending
        /\ inbox' \in {inbox, Append(inbox, [kind |-> "Shutdown"])}
    BY <1>8 DEF Notes!DropWorker
  <2>. QED BY <1>1, <1>2, <2>1, ControllerKeeps, [kind |-> "Shutdown"].kind # "Done"
<1>. QED BY <1>3, <1>4, <1>5, <1>6, <1>7, <1>8, KittyTextKeeps

-----------------------------------------------------------------------------
(* The worker takes a message.                                               *)
LEMMA Received ==
  ASSUME NotesTypes, DoneIsOver, inbox # <<>>, inbox' = Tail(inbox), UNCHANGED tasks
  PROVE  inbox' \in Seq(Messages) /\ DoneIsOver' /\ Head(inbox) \in Messages
         /\ (Head(inbox).kind = "Done" => tasks[Head(inbox).token] = "over")
<1>1. /\ Tail(inbox) \in Seq(Messages) /\ Head(inbox) = inbox[1] /\ 1 \in DOMAIN inbox
      /\ \A i \in DOMAIN Tail(inbox) : i + 1 \in DOMAIN inbox /\ Tail(inbox)[i] = inbox[i + 1]
  BY Behind DEF NotesTypes
<1>2. Head(inbox) \in Messages
  BY HeadTailProperties DEF NotesTypes
<1>. QED BY <1>1, <1>2 DEF DoneIsOver

Below == {p \in Nat \X Nat : p[1] < p[2]}

LEMMA LeastOne ==
  ASSUME NEW S \in SUBSET Nat, S # {}
  PROVE  \E n \in S : \A i \in S : n <= i
<1>1. IsWellFoundedOn(Below, Nat)
  BY NatLessThanWellFounded DEF OpToRel, Below
<1>2. PICK n \in S : \A i \in S : <<i, n>> \notin Below
  BY <1>1, WFMin
<1>3. ASSUME NEW i \in S, ~(n <= i)
      PROVE  <<i, n>> \in Below
  <2>1. i \in Nat /\ n \in Nat /\ i < n
    BY <1>3
  <2>. QED BY <2>1 DEF Below
<1>. QED BY <1>2, <1>3

(* The table is finite, and within its limit.                                *)
LEMMA TableFinite ==
  ASSUME NotesInv
  PROVE  /\ IsFiniteSet(DOMAIN live) /\ Cardinality(DOMAIN live) \in Nat
         /\ Cardinality(DOMAIN live) <= MAX_PENDING
<1>1. next_token \in Nat /\ DOMAIN live \subseteq 1 .. next_token
  BY DEF NotesInv, NotesTypes
<1>2. IsFiniteSet(1 .. next_token)
  BY <1>1, FS_Interval
<1>3. IsFiniteSet(DOMAIN live)
  BY <1>1, <1>2, FS_Subset
<1>4. Cardinality(DOMAIN live) \in Nat
  BY <1>3, FS_CardinalityType
<1>. QED BY <1>3, <1>4, SameSize DEF NotesInv, Notes!Bounded

(* When the table is full, the tokens popped from order include one that is  *)
(* on it.                                                                    *)
LEMMA Evicts ==
  ASSUME NotesAssumption, NotesInv, working, Notes!Full
  PROVE  Notes!Evicted \in 0 .. Len(order) /\ \E i \in 1 .. Notes!Evicted : order[i] \in DOMAIN live
<1>. DEFINE S == {i \in 1 .. Len(order) : order[i] \in DOMAIN live}
            P(n) == /\ \A i \in 1 .. n - 1 : order[i] \notin DOMAIN live
                    /\ n = Len(order) \/ (n > 0 /\ order[n] \in DOMAIN live)
<1>1. Len(order) \in Nat /\ DOMAIN order = 1 .. Len(order) /\ DOMAIN live \subseteq Notes!Range(order)
  BY LenProperties DEF NotesInv, NotesTypes, Notes!Bounded
<1>2. DOMAIN live # {}
  <2>1. Cardinality(DOMAIN live) \in Nat \ {0} /\ IsFiniteSet(DOMAIN live)
    BY TableFinite, SameSize DEF Notes!Full, NotesAssumption
  <2>. QED BY <2>1, FS_EmptySet
<1>3. S # {} /\ S \in SUBSET Nat
  <2>1. PICK x \in DOMAIN live : x \in Notes!Range(order)
    BY <1>1, <1>2
  <2>2. PICK i \in 1 .. Len(order) : order[i] = x
    BY <1>1, <2>1 DEF Notes!Range
  <2>. QED BY <1>1, <2>1, <2>2
<1>4. PICK n \in S : \A i \in S : n <= i
  <2>. HIDE DEF S
  <2>. QED BY <1>3, LeastOne
<1>. DEFINE l == Len(order)
<1>5. n \in 0 .. l /\ P(n)
  <2>1. n \in 1 .. l /\ order[n] \in DOMAIN live /\ l \in Nat
    BY <1>1, <1>4
  <2>2. ASSUME NEW i \in 1 .. n - 1, order[i] \in DOMAIN live
        PROVE  FALSE
    <3>. HIDE DEF l
    <3>1. i \in 1 .. l /\ ~(n <= i)
      BY ONLY <2>1, <2>2
    <3>. QED BY <1>4, <2>2, <3>1 DEF l
  <2>3. \A i \in 1 .. n - 1 : order[i] \notin DOMAIN live
    BY <2>2
  <2>4. n \in 0 .. l /\ n > 0
    <3>. HIDE DEF l
    <3>. QED BY ONLY <2>1
  <2>. QED BY <2>1, <2>3, <2>4
<1>6. Notes!Evicted \in 0 .. l /\ P(Notes!Evicted)
  <2>1. Notes!Evicted = CHOOSE k \in 0 .. l : P(k)
    BY DEF Notes!Evicted
  <2>. HIDE DEF P, l
  <2>. QED BY <1>5, <2>1
<1>7. CASE Notes!Evicted = l
  <2>1. n \in 1 .. l /\ order[n] \in DOMAIN live
    BY <1>4
  <2>. QED BY <1>6, <1>7, <2>1
<1>8. CASE Notes!Evicted # l
  <2>1. Notes!Evicted > 0 /\ order[Notes!Evicted] \in DOMAIN live
    BY <1>6, <1>8
  <2>2. Notes!Evicted \in 1 .. Notes!Evicted
    <3>. HIDE DEF l
    <3>1. l \in Nat
      BY <1>1 DEF l
    <3>. QED BY ONLY <1>6, <2>1, <3>1
  <2>3. Notes!Evicted \in 0 .. Len(order)
    BY <1>6
  <2>. QED BY <2>1, <2>2, <2>3
<1>. QED BY <1>6, <1>7, <1>8

(* A task on no table was told to close, once the worker has nothing left to *)
(* close.                                                                    *)
LEMMA Told ==
  ASSUME NotesInv, Notes!Idle, NEW t \in Notes!Tokens, Notes!Listening(t), t \notin DOMAIN live
  PROVE  "Close" \in Notes!Range(channels[t])
BY DEF NotesInv, Notes!ForgottenIsClosed, Notes!Idle

(* The worker forgets the tasks in gone and closes them; names is what is    *)
(* left of by_id.                                                            *)
LEMMA WorkerForgets ==
  ASSUME NotesAssumption, NotesInv, Notes!Idle, inbox # <<>>, inbox' = Tail(inbox),
         UNCHANGED Notes!controllerVars, UNCHANGED <<next_token, spawning, Notes!taskVars>>,
         DOMAIN live' = DOMAIN live \ closing', closing' \subseteq DOMAIN live,
         order' \in Seq(Nat), Notes!NamedIsLive', working' => DOMAIN live' \subseteq Notes!Range(order')
  PROVE  NotesInv'
<1>1. inbox' \in Seq(Messages) /\ DoneIsOver'
  BY Received DEF NotesInv, Notes!taskVars
<1>2. NotesTypes'
  BY <1>1 DEF NotesInv, NotesTypes, Notes!taskVars, Notes!controllerVars
<1>3. NewTokens'
  BY DEF NotesInv, NewTokens, Notes!Idle, Notes!taskVars
<1>4. Notes!Bounded'
  <2>1. IsFiniteSet(DOMAIN live) /\ Cardinality(DOMAIN live) \in Nat
        /\ Cardinality(DOMAIN live) <= MAX_PENDING
    BY TableFinite
  <2>2. IsFiniteSet(DOMAIN live') /\ Cardinality(DOMAIN live') <= Cardinality(DOMAIN live)
    BY <2>1, FS_Subset
  <2>3. Cardinality(DOMAIN live') \in Nat
    BY <2>2, FS_CardinalityType
  <2>4. MAX_PENDING \in Nat
    BY DEF NotesAssumption
  <2>5. Cardinality(DOMAIN live') <= MAX_PENDING
    BY ONLY <2>1, <2>2, <2>3, <2>4
  <2>. QED BY <2>5, SameSize DEF NotesInv, Notes!Bounded, Notes!controllerVars
<1>5. Notes!ForgottenIsClosed'
  BY Told DEF Notes!ForgottenIsClosed, Notes!Listening, Notes!taskVars
<1>. QED BY <1>1, <1>2, <1>3, <1>4, <1>5 DEF NotesInv

LEMMA CloseKeeps ==
  ASSUME NotesAssumption, NotesInv, Notes!WorkerClose
  PROVE  NotesInv'
<1>. DEFINE id == Head(inbox).id
            named == IF id \in DOMAIN by_id THEN {by_id[id]} \cap DOMAIN live ELSE {}
<1>1. /\ Notes!Idle /\ inbox # <<>> /\ inbox' = Tail(inbox) /\ UNCHANGED Notes!controllerVars
      /\ UNCHANGED <<order, next_token, spawning, working, Notes!taskVars>>
      /\ by_id' = Notes!Without(by_id, {id} \cup UNION {Notes!IdOf(t) : t \in named})
      /\ live' = Notes!Without(live, named) /\ closing' = named
  BY DEF Notes!WorkerClose, Notes!Receives
<1>2. DOMAIN live' = DOMAIN live \ named /\ \A t \in DOMAIN live' : live'[t] = live[t]
  BY <1>1 DEF Notes!Without
<1>3. named \subseteq DOMAIN live
  OBVIOUS
<1>4. Notes!NamedIsLive'
  <2>1. /\ DOMAIN by_id' \subseteq DOMAIN by_id \ {id}
        /\ \A i \in DOMAIN by_id' : by_id'[i] = by_id[i]
    BY <1>1 DEF Notes!Without
  <2>2. \A i \in DOMAIN by_id : by_id[i] \in DOMAIN live /\ live[by_id[i]] = i
    BY <1>1 DEF NotesInv, Notes!NamedIsLive, Notes!Idle
  <2>3. ASSUME NEW i \in DOMAIN by_id' PROVE by_id[i] \notin named
    <3>1. i # id /\ i \in DOMAIN by_id
      BY <2>1
    <3>2. \A t \in named : id \in DOMAIN by_id /\ t = by_id[id]
      OBVIOUS
    <3>. QED BY <2>2, <3>1, <3>2
  <2>. QED BY <1>2, <2>1, <2>2, <2>3 DEF Notes!NamedIsLive
<1>5. order' \in Seq(Nat) /\ (working' => DOMAIN live' \subseteq Notes!Range(order'))
  BY <1>1, <1>2 DEF NotesInv, NotesTypes, Notes!Bounded, Notes!Idle
<1>. HIDE DEF named, id
<1>. QED BY <1>1, <1>2, <1>3, <1>4, <1>5, WorkerForgets

LEMMA ClearsKeep ==
  ASSUME NotesAssumption, NotesInv, Notes!WorkerClear \/ Notes!WorkerShutdown
  PROVE  NotesInv'
<1>1. /\ Notes!Idle /\ inbox # <<>> /\ inbox' = Tail(inbox) /\ UNCHANGED Notes!controllerVars
      /\ UNCHANGED <<next_token, spawning, Notes!taskVars>>
      /\ closing' = DOMAIN live /\ DOMAIN live' = {}
  BY DEF Notes!WorkerClear, Notes!WorkerShutdown, Notes!Receives
<1>2. order' \in Seq(Nat)
  <2>1. order' = order \/ order' = <<>>
    BY DEF Notes!WorkerClear, Notes!WorkerShutdown
  <2>. QED BY <2>1, EmptySeq DEF NotesInv, NotesTypes
<1>3. Notes!NamedIsLive'
  <2>1. working' => DOMAIN by_id' = {}
    BY DEF Notes!WorkerClear, Notes!WorkerShutdown
  <2>. QED BY <2>1 DEF Notes!NamedIsLive
<1>. QED BY <1>1, <1>2, <1>3, WorkerForgets

LEMMA DoneKeeps ==
  ASSUME NotesAssumption, NotesInv, Notes!WorkerDone
  PROVE  NotesInv'
<1>. DEFINE token == Head(inbox).token
<1>1. /\ Notes!Idle /\ inbox # <<>> /\ inbox' = Tail(inbox) /\ UNCHANGED Notes!controllerVars
      /\ UNCHANGED <<next_token, closing, spawning, working, Notes!taskVars>>
      /\ by_id' = Notes!Without(by_id, Notes!IdOf(token)) /\ live' = Notes!Without(live, {token})
      /\ order' = IF token \in Notes!Range(order)
                    THEN Notes!CutAt(order, CHOOSE i \in DOMAIN order : order[i] = token) ELSE order
      /\ Head(inbox).kind = "Done"
  BY DEF Notes!WorkerDone, Notes!Receives
<1>2. DOMAIN live' = DOMAIN live \ {token} /\ \A t \in DOMAIN live' : live'[t] = live[t]
  BY <1>1 DEF Notes!Without
<1>3. inbox' \in Seq(Messages) /\ DoneIsOver' /\ tasks[token] = "over"
  BY <1>1, Received DEF NotesInv, Notes!taskVars
<1>4. order' \in Seq(Nat) /\ \A t \in Notes!Range(order) : t # token => t \in Notes!Range(order')
  <2>1. order \in Seq(Nat) /\ DOMAIN order = 1 .. Len(order)
    BY LenProperties DEF NotesInv, NotesTypes
  <2>2. CASE token \in Notes!Range(order)
    <3>. DEFINE i == CHOOSE i \in DOMAIN order : order[i] = token
    <3>1. i \in 1 .. Len(order) /\ order[i] = token
      BY <2>1, <2>2 DEF Notes!Range
    <3>2. /\ Notes!CutAt(order, i) \in Seq(Nat)
          /\ \A j \in 1 .. Len(order) : j # i => order[j] \in Notes!Range(Notes!CutAt(order, i))
      <4>. HIDE DEF i
      <4>. QED BY ONLY <2>1, <3>1, CutAtKeeps
    <3>3. order' = Notes!CutAt(order, i)
      BY <1>1, <2>2
    <3>4. \A t \in Notes!Range(order) : \E j \in 1 .. Len(order) : t = order[j]
      BY <2>1 DEF Notes!Range
    <3>. HIDE DEF i
    <3>. QED BY <3>1, <3>2, <3>3, <3>4
  <2>. QED BY <1>1, <2>1, <2>2
<1>. HIDE DEF token
<1>5. Notes!NamedIsLive'
  <2>1. /\ \A i \in DOMAIN by_id' : i \in DOMAIN by_id /\ by_id'[i] = by_id[i]
        /\ token \in DOMAIN live => live[token] \notin DOMAIN by_id'
    BY <1>1 DEF Notes!Without, Notes!IdOf
  <2>2. working' => \A i \in DOMAIN by_id : by_id[i] \in DOMAIN live /\ live[by_id[i]] = i
    BY <1>1 DEF NotesInv, Notes!NamedIsLive
  <2>. QED BY <1>2, <2>1, <2>2 DEF Notes!NamedIsLive
<1>6. Notes!Bounded'
  <2>1. IsFiniteSet(DOMAIN live) /\ Cardinality(DOMAIN live) \in Nat
        /\ Cardinality(DOMAIN live) <= MAX_PENDING
    BY TableFinite
  <2>2. IsFiniteSet(DOMAIN live') /\ Cardinality(DOMAIN live') <= Cardinality(DOMAIN live)
    BY <1>2, <2>1, FS_Subset
  <2>3. Cardinality(DOMAIN live') \in Nat
    BY <2>2, FS_CardinalityType
  <2>4. Cardinality(DOMAIN live') <= MAX_PENDING
    BY <2>1, <2>2, <2>3 DEF NotesAssumption
  <2>5. working' => DOMAIN live' \subseteq Notes!Range(order')
    BY <1>1, <1>2, <1>4 DEF NotesInv, Notes!Bounded, Notes!Idle
  <2>. QED BY <1>1, <2>4, <2>5, SameSize DEF NotesInv, Notes!Bounded, Notes!controllerVars
<1>7. NotesTypes' /\ NewTokens'
  BY <1>1, <1>2, <1>3, <1>4 DEF NotesInv, NotesTypes, NewTokens, Notes!Idle, Notes!taskVars,
     Notes!controllerVars
(* The task that is over listens no more. *)
<1>8. Notes!ForgottenIsClosed'
  BY <1>1, <1>2, <1>3, Told DEF Notes!ForgottenIsClosed, Notes!Listening, Notes!taskVars
<1>. QED BY <1>3, <1>5, <1>6, <1>7, <1>8 DEF NotesInv

LEMMA DisplayKeeps ==
  ASSUME NotesAssumption, NotesInv, Notes!WorkerDisplay
  PROVE  NotesInv'
<1>. DEFINE id == Head(inbox).id
            token == next_token + 1
            gone == {order[i] : i \in 1 .. Notes!Evicted} \cap DOMAIN live
            names == Notes!Without(by_id, UNION {Notes!IdOf(t) : t \in gone})
<1>1. Notes!Idle /\ working /\ inbox # <<>> /\ inbox' = Tail(inbox) /\ UNCHANGED Notes!controllerVars
  BY DEF Notes!WorkerDisplay, Notes!Receives, Notes!Idle
<1>2. CASE Notes!Updatable(id)
  <2>. DEFINE t == by_id[id]
  <2>1. /\ channels' = [channels EXCEPT ![t] = Append(@, "Update")]
        /\ UNCHANGED <<Notes!workerVars, tasks>>
    BY <1>2 DEF Notes!WorkerDisplay
  <2>. HIDE DEF t
  <2>2. channels \in [Notes!Tokens -> Seq({"Update", "Close"})]
    BY DEF NotesInv, NotesTypes
  <2>3. \A u \in Notes!Tokens : /\ Append(channels[u], "Update") \in Seq({"Update", "Close"})
                                /\ Notes!Range(channels[u]) \subseteq Notes!Range(Append(channels[u], "Update"))
    BY <2>2, Appended
  <2>4. /\ channels' \in [Notes!Tokens -> Seq({"Update", "Close"})]
        /\ \A u \in Notes!Tokens : Notes!Range(channels[u]) \subseteq Notes!Range(channels'[u])
    BY <2>1, <2>2, <2>3
  <2>5. inbox' \in Seq(Messages) /\ DoneIsOver'
    BY <1>1, <2>1, Received DEF NotesInv
  <2>6. NotesTypes' /\ NewTokens' /\ Notes!Bounded' /\ Notes!NamedIsLive'
    BY <1>1, <2>1, <2>4, <2>5 DEF NotesInv, NotesTypes, NewTokens, Notes!Bounded,
       Notes!NamedIsLive, Notes!workerVars, Notes!controllerVars
  <2>7. Notes!ForgottenIsClosed'
    BY <2>1, <2>4 DEF NotesInv, Notes!ForgottenIsClosed, Notes!Listening, Notes!workerVars
  <2>. QED BY <2>5, <2>6, <2>7 DEF NotesInv
<1>3. CASE ~Notes!Updatable(id)
  <2>1. /\ next_token' = token /\ live' = Notes!With(Notes!Without(live, gone), token, id)
        /\ by_id' = IF id = NoId THEN names ELSE Notes!With(names, id, token)
        /\ order' = Append(SubSeq(order, Notes!Evicted + 1, Len(order)), token)
        /\ closing' = gone /\ spawning' = <<token>> /\ UNCHANGED <<working, Notes!taskVars>>
    BY <1>3 DEF Notes!WorkerDisplay
  <2>2. /\ next_token \in Nat /\ DOMAIN live \subseteq 1 .. next_token
        /\ order \in Seq(Nat) /\ DOMAIN live \subseteq Notes!Range(order)
        /\ \A i \in DOMAIN by_id : by_id[i] \in DOMAIN live /\ live[by_id[i]] = i
    BY <1>1 DEF NotesInv, NotesTypes, Notes!Bounded, Notes!NamedIsLive
  <2>3. token \in Nat /\ token \notin DOMAIN live /\ gone \subseteq DOMAIN live
        /\ 1 .. next_token \subseteq 1 .. token /\ token \in 1 .. token /\ token > next_token
    BY <2>2
  <2>. DEFINE kept == DOMAIN live \ gone
  <2>4. /\ DOMAIN live' = kept \cup {token} /\ live'[token] = id
        /\ \A t \in kept : live'[t] = live[t]
    BY <2>1, <2>3 DEF Notes!With, Notes!Without
  <2>5. Notes!Evicted \in 0 .. Len(order) /\ (Notes!Full => gone # {})
    <3>1. CASE Notes!Full
      BY <1>1, <3>1, Evicts
    <3>2. CASE ~Notes!Full
      BY <2>2, <3>2, LenProperties DEF Notes!Evicted
    <3>. QED BY <3>1, <3>2
  <2>6. order' \in Seq(Nat) /\ kept \cup {token} \subseteq Notes!Range(order')
    <3>. DEFINE rest == SubSeq(order, Notes!Evicted + 1, Len(order))
    <3>1. /\ rest \in Seq(Nat)
          /\ \A x \in Notes!Range(order) : x \in {order[i] : i \in 1 .. Notes!Evicted} \/ x \in Notes!Range(rest)
      BY ONLY <2>2, <2>5, AfterFirst
    <3>2. kept \subseteq Notes!Range(rest)
      BY <2>2, <3>1
    <3>3. order' = Append(rest, token)
      BY <2>1
    <3>. HIDE DEF rest, token, kept
    <3>4. order' \in Seq(Nat) /\ Notes!Range(rest) \subseteq Notes!Range(order') /\ token \in Notes!Range(order')
      BY ONLY <2>3, <3>1, <3>3, Appended
    <3>. QED BY <3>2, <3>4
  <2>7. Notes!NamedIsLive'
    <3>1. /\ \A i \in DOMAIN names : i \in DOMAIN by_id /\ names[i] = by_id[i]
          /\ \A t \in gone : live[t] \notin DOMAIN names
      BY <2>3 DEF Notes!Without, Notes!IdOf
    <3>. HIDE DEF names, gone, token, id, kept
    <3>2. \A i \in DOMAIN names : names[i] \in DOMAIN live /\ live[names[i]] = i /\ names[i] \notin gone
      BY <2>2, <3>1
    <3>3. \A i \in DOMAIN names : names[i] \in kept /\ live'[names[i]] = i
      BY <2>4, <3>2 DEF kept
    <3>4. /\ \A i \in DOMAIN by_id' : \/ i \in DOMAIN names /\ by_id'[i] = names[i]
                                      \/ i = id /\ by_id'[i] = token
      BY <2>1 DEF Notes!With
    <3>. QED BY <2>4, <3>3, <3>4 DEF Notes!NamedIsLive
  <2>8. Cardinality(DOMAIN live') <= MAX_PENDING
    <3>1. /\ IsFiniteSet(DOMAIN live) /\ Cardinality(DOMAIN live) \in Nat
          /\ Cardinality(DOMAIN live) <= MAX_PENDING
      BY TableFinite
    <3>2. /\ IsFiniteSet(kept) /\ Cardinality(kept) <= Cardinality(DOMAIN live)
          /\ gone # {} => Cardinality(kept) # Cardinality(DOMAIN live)
      <4>1. kept \subseteq DOMAIN live /\ (gone # {} => kept # DOMAIN live)
        BY <2>3
      <4>. HIDE DEF kept, gone
      <4>. QED BY <3>1, <4>1, FS_Subset
    <3>. HIDE DEF kept, gone, token
    <3>3. Cardinality(kept) \in Nat
      BY <3>2, FS_CardinalityType
    <3>4. Cardinality(kept \cup {token}) <= Cardinality(kept) + 1
          /\ Cardinality(kept \cup {token}) \in Nat
      <4>1. /\ IsFiniteSet(kept \cup {token})
            /\ Cardinality(kept \cup {token}) = IF token \in kept THEN Cardinality(kept) ELSE Cardinality(kept) + 1
        BY <3>2, FS_AddElement
      <4>. QED BY <3>3, <4>1
    <3>5. Cardinality(kept) < MAX_PENDING
      <4>1. CASE Notes!Full
        BY <2>5, <3>1, <3>2, <3>3, <4>1, SameSize DEF NotesAssumption
      <4>2. CASE ~Notes!Full
        BY <3>1, <3>2, <3>3, <4>2, SameSize DEF NotesAssumption, Notes!Full
      <4>. QED BY <4>1, <4>2
    <3>. QED BY <2>4, <3>3, <3>4, <3>5 DEF NotesAssumption
  <2>. HIDE DEF kept, gone, token, id, names
  <2>9. inbox' \in Seq(Messages) /\ DoneIsOver'
    BY <1>1, <2>1, Received DEF NotesInv, Notes!taskVars
  <2>10. Notes!Bounded'
    BY <1>1, <2>4, <2>6, <2>8, SameSize DEF NotesInv, Notes!Bounded, Notes!controllerVars
  <2>11. DOMAIN live' \subseteq 1 .. next_token'
    BY <2>1, <2>2, <2>3, <2>4 DEF kept
  <2>12. NotesTypes'
    BY <1>1, <2>1, <2>3, <2>6, <2>9, <2>11 DEF NotesInv, NotesTypes, Notes!taskVars,
       Notes!controllerVars
  <2>13. NewTokens'
    <3>1. \A t \in Notes!Tokens : t > token => t > next_token
      BY <2>2, <2>3 DEF Notes!Tokens, NotesAssumption, token
    <3>. QED BY <2>1, <2>3, <2>4, <3>1 DEF NotesInv, NewTokens, Notes!taskVars
  <2>14. Notes!ForgottenIsClosed'
    <3>1. \A t : t \notin DOMAIN live' => t \notin DOMAIN live \/ t \in gone
      BY <2>4 DEF kept
    <3>. QED BY <1>1, <2>1, <3>1, Told DEF Notes!ForgottenIsClosed, Notes!Listening,
                Notes!taskVars
  <2>. QED BY <2>7, <2>9, <2>10, <2>12, <2>13, <2>14 DEF NotesInv
<1>. QED BY <1>2, <1>3

-----------------------------------------------------------------------------
(* A task told to close keeps the word in its channel until it reads it.     *)
LEMMA CloseTaskKeeps ==
  ASSUME NotesAssumption, NotesInv, Notes!close_task
  PROVE  NotesInv'
<1>1. PICK t \in closing : Notes!close_task!1!(t)
  BY DEF Notes!close_task
<1>2. /\ channels' = IF Notes!Listening(t) THEN [channels EXCEPT ![t] = Append(@, "Close")] ELSE channels
      /\ closing' = closing \ {t}
      /\ UNCHANGED <<Notes!controllerVars, inbox, Notes!tableVars, spawning, working, tasks>>
  BY <1>1 DEF Notes!close_task
<1>3. channels \in [Notes!Tokens -> Seq({"Update", "Close"})]
  BY DEF NotesInv, NotesTypes
<1>4. \A u \in Notes!Tokens : /\ Append(channels[u], "Close") \in Seq({"Update", "Close"})
                              /\ Notes!Range(channels[u]) \subseteq Notes!Range(Append(channels[u], "Close"))
                              /\ "Close" \in Notes!Range(Append(channels[u], "Close"))
  BY <1>3, Appended
<1>5. /\ channels' \in [Notes!Tokens -> Seq({"Update", "Close"})]
      /\ \A u \in Notes!Tokens : Notes!Range(channels[u]) \subseteq Notes!Range(channels'[u])
      /\ t \in Notes!Tokens /\ Notes!Listening(t) => "Close" \in Notes!Range(channels'[t])
  BY <1>2, <1>3, <1>4
<1>6. NotesTypes' /\ NewTokens' /\ DoneIsOver' /\ Notes!Bounded' /\ Notes!NamedIsLive'
  BY <1>2, <1>5 DEF NotesInv, NotesTypes, NewTokens, DoneIsOver, Notes!Bounded,
     Notes!NamedIsLive, Notes!tableVars, Notes!controllerVars
<1>7. Notes!ForgottenIsClosed'
  BY <1>2, <1>5 DEF NotesInv, Notes!ForgottenIsClosed, Notes!Listening, Notes!tableVars
<1>. QED BY <1>6, <1>7 DEF NotesInv

(* A task starts on the table, and no Done was said of it.                   *)
LEMMA SpawnKeeps ==
  ASSUME NotesAssumption, NotesInv, Notes!spawn_notification_task
  PROVE  NotesInv'
<1>1. /\ spawning # <<>> /\ spawning' = <<>>
      /\ \E outcome \in {"starting", "over"} : tasks' = [tasks EXCEPT ![Head(spawning)] = outcome]
      /\ UNCHANGED <<Notes!controllerVars, inbox, Notes!tableVars, closing, working, channels>>
  BY DEF Notes!spawn_notification_task
<1>2. PICK outcome \in {"starting", "over"} : tasks' = [tasks EXCEPT ![Head(spawning)] = outcome]
  BY <1>1
<1>3. Head(spawning) = next_token /\ next_token \in DOMAIN live
  BY <1>1 DEF NotesInv, NotesTypes, NewTokens
<1>4. /\ tasks \in [Notes!Tokens -> {"none", "starting", "shown", "ended", "over"}]
      /\ next_token \in Notes!Tokens => tasks[next_token] = "none"
  BY <1>1 DEF NotesInv, NotesTypes, NewTokens
<1>5. /\ tasks' \in [Notes!Tokens -> {"none", "starting", "shown", "ended", "over"}]
      /\ \A t \in Notes!Tokens : t # next_token => tasks'[t] = tasks[t]
  BY <1>2, <1>3, <1>4
<1>6. DoneIsOver'
  <2>1. \A i \in DOMAIN inbox : inbox[i].kind = "Done" => inbox[i].token \in Notes!Tokens
    <3>1. \A i \in DOMAIN inbox : inbox[i] \in Messages
      BY LenProperties, ElementOfSeq DEF NotesInv, NotesTypes
    <3>. QED BY <3>1 DEF Messages
  <2>. QED BY <1>1, <1>4, <1>5, <2>1 DEF NotesInv, DoneIsOver
<1>7. NotesTypes' /\ NewTokens' /\ Notes!Bounded' /\ Notes!NamedIsLive'
  <2>1. \A t \in Notes!Tokens : t > next_token => t # next_token
    BY DEF Notes!Tokens, NotesAssumption, NotesInv, NotesTypes
  <2>. QED BY <1>1, <1>5, <2>1 DEF NotesInv, NotesTypes, NewTokens, Notes!Bounded,
              Notes!NamedIsLive, Notes!tableVars, Notes!controllerVars
<1>8. Notes!ForgottenIsClosed'
  BY <1>1, <1>3, <1>5 DEF NotesInv, Notes!ForgottenIsClosed, Notes!Listening, Notes!tableVars
<1>. QED BY <1>6, <1>7, <1>8 DEF NotesInv

(* A task goes on to a state in which it listens only if it did; what it     *)
(* reads is not a Close then.                                                *)
LEMMA TaskKeeps ==
  ASSUME NotesAssumption, NotesInv, NEW t \in Notes!Tokens, NEW from, NEW to, Notes!TaskStep(t, from, to),
         from \in {"starting", "shown", "ended"}, to \in {"shown", "ended", "over"},
         to = "shown" => from # "ended",
         inbox' = inbox \/ (to = "over" /\ inbox' = Append(inbox, [kind |-> "Done", token |-> t])),
         \/ channels' = channels
         \/ /\ channels[t] # <<>> /\ channels' = [channels EXCEPT ![t] = Tail(@)]
            /\ to = "shown" => Head(channels[t]) # "Close"
  PROVE  NotesInv'
<1>1. /\ tasks[t] = from /\ tasks' = [tasks EXCEPT ![t] = to]
      /\ UNCHANGED <<Notes!controllerVars, Notes!workerVars>>
      /\ tasks \in [Notes!Tokens -> {"none", "starting", "shown", "ended", "over"}]
      /\ channels \in [Notes!Tokens -> Seq({"Update", "Close"})]
  BY DEF Notes!TaskStep, NotesInv, NotesTypes
<1>2. /\ tasks' \in [Notes!Tokens -> {"none", "starting", "shown", "ended", "over"}]
      /\ tasks'[t] = to /\ \A u \in Notes!Tokens : u # t => tasks'[u] = tasks[u]
  BY <1>1
<1>3. /\ channels' \in [Notes!Tokens -> Seq({"Update", "Close"})]
      /\ \A u \in Notes!Tokens : u # t => channels'[u] = channels[u]
      /\ to = "shown" /\ "Close" \in Notes!Range(channels[t]) => "Close" \in Notes!Range(channels'[t])
  <2>1. CASE channels' = channels
    BY <1>1, <2>1
  <2>2. CASE /\ channels[t] # <<>> /\ channels' = [channels EXCEPT ![t] = Tail(@)]
             /\ to = "shown" => Head(channels[t]) # "Close"
    <3>1. channels[t] \in Seq({"Update", "Close"})
      BY <1>1
    <3>2. /\ Tail(channels[t]) \in Seq({"Update", "Close"})
          /\ \A x \in Notes!Range(channels[t]) : x = Head(channels[t]) \/ x \in Notes!Range(Tail(channels[t]))
      BY <2>2, <3>1, Behind
    <3>. QED BY <1>1, <2>2, <3>2
  <2>. QED BY <2>1, <2>2
<1>4. inbox \in Seq(Messages) /\ \A i \in DOMAIN inbox : inbox[i] \in Messages
  BY LenProperties, ElementOfSeq DEF NotesInv, NotesTypes
(* What is said to be over stays over. *)
<1>5. \A i \in DOMAIN inbox : inbox[i].kind = "Done" => tasks'[inbox[i].token] = "over"
  <2>1. \A i \in DOMAIN inbox : inbox[i].kind = "Done" =>
          inbox[i].token \in Notes!Tokens /\ tasks[inbox[i].token] = "over"
    BY <1>4 DEF NotesInv, DoneIsOver, Messages
  <2>. QED BY <1>1, <1>2, <2>1
<1>6. inbox' \in Seq(Messages) /\ DoneIsOver'
  <2>1. CASE inbox' = inbox
    BY <1>4, <1>5, <2>1 DEF DoneIsOver
  <2>2. CASE to = "over" /\ inbox' = Append(inbox, [kind |-> "Done", token |-> t])
    <3>. DEFINE m == [kind |-> "Done", token |-> t]
    <3>1. m \in Messages /\ m.token = t
      BY DEF Messages
    <3>2. /\ inbox' \in Seq(Messages) /\ Len(inbox) \in Nat
          /\ DOMAIN inbox = 1 .. Len(inbox) /\ DOMAIN inbox' = 1 .. Len(inbox) + 1
          /\ \A i \in 1 .. Len(inbox) : inbox'[i] = inbox[i]
          /\ inbox'[Len(inbox) + 1] = m
      BY <1>4, <2>2, <3>1, AppendProperties, LenProperties
    <3>. HIDE DEF m
    <3>. QED BY <1>2, <1>5, <2>2, <3>1, <3>2 DEF DoneIsOver
  <2>. QED BY <2>1, <2>2
<1>7. NotesTypes' /\ NewTokens' /\ Notes!Bounded' /\ Notes!NamedIsLive'
  BY <1>1, <1>2, <1>3, <1>6 DEF NotesInv, NotesTypes, NewTokens, Notes!Bounded,
     Notes!NamedIsLive, Notes!workerVars, Notes!controllerVars
<1>8. Notes!ForgottenIsClosed'
  BY <1>1, <1>2, <1>3 DEF NotesInv, Notes!ForgottenIsClosed, Notes!Listening, Notes!workerVars
<1>. QED BY <1>6, <1>7, <1>8 DEF NotesInv

(* Every step keeps the invariant.                                           *)
LEMMA NotesStep ==
  ASSUME NotesAssumption, NotesInv, Notes!Next \/ UNCHANGED Notes!noteVars
  PROVE  NotesInv'
<1>1. CASE UNCHANGED Notes!noteVars
  BY <1>1 DEF NotesInv, NotesTypes, NewTokens, DoneIsOver, Notes!Bounded, Notes!NamedIsLive,
     Notes!ForgottenIsClosed, Notes!Listening, Notes!noteVars, Notes!controllerVars,
     Notes!workerVars, Notes!taskVars
<1>2. ASSUME NEW t \in Notes!Tokens, Notes!Show(t) \/ Notes!Answered(t) \/ Notes!Command(t) \/ Notes!Done(t)
      PROVE  NotesInv'
  <2>1. CASE Notes!Show(t)
    <3>1. PICK to \in {"shown", "ended"} : Notes!TaskStep(t, "starting", to)
      BY <2>1 DEF Notes!Show
    <3>2. inbox' = inbox /\ channels' = channels
      BY <2>1 DEF Notes!Show
    <3>. QED BY <3>1, <3>2, TaskKeeps
  <2>2. CASE Notes!Answered(t)
    BY <2>2, TaskKeeps DEF Notes!Answered
  <2>3. CASE Notes!Command(t)
    <3>. DEFINE to == IF Head(channels[t]) = "Close" THEN "ended" ELSE "shown"
    <3>1. /\ Notes!TaskStep(t, "shown", to) /\ channels[t] # <<>> /\ inbox' = inbox
          /\ channels' = [channels EXCEPT ![t] = Tail(@)]
      BY <2>3 DEF Notes!Command
    <3>2. to \in {"shown", "ended"} /\ (to = "shown" => Head(channels[t]) # "Close")
      OBVIOUS
    <3>. HIDE DEF to
    <3>. QED BY <3>1, <3>2, TaskKeeps
  <2>4. CASE Notes!Done(t)
    <3>1. /\ Notes!TaskStep(t, "ended", "over") /\ channels' = channels
          /\ inbox' \in {inbox, Append(inbox, [kind |-> "Done", token |-> t])}
      BY <2>4 DEF Notes!Done, Notes!try_send
    <3>. QED BY <3>1, TaskKeeps
  <2>. QED BY <1>2, <2>1, <2>2, <2>3, <2>4
<1>. QED BY <1>1, <1>2, ControllerStep, DisplayKeeps, CloseKeeps, ClearsKeep, DoneKeeps,
        CloseTaskKeeps, SpawnKeeps DEF Notes!Next

-----------------------------------------------------------------------------
(* The PTY worker, for every script of messages.  That writes come in order  *)
(* hangs on one order of everything an input goes through: what the PTY      *)
(* took, the message being written, the write list and the channel.  That    *)
(* the end is heard last hangs on what a fault leaves: a worker that never   *)
(* again handles an event.                                                   *)
Indices == Nat \ {0}
Turns == {"poll", "drain", "events", "write", "faulted", "gone"}
Posts ==
  [kind : {"resized", "reset", "written", "fault", "child_exit", "exit"}, n : Nat]

PtyTypes ==
  /\ sent \in Nat /\ wakeups \subseteq {"sending", "notified"}
  /\ channel \in Seq(Indices) /\ write_list \in Seq(Indices)
  /\ writing = <<>> \/ writing \in Indices \X Nat
  /\ interest \in BOOLEAN /\ registered \in BOOLEAN /\ quarantined \in BOOLEAN
  /\ turn \in Turns
  /\ tty \in [wrote : Nat, parsed : Nat, exited : BOOLEAN]
  /\ fed \in Seq(Indices \X Nat) /\ posted \in Seq(Posts)

(* Each sequence of messages is in the order they were sent, and everything  *)
(* behind is later.                                                          *)
Rising(s) == \A i, j \in DOMAIN s : i < j => s[i] < s[j]
Before(s, t) == \A i \in DOMAIN s : \A j \in DOMAIN t : s[i] < t[j]
Later(i, s) == \A j \in DOMAIN s : i < s[j]

LineInOrder ==
  /\ Rising(write_list) /\ Rising(channel) /\ Before(write_list, channel)
  /\ \A i \in DOMAIN channel : channel[i] <= sent
  /\ \A i \in DOMAIN write_list : write_list[i] <= sent
  /\ writing # <<>> => writing[1] <= sent /\ Later(writing[1], write_list) /\ Later(writing[1], channel)

(* What the PTY took is of messages before those; of the one being written   *)
(* it took as many bytes as the worker counted.                              *)
FedBefore ==
  /\ \A j \in DOMAIN fed : fed[j][1] <= sent /\ Later(fed[j][1], write_list) /\ Later(fed[j][1], channel)
  /\ writing # <<>> /\ writing[2] = 0 => \A j \in DOMAIN fed : fed[j][1] < writing[1]
  /\ writing # <<>> /\ writing[2] # 0 =>
       /\ fed # <<>> /\ fed[Len(fed)] = writing
       /\ \A j \in DOMAIN fed : fed[j][1] <= writing[1]
  /\ \A j \in DOMAIN fed : fed[j][2] > 0

(* A message in the channel has woken the worker, until it reads the channel. *)
Woken == channel # <<>> /\ turn \notin {"drain", "gone"} => wakeups # {}

(* A worker that met a fault has nothing registered and handles no event.    *)
Faults == {j \in DOMAIN posted : posted[j].kind = "fault"}
FaultEnds ==
  /\ quarantined => ~registered /\ turn \notin {"events", "write"}
  /\ turn = "faulted" => quarantined /\ Cardinality(Faults) <= 1
  /\ Faults # {} => quarantined \/ turn = "gone"
  /\ IsFiniteSet(Faults) /\ Cardinality(Faults) <= 2

ExitIsLast ==
  \A i \in DOMAIN posted : posted[i].kind = "exit" => turn = "gone" /\ tty.exited

PtyInv ==
  /\ PtyTypes /\ LineInOrder /\ FedBefore /\ Woken /\ FaultEnds /\ ExitIsLast
  /\ Pty!WrittenInOrder /\ Pty!NothingForgotten /\ Pty!EndsOnce

-----------------------------------------------------------------------------
(* What is told is added to what was told.                                   *)
LEMMA PostedMore ==
  ASSUME posted \in Seq(Posts), NEW more \in Seq(Posts), posted' = posted \o more
  PROVE  /\ posted' \in Seq(Posts) /\ Len(posted') = Len(posted) + Len(more)
         /\ \A i \in DOMAIN posted : i \in DOMAIN posted' /\ posted'[i] = posted[i] /\ i <= Len(posted)
         /\ \A i \in DOMAIN posted' : i \notin DOMAIN posted =>
              /\ i - Len(posted) \in DOMAIN more /\ posted'[i] = more[i - Len(posted)]
              /\ i > Len(posted)
         /\ \A i \in DOMAIN more :
              Len(posted) + i \in DOMAIN posted' /\ posted'[Len(posted) + i] = more[i]
<1>1. /\ posted' \in Seq(Posts) /\ Len(posted') = Len(posted) + Len(more)
      /\ \A i \in 1 .. Len(posted) + Len(more) :
           posted'[i] = IF i <= Len(posted) THEN posted[i] ELSE more[i - Len(posted)]
  BY ConcatProperties
<1>2. /\ Len(posted) \in Nat /\ Len(more) \in Nat /\ DOMAIN posted = 1 .. Len(posted)
      /\ DOMAIN more = 1 .. Len(more) /\ DOMAIN posted' = 1 .. Len(posted) + Len(more)
  BY <1>1, LenProperties
<1>. DEFINE l == Len(posted)  k == Len(more)  p == posted'
<1>. HIDE DEF l, k, p
<1>3. /\ p \in Seq(Posts) /\ Len(p) = l + k /\ l \in Nat /\ k \in Nat
      /\ DOMAIN posted = 1 .. l /\ DOMAIN more = 1 .. k /\ DOMAIN p = 1 .. l + k
      /\ \A i \in 1 .. l + k : p[i] = IF i <= l THEN posted[i] ELSE more[i - l]
  BY <1>1, <1>2 DEF l, k, p
<1>4. \A i \in DOMAIN posted : i \in DOMAIN p /\ p[i] = posted[i] /\ i <= l
  BY <1>3
<1>5. \A i \in DOMAIN p : i \notin DOMAIN posted =>
        i - l \in DOMAIN more /\ p[i] = more[i - l] /\ i > l
  BY <1>3
<1>6. \A i \in DOMAIN more : l + i \in DOMAIN p /\ p[l + i] = more[i]
  <2>1. \A i \in 1 .. k : l + i \in 1 .. l + k /\ ~(l + i <= l) /\ (l + i) - l = i
    BY <1>3
  <2>. QED BY <1>3, <2>1
<1>. QED BY <1>3, <1>4, <1>5, <1>6 DEF l, k, p

LEMMA OneMore ==
  ASSUME posted \in Seq(Posts), NEW e \in Posts, posted' = Append(posted, e)
  PROVE  <<e>> \in Seq(Posts) /\ posted' = posted \o <<e>>
BY AppendIsConcat

(* Nothing else is written when what is told is not of an input.             *)
LEMMA ToldKept ==
  ASSUME posted \in Seq(Posts), NEW more \in Seq(Posts), posted' = posted \o more,
         \A i \in DOMAIN more : more[i].kind # "written"
  PROVE  Pty!Told("written")' = Pty!Told("written")
<1>1. /\ \A i \in DOMAIN posted : i \in DOMAIN posted' /\ posted'[i] = posted[i]
      /\ \A i \in DOMAIN posted' : i \notin DOMAIN posted => posted'[i].kind # "written"
  BY PostedMore
<1>. QED BY <1>1 DEF Pty!Told

(* The first of a sequence, and the others.                                  *)
LEMMA FirstAndRest ==
  ASSUME NEW S, NEW s \in Seq(S), s # <<>>
  PROVE  /\ Tail(s) \in Seq(S) /\ Head(s) \in S /\ 1 \in DOMAIN s /\ Head(s) = s[1]
         /\ \A i \in DOMAIN Tail(s) :
              i \in Nat \ {0} /\ i + 1 \in DOMAIN s /\ Tail(s)[i] = s[i + 1]
<1>1. /\ Tail(s) \in Seq(S) /\ Len(Tail(s)) = Len(s) - 1 /\ Len(s) \in Nat /\ Len(s) # 0
      /\ Head(s) = s[1] /\ Head(s) \in S
      /\ DOMAIN s = 1 .. Len(s) /\ DOMAIN Tail(s) = 1 .. Len(s) - 1
      /\ \A i \in 1 .. Len(s) - 1 : Tail(s)[i] = s[i + 1]
  BY HeadTailProperties, LenProperties, EmptySeq
<1>. DEFINE l == Len(s)  t == Tail(s)
<1>. HIDE DEF l, t
<1>2. /\ t \in Seq(S) /\ l \in Nat /\ l # 0 /\ DOMAIN s = 1 .. l /\ DOMAIN t = 1 .. l - 1
      /\ \A i \in 1 .. l - 1 : t[i] = s[i + 1]
  BY <1>1 DEF l, t
<1>3. 1 \in DOMAIN s /\ \A i \in DOMAIN t : i \in Nat \ {0} /\ i + 1 \in DOMAIN s /\ t[i] = s[i + 1]
  BY <1>2
<1>. QED BY <1>1, <1>2, <1>3 DEF t

(* One at the end.                                                           *)
LEMMA LastAdded ==
  ASSUME NEW S, NEW s \in Seq(S), NEW e \in S
  PROVE  /\ Append(s, e) \in Seq(S) /\ Append(s, e) # <<>> /\ Len(s) \in Nat
         /\ Len(Append(s, e)) = Len(s) + 1 /\ DOMAIN s = 1 .. Len(s)
         /\ DOMAIN Append(s, e) = 1 .. Len(s) + 1 /\ Append(s, e)[Len(s) + 1] = e
         /\ \A i \in DOMAIN s : i \in DOMAIN Append(s, e) /\ Append(s, e)[i] = s[i]
         /\ \A i \in DOMAIN Append(s, e) : i \in DOMAIN s \/ i = Len(s) + 1
<1>1. /\ Append(s, e) \in Seq(S) /\ Len(Append(s, e)) = Len(s) + 1 /\ Len(s) \in Nat
      /\ DOMAIN s = 1 .. Len(s)
      /\ \A i \in 1 .. Len(s) : Append(s, e)[i] = s[i]
      /\ Append(s, e)[Len(s) + 1] = e
  BY AppendProperties, LenProperties
<1>2. DOMAIN Append(s, e) = 1 .. Len(s) + 1
  BY <1>1, LenProperties
<1>. DEFINE l == Len(s)  a == Append(s, e)
<1>. HIDE DEF l, a
<1>3. /\ l \in Nat /\ DOMAIN s = 1 .. l /\ DOMAIN a = 1 .. l + 1 /\ Len(a) = l + 1
      /\ \A i \in 1 .. l : a[i] = s[i]
  BY <1>1, <1>2 DEF l, a
<1>4. /\ \A i \in DOMAIN s : i \in DOMAIN a /\ a[i] = s[i]
      /\ \A i \in DOMAIN a : i \in DOMAIN s \/ i = l + 1
      /\ 1 \in DOMAIN a
  BY <1>3
<1>. QED BY <1>1, <1>2, <1>4 DEF l, a

(* The sequences that rise, shortened and lengthened.                        *)
LEMMA RisingTail ==
  ASSUME NEW s \in Seq(Indices), s # <<>>, Rising(s)
  PROVE  Rising(Tail(s)) /\ Later(Head(s), Tail(s))
<1>1. \A i \in DOMAIN Tail(s) : i \in Nat \ {0} /\ i + 1 \in DOMAIN s /\ Tail(s)[i] = s[i + 1]
  BY FirstAndRest
<1>2. 1 \in DOMAIN s /\ Head(s) = s[1]
  BY FirstAndRest
<1>. QED BY <1>1, <1>2 DEF Rising, Later

LEMMA RisingMore ==
  ASSUME NEW s \in Seq(Indices), NEW e \in Indices, Rising(s), \A i \in DOMAIN s : s[i] < e
  PROVE  Rising(Append(s, e))
<1>1. /\ DOMAIN s = 1 .. Len(s) /\ Len(s) \in Nat /\ Append(s, e)[Len(s) + 1] = e
      /\ \A i \in DOMAIN s : i \in DOMAIN Append(s, e) /\ Append(s, e)[i] = s[i]
      /\ \A i \in DOMAIN Append(s, e) : i \in DOMAIN s \/ i = Len(s) + 1
  BY LastAdded
<1>. QED BY <1>1 DEF Rising

-----------------------------------------------------------------------------
LEMMA PtyInit ==
  ASSUME Pty!Init
  PROVE  PtyInv
<1>1. \A S : <<>> \in Seq(S) /\ DOMAIN <<>> = {} /\ Len(<<>>) = 0
  BY EmptySeq, LenProperties
<1>2. Faults = {} /\ IsFiniteSet(Faults) /\ Cardinality(Faults) = 0
  BY <1>1, FS_EmptySet DEF Pty!Init, Faults
<1>3. PtyTypes
  BY <1>1 DEF Pty!Init, PtyTypes, Turns
<1>4. LineInOrder /\ FedBefore /\ Woken /\ ExitIsLast /\ Pty!EndsOnce
  BY <1>1 DEF Pty!Init, LineInOrder, FedBefore, Woken, ExitIsLast, Pty!EndsOnce, Rising, Before,
     Later
<1>5. Pty!WrittenInOrder
  <2>1. DOMAIN fed = {} /\ Len(fed) = 0 /\ DOMAIN posted = {}
    BY <1>1 DEF Pty!Init
  <2>2. Pty!Told("written") = {}
    BY <2>1 DEF Pty!Told
  <2>3. \A j \in 1 .. (Len(fed) - 1) : FALSE
    BY <2>1
  <2>. QED BY <2>1, <2>2, <2>3 DEF Pty!WrittenInOrder
<1>6. ~Pty!Pending
  BY DEF Pty!Init, Pty!Pending
<1>7. FaultEnds
  BY <1>2 DEF Pty!Init, FaultEnds
<1>8. Pty!NothingForgotten
  BY <1>6 DEF Pty!Init, Pty!NothingForgotten
<1>. QED BY <1>3, <1>4, <1>5, <1>7, <1>8 DEF PtyInv

(* What is not written leaves the order as it is, the line being kept or     *)
(* emptied.                                                                  *)
LEMMA OrderKept ==
  ASSUME PtyTypes, LineInOrder, FedBefore, Pty!WrittenInOrder, UNCHANGED <<sent, channel, fed>>,
         UNCHANGED Pty!stateVars \/ (write_list' = <<>> /\ writing' = <<>>),
         Pty!Told("written")' = Pty!Told("written")
  PROVE  LineInOrder' /\ FedBefore' /\ Pty!WrittenInOrder'
<1>1. Pty!WrittenInOrder'
  BY DEF Pty!WrittenInOrder
<1>2. CASE UNCHANGED Pty!stateVars
  BY <1>1, <1>2 DEF Pty!stateVars, LineInOrder, FedBefore
<1>3. CASE write_list' = <<>> /\ writing' = <<>>
  BY <1>1, <1>3 DEF LineInOrder, FedBefore, Rising, Before, Later
<1>. QED BY <1>2, <1>3

(* An input comes into the channel behind all others.                        *)
LEMMA SendOrder ==
  ASSUME PtyTypes, LineInOrder, FedBefore, Pty!WrittenInOrder, Pty!Send
  PROVE  LineInOrder' /\ FedBefore' /\ Pty!WrittenInOrder' /\ PtyTypes'
<1>1. /\ sent' = sent + 1 /\ sent' \in Indices /\ channel' = Append(channel, sent')
      /\ UNCHANGED <<write_list, writing, fed, posted, tty, interest, registered, quarantined, turn>>
      /\ wakeups' \subseteq {"sending", "notified"} /\ sent \in Nat
  BY DEF Pty!Send, PtyTypes, Indices, Pty!stateVars
<1>2. /\ channel' \in Seq(Indices) /\ Len(channel) \in Nat
      /\ channel'[Len(channel) + 1] = sent'
      /\ \A i \in DOMAIN channel : i \in DOMAIN channel' /\ channel'[i] = channel[i]
      /\ \A i \in DOMAIN channel' : i \in DOMAIN channel \/ i = Len(channel) + 1
  BY <1>1, LastAdded DEF PtyTypes
<1>3. \A i \in DOMAIN channel' : channel'[i] = sent' \/ (i \in DOMAIN channel /\ channel'[i] = channel[i])
  BY <1>2
<1>4. \A i \in DOMAIN channel : channel[i] \in Indices /\ channel[i] < sent'
  <2>1. \A i \in DOMAIN channel : channel[i] \in Indices
    BY LenProperties DEF PtyTypes
  <2>. QED BY <1>1, <2>1 DEF LineInOrder, Indices
<1>5. Rising(channel')
  BY <1>1, <1>4, RisingMore DEF LineInOrder, PtyTypes
<1>6. /\ \A i \in DOMAIN write_list : write_list[i] \in Nat
      /\ \A j \in DOMAIN fed : fed[j][1] \in Nat
      /\ writing # <<>> => writing[1] \in Nat
  BY LenProperties DEF PtyTypes, Indices
<1>7. LineInOrder'
  <2>1. Before(write_list, channel') /\ \A i \in DOMAIN channel' : channel'[i] <= sent'
    BY <1>1, <1>3, <1>4, <1>6 DEF LineInOrder, Before, Indices
  <2>2. /\ \A i \in DOMAIN write_list : write_list[i] <= sent'
        /\ writing # <<>> => writing[1] <= sent' /\ Later(writing[1], channel')
    BY <1>1, <1>3, <1>6 DEF LineInOrder, Later
  <2>. QED BY <1>1, <1>5, <2>1, <2>2 DEF LineInOrder
<1>8. FedBefore'
  <2>1. \A j \in DOMAIN fed : fed[j][1] <= sent' /\ Later(fed[j][1], channel')
    BY <1>1, <1>3, <1>6 DEF FedBefore, Later
  <2>. QED BY <1>1, <2>1 DEF FedBefore
<1>9. Pty!WrittenInOrder'
  BY <1>1 DEF Pty!WrittenInOrder, Pty!Told
<1>10. PtyTypes'
  BY <1>1, <1>2 DEF PtyTypes
<1>. QED BY <1>7, <1>8, <1>9, <1>10

(* A message leaves the channel; an input comes behind the write list.       *)
LEMMA ReceiveOrder ==
  ASSUME PtyTypes, LineInOrder, FedBefore, Pty!WrittenInOrder, channel # <<>>, channel' = Tail(channel),
         UNCHANGED <<sent, fed>>, Pty!Told("written")' = Pty!Told("written"),
         \/ UNCHANGED Pty!stateVars
         \/ write_list' = <<>> /\ writing' = <<>>
         \/ write_list' = Append(write_list, Head(channel)) /\ writing' = writing
  PROVE  LineInOrder' /\ FedBefore' /\ Pty!WrittenInOrder' /\ channel' \in Seq(Indices) /\ write_list' \in Seq(Indices)
<1>. DEFINE h == Head(channel)
<1>1. /\ channel' \in Seq(Indices) /\ h \in Indices /\ 1 \in DOMAIN channel /\ h = channel[1]
      /\ \A i \in DOMAIN channel' : i \in Nat \ {0} /\ i + 1 \in DOMAIN channel /\ channel'[i] = channel[i + 1]
  BY FirstAndRest DEF PtyTypes
<1>2. Rising(channel') /\ Later(h, channel')
  BY RisingTail DEF LineInOrder, PtyTypes
<1>3. \A i : Later(i, channel) => Later(i, channel') /\ i < h
  BY <1>1 DEF Later
<1>4. Pty!WrittenInOrder'
  BY DEF Pty!WrittenInOrder
<1>5. /\ Before(write_list, channel') /\ \A i \in DOMAIN channel' : channel'[i] <= sent
      /\ \A i \in DOMAIN write_list : write_list[i] < h /\ h <= sent
  BY <1>1 DEF LineInOrder, Before
<1>. HIDE DEF h
<1>6. CASE UNCHANGED Pty!stateVars
  <2>1. LineInOrder'
    BY <1>2, <1>3, <1>5, <1>6 DEF LineInOrder, Pty!stateVars
  <2>2. FedBefore'
    BY <1>3, <1>6 DEF FedBefore, Pty!stateVars
  <2>. QED BY <1>1, <1>4, <1>6, <2>1, <2>2 DEF Pty!stateVars, PtyTypes
<1>7. CASE write_list' = <<>> /\ writing' = <<>>
  <2>1. LineInOrder'
    BY <1>2, <1>5, <1>7 DEF LineInOrder, Rising, Before
  <2>2. FedBefore'
    BY <1>3, <1>7 DEF FedBefore, Later
  <2>. QED BY <1>1, <1>4, <1>7, <2>1, <2>2
<1>8. CASE write_list' = Append(write_list, h) /\ writing' = writing
  <2>. DEFINE w == write_list'
  <2>1. /\ w \in Seq(Indices) /\ Len(write_list) \in Nat /\ w[Len(write_list) + 1] = h
        /\ \A i \in DOMAIN w : i \in DOMAIN write_list \/ i = Len(write_list) + 1
        /\ \A i \in DOMAIN write_list : i \in DOMAIN w /\ w[i] = write_list[i]
    BY <1>1, <1>8, LastAdded DEF PtyTypes
  <2>2. \A i \in DOMAIN w : w[i] = h \/ (i \in DOMAIN write_list /\ w[i] = write_list[i])
    BY <2>1
  <2>3. Rising(w)
    BY <1>1, <1>5, <1>8, RisingMore DEF LineInOrder, PtyTypes
  <2>. HIDE DEF w
  <2>4. h <= sent
    BY <1>1 DEF LineInOrder, h
  <2>5. Before(w, channel') /\ \A i \in DOMAIN w : w[i] <= sent
    BY <1>2, <1>5, <2>2, <2>4 DEF Before, Later, LineInOrder
  <2>6. \A i : Later(i, channel) /\ Later(i, write_list) => Later(i, w)
    BY <1>3, <2>2 DEF Later
  <2>7. LineInOrder'
    BY <1>2, <1>3, <1>5, <1>8, <2>3, <2>5, <2>6 DEF LineInOrder, w
  <2>8. FedBefore'
    BY <1>3, <1>8, <2>6 DEF FedBefore, w
  <2>. QED BY <1>1, <1>4, <2>1, <2>7, <2>8 DEF w
<1>. QED BY <1>6, <1>7, <1>8 DEF h

(* The input being written, or the first that waits, and those behind it.    *)
LEMMA CurrentIsFirst ==
  ASSUME PtyTypes, LineInOrder, FedBefore, Pty!Pending
  PROVE  /\ Pty!Current[1] \in Indices /\ Pty!Current[2] \in Nat /\ Pty!Current[1] <= sent
         /\ Pty!Rest \in Seq(Indices) /\ Rising(Pty!Rest) /\ Before(Pty!Rest, channel)
         /\ \A i \in DOMAIN Pty!Rest : Pty!Rest[i] <= sent
         /\ Later(Pty!Current[1], Pty!Rest) /\ Later(Pty!Current[1], channel)
         /\ \A j \in DOMAIN fed :
              /\ Later(fed[j][1], Pty!Rest) /\ Later(fed[j][1], channel) /\ fed[j][1] <= Pty!Current[1]
              /\ Pty!Current[2] = 0 => fed[j][1] < Pty!Current[1]
         /\ Pty!Current[2] # 0 => fed # <<>> /\ fed[Len(fed)] = <<Pty!Current[1], Pty!Current[2]>>
<1>1. \A j \in DOMAIN fed : fed[j][1] \in Nat
  BY LenProperties DEF PtyTypes, Indices
<1>2. CASE writing # <<>>
  <2>1. /\ Pty!Current = writing /\ Pty!Rest = write_list /\ writing \in Indices \X Nat
        /\ writing = <<writing[1], writing[2]>> /\ writing[1] \in Nat
    BY <1>2 DEF Pty!Current, Pty!Rest, PtyTypes, Indices
  <2>2. /\ \A j \in DOMAIN fed :
             fed[j][1] <= writing[1] /\ (writing[2] = 0 => fed[j][1] < writing[1])
        /\ writing[2] # 0 => fed # <<>> /\ fed[Len(fed)] = writing
    BY <1>1, <1>2, <2>1 DEF FedBefore
  <2>3. \A j \in DOMAIN fed : Later(fed[j][1], write_list) /\ Later(fed[j][1], channel)
    BY DEF FedBefore
  <2>4. /\ Rising(write_list) /\ Before(write_list, channel) /\ write_list \in Seq(Indices)
        /\ \A i \in DOMAIN write_list : write_list[i] <= sent
        /\ writing[1] <= sent /\ Later(writing[1], write_list) /\ Later(writing[1], channel)
    BY <1>2 DEF LineInOrder, PtyTypes
  <2>. QED BY <2>1, <2>2, <2>3, <2>4
<1>3. CASE writing = <<>>
  <2>. DEFINE h == Head(write_list)
  <2>1. write_list # <<>> /\ Pty!Current = <<h, 0>> /\ Pty!Rest = Tail(write_list)
    BY <1>3 DEF Pty!Current, Pty!Rest, Pty!Pending
  <2>2. /\ Pty!Rest \in Seq(Indices) /\ h \in Indices /\ 1 \in DOMAIN write_list /\ h = write_list[1]
        /\ \A i \in DOMAIN Pty!Rest : i + 1 \in DOMAIN write_list /\ Pty!Rest[i] = write_list[i + 1]
    BY <2>1, FirstAndRest DEF PtyTypes
  <2>3. Rising(Pty!Rest) /\ Later(h, Pty!Rest)
    BY <2>1, RisingTail DEF LineInOrder, PtyTypes
  <2>. HIDE DEF h
  <2>4. /\ Before(Pty!Rest, channel) /\ h <= sent /\ Later(h, channel)
        /\ \A i \in DOMAIN Pty!Rest : Pty!Rest[i] <= sent
    BY <2>2 DEF LineInOrder, Before, Later
  <2>5. \A i : Later(i, write_list) => i < h /\ Later(i, Pty!Rest)
    BY <2>2 DEF Later
  <2>6. \A j \in DOMAIN fed :
          Later(fed[j][1], Pty!Rest) /\ Later(fed[j][1], channel) /\ fed[j][1] < h /\ fed[j][1] <= h
    BY <1>1, <2>2, <2>5 DEF FedBefore, Indices
  <2>. QED BY <2>1, <2>2, <2>3, <2>4, <2>6
<1>. QED BY <1>2, <1>3

(* A byte is taken.                                                          *)
LEMMA WriteOrder ==
  ASSUME PtyTypes, LineInOrder, FedBefore, Pty!WrittenInOrder, Pty!WriteSome
  PROVE  /\ PtyTypes' /\ LineInOrder' /\ FedBefore' /\ Pty!WrittenInOrder'
         /\ UNCHANGED <<wakeups, channel, interest, registered, quarantined, turn, tty>>
         /\ \/ posted' = posted
            \/ \E i \in Nat : posted' = posted \o <<Pty!Event("written", i)>>
<1>. DEFINE i == Pty!Current[1]  n == Pty!Current[2] + 1  l == Len(fed)
<1>1. /\ i \in Indices /\ Pty!Current[2] \in Nat /\ i <= sent
      /\ Pty!Rest \in Seq(Indices) /\ Rising(Pty!Rest) /\ Before(Pty!Rest, channel)
      /\ \A k \in DOMAIN Pty!Rest : Pty!Rest[k] <= sent
      /\ Later(i, Pty!Rest) /\ Later(i, channel)
      /\ \A j \in DOMAIN fed :
           /\ Later(fed[j][1], Pty!Rest) /\ Later(fed[j][1], channel) /\ fed[j][1] <= i
           /\ Pty!Current[2] = 0 => fed[j][1] < i
      /\ Pty!Current[2] # 0 => fed # <<>> /\ fed[Len(fed)] = <<i, Pty!Current[2]>>
  BY CurrentIsFirst DEF Pty!WriteSome
<1>2. /\ fed' = Append(fed, <<i, n>>) /\ turn = "write"
      /\ UNCHANGED <<drain_on_exit, sent, wakeups, channel, interest, registered, quarantined, turn, tty>>
  BY DEF Pty!WriteSome, Pty!uiVars
<1>3. \/ /\ n = Sends[i].bytes /\ posted' = Append(posted, Pty!Event("written", i))
         /\ writing' = IF Pty!Rest = <<>> THEN <<>> ELSE <<Head(Pty!Rest), 0>>
         /\ write_list' = IF Pty!Rest = <<>> THEN <<>> ELSE Tail(Pty!Rest)
      \/ /\ n # Sends[i].bytes /\ writing' = <<i, n>> /\ write_list' = Pty!Rest /\ posted' = posted
  BY DEF Pty!WriteSome, Pty!Post
<1>4. /\ fed' \in Seq(Indices \X Nat) /\ fed' # <<>> /\ l \in Nat /\ Len(fed') = l + 1
      /\ DOMAIN fed = 1 .. l /\ DOMAIN fed' = 1 .. l + 1 /\ fed'[l + 1] = <<i, n>>
      /\ \A j \in DOMAIN fed : j \in DOMAIN fed' /\ fed'[j] = fed[j]
      /\ \A j \in DOMAIN fed' : j \in DOMAIN fed \/ j = l + 1
  <2>. DEFINE e == <<i, n>>
  <2>1. e \in Indices \X Nat
    BY <1>1
  <2>2. fed \in Seq(Indices \X Nat) /\ fed' = Append(fed, e)
    BY <1>2 DEF PtyTypes
  <2>. HIDE DEF e
  <2>3. /\ fed' \in Seq(Indices \X Nat) /\ fed' # <<>> /\ Len(fed) \in Nat /\ Len(fed') = Len(fed) + 1
        /\ DOMAIN fed = 1 .. Len(fed) /\ DOMAIN fed' = 1 .. Len(fed) + 1 /\ fed'[Len(fed) + 1] = e
        /\ \A j \in DOMAIN fed : j \in DOMAIN fed' /\ fed'[j] = fed[j]
        /\ \A j \in DOMAIN fed' : j \in DOMAIN fed \/ j = Len(fed) + 1
    BY ONLY <2>1, <2>2, LastAdded
  <2>. QED BY <2>3 DEF l, e
<1>. HIDE DEF i, l
<1>. DEFINE c == Pty!Current[2]  f == fed'
<1>5. \A j \in DOMAIN fed : fed[j] \in Indices \X Nat
  BY LenProperties DEF PtyTypes
<1>6. \A j \in DOMAIN f :
        /\ f[j][1] <= i /\ f[j][2] > 0 /\ f[j][1] <= sent
        /\ Later(f[j][1], Pty!Rest) /\ Later(f[j][1], channel)
  <2>1. f[l + 1][1] = i /\ f[l + 1][2] > 0 /\ i <= i
    BY <1>1, <1>4 DEF Indices
  <2>2. ASSUME NEW j \in DOMAIN f
        PROVE  /\ f[j][1] <= i /\ f[j][2] > 0 /\ f[j][1] <= sent
               /\ Later(f[j][1], Pty!Rest) /\ Later(f[j][1], channel)
    <3>1. CASE j \in DOMAIN fed
      BY <1>1, <1>4, <3>1 DEF FedBefore
    <3>2. CASE j = l + 1
      BY <1>1, <2>1, <3>2
    <3>. QED BY <1>4, <3>1, <3>2
  <2>. QED BY <2>2
<1>7. /\ write_list' \in Seq(Indices) /\ Rising(write_list)' /\ Before(write_list, channel)'
      /\ writing' = <<>> \/ writing' \in Indices \X Nat
      /\ \A k \in DOMAIN write_list' : write_list'[k] <= sent
      /\ writing' # <<>> => writing'[1] <= sent /\ Later(writing'[1], write_list') /\ Later(writing'[1], channel)
      /\ \A x : Later(x, Pty!Rest) => Later(x, write_list') /\ (n = Sends[i].bytes /\ writing' # <<>> => x < writing'[1])
      /\ n = Sends[i].bytes /\ writing' # <<>> => writing'[2] = 0
  <2>1. CASE n = Sends[i].bytes /\ Pty!Rest = <<>>
    <3>1. writing' = <<>> /\ write_list' = <<>> /\ DOMAIN write_list' = {}
      BY <1>3, <2>1
    <3>. QED BY <3>1, EmptySeq DEF Rising, Before, Later
  <2>2. CASE n = Sends[i].bytes /\ Pty!Rest # <<>>
    <3>. DEFINE h == Head(Pty!Rest)  t == Tail(Pty!Rest)
    <3>1. writing' = <<h, 0>> /\ write_list' = t
      BY <1>3, <2>2
    <3>2. /\ t \in Seq(Indices) /\ h \in Indices /\ 1 \in DOMAIN Pty!Rest /\ h = Pty!Rest[1]
          /\ \A k \in DOMAIN t : k + 1 \in DOMAIN Pty!Rest /\ t[k] = Pty!Rest[k + 1]
      BY <1>1, <2>2, FirstAndRest
    <3>3. Rising(t) /\ Later(h, t)
      BY <1>1, <2>2, RisingTail
    <3>. HIDE DEF h, t
    <3>4. /\ Before(t, channel) /\ h <= sent /\ Later(h, channel)
          /\ \A k \in DOMAIN t : t[k] <= sent
      BY <1>1, <3>2 DEF Before, Later
    <3>5. \A x : Later(x, Pty!Rest) => x < h /\ Later(x, t)
      BY <3>2 DEF Later
    <3>. QED BY <1>2, <3>1, <3>2, <3>3, <3>4, <3>5
  <2>3. CASE n # Sends[i].bytes
    BY <1>1, <1>2, <1>3, <2>3
  <2>. QED BY <2>1, <2>2, <2>3
<1>8. posted' = posted \/ \E k \in Nat : posted' = posted \o <<Pty!Event("written", k)>>
  <2>1. Pty!Event("written", i) \in Posts /\ i \in Nat
    BY <1>1 DEF Pty!Event, Posts, Indices
  <2>. QED BY <1>3, <2>1, OneMore DEF PtyTypes
<1>9. PtyTypes'
  <2>1. posted' \in Seq(Posts)
    <3>1. \A k \in Nat : <<Pty!Event("written", k)>> \in Seq(Posts)
      BY DEF Pty!Event, Posts
    <3>. QED BY <1>8, <3>1, PostedMore DEF PtyTypes
  <2>. QED BY <1>2, <1>4, <1>7, <2>1 DEF PtyTypes
<1>10. LineInOrder'
  BY <1>2, <1>7 DEF LineInOrder
<1>11. FedBefore'
  <2>1. \A j \in DOMAIN f : f[j][1] <= sent /\ Later(f[j][1], write_list') /\ Later(f[j][1], channel)
    BY <1>6, <1>7
  <2>2. CASE n = Sends[i].bytes
    BY <1>2, <1>6, <1>7, <2>1, <2>2 DEF FedBefore
  <2>3. CASE n # Sends[i].bytes
    <3>1. writing' = <<i, n>> /\ n # 0
      BY <1>1, <1>3, <2>3
    <3>. QED BY <1>2, <1>4, <1>6, <2>1, <3>1 DEF FedBefore
  <2>. QED BY <2>2, <2>3
<1>12. Pty!WrittenInOrder'
  <2>1. \A j \in 1 .. (Len(f) - 1) :
          IF f[j + 1][1] = f[j][1] THEN f[j + 1][2] = f[j][2] + 1 ELSE f[j + 1][1] > f[j][1] /\ f[j + 1][2] = 1
    <3>1. ASSUME NEW j \in 1 .. (l - 1)
          PROVE  IF f[j + 1][1] = f[j][1] THEN f[j + 1][2] = f[j][2] + 1
                 ELSE f[j + 1][1] > f[j][1] /\ f[j + 1][2] = 1
      <4>1. f[j] = fed[j] /\ f[j + 1] = fed[j + 1]
        <5>1. j \in 1 .. l /\ j + 1 \in 1 .. l
          BY <1>4
        <5>. QED BY <1>4, <5>1
      <4>. QED BY <4>1 DEF Pty!WrittenInOrder, l
    <3>2. ASSUME l # 0
          PROVE  IF f[l + 1][1] = f[l][1] THEN f[l + 1][2] = f[l][2] + 1
                 ELSE f[l + 1][1] > f[l][1] /\ f[l + 1][2] = 1
      <4>1. l \in DOMAIN fed /\ f[l] = fed[l] /\ f[l + 1][1] = i /\ f[l + 1][2] = c + 1
        BY <1>4, <3>2
      <4>2. CASE c = 0
        BY <1>1, <1>5, <4>1, <4>2 DEF Indices
      <4>3. CASE c # 0
        BY <1>1, <4>1, <4>3 DEF l
      <4>. QED BY <4>2, <4>3
    <3>3. \A j \in 1 .. (Len(f) - 1) : j \in 1 .. (l - 1) \/ (j = l /\ l # 0)
      BY <1>4
    <3>. QED BY <3>1, <3>2, <3>3
  <2>2. ASSUME NEW x \in DOMAIN Sends
        PROVE  x \in Pty!Told("written")' <=> \E j \in DOMAIN f : f[j] = <<x, Sends[x].bytes>>
    <3>1. (\E j \in DOMAIN f : f[j] = <<x, Sends[x].bytes>>)
          <=> \/ \E j \in DOMAIN fed : fed[j] = <<x, Sends[x].bytes>>
              \/ x = i /\ n = Sends[i].bytes
      <4>. DEFINE e == <<i, n>>
      <4>1. f[l + 1] = e /\ l + 1 \in DOMAIN f
        BY <1>4
      <4>. HIDE DEF e
      <4>2. (\E j \in DOMAIN f : f[j] = <<x, Sends[x].bytes>>)
            <=> (\E j \in DOMAIN fed : fed[j] = <<x, Sends[x].bytes>>) \/ e = <<x, Sends[x].bytes>>
        BY <1>4, <4>1
      <4>. QED BY <4>2 DEF e
    <3>2. x \in Pty!Told("written")' <=> x \in Pty!Told("written") \/ (x = i /\ n = Sends[i].bytes)
      <4>1. CASE n = Sends[i].bytes
        <5>. DEFINE e == Pty!Event("written", i)  p == posted'
        <5>1. e \in Posts /\ e.kind = "written" /\ e.n = i
          BY <1>1 DEF Pty!Event, Posts, Indices
        <5>2. p = Append(posted, e)
          BY <1>3, <4>1
        <5>3. /\ p[Len(posted) + 1] = e /\ Len(posted) + 1 \in DOMAIN p
              /\ \A k \in DOMAIN posted : k \in DOMAIN p /\ p[k] = posted[k]
              /\ \A k \in DOMAIN p : k \in DOMAIN posted \/ k = Len(posted) + 1
          BY <5>1, <5>2, LastAdded DEF PtyTypes
        <5>. HIDE DEF e, p
        <5>. QED BY <4>1, <5>1, <5>3 DEF Pty!Told, p
      <4>2. CASE n # Sends[i].bytes
        BY <1>3, <4>2 DEF Pty!Told
      <4>. QED BY <4>1, <4>2
    <3>. QED BY <3>1, <3>2 DEF Pty!WrittenInOrder
  <2>. QED BY <2>1, <2>2 DEF Pty!WrittenInOrder
<1>. QED BY <1>2, <1>8, <1>9, <1>10, <1>11, <1>12

-----------------------------------------------------------------------------
(* Faults among what is told.                                                *)
LEMMA FaultsMore ==
  ASSUME posted \in Seq(Posts), NEW more \in Seq(Posts), posted' = posted \o more
  PROVE  /\ (\A i \in DOMAIN more : more[i].kind # "fault") => Faults' = Faults
         /\ \A k \in DOMAIN more :
              (\A i \in DOMAIN more : more[i].kind = "fault" <=> i = k)
                => Faults' = Faults \cup {Len(posted) + k}
<1>1. /\ \A i \in DOMAIN posted : i \in DOMAIN posted' /\ posted'[i] = posted[i]
      /\ \A i \in DOMAIN posted' : i \notin DOMAIN posted =>
           i - Len(posted) \in DOMAIN more /\ posted'[i] = more[i - Len(posted)]
      /\ \A i \in DOMAIN more :
           Len(posted) + i \in DOMAIN posted' /\ posted'[Len(posted) + i] = more[i]
  BY PostedMore
<1>2. /\ Len(posted) \in Nat /\ \A i \in DOMAIN posted' : i \in Nat
      /\ \A i \in DOMAIN more : i \in Nat
  <2>1. posted' \in Seq(Posts)
    BY PostedMore
  <2>. QED BY <2>1, LenProperties
<1>. DEFINE l == Len(posted)  p == posted'
<1>. HIDE DEF l, p
<1>3. ASSUME \A i \in DOMAIN more : more[i].kind # "fault"
      PROVE  Faults' = Faults
  BY <1>1, <1>3 DEF Faults
<1>4. ASSUME NEW k \in DOMAIN more, \A i \in DOMAIN more : more[i].kind = "fault" <=> i = k
      PROVE  Faults' = Faults \cup {Len(posted) + k}
  <2>1. ASSUME NEW i \in Faults'
        PROVE  i \in Faults \cup {l + k}
    <3>1. i \in DOMAIN p /\ p[i].kind = "fault" /\ i \in Nat
      BY <1>2 DEF Faults, p
    <3>2. CASE i \in DOMAIN posted
      BY <1>1, <3>1, <3>2 DEF Faults, p
    <3>3. CASE i \notin DOMAIN posted
      <4>1. i - l \in DOMAIN more /\ more[i - l].kind = "fault"
        BY <1>1, <3>1, <3>3 DEF l, p
      <4>2. i - l = k
        BY <1>4, <4>1
      <4>. QED BY <1>2, <3>1, <4>2 DEF l
    <3>. QED BY <3>2, <3>3
  <2>2. Faults \subseteq Faults'
    BY <1>1 DEF Faults
  <2>3. l + k \in Faults'
    BY <1>1, <1>4 DEF Faults, l
  <2>. QED BY <2>1, <2>2, <2>3 DEF l
<1>. QED BY <1>3, <1>4

(* The exit and the faults come last, of a worker that has not left.         *)
LEMMA EndsMore ==
  ASSUME PtyTypes, FaultEnds, ExitIsLast, Pty!EndsOnce, turn # "gone",
         NEW more \in Seq(Posts), posted' = posted \o more, Cardinality(Faults)' <= 2,
         \A i \in DOMAIN more :
           more[i].kind = "exit" =>
             /\ i = Len(more) /\ turn' = "gone" /\ tty'.exited
             /\ drain_on_exit' =>
                  tty'.parsed = tty'.wrote \/ (\E j \in DOMAIN more : more[j].kind = "fault"),
         quarantined => \A i \in DOMAIN more : more[i].kind \in {"resized", "fault", "exit"},
         \A i, j \in DOMAIN more :
           more[i].kind = "fault" /\ i < j => more[j].kind \in {"resized", "fault", "exit"}
  PROVE  Pty!EndsOnce' /\ ExitIsLast'
<1>1. /\ \A i \in DOMAIN posted : i \in DOMAIN posted' /\ posted'[i] = posted[i] /\ i <= Len(posted)
      /\ \A i \in DOMAIN posted' : i \notin DOMAIN posted =>
           /\ i - Len(posted) \in DOMAIN more /\ posted'[i] = more[i - Len(posted)]
           /\ i > Len(posted)
      /\ \A i \in DOMAIN more :
           Len(posted) + i \in DOMAIN posted' /\ posted'[Len(posted) + i] = more[i]
      /\ Len(posted') = Len(posted) + Len(more)
  BY PostedMore DEF PtyTypes
<1>2. /\ Len(posted) \in Nat /\ DOMAIN posted = 1 .. Len(posted) /\ Len(more) \in Nat
      /\ DOMAIN posted' = 1 .. Len(posted')
  <2>1. posted' \in Seq(Posts)
    BY PostedMore DEF PtyTypes
  <2>. QED BY <2>1, LenProperties DEF PtyTypes
<1>. DEFINE l == Len(posted)  p == posted'
<1>3. \A i \in DOMAIN posted : posted[i].kind # "exit"
  BY DEF ExitIsLast
<1>4. ASSUME NEW i \in DOMAIN p, p[i].kind = "exit"
      PROVE  /\ i = Len(p) /\ turn' = "gone" /\ tty'.exited
             /\ drain_on_exit' => tty'.parsed = tty'.wrote \/ "fault" \in {p[j].kind : j \in DOMAIN p}
  <2>1. i - l \in DOMAIN more /\ p[i] = more[i - l] /\ i \in Nat
    BY <1>1, <1>2, <1>3, <1>4
  <2>2. i - l = Len(more) /\ turn' = "gone" /\ tty'.exited
    BY <1>4, <2>1
  <2>3. i = Len(p)
    <3>. HIDE DEF l
    <3>1. Len(p) = l + Len(more) /\ l \in Nat /\ Len(more) \in Nat
      BY <1>1, <1>2 DEF l
    <3>. QED BY <2>1, <2>2, <3>1
  <2>4. ASSUME drain_on_exit', NEW j \in DOMAIN more, more[j].kind = "fault"
        PROVE  "fault" \in {p[k].kind : k \in DOMAIN p}
    <3>1. PICK k : k \in DOMAIN p /\ p[k] = more[j]
      BY <1>1
    <3>. QED BY <2>4, <3>1
  <2>. QED BY <1>4, <2>1, <2>2, <2>3, <2>4
<1>5. ASSUME NEW i \in DOMAIN p, p[i].kind = "fault", NEW j \in (i + 1) .. Len(p)
      PROVE  p[j].kind \in {"resized", "fault", "exit"}
  <2>1. i \in Nat /\ i < j /\ j \in DOMAIN p /\ j \in Nat
    BY <1>2
  <2>2. CASE j \in DOMAIN posted
    <3>1. i \in DOMAIN posted /\ j \in (i + 1) .. l
      BY <1>1, <1>2, <2>1, <2>2
    <3>. QED BY <1>1, <1>5, <2>2, <3>1 DEF Pty!EndsOnce
  <2>3. CASE j \notin DOMAIN posted
    <3>1. j - l \in DOMAIN more /\ p[j] = more[j - l]
      BY <1>1, <2>1, <2>3
    <3>2. CASE i \in DOMAIN posted
      <4>1. quarantined
        BY <1>1, <1>5, <3>2 DEF FaultEnds, Faults
      <4>. QED BY <3>1, <4>1
    <3>3. CASE i \notin DOMAIN posted
      <4>1. i - l \in DOMAIN more /\ p[i] = more[i - l]
        BY <1>1, <3>3
      <4>2. i - l < j - l
        <5>. HIDE DEF l
        <5>1. l \in Nat
          BY <1>2 DEF l
        <5>. QED BY <2>1, <5>1
      <4>. QED BY <1>5, <3>1, <4>1, <4>2
    <3>. QED BY <3>2, <3>3
  <2>. QED BY <2>2, <2>3
<1>6. ExitIsLast'
  BY <1>4 DEF ExitIsLast
<1>7. Pty!EndsOnce'
  <2>1. Cardinality({j \in DOMAIN p : p[j].kind = "fault"}) <= 2
    BY DEF Faults
  <2>2. \A S : Pty!Cardinality(S) = Cardinality(S)
    BY DEF Pty!Cardinality, Cardinality
  <2>. QED BY <1>4, <1>5, <2>1, <2>2 DEF Pty!EndsOnce
<1>. QED BY <1>6, <1>7

(* Nothing is told.                                                          *)
LEMMA EndsSame ==
  ASSUME FaultEnds, ExitIsLast, Pty!EndsOnce, UNCHANGED <<drain_on_exit, posted>>,
         turn = "gone" => turn' = "gone", tty.exited => tty' = tty
  PROVE  Pty!EndsOnce' /\ ExitIsLast'
<1>1. ExitIsLast'
  BY DEF ExitIsLast
<1>2. Pty!EndsOnce'
  BY DEF Pty!EndsOnce, ExitIsLast
<1>. QED BY <1>1, <1>2

(* Between two turns nothing waits that will not be noticed.                 *)
LEMMA Noticed ==
  ASSUME Woken', turn' = "poll" /\ registered' => (interest' <=> Pty!Pending')
  PROVE  Pty!NothingForgotten'
BY DEF Woken, Pty!NothingForgotten

-----------------------------------------------------------------------------
(* The window sends, the poller is notified, and the child goes on.          *)
LEMMA OutsideKeeps ==
  ASSUME PtyInv, Pty!Send \/ Pty!Notify \/ Pty!ChildWrites \/ Pty!ChildExits
  PROVE  PtyInv'
<1>1. /\ PtyTypes /\ LineInOrder /\ FedBefore /\ Woken /\ FaultEnds /\ ExitIsLast
      /\ Pty!WrittenInOrder /\ Pty!NothingForgotten /\ Pty!EndsOnce
  BY DEF PtyInv
<1>2. /\ UNCHANGED <<drain_on_exit, posted, turn, registered, quarantined, interest, write_list, writing>>
      /\ tty.exited => tty' = tty
  BY DEF Pty!Send, Pty!Notify, Pty!ChildWrites, Pty!ChildExits, Pty!uiVars, Pty!stateVars
<1>3. Pty!EndsOnce' /\ ExitIsLast'
  BY <1>1, <1>2, EndsSame
<1>4. FaultEnds'
  BY <1>1, <1>2 DEF FaultEnds, Faults
<1>5. PtyTypes' /\ LineInOrder' /\ FedBefore' /\ Pty!WrittenInOrder'
  <2>1. CASE Pty!Send
    BY <1>1, <2>1, SendOrder
  <2>2. CASE Pty!Notify \/ Pty!ChildWrites \/ Pty!ChildExits
    <3>1. UNCHANGED <<sent, channel, fed>> /\ Pty!Told("written")' = Pty!Told("written")
      BY <1>2, <2>2 DEF Pty!Notify, Pty!ChildWrites, Pty!ChildExits, Pty!uiVars, Pty!Told
    <3>2. PtyTypes'
      <4>1. tty' \in [wrote : Nat, parsed : Nat, exited : BOOLEAN] /\ wakeups' \subseteq {"sending", "notified"}
        <5>1. tty' = tty \/ tty' = [tty EXCEPT !.wrote = @ + 1] \/ tty' = [tty EXCEPT !.exited = TRUE]
          BY <2>2 DEF Pty!Notify, Pty!ChildWrites, Pty!ChildExits
        <5>2. wakeups' = wakeups \/ wakeups' = {"notified"}
          BY <2>2 DEF Pty!Notify, Pty!ChildWrites, Pty!ChildExits
        <5>3. tty \in [wrote : Nat, parsed : Nat, exited : BOOLEAN] /\ wakeups \subseteq {"sending", "notified"}
          BY <1>1 DEF PtyTypes
        <5>4. tty' \in [wrote : Nat, parsed : Nat, exited : BOOLEAN]
          <6>1. tty.wrote \in Nat /\ tty.wrote + 1 \in Nat
            BY <5>3
          <6>2. [tty EXCEPT !.wrote = @ + 1] \in [wrote : Nat, parsed : Nat, exited : BOOLEAN]
            BY <5>3, <6>1
          <6>3. [tty EXCEPT !.exited = TRUE] \in [wrote : Nat, parsed : Nat, exited : BOOLEAN]
            BY <5>3
          <6>. QED BY <5>1, <5>3, <6>2, <6>3
        <5>5. wakeups' \subseteq {"sending", "notified"}
          BY <5>2, <5>3
        <5>. QED BY <5>4, <5>5
      <4>. QED BY <1>1, <1>2, <3>1, <4>1 DEF PtyTypes
    <3>. QED BY <1>1, <1>2, <3>1, <3>2, OrderKept DEF Pty!stateVars
  <2>. QED BY <2>1, <2>2
<1>6. Woken'
  BY <1>1, <1>2 DEF Woken, Pty!Send, Pty!Notify, Pty!ChildWrites, Pty!ChildExits
<1>7. Pty!NothingForgotten'
  <2>1. turn' = "poll" /\ registered' => (interest' <=> Pty!Pending')
    BY <1>1, <1>2 DEF Pty!NothingForgotten, Pty!Pending
  <2>. QED BY <1>6, <2>1, Noticed
<1>. QED BY <1>3, <1>4, <1>5, <1>6, <1>7 DEF PtyInv

(* Steps of a turn that tell nothing.                                        *)
LEMMA TurnKeeps ==
  ASSUME PtyInv, turn # "gone", turn' # "gone", UNCHANGED <<drain_on_exit, posted, sent, channel, fed, Pty!stateVars>>,
         UNCHANGED <<registered, quarantined>>, PtyTypes',
         quarantined => turn' \notin {"events", "write"}, turn' # "faulted",
         tty.exited => tty'.exited, Woken', turn' = "poll" /\ registered' => (interest' <=> Pty!Pending')
  PROVE  PtyInv'
<1>1. /\ PtyTypes /\ LineInOrder /\ FedBefore /\ Woken /\ FaultEnds /\ ExitIsLast
      /\ Pty!WrittenInOrder /\ Pty!NothingForgotten /\ Pty!EndsOnce
  BY DEF PtyInv
<1>2. Pty!EndsOnce' /\ ExitIsLast'
  BY <1>1 DEF ExitIsLast, Pty!EndsOnce
<1>3. FaultEnds'
  BY <1>1 DEF FaultEnds, Faults
<1>4. LineInOrder' /\ FedBefore' /\ Pty!WrittenInOrder'
  <2>1. Pty!Told("written")' = Pty!Told("written")
    BY DEF Pty!Told
  <2>. QED BY <1>1, <2>1, OrderKept
<1>. QED BY <1>2, <1>3, <1>4, Noticed DEF PtyInv

LEMMA QuietTurn ==
  ASSUME PtyInv,
         \/ Pty!PollReturns \/ Pty!Drained \/ Pty!SkipRead
         \/ Pty!HandleRead /\ UNCHANGED <<Pty!stateVars, registered, quarantined, posted>>
         \/ Pty!TurnEnds /\ UNCHANGED <<Pty!stateVars, registered, quarantined, posted>>
  PROVE  PtyInv'
<1>1. PtyTypes /\ Woken /\ FaultEnds /\ Pty!NothingForgotten
  BY DEF PtyInv
<1>2. CASE Pty!PollReturns
  <2>1. PtyTypes'
    BY <1>1, <1>2 DEF Pty!PollReturns, PtyTypes, Pty!uiVars, Pty!stateVars, Turns
  <2>2. Woken'
    BY <1>1, <1>2 DEF Pty!PollReturns, Woken, PtyTypes
  <2>3. turn' = "poll" /\ registered' => (interest' <=> Pty!Pending')
    BY <1>1, <1>2 DEF Pty!PollReturns, Pty!NothingForgotten, Pty!Pending, Pty!stateVars
  <2>. QED BY <1>2, <2>1, <2>2, <2>3, TurnKeeps DEF Pty!PollReturns, Pty!uiVars
<1>3. CASE Pty!Drained
  <2>1. PtyTypes'
    BY <1>1, <1>3 DEF Pty!Drained, PtyTypes, Pty!uiVars, Pty!stateVars, Turns
  <2>2. Woken'
    BY <1>3 DEF Pty!Drained, Woken
  <2>3. turn' = "poll" /\ registered' => (interest' <=> Pty!Pending')
    BY <1>1, <1>3 DEF Pty!Drained, FaultEnds
  <2>. QED BY <1>3, <2>1, <2>2, <2>3, TurnKeeps DEF Pty!Drained, Pty!uiVars
<1>4. CASE Pty!SkipRead
  <2>1. PtyTypes' /\ Woken'
    BY <1>1, <1>4 DEF Pty!SkipRead, PtyTypes, Woken, Pty!uiVars, Pty!stateVars, Turns
  <2>. QED BY <1>1, <1>4, <2>1, TurnKeeps DEF Pty!SkipRead, Pty!uiVars, FaultEnds
<1>5. CASE Pty!HandleRead /\ UNCHANGED <<Pty!stateVars, registered, quarantined, posted>>
  <2>1. turn = "events" /\ UNCHANGED <<drain_on_exit, sent, wakeups, channel, interest, fed>>
    BY <1>5 DEF Pty!HandleRead, Pty!uiVars
  <2>2. turn' = "write" /\ tty' \in [wrote : Nat, parsed : Nat, exited : BOOLEAN] /\ tty'.exited = tty.exited
    <3>1. posted' # Append(posted, Pty!Event("fault", 0))
      <4>1. Len(Append(posted, Pty!Event("fault", 0))) = Len(posted) + 1 /\ Len(posted) \in Nat
        BY <1>1, LastAdded DEF PtyTypes, Posts, Pty!Event
      <4>. QED BY <1>5, <4>1
    <3>2. PICK k \in (tty.parsed + 1) .. tty.wrote : tty' = [tty EXCEPT !.parsed = k] /\ turn' = "write"
      BY <1>5, <3>1 DEF Pty!HandleRead, Pty!Quarantine, Pty!Post
    <3>3. tty \in [wrote : Nat, parsed : Nat, exited : BOOLEAN]
      BY <1>1 DEF PtyTypes
    <3>4. k \in Nat
      BY <3>3
    <3>. QED BY <3>2, <3>3, <3>4
  <2>3. PtyTypes' /\ Woken'
    BY <1>1, <1>5, <2>1, <2>2 DEF PtyTypes, Woken, Pty!stateVars, Turns
  <2>. QED BY <1>1, <1>5, <2>1, <2>2, <2>3, TurnKeeps DEF FaultEnds
<1>6. CASE Pty!TurnEnds /\ UNCHANGED <<Pty!stateVars, registered, quarantined, posted>>
  <2>1. /\ turn = "write" /\ turn' = "poll" /\ interest' = Pty!Pending
        /\ UNCHANGED <<drain_on_exit, sent, wakeups, channel, tty, fed>>
    BY <1>6 DEF Pty!TurnEnds, Pty!Quarantine, Pty!uiVars
  <2>2. Pty!Pending' = Pty!Pending /\ Pty!Pending \in BOOLEAN
    BY <1>6 DEF Pty!Pending, Pty!stateVars
  <2>3. PtyTypes' /\ Woken'
    BY <1>1, <1>6, <2>1, <2>2 DEF PtyTypes, Woken, Pty!stateVars, Turns
  <2>. QED BY <1>6, <2>1, <2>2, <2>3, TurnKeeps
<1>. QED BY <1>2, <1>3, <1>4, <1>5, <1>6

(* A message is received.                                                    *)
LEMMA ReceiveKeeps ==
  ASSUME PtyInv, Pty!Receive
  PROVE  PtyInv'
<1>1. /\ PtyTypes /\ LineInOrder /\ FedBefore /\ Woken /\ FaultEnds /\ ExitIsLast
      /\ Pty!WrittenInOrder /\ Pty!NothingForgotten /\ Pty!EndsOnce
  BY DEF PtyInv
<1>. DEFINE i == Head(channel)
<1>2. /\ turn = "drain" /\ channel # <<>> /\ channel' = Tail(channel)
      /\ UNCHANGED <<drain_on_exit, sent, wakeups, interest, registered, quarantined, tty, fed>>
  BY DEF Pty!Receive, Pty!uiVars
<1>3. i \in Indices
  BY <1>1, <1>2, FirstAndRest DEF PtyTypes
<1>4. /\ \/ UNCHANGED Pty!stateVars
         \/ write_list' = <<>> /\ writing' = <<>>
         \/ write_list' = Append(write_list, i) /\ writing' = writing
      /\ turn' \in {"drain", "gone"}
      /\ \/ posted' = posted
         \/ posted' = Append(posted, Pty!Event("resized", i))
         \/ posted' = Append(posted, Pty!Event("reset", i)) /\ ~quarantined
  BY <1>2 DEF Pty!Receive, Pty!Post, Pty!stateVars
<1>5. PICK more \in Seq(Posts) :
        /\ posted' = posted \o more
        /\ \A k \in DOMAIN more :
             more[k].kind = "resized" \/ (more[k].kind = "reset" /\ ~quarantined)
  <2>1. CASE posted' = posted
    <3>. DEFINE none == <<>>
    <3>1. none \in Seq(Posts) /\ posted \o none = posted /\ DOMAIN none = {}
      BY <1>1, EmptySeq, ConcatEmptySeq, LenProperties DEF PtyTypes
    <3>. HIDE DEF none
    <3>. QED BY <2>1, <3>1
  <2>2. ASSUME NEW e \in {Pty!Event("resized", i), Pty!Event("reset", i)}, posted' = Append(posted, e),
               e.kind = "reset" => ~quarantined
        PROVE  \E more \in Seq(Posts) :
                 /\ posted' = posted \o more
                 /\ \A k \in DOMAIN more :
                      more[k].kind = "resized" \/ (more[k].kind = "reset" /\ ~quarantined)
    <3>1. e \in Posts /\ e.kind \in {"resized", "reset"}
      BY <1>3 DEF Pty!Event, Posts, Indices
    <3>2. <<e>> \in Seq(Posts) /\ posted' = posted \o <<e>>
      BY <1>1, <2>2, <3>1, OneMore DEF PtyTypes
    <3>3. \A k \in DOMAIN <<e>> : <<e>>[k] = e
      OBVIOUS
    <3>. QED BY <2>2, <3>1, <3>2, <3>3
  <2>3. Pty!Event("resized", i).kind = "resized" /\ Pty!Event("reset", i).kind = "reset"
    BY DEF Pty!Event
  <2>. QED BY <1>4, <2>1, <2>2, <2>3
<1>. HIDE DEF i
<1>6. posted' \in Seq(Posts) /\ Pty!Told("written")' = Pty!Told("written") /\ Faults' = Faults
  BY <1>1, <1>5, PostedMore, ToldKept, FaultsMore DEF PtyTypes
<1>7. LineInOrder' /\ FedBefore' /\ Pty!WrittenInOrder' /\ channel' \in Seq(Indices) /\ write_list' \in Seq(Indices)
  BY <1>1, <1>2, <1>4, <1>6, ReceiveOrder DEF i
<1>8. PtyTypes'
  BY <1>1, <1>2, <1>4, <1>6, <1>7 DEF PtyTypes, Turns, Pty!stateVars
<1>9. FaultEnds'
  BY <1>1, <1>2, <1>4, <1>6 DEF FaultEnds
<1>10. Pty!EndsOnce' /\ ExitIsLast'
  <2>1. Cardinality(Faults)' <= 2 /\ turn # "gone"
    BY <1>2, <1>9 DEF FaultEnds
  <2>2. \A k \in DOMAIN more : more[k].kind \notin {"exit", "fault"}
    BY <1>5
  <2>3. quarantined => \A k \in DOMAIN more : more[k].kind \in {"resized", "fault", "exit"}
    BY <1>5
  <2>. QED BY <1>1, <1>5, <2>1, <2>2, <2>3, EndsMore
<1>11. Woken' /\ Pty!NothingForgotten'
  BY <1>4 DEF Woken, Pty!NothingForgotten
<1>. QED BY <1>7, <1>8, <1>9, <1>10, <1>11 DEF PtyInv

(* A worker that handles its events has met no fault.                        *)
LEMMA FaultMet ==
  ASSUME PtyInv, turn \in {"events", "write"}, NEW cleared \in BOOLEAN, NEW next \in {"poll", "faulted"},
         Pty!Quarantine(cleared, next), UNCHANGED <<drain_on_exit, sent, wakeups, channel, tty, fed>>,
         interest' \in BOOLEAN
  PROVE  PtyInv'
<1>1. /\ PtyTypes /\ LineInOrder /\ FedBefore /\ Woken /\ FaultEnds /\ ExitIsLast
      /\ Pty!WrittenInOrder /\ Pty!NothingForgotten /\ Pty!EndsOnce
  BY DEF PtyInv
<1>. DEFINE e == Pty!Event("fault", 0)  more == <<e>>
<1>2. /\ posted' = Append(posted, e) /\ quarantined' = TRUE /\ registered' = FALSE /\ turn' = next
      /\ UNCHANGED Pty!stateVars \/ (write_list' = <<>> /\ writing' = <<>>)
  BY DEF Pty!Quarantine, Pty!Post
<1>3. ~quarantined /\ turn # "gone" /\ Faults = {}
  BY <1>1 DEF FaultEnds
<1>4. e \in Posts /\ e.kind = "fault"
  BY DEF Pty!Event, Posts
<1>5. more \in Seq(Posts) /\ posted' = posted \o more
  BY <1>1, <1>2, <1>4, OneMore DEF PtyTypes
<1>6. DOMAIN more = {1} /\ Len(more) = 1 /\ more[1] = e
  OBVIOUS
<1>. HIDE DEF e, more
<1>7. posted' \in Seq(Posts) /\ Pty!Told("written")' = Pty!Told("written")
  BY <1>1, <1>4, <1>5, <1>6, PostedMore, ToldKept DEF PtyTypes
<1>8. Faults' = {Len(posted) + 1}
  <2>1. 1 \in DOMAIN more /\ \A i \in DOMAIN more : more[i].kind = "fault" <=> i = 1
    BY <1>4, <1>6
  <2>2. Faults' = Faults \cup {Len(posted) + 1}
    BY <1>1, <1>5, <2>1, FaultsMore DEF PtyTypes
  <2>. QED BY <1>3, <2>2
<1>9. IsFiniteSet(Faults)' /\ Cardinality(Faults)' = 1
  BY <1>8, FS_Singleton
<1>10. LineInOrder' /\ FedBefore' /\ Pty!WrittenInOrder'
  BY <1>1, <1>2, <1>7, OrderKept
<1>11. PtyTypes'
  <2>1. write_list' \in Seq(Indices) /\ (writing' = <<>> \/ writing' \in Indices \X Nat)
    BY <1>1, <1>2, EmptySeq DEF PtyTypes, Pty!stateVars
  <2>. QED BY <1>1, <1>2, <1>7, <2>1 DEF PtyTypes, Turns
<1>12. FaultEnds'
  BY <1>2, <1>9 DEF FaultEnds
<1>13. Pty!EndsOnce' /\ ExitIsLast'
  BY <1>1, <1>3, <1>4, <1>5, <1>6, <1>9, EndsMore
<1>14. Woken' /\ Pty!NothingForgotten'
  <2>1. Woken'
    BY <1>1, <1>2 DEF Woken
  <2>. QED BY <1>2, <2>1, Noticed
<1>. QED BY <1>10, <1>11, <1>12, <1>13, <1>14 DEF PtyInv

(* The turn of a fault ends, with one more at most.                          *)
LEMMA FaultedTurnKeeps ==
  ASSUME PtyInv, Pty!FaultedTurnEnds
  PROVE  PtyInv'
<1>1. /\ PtyTypes /\ LineInOrder /\ FedBefore /\ Woken /\ FaultEnds /\ ExitIsLast
      /\ Pty!WrittenInOrder /\ Pty!NothingForgotten /\ Pty!EndsOnce
  BY DEF PtyInv
<1>2. /\ turn = "faulted" /\ turn' = "poll" /\ interest' = Pty!Pending
      /\ UNCHANGED <<drain_on_exit, sent, wakeups, channel, Pty!stateVars, registered, quarantined, tty, fed>>
      /\ posted' = posted \/ posted' = Append(posted, Pty!Event("fault", 0))
  BY DEF Pty!FaultedTurnEnds, Pty!uiVars, Pty!Post
<1>3. quarantined /\ ~registered /\ IsFiniteSet(Faults) /\ Cardinality(Faults) <= 1 /\ Cardinality(Faults) \in Nat
  BY <1>1, <1>2, FS_CardinalityType DEF FaultEnds
<1>4. /\ posted' \in Seq(Posts) /\ Pty!Told("written")' = Pty!Told("written")
      /\ IsFiniteSet(Faults)' /\ Cardinality(Faults)' <= 2
      /\ Pty!EndsOnce' /\ ExitIsLast'
  <2>1. CASE posted' = posted
    <3>1. Faults' = Faults /\ Pty!Told("written")' = Pty!Told("written")
      BY <2>1 DEF Faults, Pty!Told
    <3>2. Pty!EndsOnce' /\ ExitIsLast'
      BY <1>1, <1>2, <2>1, EndsSame
    <3>. QED BY <1>1, <1>3, <2>1, <3>1, <3>2 DEF PtyTypes
  <2>2. CASE posted' = Append(posted, Pty!Event("fault", 0))
    <3>. DEFINE e == Pty!Event("fault", 0)  more == <<e>>
    <3>1. e \in Posts /\ e.kind = "fault"
      BY DEF Pty!Event, Posts
    <3>2. more \in Seq(Posts) /\ posted' = posted \o more
      BY <1>1, <2>2, <3>1, OneMore DEF PtyTypes
    <3>3. DOMAIN more = {1} /\ Len(more) = 1 /\ more[1] = e
      OBVIOUS
    <3>. HIDE DEF e, more
    <3>4. posted' \in Seq(Posts) /\ Pty!Told("written")' = Pty!Told("written")
      BY <1>1, <3>1, <3>2, <3>3, PostedMore, ToldKept DEF PtyTypes
    <3>5. Faults' = Faults \cup {Len(posted) + 1}
      <4>1. 1 \in DOMAIN more /\ \A i \in DOMAIN more : more[i].kind = "fault" <=> i = 1
        BY <3>1, <3>3
      <4>. QED BY <1>1, <3>2, <4>1, FaultsMore DEF PtyTypes
    <3>6. IsFiniteSet(Faults)' /\ Cardinality(Faults)' <= 2
      <4>1. \A x : IsFiniteSet(Faults \cup {x}) /\ Cardinality(Faults \cup {x}) <= 2
        <5>1. ASSUME NEW x
              PROVE  IsFiniteSet(Faults \cup {x}) /\ Cardinality(Faults \cup {x}) <= 2
          <6>1. /\ IsFiniteSet(Faults \cup {x})
                /\ Cardinality(Faults \cup {x}) = IF x \in Faults THEN Cardinality(Faults) ELSE Cardinality(Faults) + 1
            BY <1>3, FS_AddElement
          <6>. QED BY <1>3, <6>1
        <5>. QED BY <5>1
      <4>. QED BY <3>5, <4>1
    <3>7. Pty!EndsOnce' /\ ExitIsLast'
      BY <1>1, <1>2, <3>1, <3>2, <3>3, <3>6, EndsMore
    <3>. QED BY <3>4, <3>6, <3>7
  <2>. QED BY <1>2, <2>1, <2>2
<1>5. LineInOrder' /\ FedBefore' /\ Pty!WrittenInOrder'
  BY <1>1, <1>2, <1>4, OrderKept
<1>6. PtyTypes'
  <2>1. Pty!Pending \in BOOLEAN
    BY DEF Pty!Pending
  <2>. QED BY <1>1, <1>2, <1>4, <2>1 DEF PtyTypes, Turns, Pty!stateVars
<1>7. FaultEnds'
  BY <1>2, <1>3, <1>4 DEF FaultEnds
<1>8. Woken' /\ Pty!NothingForgotten'
  <2>1. Woken'
    BY <1>1, <1>2 DEF Woken
  <2>. QED BY <1>2, <1>3, <2>1, Noticed
<1>. QED BY <1>4, <1>5, <1>6, <1>7, <1>8 DEF PtyInv

(* The child's exit is handled.                                              *)
LEMMA ExitKeeps ==
  ASSUME PtyInv, Pty!HandleExit
  PROVE  PtyInv'
<1>1. /\ PtyTypes /\ LineInOrder /\ FedBefore /\ Woken /\ FaultEnds /\ ExitIsLast
      /\ Pty!WrittenInOrder /\ Pty!NothingForgotten /\ Pty!EndsOnce
  BY DEF PtyInv
<1>. DEFINE c == Pty!Event("child_exit", 0)  f == Pty!Event("fault", 0)  x == Pty!Event("exit", 0)
            clean == <<c, x>>  faulty == <<c, f, x>>
<1>2. /\ turn = "events" /\ turn' = "gone" /\ tty.exited
      /\ UNCHANGED <<drain_on_exit, sent, wakeups, channel, interest, registered, quarantined, fed>>
      /\ UNCHANGED Pty!stateVars \/ (write_list' = <<>> /\ writing' = <<>>)
  BY DEF Pty!HandleExit, Pty!Ready, Pty!uiVars
<1>3. \/ /\ posted' = posted \o clean /\ tty' = [tty EXCEPT !.parsed = tty.wrote]
      \/ /\ posted' = posted \o clean /\ tty' = tty /\ ~drain_on_exit
      \/ /\ posted' = posted \o faulty /\ tty' = tty
  BY DEF Pty!HandleExit
<1>4. /\ c \in Posts /\ f \in Posts /\ x \in Posts
      /\ c.kind = "child_exit" /\ f.kind = "fault" /\ x.kind = "exit"
  BY DEF Pty!Event, Posts
<1>. HIDE DEF c, f, x
<1>5. /\ clean \in Seq(Posts) /\ DOMAIN clean = {1, 2} /\ Len(clean) = 2 /\ clean[1] = c /\ clean[2] = x
      /\ faulty \in Seq(Posts) /\ DOMAIN faulty = {1, 2, 3} /\ Len(faulty) = 3
      /\ faulty[1] = c /\ faulty[2] = f /\ faulty[3] = x
  <2>1. 1 .. 2 = {1, 2} /\ 1 .. 3 = {1, 2, 3}
    OBVIOUS
  <2>. QED BY <1>4, <2>1
<1>. HIDE DEF clean, faulty
<1>6. ~quarantined /\ Faults = {} /\ turn # "gone"
  BY <1>1, <1>2 DEF FaultEnds
<1>7. /\ posted' \in Seq(Posts) /\ Pty!Told("written")' = Pty!Told("written")
      /\ IsFiniteSet(Faults)' /\ Cardinality(Faults)' <= 2
      /\ Pty!EndsOnce' /\ ExitIsLast' /\ tty' \in [wrote : Nat, parsed : Nat, exited : BOOLEAN]
  <2>1. tty \in [wrote : Nat, parsed : Nat, exited : BOOLEAN]
    BY <1>1 DEF PtyTypes
  <2>2. tty' \in [wrote : Nat, parsed : Nat, exited : BOOLEAN] /\ tty'.exited
    BY <1>2, <1>3, <2>1
  <2>3. CASE posted' = posted \o clean /\ (drain_on_exit => tty'.parsed = tty'.wrote)
    <3>1. \A i \in DOMAIN clean : clean[i].kind \in {"child_exit", "exit"} /\ (clean[i].kind = "exit" => i = Len(clean))
      BY <1>4, <1>5
    <3>2. posted' \in Seq(Posts) /\ Pty!Told("written")' = Pty!Told("written") /\ Faults' = Faults
      BY <1>1, <1>5, <2>3, <3>1, PostedMore, ToldKept, FaultsMore DEF PtyTypes
    <3>3. IsFiniteSet(Faults)' /\ Cardinality(Faults)' <= 2
      BY <1>6, <3>2, FS_EmptySet
    <3>4. Pty!EndsOnce' /\ ExitIsLast'
      BY <1>1, <1>2, <1>5, <1>6, <2>2, <2>3, <3>1, <3>3, EndsMore
    <3>. QED BY <2>2, <3>2, <3>3, <3>4
  <2>4. CASE posted' = posted \o faulty
    <3>1. /\ \A i \in DOMAIN faulty :
               /\ faulty[i].kind \in {"child_exit", "fault", "exit"}
               /\ faulty[i].kind = "fault" <=> i = 2
               /\ faulty[i].kind = "exit" <=> i = 3
          /\ \A i \in DOMAIN faulty : i > 2 => i = 3
      BY <1>4, <1>5
    <3>2. posted' \in Seq(Posts) /\ Pty!Told("written")' = Pty!Told("written") /\ Faults' = {Len(posted) + 2}
      <4>1. posted' \in Seq(Posts) /\ Pty!Told("written")' = Pty!Told("written")
        BY <1>1, <1>5, <2>4, <3>1, PostedMore, ToldKept DEF PtyTypes
      <4>2. 2 \in DOMAIN faulty /\ \A i \in DOMAIN faulty : faulty[i].kind = "fault" <=> i = 2
        BY <1>5, <3>1
      <4>3. Faults' = Faults \cup {Len(posted) + 2}
        BY <1>1, <1>5, <2>4, <4>2, FaultsMore DEF PtyTypes
      <4>. QED BY <1>6, <4>1, <4>3
    <3>3. IsFiniteSet(Faults)' /\ Cardinality(Faults)' <= 2
      <4>1. IsFiniteSet(Faults') /\ Cardinality(Faults') = 1
        BY <3>2, FS_Singleton
      <4>. QED BY <4>1
    <3>4. Pty!EndsOnce' /\ ExitIsLast'
      <4>1. \A i, j \in DOMAIN faulty :
              faulty[i].kind = "fault" /\ i < j => faulty[j].kind \in {"resized", "fault", "exit"}
        BY <1>5, <3>1
      <4>2. \E j \in DOMAIN faulty : faulty[j].kind = "fault"
        BY <1>5, <3>1
      <4>. QED BY <1>1, <1>2, <1>5, <1>6, <2>2, <2>4, <3>1, <3>3, <4>1, <4>2, EndsMore
    <3>. QED BY <2>2, <3>2, <3>3, <3>4
  <2>. QED BY <1>3, <2>1, <2>3, <2>4
<1>8. LineInOrder' /\ FedBefore' /\ Pty!WrittenInOrder'
  BY <1>1, <1>2, <1>7, OrderKept
<1>9. PtyTypes'
  <2>1. write_list' \in Seq(Indices) /\ (writing' = <<>> \/ writing' \in Indices \X Nat)
    BY <1>1, <1>2, EmptySeq DEF PtyTypes, Pty!stateVars
  <2>. QED BY <1>1, <1>2, <1>7, <2>1 DEF PtyTypes, Turns
<1>10. FaultEnds'
  BY <1>2, <1>6, <1>7 DEF FaultEnds
<1>11. Woken' /\ Pty!NothingForgotten'
  BY <1>2 DEF Woken, Pty!NothingForgotten
<1>. QED BY <1>7, <1>8, <1>9, <1>10, <1>11 DEF PtyInv

(* A byte is written.                                                        *)
LEMMA WriteKeeps ==
  ASSUME PtyInv, Pty!WriteSome
  PROVE  PtyInv'
<1>1. /\ PtyTypes /\ LineInOrder /\ FedBefore /\ Woken /\ FaultEnds /\ ExitIsLast
      /\ Pty!WrittenInOrder /\ Pty!NothingForgotten /\ Pty!EndsOnce
  BY DEF PtyInv
<1>2. /\ PtyTypes' /\ LineInOrder' /\ FedBefore' /\ Pty!WrittenInOrder'
      /\ UNCHANGED <<wakeups, channel, interest, registered, quarantined, turn, tty>>
      /\ \/ posted' = posted
         \/ \E i \in Nat : posted' = posted \o <<Pty!Event("written", i)>>
  BY <1>1, WriteOrder
<1>3. turn = "write" /\ drain_on_exit' = drain_on_exit /\ ~quarantined /\ turn # "gone"
  BY <1>1 DEF Pty!WriteSome, Pty!uiVars, FaultEnds
<1>4. Faults' = Faults /\ Pty!EndsOnce' /\ ExitIsLast'
  <2>1. CASE posted' = posted
    <3>1. Faults' = Faults
      BY <2>1 DEF Faults
    <3>. QED BY <1>1, <1>2, <1>3, <2>1, <3>1, EndsSame
  <2>2. ASSUME NEW i \in Nat, posted' = posted \o <<Pty!Event("written", i)>>
        PROVE  Faults' = Faults /\ Pty!EndsOnce' /\ ExitIsLast'
    <3>. DEFINE e == Pty!Event("written", i)  more == <<e>>
    <3>1. e \in Posts /\ e.kind = "written"
      BY DEF Pty!Event, Posts
    <3>2. more \in Seq(Posts) /\ DOMAIN more = {1} /\ more[1] = e
      BY <3>1
    <3>. HIDE DEF e, more
    <3>3. \A k \in DOMAIN more : more[k].kind = "written"
      BY <3>1, <3>2
    <3>4. Faults' = Faults
      BY <1>1, <2>2, <3>2, <3>3, FaultsMore DEF PtyTypes, e, more
    <3>5. Cardinality(Faults)' <= 2
      BY <1>1, <3>4 DEF FaultEnds
    <3>. QED BY <1>1, <1>3, <2>2, <3>2, <3>3, <3>4, <3>5, EndsMore DEF e, more
  <2>. QED BY <1>2, <2>1, <2>2
<1>5. FaultEnds'
  BY <1>1, <1>2, <1>4 DEF FaultEnds
<1>6. Woken' /\ Pty!NothingForgotten'
  BY <1>1, <1>2, <1>3 DEF Woken, Pty!NothingForgotten
<1>. QED BY <1>2, <1>4, <1>5, <1>6 DEF PtyInv

(* Every step keeps the invariant.                                           *)
LEMMA PtyStep ==
  ASSUME PtyInv, Pty!Next \/ UNCHANGED Pty!vars
  PROVE  PtyInv'
<1>1. CASE Pty!Send \/ Pty!Notify \/ Pty!ChildWrites \/ Pty!ChildExits
  BY <1>1, OutsideKeeps
<1>2. CASE Pty!PollReturns \/ Pty!Drained \/ Pty!SkipRead
  BY <1>2, QuietTurn
<1>3. CASE Pty!Receive
  BY <1>3, ReceiveKeeps
<1>4. CASE Pty!HandleRead
  <2>1. CASE UNCHANGED <<Pty!stateVars, registered, quarantined, posted>>
    BY <1>4, <2>1, QuietTurn
  <2>2. CASE \E panicked \in BOOLEAN : Pty!Quarantine(panicked, "faulted") /\ UNCHANGED tty
    <3>1. interest \in BOOLEAN
      BY DEF PtyInv, PtyTypes
    <3>. QED BY <1>4, <2>2, <3>1, FaultMet DEF Pty!HandleRead, Pty!uiVars
  <2>. QED BY <1>4, <2>1, <2>2 DEF Pty!HandleRead
<1>5. CASE Pty!WriteSome
  BY <1>5, WriteKeeps
<1>6. CASE Pty!WriteFails
  <2>1. interest \in BOOLEAN
    BY DEF PtyInv, PtyTypes
  <2>. QED BY <1>6, <2>1, FaultMet DEF Pty!WriteFails, Pty!uiVars
<1>7. CASE Pty!TurnEnds
  <2>1. CASE UNCHANGED <<Pty!stateVars, registered, quarantined, posted>>
    BY <1>7, <2>1, QuietTurn
  <2>2. CASE interest' = Pty!Pending /\ Pty!Quarantine(FALSE, "poll")
    <3>1. Pty!Pending \in BOOLEAN
      BY DEF Pty!Pending
    <3>. QED BY <1>7, <2>2, <3>1, FaultMet DEF Pty!TurnEnds, Pty!uiVars
  <2>. QED BY <1>7, <2>1, <2>2 DEF Pty!TurnEnds
<1>8. CASE Pty!FaultedTurnEnds
  BY <1>8, FaultedTurnKeeps
<1>9. CASE Pty!HandleExit
  BY <1>9, ExitKeeps
<1>10. CASE UNCHANGED Pty!vars
  <2>1. /\ PtyTypes /\ LineInOrder /\ FedBefore /\ Woken /\ FaultEnds /\ ExitIsLast
        /\ Pty!WrittenInOrder /\ Pty!NothingForgotten /\ Pty!EndsOnce
    BY DEF PtyInv
  <2>2. UNCHANGED <<drain_on_exit, sent, wakeups, channel, write_list, writing, interest, registered,
                    quarantined, turn, tty, fed, posted>>
    BY <1>10 DEF Pty!vars
  <2>3. PtyTypes' /\ LineInOrder' /\ FedBefore' /\ Woken' /\ FaultEnds' /\ ExitIsLast' /\ Pty!EndsOnce'
    BY <2>1, <2>2 DEF PtyTypes, LineInOrder, FedBefore, Woken, FaultEnds, Faults, ExitIsLast,
       Pty!EndsOnce
  <2>4. Pty!WrittenInOrder'
    BY <2>1, <2>2 DEF Pty!WrittenInOrder, Pty!Told
  <2>5. Pty!NothingForgotten'
    BY <2>1, <2>2, <2>3, Noticed DEF Pty!NothingForgotten, Pty!Pending
  <2>. QED BY <2>3, <2>4, <2>5 DEF PtyInv
<1>. QED BY <1>1, <1>2, <1>3, <1>4, <1>5, <1>6, <1>7, <1>8, <1>9, <1>10 DEF Pty!Next

-----------------------------------------------------------------------------
(* File drops, for any number of connections, drops and generations.  That   *)
(* a transfer is served by one connection, and a retired one is told to      *)
(* stop, hangs on what a connection knows: a generation of its transfer that *)
(* nobody else serves.                                                       *)
Phases ==
  {"idle", "begun", "installed", "sent", "committed", "refused", "failed", "lost",
   "done-committed", "done-refused"}
Offers ==
  [key : Drops!Keys, source : BOOLEAN, due : BOOLEAN, terminal : {"none", "committed", "refused"},
   cancelled : BOOLEAN, retained : {"no", "kept", "over"}]
Transfers == [key : Drops!Keys, gen : Nat, active : BOOLEAN, due : BOOLEAN]
Handles == {Drops!NoSlot} \cup (Nat \X Conns)
Sources == [generation : Nat, cancelled : BOOLEAN, slot : Handles]

DropTypes ==
  /\ MaxDrops \in Nat /\ next_drop_id \in 0..MaxDrops
  /\ pending_pastes \in Seq(1..next_drop_id) /\ typed \in Seq(1..next_drop_id)
  /\ sources \in [1..MaxDrops -> Sources]
  /\ stopping \subseteq 1..MaxDrops
  /\ conn \in [Conns -> [phase : Phases, drop : Nat, gen : Nat, stopped : BOOLEAN]]

(* What holds of the offers os and the transfers ts, which an operation may  *)
(* have expired before it goes on.                                           *)
Table(os, ts) ==
  /\ DOMAIN os \subseteq 1..next_drop_id /\ os \in [DOMAIN os -> Offers]
  /\ DOMAIN ts \subseteq DOMAIN os /\ ts \in [DOMAIN ts -> Transfers]

(* An offer and its transfer are of one binding; one that is over is         *)
(* released, and its transfer is not active.                                 *)
Matched(os, ts) ==
  /\ \A d \in DOMAIN ts : os[d].key = ts[d].key
  /\ \A d \in DOMAIN os : os[d].source <=> ~Drops!Over(os[d])
  /\ \A d \in DOMAIN os : os[d].retained # "no" => Drops!Over(os[d])
  /\ \A d \in DOMAIN ts : ts[d].active => ~Drops!Over(os[d])

(* A connection serves a generation its transfer has reached, and a transfer *)
(* that is not over is active just while somebody serves it.                 *)
Serving(c) == conn[c].phase # "idle"
Reached(os, ts) ==
  \A c \in Conns : Serving(c) /\ conn[c].drop \in DOMAIN os =>
    conn[c].drop \in DOMAIN ts /\ conn[c].gen <= ts[conn[c].drop].gen
ServedNow(d, ts) == \E c \in Conns : Serving(c) /\ conn[c].drop = d /\ conn[c].gen = ts[d].gen
JustServed(os, ts) ==
  \A d \in DOMAIN ts : ~Drops!Over(os[d]) => (ts[d].active <=> ServedNow(d, ts))

(* A path is typed for a drop that is over.                                  *)
PastedIsOver(os) ==
  /\ \A i \in DOMAIN typed : typed[i] \in DOMAIN os => Drops!Over(os[typed[i]])
  /\ \A i \in DOMAIN pending_pastes :
       pending_pastes[i] \in DOMAIN os => Drops!Over(os[pending_pastes[i]])

Kept(os, ts) ==
  Table(os, ts) /\ Matched(os, ts) /\ Reached(os, ts) /\ JustServed(os, ts) /\ PastedIsOver(os)

(* A generation is served by one connection at most.                         *)
OneServes ==
  /\ \A c \in Conns : Serving(c) => conn[c].drop \in 1..next_drop_id
  /\ \A c, e \in Conns :
       Serving(c) /\ Serving(e) /\ conn[c].drop = conn[e].drop /\ conn[c].gen = conn[e].gen => c = e

(* Whoever streams without having been told to stop has its handle installed *)
(* and is either of the newest generation or about to be stopped.            *)
Reachable ==
  \A c \in Conns : Drops!Streaming(c) /\ ~conn[c].stopped =>
    /\ sources[conn[c].drop].slot = <<conn[c].gen, c>>
    /\ Drops!Current(c) \/ conn[c].drop \in stopping

(* A source whose connection is about to be stopped is cancelled.            *)
Marked == \A d \in stopping : sources[d].cancelled

Distinct(s) == \A i, j \in DOMAIN s : s[i] = s[j] => i = j
Once ==
  /\ Distinct(typed) /\ Distinct(pending_pastes)
  /\ \A i \in DOMAIN typed : \A j \in DOMAIN pending_pastes : typed[i] # pending_pastes[j]

DropInv == DropTypes /\ Kept(offers, transfers) /\ OneServes /\ Reachable /\ Marked /\ Once

LEMMA DropInit == ASSUME MaxDrops \in Nat, Drops!Init PROVE DropInv
<1>1. DropTypes
  BY DEF Drops!Init, DropTypes, Sources, Handles, Drops!NoSlot, Drops!Idle, Phases
<1>2. DOMAIN offers = {} /\ DOMAIN transfers = {} /\ DOMAIN typed = {} /\ DOMAIN pending_pastes = {}
  BY DEF Drops!Init
<1>3. \A c \in Conns : conn[c].phase = "idle"
  BY DEF Drops!Init, Drops!Idle
<1>4. Kept(offers, transfers)
  <2>1. Table(offers, transfers)
    BY <1>2 DEF Table, Drops!Init
  <2>2. Matched(offers, transfers)
    BY <1>2 DEF Matched
  <2>3. Reached(offers, transfers)
    BY <1>2 DEF Reached
  <2>4. JustServed(offers, transfers)
    BY <1>2 DEF JustServed
  <2>5. PastedIsOver(offers)
    BY <1>2 DEF PastedIsOver
  <2>. QED BY <2>1, <2>2, <2>3, <2>4, <2>5 DEF Kept
<1>5. OneServes
  BY <1>3 DEF OneServes, Serving
<1>6. Reachable
  BY <1>3 DEF Reachable, Drops!Streaming
<1>7. Once /\ Marked
  BY <1>2 DEF Once, Distinct, Drops!Init, Marked
<1>. QED BY <1>1, <1>4, <1>5, <1>6, <1>7 DEF DropInv

(* What the invariant says of the promise.                                   *)
LEMMA DropPromise == ASSUME DropInv PROVE Drops!DropsKept
<1>1. DropTypes /\ Kept(offers, transfers) /\ OneServes /\ Reachable /\ Once
  BY DEF DropInv
<1>2. Table(offers, transfers) /\ Matched(offers, transfers) /\ JustServed(offers, transfers)
  BY <1>1 DEF Kept
<1>3. Drops!Indexed
  BY <1>2 DEF Drops!Indexed, Table, Matched
<1> \A S : Drops!Cardinality(S) = Cardinality(S)
  BY DEF Drops!Cardinality, Cardinality
<1>4. Drops!ActiveIsServed
  <2> SUFFICES ASSUME NEW d \in DOMAIN transfers
               PROVE  LET at == {c \in Conns : Drops!Serves(c, d) /\ conn[c].gen = transfers[d].gen}
                      IN  /\ transfers[d].active => at # {}
                          /\ Cardinality({c \in at : ~Drops!Over(offers[d])}) <= 1
    BY DEF Drops!ActiveIsServed
  <2> DEFINE at == {c \in Conns : Drops!Serves(c, d) /\ conn[c].gen = transfers[d].gen}
             on == {c \in at : ~Drops!Over(offers[d])}
  <2>1. transfers[d].active => at # {}
    BY <1>2 DEF Matched, JustServed, ServedNow, Serving, Drops!Serves
  <2>2. \A c, e \in on : c = e
    BY <1>1 DEF OneServes, Serving, Drops!Serves
  <2>3. Cardinality(on) <= 1
    <3>1. CASE on = {}
      BY <3>1, FS_EmptySet
    <3>2. CASE on # {}
      <4>1. PICK c \in on : TRUE
        BY <3>2
      <4>2. on = {c}
        BY <4>1, <2>2
      <4>3. Cardinality({c}) = 1
        BY FS_Singleton
      <4>. HIDE DEF on
      <4>. QED BY <4>2, <4>3
    <3>. QED BY <3>1, <3>2
  <2>. QED BY <2>1, <2>3
<1>5. Drops!RetiredIsStopped
  BY <1>1 DEF Drops!RetiredIsStopped, Reachable, DropTypes
<1>6. Drops!OverIsReleased
  BY <1>2 DEF Drops!OverIsReleased, Matched
<1>7. Drops!TypedOnce
  <2> DEFINE all == typed \o pending_pastes
             m == Len(typed)
             n == Len(pending_pastes)
  <2>1. /\ m \in Nat /\ n \in Nat /\ DOMAIN typed = 1..m /\ DOMAIN pending_pastes = 1..n
        /\ DOMAIN all = 1..(m + n)
        /\ \A i \in 1..(m + n) : all[i] = IF i <= m THEN typed[i] ELSE pending_pastes[i - m]
    BY <1>1 DEF DropTypes
  <2>. HIDE DEF all, m, n
  <2>2. ASSUME NEW i \in DOMAIN all, NEW j \in DOMAIN all, all[i] = all[j]
        PROVE  i = j
    <3>1. CASE i <= m /\ j <= m
      BY <1>1, <2>1, <2>2, <3>1 DEF Once, Distinct
    <3>2. CASE i > m /\ j > m
      <4>1. i - m \in 1..n /\ j - m \in 1..n
        BY <2>1, <3>2
      <4>2. pending_pastes[i - m] = pending_pastes[j - m]
        BY <2>1, <2>2, <3>2
      <4>3. i - m = j - m
        BY <1>1, <2>1, <4>1, <4>2 DEF Once, Distinct
      <4>. QED BY <2>1, <4>3
    <3>3. CASE i <= m /\ j > m
      <4>1. i \in 1..m /\ j - m \in 1..n /\ typed[i] = pending_pastes[j - m]
        BY <2>1, <2>2, <3>3
      <4>. QED BY <1>1, <2>1, <4>1 DEF Once
    <3>4. CASE i > m /\ j <= m
      <4>1. j \in 1..m /\ i - m \in 1..n /\ typed[j] = pending_pastes[i - m]
        BY <2>1, <2>2, <3>4
      <4>. QED BY <1>1, <2>1, <4>1 DEF Once
    <3>. QED BY <2>1, <3>1, <3>2, <3>3, <3>4
  <2>. QED BY <2>2 DEF Drops!TypedOnce, all
<1>. QED BY <1>3, <1>4, <1>5, <1>6, <1>7 DEF Drops!DropsKept

(* Marking sources cancelled leaves who can be stopped as it was.            *)
LEMMA CancelsKeep ==
  ASSUME DropInv, stopping = {}, NEW ds, Drops!CancelSources(offers, ds),
         conn' \in [Conns -> [phase : Phases, drop : Nat, gen : Nat, stopped : BOOLEAN]],
         \A c \in Conns : conn'[c] = conn[c] \/ conn'[c].phase \in {"idle", "begun"}
  PROVE  /\ sources' \in [1..MaxDrops -> Sources]
         /\ stopping' \subseteq 1..MaxDrops
         /\ Reachable' /\ Marked'
<1> DEFINE held == {d \in ds \cap DOMAIN offers : offers[d].source}
<1>1. DropTypes /\ Table(offers, transfers) /\ Reachable /\ OneServes
  BY DEF DropInv, Kept
<1>2. held \subseteq 1..MaxDrops
  BY <1>1 DEF DropTypes, Table
<1>3. /\ sources' = [d \in 1..MaxDrops |->
                       IF d \in held THEN [sources[d] EXCEPT !.cancelled = TRUE] ELSE sources[d]]
      /\ stopping' = held
  BY <1>1 DEF Drops!CancelSources, DropTypes
<1>. HIDE DEF held
<1>4. ASSUME NEW d \in 1..MaxDrops
      PROVE  /\ sources'[d] \in Sources
             /\ sources'[d].slot = sources[d].slot
             /\ sources'[d].generation = sources[d].generation
             /\ d \notin held => sources'[d] = sources[d]
  <2>1. sources[d] \in Sources
    BY <1>1 DEF DropTypes
  <2>. QED BY <1>3, <2>1 DEF Sources
<1>5. sources' \in [1..MaxDrops -> Sources]
  BY <1>3, <1>4
<1>6. ASSUME NEW c \in Conns, Drops!Streaming(c)', ~conn'[c].stopped
      PROVE  /\ sources'[conn'[c].drop].slot = <<conn'[c].gen, c>>
             /\ Drops!Current(c)' \/ conn'[c].drop \in stopping'
  <2>1. conn'[c] = conn[c] /\ Drops!Streaming(c) /\ ~conn[c].stopped
    BY <1>6 DEF Drops!Streaming
  <2>2. conn[c].drop \in 1..MaxDrops
    BY <1>1, <2>1 DEF OneServes, Serving, Drops!Streaming, DropTypes
  <2>3. /\ sources[conn[c].drop].slot = <<conn[c].gen, c>>
        /\ Drops!Current(c)
    BY <1>1, <2>1 DEF Reachable
  <2>. QED BY <1>3, <1>4, <2>1, <2>2, <2>3 DEF Drops!Current
<1>7. Reachable'
  BY <1>6 DEF Reachable
<1>8. Marked'
  <2>1. ASSUME NEW d \in held PROVE sources'[d].cancelled
    <3>1. d \in 1..MaxDrops /\ sources[d] \in Sources
      BY <1>1, <1>2 DEF DropTypes
    <3>. QED BY <1>3, <3>1 DEF Sources
  <2>. QED BY <1>3, <2>1 DEF Marked
<1>. QED BY <1>2, <1>3, <1>5, <1>7, <1>8

(* Offers and transfers that only age: some go, and what changes is over.    *)
Ages(os, ts) ==
  /\ os \in [DOMAIN os -> Offers] /\ ts \in [DOMAIN ts -> Transfers]
  /\ DOMAIN os \subseteq DOMAIN offers
  /\ DOMAIN ts = DOMAIN transfers \cap DOMAIN os
  /\ \A d \in DOMAIN os :
       /\ os[d].key = offers[d].key
       /\ os[d].source <=> ~Drops!Over(os[d])
       /\ os[d].retained # "no" => Drops!Over(os[d])
       /\ Drops!Over(offers[d]) => Drops!Over(os[d])
  /\ \A d \in DOMAIN ts :
       /\ ts[d].key = transfers[d].key /\ ts[d].gen = transfers[d].gen
       /\ ts[d].active => ~Drops!Over(os[d])
       /\ ~Drops!Over(os[d]) => (ts[d].active <=> transfers[d].active)

LEMMA AgesKeep == ASSUME DropInv, NEW os, NEW ts, Ages(os, ts) PROVE Kept(os, ts)
<1>1. Kept(offers, transfers)
  BY DEF DropInv
<1>2. Table(os, ts)
  BY <1>1 DEF Kept, Table, Ages
<1>3. Matched(os, ts)
  BY <1>1 DEF Kept, Matched, Ages
<1>4. Reached(os, ts)
  BY <1>1 DEF Kept, Reached, Ages
<1>5. JustServed(os, ts)
  <2> SUFFICES ASSUME NEW d \in DOMAIN ts, ~Drops!Over(os[d])
               PROVE  ts[d].active <=> ServedNow(d, ts)
    BY DEF JustServed
  <2>1. d \in DOMAIN transfers /\ d \in DOMAIN os /\ ~Drops!Over(offers[d])
    BY DEF Ages
  <2>2. transfers[d].active <=> ServedNow(d, transfers)
    BY <1>1, <2>1 DEF Kept, JustServed
  <2>. QED BY <2>1, <2>2 DEF Ages, ServedNow
<1>6. PastedIsOver(os)
  BY <1>1 DEF Kept, PastedIsOver, Ages
<1>. QED BY <1>2, <1>3, <1>4, <1>5, <1>6 DEF Kept

LEMMA StaysKept ==
  ASSUME NEW os, NEW ts, Kept(os, ts), offers' = os, transfers' = ts,
         UNCHANGED <<next_drop_id, typed, conn>>,
         pending_pastes' = pending_pastes \/ pending_pastes' = <<>>
  PROVE  Kept(offers, transfers)'
<1>1. Table(offers, transfers)' /\ Matched(offers, transfers)'
  BY DEF Kept, Table, Matched
<1>2. Reached(offers, transfers)'
  BY DEF Kept, Reached, Serving
<1>3. JustServed(offers, transfers)'
  BY DEF Kept, JustServed, ServedNow, Serving
<1>4. PastedIsOver(offers)'
  BY DEF Kept, PastedIsOver
<1>. QED BY <1>1, <1>2, <1>3, <1>4 DEF Kept

LEMMA ExpiredAges ==
  ASSUME DropInv
  PROVE  Ages(Drops!Expired.offers, Drops!Expired.transfers)
<1>1. Table(offers, transfers) /\ Matched(offers, transfers)
  BY DEF DropInv, Kept
<1> DEFINE os == Drops!Expired.offers
           ts == Drops!Expired.transfers
<1>2. /\ DOMAIN os = DOMAIN offers \ Drops!Forgotten
      /\ \A d \in DOMAIN os :
           os[d] = IF d \in Drops!TimedOut
                   THEN [offers[d] EXCEPT !.source = FALSE, !.cancelled = TRUE, !.retained = "kept"]
                   ELSE offers[d]
  BY DEF Drops!Expired
<1>3. /\ DOMAIN ts = DOMAIN transfers \ Drops!Forgotten
      /\ \A d \in DOMAIN ts : ts[d] = transfers[d]
      /\ ts = [d \in DOMAIN transfers \ Drops!Forgotten |-> transfers[d]]
  BY DEF Drops!Expired, Drops!Only
<1>4. os = [d \in DOMAIN offers \ Drops!Forgotten |-> os[d]]
  BY DEF Drops!Expired
<1>. HIDE DEF os, ts
<1>5. \A d \in DOMAIN offers : offers[d] \in Offers
  BY <1>1 DEF Table
<1>6. ASSUME NEW d \in DOMAIN os
      PROVE  /\ os[d] \in Offers /\ os[d].key = offers[d].key
             /\ os[d].source <=> ~Drops!Over(os[d])
             /\ os[d].retained # "no" => Drops!Over(os[d])
             /\ Drops!Over(offers[d]) => Drops!Over(os[d])
             /\ Drops!Over(os[d]) /\ ~Drops!Over(offers[d]) => d \in Drops!TimedOut
  <2>1. d \in DOMAIN offers /\ offers[d] \in Offers
    BY <1>2, <1>5
  <2>2. CASE d \notin Drops!TimedOut
    BY <1>1, <1>2, <2>1, <2>2 DEF Matched
  <2>3. CASE d \in Drops!TimedOut
    <3>1. os[d] = [offers[d] EXCEPT !.source = FALSE, !.cancelled = TRUE, !.retained = "kept"]
      BY <1>2, <2>3
    <3>2. /\ os[d] \in Offers /\ os[d].key = offers[d].key
          /\ ~os[d].source /\ os[d].cancelled
      BY <2>1, <3>1 DEF Offers
    <3>. QED BY <2>3, <3>2 DEF Drops!Over
  <2>. QED BY <2>2, <2>3
<1>7. ASSUME NEW d \in DOMAIN ts
      PROVE  /\ ts[d] \in Transfers /\ d \in DOMAIN os
             /\ ts[d].active => ~Drops!Over(os[d])
  <2>1. d \in DOMAIN os /\ d \in DOMAIN offers /\ ts[d] = transfers[d] /\ d \in DOMAIN transfers
    BY <1>1, <1>2, <1>3 DEF Table
  <2>2. d \in Drops!TimedOut => ~transfers[d].active
    BY <2>1 DEF Drops!TimedOut
  <2>. QED BY <1>1, <1>6, <2>1, <2>2 DEF Table, Matched
<1>8. os \in [DOMAIN os -> Offers] /\ ts \in [DOMAIN ts -> Transfers]
  <2>1. os \in [DOMAIN os -> Offers]
    BY <1>2, <1>4, <1>6
  <2>2. ts \in [DOMAIN ts -> Transfers]
    BY <1>3, <1>7
  <2>. QED BY <2>1, <2>2
<1>9. DOMAIN ts = DOMAIN transfers \cap DOMAIN os
  BY <1>1, <1>2, <1>3 DEF Table
<1>. QED BY <1>2, <1>3, <1>6, <1>7, <1>8, <1>9 DEF Ages, os, ts

LEMMA OnceKept ==
  ASSUME Once, typed' = typed, pending_pastes' = pending_pastes \/ pending_pastes' = <<>>
  PROVE  Once'
BY DEF Once, Distinct

LEMMA QuietDrop ==
  ASSUME DropInv,
         UNCHANGED <<offers, transfers, next_drop_id, pending_pastes, typed, sources, stopping, conn>>
  PROVE  DropInv'
<1>1. DropTypes /\ Kept(offers, transfers) /\ OneServes /\ Reachable /\ Marked /\ Once
  BY DEF DropInv
<1>2. Kept(offers, transfers)'
  BY <1>1, StaysKept
<1>3. DropTypes'
  BY <1>1 DEF DropTypes
<1>4. OneServes'
  BY <1>1 DEF OneServes, Serving
<1>5. Reachable'
  BY <1>1 DEF Reachable, Drops!Streaming, Drops!Current
<1>7. Marked'
  BY <1>1 DEF Marked
<1>6. Once'
  BY <1>1, OnceKept
<1>. QED BY <1>2, <1>3, <1>4, <1>5, <1>6, <1>7 DEF DropInv

(* An operation that lets offers age and cancels sources.                    *)
LEMMA AgedKeeps ==
  ASSUME DropInv, stopping = {}, NEW ds, Drops!CancelSources(offers, ds),
         Kept(offers', transfers'), UNCHANGED <<next_drop_id, typed, conn>>,
         pending_pastes' = pending_pastes \/ pending_pastes' = <<>>
  PROVE  DropInv'
<1>1. DropTypes /\ OneServes /\ Once
  BY DEF DropInv
<1>2. Kept(offers, transfers)'
  BY StaysKept
<1>3. /\ sources' \in [1..MaxDrops -> Sources]
      /\ stopping' \subseteq 1..MaxDrops
      /\ Reachable' /\ Marked'
  BY <1>1, CancelsKeep DEF DropTypes
<1>4. DropTypes'
  <2>1. <<>> \in Seq(1..next_drop_id)
    OBVIOUS
  <2>2. pending_pastes' \in Seq(1..next_drop_id)
    BY <1>1, <2>1 DEF DropTypes
  <2>. QED BY <1>1, <1>3, <2>2 DEF DropTypes
<1>5. OneServes'
  BY <1>1 DEF OneServes, Serving
<1>6. Once'
  BY <1>1, OnceKept
<1>. QED BY <1>2, <1>3, <1>4, <1>5, <1>6 DEF DropInv

LEMMA RemoveKeeps ==
  ASSUME DropInv, Drops!Manager, NEW ks, Drops!RemoveOffers(ks), UNCHANGED <<next_drop_id, typed, conn>>,
         pending_pastes' = pending_pastes \/ pending_pastes' = <<>>
  PROVE  DropInv'
<1>1. Table(offers, transfers) /\ Matched(offers, transfers)
  BY DEF DropInv, Kept
<1>2. /\ offers' = [d \in {x \in DOMAIN offers : offers[x].key \notin ks} |-> offers[d]]
      /\ transfers' = [d \in {x \in DOMAIN transfers : transfers[x].key \notin ks} |-> transfers[d]]
      /\ Drops!CancelSources(offers, Drops!OfKeys(ks))
  <2>1. DOMAIN offers \cap (DOMAIN offers \ Drops!OfKeys(ks)) = {x \in DOMAIN offers : offers[x].key \notin ks}
    BY DEF Drops!OfKeys
  <2>. QED BY <2>1 DEF Drops!RemoveOffers, Drops!Only
<1>3. Ages(offers', transfers')
  <2>1. /\ \A d \in DOMAIN offers' : d \in DOMAIN offers /\ offers'[d] = offers[d] /\ offers'[d] \in Offers
        /\ \A d \in DOMAIN transfers' : d \in DOMAIN transfers /\ transfers'[d] = transfers[d]
                                        /\ transfers'[d] \in Transfers
    BY <1>1, <1>2 DEF Table
  <2>2. offers' \in [DOMAIN offers' -> Offers] /\ transfers' \in [DOMAIN transfers' -> Transfers]
    BY <1>2, <2>1
  <2>3. DOMAIN transfers' = DOMAIN transfers \cap DOMAIN offers'
    BY <1>1, <1>2 DEF Table, Matched
  <2>. QED BY <1>1, <2>1, <2>2, <2>3 DEF Ages, Matched, Table
<1>4. Kept(offers', transfers')
  BY <1>3, AgesKeep
<1>. QED BY <1>2, <1>4, AgedKeeps DEF Drops!Manager

LEMMA RemovalsKeep ==
  ASSUME DropInv, \/ \E k \in Drops!Keys : Drops!Disable(k)
                  \/ Drops!remove_surface \/ Drops!remove_contexts \/ Drops!remove_session
  PROVE  DropInv'
<1>1. ASSUME NEW k \in Drops!Keys, Drops!Disable(k) PROVE DropInv'
  BY <1>1, RemoveKeeps DEF Drops!Disable
<1>2. ASSUME Drops!remove_surface PROVE DropInv'
  BY <1>2, RemoveKeeps DEF Drops!remove_surface
<1>3. ASSUME Drops!remove_contexts PROVE DropInv'
  BY <1>3, RemoveKeeps DEF Drops!remove_contexts
<1>4. ASSUME Drops!remove_session PROVE DropInv'
  BY <1>4, RemoveKeeps DEF Drops!remove_session
<1>. QED BY <1>1, <1>2, <1>3, <1>4

LEMMA ServiceKeeps == ASSUME DropInv, Drops!ServiceTimeouts PROVE DropInv'
<1>1. Kept(Drops!Expired.offers, Drops!Expired.transfers)
  BY ExpiredAges, AgesKeep
<1>. HIDE DEF Drops!Expired
<1>2. /\ stopping = {} /\ offers' = Drops!Expired.offers /\ transfers' = Drops!Expired.transfers
      /\ Drops!CancelSources(offers, Drops!Forgotten \cup Drops!TimedOut)
      /\ UNCHANGED <<next_drop_id, typed, conn>> /\ pending_pastes' = pending_pastes
  BY DEF Drops!ServiceTimeouts, Drops!Manager
<1>. QED BY <1>1, <1>2, AgedKeeps

LEMMA CancelKeeps == ASSUME DropInv, NEW d, Drops!Cancel(d) PROVE DropInv'
<1>1. Table(offers, transfers) /\ Matched(offers, transfers)
  BY DEF DropInv, Kept
<1>2. /\ stopping = {} /\ d \in DOMAIN offers
      /\ transfers' = IF d \in DOMAIN transfers THEN [transfers EXCEPT ![d].active = FALSE] ELSE transfers
      /\ offers' = [offers EXCEPT ![d].source = FALSE, ![d].cancelled = TRUE, ![d].retained = "kept"]
      /\ Drops!CancelSources(offers, {d})
      /\ UNCHANGED <<next_drop_id, typed, conn>> /\ pending_pastes' = pending_pastes
  BY DEF Drops!Cancel, Drops!Manager
<1>3. Ages(offers', transfers')
  <2>1. DOMAIN offers' = DOMAIN offers /\ DOMAIN transfers' = DOMAIN transfers
    BY <1>2
  <2>2. ASSUME NEW x \in DOMAIN offers
        PROVE  /\ offers'[x] \in Offers /\ offers'[x].key = offers[x].key
               /\ x # d => offers'[x] = offers[x]
               /\ x = d => ~offers'[x].source /\ offers'[x].cancelled
    <3>1. offers[x] \in Offers
      BY <1>1 DEF Table
    <3>. QED BY <1>2, <3>1 DEF Offers
  <2>3. ASSUME NEW x \in DOMAIN transfers
        PROVE  /\ transfers'[x] \in Transfers /\ transfers'[x].key = transfers[x].key
               /\ transfers'[x].gen = transfers[x].gen
               /\ x # d => transfers'[x] = transfers[x]
               /\ x = d => ~transfers'[x].active
    <3>1. transfers[x] \in Transfers
      BY <1>1 DEF Table
    <3>. QED BY <1>2, <3>1 DEF Transfers
  <2>4. offers' \in [DOMAIN offers' -> Offers] /\ transfers' \in [DOMAIN transfers' -> Transfers]
    <3>1. offers' = [x \in DOMAIN offers |-> offers'[x]] /\ transfers' = [x \in DOMAIN transfers |-> transfers'[x]]
      BY <1>1, <1>2 DEF Table
    <3>. QED BY <2>1, <2>2, <2>3, <3>1
  <2>5. ASSUME NEW x \in DOMAIN offers
        PROVE  /\ offers'[x].source <=> ~Drops!Over(offers'[x])
               /\ offers'[x].retained # "no" => Drops!Over(offers'[x])
               /\ Drops!Over(offers[x]) => Drops!Over(offers'[x])
    BY <1>1, <2>2 DEF Matched, Drops!Over
  <2>6. ASSUME NEW x \in DOMAIN transfers
        PROVE  /\ transfers'[x].active => ~Drops!Over(offers'[x])
               /\ ~Drops!Over(offers'[x]) => (transfers'[x].active <=> transfers[x].active)
    <3>1. x \in DOMAIN offers
      BY <1>1 DEF Table
    <3>. QED BY <1>1, <2>2, <2>3, <3>1 DEF Matched, Drops!Over
  <2>. QED BY <1>1, <2>1, <2>2, <2>3, <2>4, <2>5, <2>6 DEF Ages, Table
<1>4. Kept(offers', transfers')
  BY <1>3, AgesKeep
<1>. QED BY <1>2, <1>4, AgedKeeps

LEMMA ExpireFacts ==
  ASSUME DropInv
  PROVE  /\ Kept(Drops!Expired.offers, Drops!Expired.transfers)
         /\ DOMAIN Drops!Expired.offers \subseteq DOMAIN offers
         /\ DOMAIN Drops!Expired.transfers \subseteq DOMAIN transfers
BY ExpiredAges, AgesKeep DEF Ages

(* A new offer is nobody's yet.                                              *)
LEMMA OfferKeeps ==
  ASSUME DropInv, NEW hit, NEW auto, NEW type_path, Drops!OfferFile(hit, auto, type_path)
  PROVE  DropInv'
<1> DEFINE os == Drops!Expired.offers
           ts == Drops!Expired.transfers
           d == next_drop_id + 1
<1>1. /\ stopping = {} /\ next_drop_id < MaxDrops
      /\ UNCHANGED <<typed, conn, pending_pastes>>
      /\ Drops!CancelSources(offers, Drops!Forgotten \cup Drops!TimedOut) /\ transfers' = ts
  BY DEF Drops!OfferFile, Drops!Manager, Drops!AfterExpire
<1>2. \/ offers' = os /\ next_drop_id' = next_drop_id
      \/ /\ next_drop_id' = d
         /\ \E k \in Drops!Keys : offers' = Drops!Put(os, d, [key |-> k, source |-> TRUE, due |-> FALSE,
                                       terminal |-> "none", cancelled |-> FALSE, retained |-> "no"])
  BY DEF Drops!OfferFile, Drops!AfterExpire, Drops!Keys
<1>3. Kept(os, ts) /\ DOMAIN os \subseteq DOMAIN offers /\ DOMAIN ts \subseteq DOMAIN transfers
  BY ExpireFacts
<1>. HIDE DEF os, ts
<1>4. CASE offers' = os /\ next_drop_id' = next_drop_id
  BY <1>1, <1>3, <1>4, AgedKeeps
<1>5. ASSUME NEW k \in Drops!Keys, next_drop_id' = d,
             offers' = Drops!Put(os, d, [key |-> k, source |-> TRUE, due |-> FALSE,
                                       terminal |-> "none", cancelled |-> FALSE, retained |-> "no"])
      PROVE  DropInv'
  <2>1. DropTypes /\ Table(offers, transfers) /\ OneServes /\ Once
    BY DEF DropInv, Kept
  <2>2. /\ next_drop_id \in Nat /\ MaxDrops \in Nat /\ d \in Nat /\ d \in 1..MaxDrops
        /\ 1..next_drop_id \subseteq 1..d /\ d \notin 1..next_drop_id /\ d \in 1..d
    BY <1>1, <2>1 DEF DropTypes
  <2>3. Table(os, ts) /\ Matched(os, ts) /\ Reached(os, ts) /\ JustServed(os, ts) /\ PastedIsOver(os)
    BY <1>3 DEF Kept
  <2>4. d \notin DOMAIN os
    BY <2>2, <2>3 DEF Table
  <2>5. /\ DOMAIN offers' = DOMAIN os \cup {d}
        /\ \A x \in DOMAIN os : offers'[x] = os[x]
        /\ offers'[d] = [key |-> k, source |-> TRUE, due |-> FALSE,
                         terminal |-> "none", cancelled |-> FALSE, retained |-> "no"]
        /\ offers' = [x \in DOMAIN offers' |-> offers'[x]]
    BY <1>5, <2>4 DEF Drops!Put
  <2>6. offers'[d] \in Offers /\ offers'[d].source /\ ~Drops!Over(offers'[d]) /\ offers'[d].retained = "no"
    BY <2>5 DEF Offers, Drops!Over
  <2>. HIDE DEF d
  <2>7. Table(offers, transfers)'
    <3>1. DOMAIN offers' \subseteq 1..next_drop_id'
      BY <1>5, <2>2, <2>3, <2>5 DEF Table
    <3>2. \A x \in DOMAIN offers' : offers'[x] \in Offers
      BY <2>3, <2>5, <2>6 DEF Table
    <3>3. offers' \in [DOMAIN offers' -> Offers]
      BY <2>5, <3>2
    <3>. QED BY <1>1, <2>3, <2>5, <3>1, <3>3 DEF Table
  <2>8. Matched(offers, transfers)'
    BY <1>1, <2>3, <2>5, <2>6 DEF Matched, Table
  <2>9. \A c \in Conns : Serving(c) => conn[c].drop # d
    BY <2>1, <2>2 DEF OneServes
  <2>10. Reached(offers, transfers)'
    BY <1>1, <2>3, <2>5, <2>9 DEF Reached, Serving
  <2>11. JustServed(offers, transfers)'
    BY <1>1, <2>3, <2>5 DEF JustServed, ServedNow, Serving, Table
  <2>12. PastedIsOver(offers)'
    <3>1. /\ \A i \in DOMAIN typed : typed[i] # d
          /\ \A i \in DOMAIN pending_pastes : pending_pastes[i] # d
      BY <2>1, <2>2 DEF DropTypes
    <3>. QED BY <1>1, <2>3, <2>5, <3>1 DEF PastedIsOver
  <2>13. Kept(offers, transfers)'
    BY <2>7, <2>8, <2>10, <2>11, <2>12 DEF Kept
  <2>14. /\ sources' \in [1..MaxDrops -> Sources]
         /\ stopping' \subseteq 1..MaxDrops
         /\ Reachable' /\ Marked'
    BY <1>1, <2>1, CancelsKeep DEF DropTypes
  <2>15. DropTypes'
    <3>1. typed \in Seq(1..d) /\ pending_pastes \in Seq(1..d)
      BY <2>1, <2>2 DEF DropTypes
    <3>. QED BY <1>1, <1>5, <2>1, <2>2, <2>14, <3>1 DEF DropTypes
  <2>16. OneServes'
    BY <1>1, <1>5, <2>1, <2>2 DEF OneServes, Serving
  <2>17. Once'
    BY <1>1, <2>1, OnceKept
  <2>. QED BY <2>13, <2>14, <2>15, <2>16, <2>17 DEF DropInv
<1>. QED BY <1>2, <1>4, <1>5

(* Nobody serves a transfer that is accepted just now.                       *)
LEMMA AcceptKeeps == ASSUME DropInv, NEW d, Drops!Accept(d) PROVE DropInv'
<1> DEFINE os == Drops!Expired.offers
           ts == Drops!Expired.transfers
           new == [key |-> os[d].key, gen |-> 1, active |-> FALSE, due |-> FALSE]
<1>1. /\ stopping = {} /\ offers' = os
      /\ UNCHANGED <<next_drop_id, typed, conn>> /\ pending_pastes' = pending_pastes
      /\ Drops!CancelSources(offers, Drops!Forgotten \cup Drops!TimedOut)
  BY DEF Drops!Accept, Drops!Manager, Drops!AfterExpire
<1>2. \/ transfers' = ts
      \/ d \in DOMAIN os /\ ~Drops!Over(os[d]) /\ d \notin DOMAIN ts /\ transfers' = Drops!Put(ts, d, new)
  BY DEF Drops!Accept, Drops!AfterExpire
<1>3. Kept(os, ts)
  BY ExpireFacts
<1>. HIDE DEF os, ts
<1>4. CASE transfers' = ts
  BY <1>1, <1>3, <1>4, AgedKeeps
<1>5. ASSUME d \in DOMAIN os, ~Drops!Over(os[d]), d \notin DOMAIN ts, transfers' = Drops!Put(ts, d, new)
      PROVE  DropInv'
  <2>1. Table(os, ts) /\ Matched(os, ts) /\ Reached(os, ts) /\ JustServed(os, ts) /\ PastedIsOver(os)
    BY <1>3 DEF Kept
  <2>2. /\ DOMAIN transfers' = DOMAIN ts \cup {d}
        /\ \A x \in DOMAIN ts : transfers'[x] = ts[x]
        /\ transfers'[d] = new
        /\ transfers' = [x \in DOMAIN transfers' |-> transfers'[x]]
    BY <1>5 DEF Drops!Put
  <2>3. new \in Transfers /\ new.key = os[d].key /\ new.gen = 1 /\ ~new.active
    <3>1. os[d] \in Offers
      BY <1>5, <2>1 DEF Table
    <3>. QED BY <3>1 DEF Offers, Transfers
  <2>. HIDE DEF new
  <2>4. Table(os, transfers')
    <3>1. transfers' \in [DOMAIN transfers' -> Transfers]
      BY <2>1, <2>2, <2>3 DEF Table
    <3>. QED BY <1>5, <2>1, <2>2, <3>1 DEF Table
  <2>5. Matched(os, transfers')
    BY <2>1, <2>2, <2>3 DEF Matched
  <2>6. ~ \E c \in Conns : Serving(c) /\ conn[c].drop = d
    BY <1>5, <2>1 DEF Reached
  <2>7. Reached(os, transfers')
    BY <2>1, <2>2, <2>6 DEF Reached
  <2>8. JustServed(os, transfers')
    BY <2>1, <2>2, <2>3, <2>6 DEF JustServed, ServedNow
  <2>9. Kept(os, transfers')
    BY <2>1, <2>4, <2>5, <2>7, <2>8 DEF Kept
  <2>. QED BY <1>1, <2>9, AgedKeeps
<1>. QED BY <1>2, <1>4, <1>5

(* A connection opens a transfer that nobody serves.                         *)
LEMMA OpenKeeps == ASSUME DropInv, NEW c \in Conns, NEW d, Drops!Open(c, d) PROVE DropInv'
<1> DEFINE os == Drops!Expired.offers
           ts == Drops!Expired.transfers
           new == [phase |-> "begun", drop |-> d, gen |-> ts[d].gen, stopped |-> FALSE]
<1>1. /\ stopping = {} /\ offers' = os /\ conn[c].phase = "idle"
      /\ UNCHANGED <<next_drop_id, typed>> /\ pending_pastes' = pending_pastes
      /\ Drops!CancelSources(offers, Drops!Forgotten \cup Drops!TimedOut)
  BY DEF Drops!Open, Drops!Manager, Drops!AfterExpire
<1>2. \/ transfers' = ts /\ conn' = conn
      \/ /\ d \in DOMAIN ts /\ d \in DOMAIN os /\ ~ts[d].active /\ ~Drops!Over(os[d])
         /\ transfers' = [ts EXCEPT ![d].active = TRUE]
         /\ conn' = [conn EXCEPT ![c] = [phase |-> IF os[d].source THEN "begun" ELSE "idle",
                                         drop |-> d, gen |-> ts[d].gen, stopped |-> FALSE]]
  BY DEF Drops!Open, Drops!AfterExpire
<1>3. Kept(os, ts) /\ DOMAIN os \subseteq DOMAIN offers
  BY ExpireFacts
<1>. HIDE DEF os, ts
<1>4. CASE transfers' = ts /\ conn' = conn
  BY <1>1, <1>3, <1>4, AgedKeeps
<1>5. ASSUME d \in DOMAIN ts, d \in DOMAIN os, ~ts[d].active, ~Drops!Over(os[d]),
             transfers' = [ts EXCEPT ![d].active = TRUE],
             conn' = [conn EXCEPT ![c] = [phase |-> IF os[d].source THEN "begun" ELSE "idle",
                                         drop |-> d, gen |-> ts[d].gen, stopped |-> FALSE]]
      PROVE  DropInv'
  <2>1. Table(os, ts) /\ Matched(os, ts) /\ Reached(os, ts) /\ JustServed(os, ts) /\ PastedIsOver(os)
    BY <1>3 DEF Kept
  <2>2. DropTypes /\ OneServes /\ Once /\ Table(offers, transfers)
    BY DEF DropInv, Kept
  <2>3. /\ DOMAIN transfers' = DOMAIN ts /\ transfers'[d] \in Transfers
        /\ \A x \in DOMAIN ts : x # d => transfers'[x] = ts[x]
        /\ transfers'[d].key = ts[d].key /\ transfers'[d].gen = ts[d].gen /\ transfers'[d].active
        /\ transfers' = [x \in DOMAIN transfers' |-> transfers'[x]]
    <3>1. ts[d] \in Transfers
      BY <1>5, <2>1 DEF Table
    <3>. QED BY <1>5, <2>1, <3>1 DEF Table, Transfers
  <2>4. ts[d].gen \in Nat /\ d \in 1..next_drop_id
    BY <1>5, <2>1 DEF Table, Transfers
  <2>5. conn' = [conn EXCEPT ![c] = new]
    BY <1>5, <2>1 DEF Matched
  <2>6. /\ DOMAIN conn' = Conns /\ \A e \in Conns : e # c => conn'[e] = conn[e]
        /\ conn'[c] = new
        /\ conn' \in [Conns -> [phase : Phases, drop : Nat, gen : Nat, stopped : BOOLEAN]]
    <3>1. new \in [phase : Phases, drop : Nat, gen : Nat, stopped : BOOLEAN]
      BY <2>2, <2>4 DEF Phases, DropTypes
    <3>. QED BY <2>2, <2>5, <3>1 DEF DropTypes
  <2>7. new.phase = "begun" /\ new.drop = d /\ new.gen = ts[d].gen /\ ~new.stopped
    OBVIOUS
  <2>. HIDE DEF new
  <2>8. Serving(c)' /\ \A e \in Conns : e # c => (Serving(e)' <=> Serving(e))
    BY <2>6, <2>7 DEF Serving
  <2>9. ~ServedNow(d, ts) /\ ~Serving(c)
    BY <1>1, <1>5, <2>1 DEF JustServed, Serving
  <2>10. Kept(offers, transfers)'
    <3>1. Table(offers, transfers)'
      <4>1. transfers' \in [DOMAIN transfers' -> Transfers]
        BY <2>1, <2>3 DEF Table
      <4>. QED BY <1>1, <2>1, <2>3, <4>1 DEF Table
    <3>2. Matched(offers, transfers)'
      BY <1>1, <1>5, <2>1, <2>3 DEF Matched
    <3>3. Reached(offers, transfers)'
      BY <1>1, <1>5, <2>1, <2>3, <2>4, <2>6, <2>7, <2>8 DEF Reached
    <3>4. JustServed(offers, transfers)'
      <4> SUFFICES ASSUME NEW x \in DOMAIN ts, ~Drops!Over(os[x])
                   PROVE  transfers'[x].active <=> ServedNow(x, transfers)'
        BY <1>1, <2>3 DEF JustServed
      <4>1. CASE x = d
        BY <2>3, <2>6, <2>7, <2>8, <4>1 DEF ServedNow
      <4>2. CASE x # d
        <5>1. ServedNow(x, transfers)' <=> ServedNow(x, ts)
          BY <2>3, <2>6, <2>7, <2>8, <2>9, <4>2 DEF ServedNow
        <5>. QED BY <2>1, <2>3, <4>2, <5>1 DEF JustServed
      <4>. QED BY <4>1, <4>2
    <3>5. PastedIsOver(offers)'
      BY <1>1, <2>1 DEF PastedIsOver
    <3>. QED BY <3>1, <3>2, <3>3, <3>4, <3>5 DEF Kept
  <2>11. /\ sources' \in [1..MaxDrops -> Sources]
         /\ stopping' \subseteq 1..MaxDrops
         /\ Reachable' /\ Marked'
    BY <1>1, <2>6, <2>7, CancelsKeep
  <2>12. DropTypes'
    BY <1>1, <2>2, <2>6, <2>11 DEF DropTypes
  <2>13. OneServes'
    <3>1. \A e \in Conns : Serving(e) /\ conn[e].drop = d => conn[e].gen # ts[d].gen
      BY <2>9 DEF ServedNow
    <3>. QED BY <1>1, <2>2, <2>4, <2>6, <2>7, <2>8, <3>1 DEF OneServes
  <2>14. Once'
    BY <1>1, <2>2, OnceKept
  <2>. QED BY <2>10, <2>11, <2>12, <2>13, <2>14 DEF DropInv
<1>. QED BY <1>2, <1>4, <1>5

(* Telling whoever's handle is installed to stop, and forgetting the handle.  *)
LEMMA StoppingKeeps ==
  ASSUME DropInv, NEW d \in 1..MaxDrops,
         sources'[d].slot = Drops!NoSlot, sources' \in [1..MaxDrops -> Sources],
         \A x \in 1..MaxDrops : x # d => sources'[x] = sources[x],
         conn' = IF sources[d].slot = Drops!NoSlot THEN conn
                 ELSE [conn EXCEPT ![sources[d].slot[2]].stopped = TRUE],
         stopping \ {d} \subseteq stopping'
  PROVE  /\ conn' \in [Conns -> [phase : Phases, drop : Nat, gen : Nat, stopped : BOOLEAN]]
         /\ \A c \in Conns : /\ conn'[c].phase = conn[c].phase /\ conn'[c].drop = conn[c].drop
                             /\ conn'[c].gen = conn[c].gen
         /\ Reachable'
<1>1. DropTypes /\ Reachable
  BY DEF DropInv
<1>2. ASSUME NEW c \in Conns
      PROVE  /\ conn'[c] \in [phase : Phases, drop : Nat, gen : Nat, stopped : BOOLEAN]
             /\ conn'[c].phase = conn[c].phase /\ conn'[c].drop = conn[c].drop
             /\ conn'[c].gen = conn[c].gen
             /\ conn[c].stopped => conn'[c].stopped
             /\ sources[d].slot = <<conn[c].gen, c>> => conn'[c].stopped
  <2>1. conn \in [Conns -> [phase : Phases, drop : Nat, gen : Nat, stopped : BOOLEAN]]
    BY <1>1 DEF DropTypes
  <2>2. <<conn[c].gen, c>> # Drops!NoSlot /\ <<conn[c].gen, c>>[2] = c
    BY DEF Drops!NoSlot
  <2>. QED BY <2>1, <2>2
<1>3. conn' \in [Conns -> [phase : Phases, drop : Nat, gen : Nat, stopped : BOOLEAN]]
  <2>1. DOMAIN conn' = Conns /\ conn' = [c \in Conns |-> conn'[c]]
    BY <1>1 DEF DropTypes
  <2>. QED BY <1>2, <2>1
<1>4. ASSUME NEW c \in Conns, Drops!Streaming(c)', ~conn'[c].stopped
      PROVE  /\ sources'[conn'[c].drop].slot = <<conn'[c].gen, c>>
             /\ Drops!Current(c)' \/ conn'[c].drop \in stopping'
  <2>1. Drops!Streaming(c) /\ ~conn[c].stopped
    BY <1>2, <1>4 DEF Drops!Streaming
  <2>2. /\ sources[conn[c].drop].slot = <<conn[c].gen, c>>
        /\ Drops!Current(c) \/ conn[c].drop \in stopping
    BY <1>1, <2>1 DEF Reachable
  <2>3. conn[c].drop # d /\ conn[c].drop \in 1..MaxDrops
    <3>1. conn[c].drop \in 1..MaxDrops
      BY <2>1 DEF DropInv, OneServes, Serving, Drops!Streaming, DropTypes
    <3>. QED BY <1>2, <1>4, <2>2, <3>1
  <2>4. sources'[conn[c].drop] = sources[conn[c].drop]
    BY <2>3
  <2>. QED BY <1>2, <2>2, <2>3, <2>4 DEF Drops!Current
<1>5. Reachable'
  BY <1>4 DEF Reachable
<1>. QED BY <1>2, <1>3, <1>5

LEMMA StopSourceKeeps == ASSUME DropInv, NEW d, Drops!StopSource(d) PROVE DropInv'
<1>1. DropTypes /\ Kept(offers, transfers) /\ OneServes /\ Once /\ Marked
  BY DEF DropInv
<1>2. d \in 1..MaxDrops /\ sources[d] \in Sources
  BY <1>1 DEF Drops!StopSource, DropTypes
<1>3. /\ sources' \in [1..MaxDrops -> Sources] /\ sources'[d].slot = Drops!NoSlot
      /\ \A x \in 1..MaxDrops : x # d => sources'[x] = sources[x]
  BY <1>1, <1>2 DEF Drops!StopSource, DropTypes, Sources, Handles
<1>4. /\ stopping' = stopping \ {d}
      /\ conn' = IF sources[d].slot = Drops!NoSlot THEN conn
                 ELSE [conn EXCEPT ![sources[d].slot[2]].stopped = TRUE]
      /\ UNCHANGED <<offers, transfers, next_drop_id, typed, pending_pastes>>
  BY DEF Drops!StopSource, Drops!drops
<1>5. /\ conn' \in [Conns -> [phase : Phases, drop : Nat, gen : Nat, stopped : BOOLEAN]]
      /\ \A c \in Conns : /\ conn'[c].phase = conn[c].phase /\ conn'[c].drop = conn[c].drop
                          /\ conn'[c].gen = conn[c].gen
      /\ Reachable'
  BY <1>2, <1>3, <1>4, StoppingKeeps
<1>6. DropTypes'
  BY <1>1, <1>3, <1>4, <1>5 DEF DropTypes
<1>7. OneServes'
  BY <1>1, <1>4, <1>5 DEF OneServes, Serving
<1>8. Kept(offers, transfers)'
  <2>1. Table(offers, transfers)' /\ Matched(offers, transfers)' /\ PastedIsOver(offers)'
    BY <1>1, <1>4 DEF Kept, Table, Matched, PastedIsOver
  <2>2. Reached(offers, transfers)'
    BY <1>1, <1>4, <1>5 DEF Kept, Reached, Serving
  <2>3. JustServed(offers, transfers)'
    BY <1>1, <1>4, <1>5 DEF Kept, JustServed, ServedNow, Serving
  <2>. QED BY <2>1, <2>2, <2>3 DEF Kept
<1>9. Once'
  BY <1>1, <1>4, OnceKept
<1>10. Marked'
  BY <1>1, <1>4 DEF Drops!StopSource, Marked, DropTypes
<1>. QED BY <1>5, <1>6, <1>7, <1>8, <1>9, <1>10 DEF DropInv

(* The generation that comes next is not served yet.                         *)
LEMMA AdvanceKeeps == ASSUME DropInv, NEW d, Drops!Advance(d) PROVE DropInv'
<1>1. /\ DropTypes /\ OneServes /\ Once /\ Marked /\ Table(offers, transfers) /\ Matched(offers, transfers)
      /\ Reached(offers, transfers) /\ JustServed(offers, transfers) /\ PastedIsOver(offers)
  BY DEF DropInv, Kept
<1>2. d \in DOMAIN transfers /\ d \in DOMAIN offers /\ offers[d].source /\ stopping = {}
  BY DEF Drops!Advance, Drops!Manager
<1>3. d \in 1..MaxDrops /\ sources[d] \in Sources /\ transfers[d] \in Transfers
  BY <1>1, <1>2 DEF DropTypes, Table
<1>4. /\ sources' = [sources EXCEPT ![d].generation = transfers[d].gen + 1, ![d].slot = Drops!NoSlot]
      /\ conn' = IF sources[d].slot = Drops!NoSlot THEN conn
                 ELSE [conn EXCEPT ![sources[d].slot[2]].stopped = TRUE]
      /\ transfers' = [transfers EXCEPT ![d].gen = @ + 1, ![d].active = FALSE, ![d].due = FALSE]
      /\ UNCHANGED <<offers, next_drop_id, typed, pending_pastes, stopping>>
  BY DEF Drops!Advance
<1>5. /\ sources' \in [1..MaxDrops -> Sources] /\ sources'[d].slot = Drops!NoSlot
      /\ \A x \in 1..MaxDrops : x # d => sources'[x] = sources[x]
  <2>1. transfers[d].gen + 1 \in Nat
    BY <1>3 DEF Transfers
  <2>. QED BY <1>1, <1>3, <1>4, <2>1 DEF DropTypes, Sources, Handles
<1>6. /\ conn' \in [Conns -> [phase : Phases, drop : Nat, gen : Nat, stopped : BOOLEAN]]
      /\ \A c \in Conns : /\ conn'[c].phase = conn[c].phase /\ conn'[c].drop = conn[c].drop
                          /\ conn'[c].gen = conn[c].gen
      /\ Reachable'
  BY <1>3, <1>4, <1>5, StoppingKeeps
<1>7. /\ DOMAIN transfers' = DOMAIN transfers
      /\ transfers' = [x \in DOMAIN transfers |-> transfers'[x]]
      /\ \A x \in DOMAIN transfers : x # d => transfers'[x] = transfers[x]
      /\ transfers'[d] \in Transfers /\ transfers'[d].key = transfers[d].key
      /\ transfers'[d].gen = transfers[d].gen + 1 /\ ~transfers'[d].active
  <2>1. transfers[d].gen + 1 \in Nat
    BY <1>3 DEF Transfers
  <2>. QED BY <1>1, <1>2, <1>3, <1>4, <2>1 DEF Table, Transfers
<1>8. Kept(offers, transfers)'
  <2>1. Table(offers, transfers)'
    <3>1. transfers' \in [DOMAIN transfers' -> Transfers]
      BY <1>1, <1>7 DEF Table
    <3>. QED BY <1>1, <1>4, <1>7, <3>1 DEF Table
  <2>2. Matched(offers, transfers)'
    BY <1>1, <1>4, <1>7 DEF Matched
  <2>3. ASSUME NEW c \in Conns, Serving(c), conn[c].drop = d
        PROVE  conn[c].gen < transfers[d].gen + 1 /\ conn[c].gen # transfers[d].gen + 1
    <3>1. conn[c].gen <= transfers[d].gen /\ conn[c].gen \in Nat /\ transfers[d].gen \in Nat
      BY <1>1, <1>2, <1>3, <2>3 DEF Reached, DropTypes, Transfers
    <3>. QED BY <3>1
  <2>4. Reached(offers, transfers)'
    <3> SUFFICES ASSUME NEW c \in Conns, Serving(c), conn[c].drop \in DOMAIN offers
                 PROVE  conn[c].drop \in DOMAIN transfers /\ conn[c].gen <= transfers'[conn[c].drop].gen
      BY <1>4, <1>6, <1>7 DEF Reached, Serving
    <3>1. conn[c].drop \in DOMAIN transfers /\ conn[c].gen <= transfers[conn[c].drop].gen
      BY <1>1 DEF Reached
    <3>2. conn[c].gen \in Nat /\ transfers[d].gen \in Nat
      BY <1>1, <1>3 DEF DropTypes, Transfers
    <3>3. CASE conn[c].drop = d
      BY <1>7, <2>3, <3>1, <3>2, <3>3
    <3>4. CASE conn[c].drop # d
      BY <1>7, <3>1, <3>4
    <3>. QED BY <3>3, <3>4
  <2>5. JustServed(offers, transfers)'
    <3> SUFFICES ASSUME NEW x \in DOMAIN transfers, ~Drops!Over(offers[x])
                 PROVE  transfers'[x].active <=> ServedNow(x, transfers)'
      BY <1>4, <1>7 DEF JustServed
    <3>1. CASE x = d
      BY <1>6, <1>7, <2>3, <3>1 DEF ServedNow, Serving
    <3>2. CASE x # d
      BY <1>1, <1>6, <1>7, <3>2 DEF ServedNow, Serving, JustServed
    <3>. QED BY <3>1, <3>2
  <2>6. PastedIsOver(offers)'
    BY <1>1, <1>4 DEF PastedIsOver
  <2>. QED BY <2>1, <2>2, <2>4, <2>5, <2>6 DEF Kept
<1>9. DropTypes'
  BY <1>1, <1>4, <1>5, <1>6 DEF DropTypes
<1>10. OneServes'
  <2>1. \A c \in Conns : Serving(c)' <=> Serving(c)
    BY <1>6 DEF Serving
  <2>2. next_drop_id' = next_drop_id
    BY <1>4
  <2>3. \A c \in Conns : Serving(c)' => conn'[c].drop \in 1..next_drop_id'
    BY <1>1, <1>6, <2>1, <2>2 DEF OneServes
  <2>4. ASSUME NEW c \in Conns, NEW e \in Conns, Serving(c)', Serving(e)',
               conn'[c].drop = conn'[e].drop, conn'[c].gen = conn'[e].gen
        PROVE  c = e
    <3>1. Serving(c) /\ Serving(e) /\ conn[c].drop = conn[e].drop /\ conn[c].gen = conn[e].gen
      BY <1>6, <2>1, <2>4
    <3>. QED BY <1>1, <3>1 DEF OneServes
  <2>. QED BY <2>3, <2>4 DEF OneServes
<1>11. Once'
  BY <1>1, <1>4, OnceKept
<1>12. Marked'
  BY <1>2, <1>4 DEF Marked
<1>. QED BY <1>6, <1>8, <1>9, <1>10, <1>11, <1>12 DEF DropInv

(* A connection at work moves on; it keeps its transfer and its generation.  *)
LEMMA ConnectionKeeps ==
  ASSUME DropInv, NEW c \in Conns, Drops!Install(c) \/ Drops!Stream(c) \/ Drops!ReadResult(c) \/ Drops!ClearShutdown(c)
  PROVE  DropInv'
<1>1. DropTypes /\ Kept(offers, transfers) /\ OneServes /\ Once /\ Reachable /\ Marked
  BY DEF DropInv
<1>2. /\ conn[c].phase \in {"begun", "installed", "sent", "committed", "refused", "failed"}
      /\ \E p \in Phases : p # "idle" /\ Drops!Moves(c, p)
      /\ UNCHANGED <<offers, transfers, next_drop_id, typed, pending_pastes, stopping>>
  BY DEF Drops!Install, Drops!Stream, Drops!ReadResult, Drops!ClearShutdown, Drops!Moves,
     Phases, Drops!drops
<1>3. Serving(c) /\ conn[c].drop \in 1..MaxDrops
  BY <1>1, <1>2 DEF Serving, OneServes, DropTypes
<1>4. PICK p \in Phases : p # "idle" /\ Drops!Moves(c, p)
  BY <1>2
<1>5. /\ conn' \in [Conns -> [phase : Phases, drop : Nat, gen : Nat, stopped : BOOLEAN]]
      /\ \A e \in Conns : /\ e # c => conn'[e] = conn[e]
                          /\ conn'[e].drop = conn[e].drop /\ conn'[e].gen = conn[e].gen
                          /\ conn'[e].stopped = conn[e].stopped
                          /\ Serving(e)' <=> Serving(e)
  BY <1>1, <1>3, <1>4 DEF Drops!Moves, DropTypes, Serving
<1>6. ASSUME NEW e \in Conns, Drops!Streaming(e)
      PROVE  conn[e].drop \in 1..MaxDrops /\ Serving(e)
  BY <1>1, <1>6 DEF Drops!Streaming, Serving, OneServes, DropTypes
<1>7. sources' \in [1..MaxDrops -> Sources] /\ Reachable'
  <2>1. CASE Drops!Stream(c) \/ Drops!ReadResult(c)
    <3>1. sources' = sources
      BY <2>1 DEF Drops!Stream, Drops!ReadResult
    <3>2. Drops!Streaming(c)
      BY <2>1 DEF Drops!Stream, Drops!ReadResult, Drops!Streaming
    <3>. QED BY <1>1, <1>2, <1>5, <3>1, <3>2 DEF Reachable, Drops!Streaming, Drops!Current,
                DropTypes
  <2>2. CASE Drops!Install(c) /\ ~Drops!Current(c)
    <3>1. sources' = sources /\ Drops!Moves(c, "failed")
      BY <2>2 DEF Drops!Install
    <3>2. ~Drops!Streaming(c)'
      BY <1>1, <3>1 DEF Drops!Moves, Drops!Streaming, DropTypes
    <3>. QED BY <1>1, <1>2, <1>5, <3>1, <3>2 DEF Reachable, Drops!Streaming, Drops!Current,
                DropTypes
  <2>3. CASE Drops!Install(c) /\ Drops!Current(c)
    <3> DEFINE d == conn[c].drop
    <3>1. sources' = [sources EXCEPT ![d].slot = <<conn[c].gen, c>>]
      BY <2>3 DEF Drops!Install
    <3>2. sources[d] \in Sources /\ <<conn[c].gen, c>> \in Nat \X Conns
      BY <1>1, <1>3 DEF DropTypes
    <3>3. /\ sources' \in [1..MaxDrops -> Sources] /\ sources'[d].slot = <<conn[c].gen, c>>
          /\ sources'[d].cancelled = sources[d].cancelled
          /\ sources'[d].generation = sources[d].generation
          /\ \A x \in 1..MaxDrops : x # d => sources'[x] = sources[x]
      BY <1>1, <1>3, <3>1, <3>2 DEF DropTypes, Sources, Handles
    <3>4. ASSUME NEW e \in Conns, Drops!Streaming(e)', ~conn'[e].stopped
          PROVE  /\ sources'[conn'[e].drop].slot = <<conn'[e].gen, e>>
                 /\ Drops!Current(e)' \/ conn'[e].drop \in stopping'
      <4>1. CASE e = c
        BY <1>5, <2>3, <3>3, <4>1 DEF Drops!Current
      <4>2. CASE e # c
        <5>1. Drops!Streaming(e) /\ ~conn[e].stopped
          BY <1>5, <3>4, <4>2 DEF Drops!Streaming
        <5>2. /\ sources[conn[e].drop].slot = <<conn[e].gen, e>>
              /\ Drops!Current(e) \/ conn[e].drop \in stopping
          BY <1>1, <5>1 DEF Reachable
        <5>3. conn[e].drop \in 1..MaxDrops /\ Serving(e)
          BY <1>6, <5>1
        <5>4. CASE conn[e].drop = d
          <6>1. ~sources[d].cancelled /\ sources[d].generation = conn[c].gen
            BY <2>3 DEF Drops!Current
          <6>2. conn[e].gen # conn[c].gen
            BY <1>1, <1>3, <4>2, <5>3, <5>4 DEF OneServes
          <6>. QED BY <1>1, <5>2, <5>4, <6>1, <6>2 DEF Drops!Current, Marked
        <5>5. CASE conn[e].drop # d
          BY <1>2, <1>5, <3>3, <4>2, <5>2, <5>3, <5>5 DEF Drops!Current
        <5>. QED BY <5>4, <5>5
      <4>. QED BY <4>1, <4>2
    <3>. QED BY <3>3, <3>4 DEF Reachable
  <2>4. CASE Drops!ClearShutdown(c)
    <3> DEFINE d == conn[c].drop
               mine == sources[d].slot # Drops!NoSlot /\ sources[d].slot[1] = conn[c].gen
    <3>1. /\ sources' = IF mine THEN [sources EXCEPT ![d].slot = Drops!NoSlot] ELSE sources
          /\ conn[c].phase \in {"committed", "refused", "failed"}
          /\ conn'[c].phase \in {"lost", "done-committed", "done-refused"}
      BY <1>1, <2>4 DEF Drops!ClearShutdown, Drops!Moves, DropTypes
    <3>2. sources[d] \in Sources
      BY <1>1, <1>3 DEF DropTypes
    <3>3. /\ sources' \in [1..MaxDrops -> Sources]
          /\ sources'[d].slot = IF mine THEN Drops!NoSlot ELSE sources[d].slot
          /\ sources'[d].cancelled = sources[d].cancelled
          /\ sources'[d].generation = sources[d].generation
          /\ \A x \in 1..MaxDrops : x # d => sources'[x] = sources[x]
      BY <1>1, <1>3, <3>1, <3>2 DEF DropTypes, Sources, Handles
    <3>4. ASSUME NEW e \in Conns, Drops!Streaming(e)', ~conn'[e].stopped
          PROVE  /\ sources'[conn'[e].drop].slot = <<conn'[e].gen, e>>
                 /\ Drops!Current(e)' \/ conn'[e].drop \in stopping'
      <4>1. e # c
        BY <3>1, <3>4 DEF Drops!Streaming
      <4>2. Drops!Streaming(e) /\ ~conn[e].stopped
        BY <1>5, <3>4, <4>1 DEF Drops!Streaming
      <4>3. /\ sources[conn[e].drop].slot = <<conn[e].gen, e>>
            /\ Drops!Current(e) \/ conn[e].drop \in stopping
        BY <1>1, <4>2 DEF Reachable
      <4>4. conn[e].drop \in 1..MaxDrops /\ Serving(e)
        BY <1>6, <4>2
      <4>5. CASE conn[e].drop = d
        <5>1. conn[e].gen # conn[c].gen
          BY <1>1, <1>3, <4>1, <4>4, <4>5 DEF OneServes
        <5>2. ~mine
          BY <4>3, <4>5, <5>1
        <5>. QED BY <1>2, <1>5, <3>3, <4>1, <4>3, <4>5, <5>2 DEF Drops!Current
      <4>6. CASE conn[e].drop # d
        BY <1>2, <1>5, <3>3, <4>1, <4>3, <4>4, <4>6 DEF Drops!Current
      <4>. QED BY <4>5, <4>6
    <3>. QED BY <3>3, <3>4 DEF Reachable
  <2>. QED BY <2>1, <2>2, <2>3, <2>4
<1>8. DropTypes'
  BY <1>1, <1>2, <1>5, <1>7 DEF DropTypes
<1>9. OneServes'
  BY <1>1, <1>2, <1>5 DEF OneServes
<1>10. Kept(offers, transfers)'
  <2>1. Table(offers, transfers)' /\ Matched(offers, transfers)' /\ PastedIsOver(offers)'
    BY <1>1, <1>2 DEF Kept, Table, Matched, PastedIsOver
  <2>2. Reached(offers, transfers)'
    BY <1>1, <1>2, <1>5 DEF Kept, Reached
  <2>3. JustServed(offers, transfers)'
    BY <1>1, <1>2, <1>5 DEF Kept, JustServed, ServedNow
  <2>. QED BY <2>1, <2>2, <2>3 DEF Kept
<1>11. Once'
  BY <1>1, <1>2, OnceKept
<1>12. Marked'
  <2> SUFFICES ASSUME NEW x \in stopping PROVE sources'[x].cancelled
    BY <1>2 DEF Marked
  <2>1. x \in 1..MaxDrops /\ sources[x] \in Sources /\ sources[x].cancelled
    BY <1>1 DEF DropTypes, Marked
  <2>2. ASSUME NEW h, sources' = [sources EXCEPT ![conn[c].drop].slot = h]
        PROVE  sources'[x].cancelled
    BY <1>1, <2>1, <2>2 DEF DropTypes, Sources
  <2>3. \/ sources' = sources
        \/ \E h : sources' = [sources EXCEPT ![conn[c].drop].slot = h]
    BY DEF Drops!Install, Drops!Stream, Drops!ReadResult, Drops!ClearShutdown
  <2>. QED BY <2>1, <2>2, <2>3
<1>. QED BY <1>7, <1>8, <1>9, <1>10, <1>11, <1>12 DEF DropInv

(* A connection that ends has left the transfers ts in which nothing it      *)
(* served is active.                                                         *)
LEMMA EndKeeps ==
  ASSUME DropInv, NEW c \in Conns, Serving(c), conn' = [conn EXCEPT ![c] = Drops!Idle],
         UNCHANGED <<next_drop_id, typed, sources, stopping>>,
         Table(offers', transfers'), Matched(offers', transfers'),
         DOMAIN transfers' = DOMAIN transfers, DOMAIN offers' = DOMAIN offers,
         \A x \in DOMAIN transfers :
           /\ transfers'[x].gen = transfers[x].gen
           /\ Drops!Over(offers[x]) => Drops!Over(offers'[x])
           /\ IF x = conn[c].drop /\ transfers[x].gen = conn[c].gen THEN ~transfers'[x].active
              ELSE transfers'[x].active <=> transfers[x].active,
         pending_pastes' \in Seq(1..next_drop_id), PastedIsOver(offers)', Once'
  PROVE  DropInv'
<1>1. DropTypes /\ Kept(offers, transfers) /\ OneServes /\ Reachable /\ Marked
  BY DEF DropInv
<1>2. /\ conn' \in [Conns -> [phase : Phases, drop : Nat, gen : Nat, stopped : BOOLEAN]]
      /\ conn'[c].phase = "idle"
      /\ \A e \in Conns : e # c => conn'[e] = conn[e]
  BY <1>1 DEF DropTypes, Drops!Idle, Phases
<1>3. ~Serving(c)' /\ \A e \in Conns : e # c => (Serving(e)' <=> Serving(e))
  BY <1>2 DEF Serving
<1>4. DropTypes'
  BY <1>1, <1>2 DEF DropTypes
<1>5. OneServes'
  BY <1>1, <1>2, <1>3 DEF OneServes
<1>6. Reachable' /\ Marked'
  BY <1>1, <1>2 DEF Reachable, Marked, Drops!Streaming, Drops!Current
<1>7. Table(offers, transfers)' /\ Matched(offers, transfers)'
  BY <1>1, <1>2 DEF Table, Matched
<1>8. Reached(offers, transfers)'
  BY <1>1, <1>2, <1>3 DEF Kept, Reached
<1>9. JustServed(offers, transfers)'
  <2> SUFFICES ASSUME NEW x \in DOMAIN transfers, ~Drops!Over(offers'[x])
               PROVE  transfers'[x].active <=> ServedNow(x, transfers)'
    BY DEF JustServed
  <2>1. transfers[x].active <=> ServedNow(x, transfers)
    BY <1>1 DEF Kept, JustServed
  <2>2. CASE x = conn[c].drop /\ transfers[x].gen = conn[c].gen
    <3>1. \A e \in Conns : Serving(e) /\ conn[e].drop = x /\ conn[e].gen = transfers[x].gen => e = c
      BY <1>1, <2>2 DEF OneServes
    <3>. QED BY <1>2, <1>3, <2>2, <3>1 DEF ServedNow
  <2>3. CASE ~(x = conn[c].drop /\ transfers[x].gen = conn[c].gen)
    <3>1. ServedNow(x, transfers) <=> ServedNow(x, transfers)'
      BY <1>2, <1>3, <2>3 DEF ServedNow
    <3>. QED BY <2>1, <2>3, <3>1
  <2>. QED BY <2>2, <2>3
<1>10. Kept(offers, transfers)'
  BY <1>7, <1>8, <1>9 DEF Kept
<1>. QED BY <1>4, <1>5, <1>6, <1>10 DEF DropInv

LEMMA LossKeeps == ASSUME DropInv, NEW c \in Conns, Drops!connection_lost(c) PROVE DropInv'
<1> DEFINE d == conn[c].drop
<1>1. DropTypes /\ Kept(offers, transfers) /\ Table(offers, transfers) /\ Matched(offers, transfers) /\ Once
  BY DEF DropInv, Kept
<1>2. /\ conn[c].phase = "lost" /\ conn' = [conn EXCEPT ![c] = Drops!Idle]
      /\ UNCHANGED <<offers, next_drop_id, typed, pending_pastes, sources, stopping>>
      /\ transfers' = IF d \in DOMAIN transfers /\ transfers[d].gen = conn[c].gen
                      THEN [transfers EXCEPT ![d].active = FALSE,
                                             ![d].due = @ /\ transfers[d].key \notin bindings]
                      ELSE transfers
  BY DEF Drops!connection_lost
<1>3. /\ DOMAIN transfers' = DOMAIN transfers
      /\ \A x \in DOMAIN transfers :
           /\ transfers'[x] \in Transfers
           /\ transfers'[x].gen = transfers[x].gen /\ transfers'[x].key = transfers[x].key
           /\ IF x = d /\ transfers[x].gen = conn[c].gen THEN ~transfers'[x].active
              ELSE transfers'[x] = transfers[x]
  <2>1. CASE d \in DOMAIN transfers /\ transfers[d].gen = conn[c].gen
    <3>1. transfers[d] \in Transfers
      BY <1>1, <2>1 DEF Table
    <3>2. transfers'[d] = [transfers[d] EXCEPT !.active = FALSE, !.due = @ /\ transfers[d].key \notin bindings]
      BY <1>1, <1>2, <2>1 DEF Table
    <3>3. /\ transfers'[d] \in Transfers /\ ~transfers'[d].active
          /\ transfers'[d].gen = transfers[d].gen /\ transfers'[d].key = transfers[d].key
      BY <3>1, <3>2 DEF Transfers
    <3>4. DOMAIN transfers' = DOMAIN transfers /\ \A x \in DOMAIN transfers : x # d => transfers'[x] = transfers[x]
      BY <1>2, <2>1
    <3>. QED BY <1>1, <2>1, <3>3, <3>4 DEF Table
  <2>2. CASE ~(d \in DOMAIN transfers /\ transfers[d].gen = conn[c].gen)
    BY <1>1, <1>2, <2>2 DEF Table
  <2>. QED BY <2>1, <2>2
<1>4. transfers' \in [DOMAIN transfers' -> Transfers]
  <2>1. transfers' = [x \in DOMAIN transfers |-> transfers'[x]]
    BY <1>1, <1>2 DEF Table
  <2>. QED BY <1>3, <2>1
<1>5. Table(offers', transfers')
  BY <1>1, <1>2, <1>3, <1>4 DEF Table
<1>6. Matched(offers', transfers')
  BY <1>1, <1>2, <1>3 DEF Matched
<1>7. PastedIsOver(offers)' /\ Once' /\ pending_pastes' \in Seq(1..next_drop_id)
  BY <1>1, <1>2, OnceKept DEF Kept, PastedIsOver, DropTypes
<1>8. Serving(c)
  BY <1>2 DEF Serving
<1>. QED BY <1>2, <1>3, <1>5, <1>6, <1>7, <1>8, EndKeeps

(* The first result of a transfer counts, and its path is typed then.        *)
LEMMA FinishKeeps == ASSUME DropInv, NEW c \in Conns, NEW allow, Drops!FinishTransfer(c, allow) PROVE DropInv'
<1> DEFINE d == conn[c].drop
           counts == /\ d \in DOMAIN transfers /\ transfers[d].gen = conn[c].gen
                     /\ d \in DOMAIN offers /\ ~Drops!Over(offers[d])
<1>1. /\ DropTypes /\ Table(offers, transfers) /\ Matched(offers, transfers) /\ Once
      /\ PastedIsOver(offers)
  BY DEF DropInv, Kept
<1>2. /\ Drops!Finished(c) /\ conn' = [conn EXCEPT ![c] = Drops!Idle]
      /\ UNCHANGED <<next_drop_id, typed, sources, stopping>>
  BY DEF Drops!FinishTransfer
<1>3. Serving(c)
  BY <1>2 DEF Serving, Drops!Finished
<1>4. CASE ~counts
  <2>1. UNCHANGED <<offers, transfers, pending_pastes>>
    BY <1>4 DEF Drops!FinishTransfer
  <2>2. \A x \in DOMAIN transfers : x = d /\ transfers[x].gen = conn[c].gen => ~transfers[x].active
    BY <1>1, <1>4 DEF Matched, Table
  <2>3. PastedIsOver(offers)' /\ Once' /\ pending_pastes' \in Seq(1..next_drop_id)
    BY <1>1, <1>2, <2>1, OnceKept DEF PastedIsOver, DropTypes
  <2>. QED BY <1>1, <1>2, <1>3, <2>1, <2>2, <2>3, EndKeeps
<1>5. CASE counts
  <2>1. \E result \in {"committed", "refused"} :
          /\ transfers' = [transfers EXCEPT ![d].active = FALSE]
          /\ offers' = [offers EXCEPT ![d].source = FALSE, ![d].terminal = result,
                                      ![d].retained = "kept"]
    BY <1>5 DEF Drops!FinishTransfer
  <2>2. PICK result \in {"committed", "refused"} :
          /\ transfers' = [transfers EXCEPT ![d].active = FALSE]
          /\ offers' = [offers EXCEPT ![d].source = FALSE, ![d].terminal = result,
                                      ![d].retained = "kept"]
    BY <2>1
  <2>3. pending_pastes' = Append(pending_pastes, d) \/ pending_pastes' = pending_pastes
    BY <1>5 DEF Drops!FinishTransfer
  <2>4. /\ DOMAIN transfers' = DOMAIN transfers
        /\ transfers' = [x \in DOMAIN transfers |-> transfers'[x]]
        /\ \A x \in DOMAIN transfers :
             /\ transfers'[x] \in Transfers
             /\ transfers'[x].gen = transfers[x].gen /\ transfers'[x].key = transfers[x].key
             /\ x # d => transfers'[x] = transfers[x]
             /\ x = d => ~transfers'[x].active
    <3>1. \A x \in DOMAIN transfers : transfers[x] \in Transfers
      BY <1>1 DEF Table
    <3>2. transfers = [x \in DOMAIN transfers |-> transfers[x]]
      BY <1>1 DEF Table
    <3>. QED BY <1>5, <2>2, <3>1, <3>2 DEF Transfers
  <2>5. /\ DOMAIN offers' = DOMAIN offers
        /\ offers' = [x \in DOMAIN offers |-> offers'[x]]
        /\ \A x \in DOMAIN offers :
             /\ offers'[x] \in Offers
             /\ offers'[x].key = offers[x].key
             /\ x # d => offers'[x] = offers[x]
             /\ x = d => ~offers'[x].source /\ Drops!Over(offers'[x])
    <3>1. \A x \in DOMAIN offers : offers[x] \in Offers
      BY <1>1 DEF Table
    <3>2. offers = [x \in DOMAIN offers |-> offers[x]]
      BY <1>1 DEF Table
    <3>3. offers'[d] = [offers[d] EXCEPT !.source = FALSE, !.terminal = result, !.retained = "kept"]
      BY <1>5, <2>2, <3>2
    <3>4. /\ offers'[d] \in Offers /\ offers'[d].key = offers[d].key /\ ~offers'[d].source
          /\ offers'[d].terminal = result
      BY <1>5, <3>1, <3>3 DEF Offers
    <3>5. Drops!Over(offers'[d])
      BY <3>4 DEF Drops!Over
    <3>6. DOMAIN offers' = DOMAIN offers /\ offers' = [x \in DOMAIN offers |-> offers'[x]]
          /\ \A x \in DOMAIN offers : x # d => offers'[x] = offers[x]
      BY <2>2, <3>2
    <3>. QED BY <1>5, <3>1, <3>4, <3>5, <3>6
  <2>6. Table(offers', transfers')
    <3>1. offers' \in [DOMAIN offers' -> Offers] /\ transfers' \in [DOMAIN transfers' -> Transfers]
      BY <2>4, <2>5
    <3>. QED BY <1>1, <2>4, <2>5, <3>1 DEF Table
  <2>7. Matched(offers', transfers')
    BY <1>1, <2>4, <2>5 DEF Matched, Table
  <2>8. d \in 1..next_drop_id
    BY <1>1, <1>5 DEF Table
  <2>9. /\ \A i \in DOMAIN typed : typed[i] # d
        /\ \A i \in DOMAIN pending_pastes : pending_pastes[i] # d
    BY <1>1, <1>5 DEF PastedIsOver
  <2>10. pending_pastes' \in Seq(1..next_drop_id)
    <3>1. pending_pastes \in Seq(1..next_drop_id)
      BY <1>1 DEF DropTypes
    <3>2. Append(pending_pastes, d) \in Seq(1..next_drop_id)
      BY <2>8, <3>1, AppendProperties
    <3>. QED BY <2>3, <3>1, <3>2
  <2>11. PastedIsOver(offers)' /\ Once'
    <3>1. CASE pending_pastes' = pending_pastes
      BY <1>1, <1>2, <2>5, <3>1, OnceKept DEF PastedIsOver
    <3>2. CASE pending_pastes' = Append(pending_pastes, d)
      <4> DEFINE n == Len(pending_pastes)
      <4>1. /\ n \in Nat /\ DOMAIN pending_pastes = 1..n /\ DOMAIN pending_pastes' = 1..(n + 1)
            /\ pending_pastes'[n + 1] = d
            /\ \A i \in 1..n : pending_pastes'[i] = pending_pastes[i]
        BY <1>1, <2>8, <3>2 DEF DropTypes
      <4>. HIDE DEF n
      <4>2. \A i \in 1..(n + 1) : i \in 1..n \/ i = n + 1
        BY <4>1
      <4>3. PastedIsOver(offers)'
        BY <1>1, <1>2, <2>5, <4>1, <4>2 DEF PastedIsOver
      <4>4. Once'
        BY <1>1, <1>2, <2>9, <4>1, <4>2 DEF Once, Distinct
      <4>. QED BY <4>3, <4>4
    <3>. QED BY <2>3, <3>1, <3>2
  <2>12. \A x \in DOMAIN transfers : Drops!Over(offers[x]) => Drops!Over(offers'[x])
    BY <1>1, <2>5 DEF Table
  <2>. QED BY <1>2, <1>3, <1>5, <2>4, <2>5, <2>6, <2>7, <2>10, <2>11, <2>12, EndKeeps
<1>. QED BY <1>4, <1>5

(* What was to be typed is typed, in another order.                          *)
LEMMA TakeKeeps == ASSUME DropInv, Drops!TakePastes PROVE DropInv'
<1> DEFINE I == DOMAIN pending_pastes
           m == Len(typed)
           n == Len(pending_pastes)
<1>1. DropTypes /\ Kept(offers, transfers) /\ OneServes /\ Reachable /\ Marked /\ Once
  BY DEF DropInv
<1>2. /\ pending_pastes' = <<>>
      /\ UNCHANGED <<offers, transfers, next_drop_id, sources, stopping, conn>>
  BY DEF Drops!TakePastes
<1>3. PICK at \in [I -> I] :
        /\ \A i, j \in I : i < j => at[i] # at[j] /\ pending_pastes[at[i]] <= pending_pastes[at[j]]
        /\ typed' = typed \o [i \in I |-> pending_pastes[at[i]]]
  BY DEF Drops!TakePastes
<1> DEFINE p == [i \in I |-> pending_pastes[at[i]]]
<1>4. /\ m \in Nat /\ n \in Nat /\ I = 1..n /\ DOMAIN typed = 1..m
      /\ typed \in Seq(1..next_drop_id) /\ \A i \in I : pending_pastes[i] \in 1..next_drop_id
  BY <1>1 DEF DropTypes
<1>5. p \in Seq(1..next_drop_id) /\ Len(p) = n /\ DOMAIN p = 1..n
  <2>1. \A i \in 1..n : p[i] \in 1..next_drop_id
    BY <1>3, <1>4
  <2>. QED BY <1>4, <2>1
<1>6. /\ typed' \in Seq(1..next_drop_id) /\ DOMAIN typed' = 1..(m + n)
      /\ \A i \in 1..(m + n) : typed'[i] = IF i <= m THEN typed[i] ELSE p[i - m]
  BY <1>3, <1>4, <1>5
<1>7. \A i, j \in 1..n : p[i] = p[j] => i = j
  <2> SUFFICES ASSUME NEW i \in 1..n, NEW j \in 1..n, p[i] = p[j], i # j PROVE FALSE
    OBVIOUS
  <2>1. pending_pastes[at[i]] = pending_pastes[at[j]] /\ at[i] \in I /\ at[j] \in I
    BY <1>3, <1>4
  <2>2. at[i] = at[j]
    BY <1>1, <2>1 DEF Once, Distinct
  <2>3. i < j \/ j < i
    BY <1>4
  <2>. QED BY <1>3, <1>4, <2>2, <2>3
<1>8. \A i \in 1..m : \A j \in 1..n : typed[i] # p[j]
  BY <1>1, <1>3, <1>4 DEF Once
<1>9. \A i \in 1..n : p[i] \in DOMAIN offers => Drops!Over(offers[p[i]])
  BY <1>1, <1>3, <1>4 DEF Kept, PastedIsOver
<1>. HIDE DEF I, m, n, p
<1>10. \A i \in 1..(m + n) : (i \in 1..m /\ typed'[i] = typed[i]) \/ (i - m \in 1..n /\ typed'[i] = p[i - m] /\ i > m)
  BY <1>4, <1>6
<1>11. PastedIsOver(offers)'
  <2>1. \A i \in 1..m : typed[i] \in DOMAIN offers => Drops!Over(offers[typed[i]])
    BY <1>1, <1>4 DEF Kept, PastedIsOver
  <2>2. \A i \in 1..(m + n) : typed'[i] \in DOMAIN offers => Drops!Over(offers[typed'[i]])
    BY <1>9, <1>10, <2>1
  <2>3. DOMAIN pending_pastes' = {}
    BY <1>2
  <2>. QED BY <1>2, <1>6, <2>2, <2>3 DEF PastedIsOver
<1>12. Once'
  <2>1. Distinct(typed')
    <3> SUFFICES ASSUME NEW i \in 1..(m + n), NEW j \in 1..(m + n), typed'[i] = typed'[j]
                 PROVE  i = j
      BY <1>6 DEF Distinct
    <3>1. CASE i \in 1..m /\ j \in 1..m /\ typed'[i] = typed[i] /\ typed'[j] = typed[j]
      BY <1>1, <1>4, <3>1 DEF Once, Distinct
    <3>2. CASE i - m \in 1..n /\ j - m \in 1..n /\ typed'[i] = p[i - m] /\ typed'[j] = p[j - m]
      <4>1. i - m = j - m
        BY <1>7, <3>2
      <4>. QED BY <1>4, <4>1
    <3>3. CASE i \in 1..m /\ j - m \in 1..n /\ typed'[i] = typed[i] /\ typed'[j] = p[j - m]
      BY <1>8, <3>3
    <3>4. CASE j \in 1..m /\ i - m \in 1..n /\ typed'[j] = typed[j] /\ typed'[i] = p[i - m]
      BY <1>8, <3>4
    <3>. QED BY <1>10, <3>1, <3>2, <3>3, <3>4
  <2>2. DOMAIN pending_pastes' = {}
    BY <1>2
  <2>. QED BY <2>1, <2>2 DEF Once, Distinct
<1>13. Kept(offers, transfers)'
  <2>1. Table(offers, transfers)' /\ Matched(offers, transfers)'
    BY <1>1, <1>2 DEF Kept, Table, Matched
  <2>2. Reached(offers, transfers)' /\ JustServed(offers, transfers)'
    BY <1>1, <1>2 DEF Kept, Reached, JustServed, ServedNow, Serving
  <2>. QED BY <1>11, <2>1, <2>2 DEF Kept
<1>14. DropTypes'
  BY <1>1, <1>2, <1>6 DEF DropTypes
<1>15. OneServes' /\ Reachable' /\ Marked'
  BY <1>1, <1>2 DEF OneServes, Serving, Reachable, Drops!Streaming, Drops!Current, Marked
<1>. QED BY <1>12, <1>13, <1>14, <1>15 DEF DropInv

LEMMA PassesKeeps == ASSUME DropInv, NEW d, Drops!Passes(d) PROVE DropInv'
<1>1. DropTypes /\ Table(offers, transfers) /\ Matched(offers, transfers)
  BY DEF DropInv, Kept
<1>2. /\ d \in DOMAIN offers
      /\ UNCHANGED <<next_drop_id, typed, pending_pastes, sources, stopping, conn>>
  BY DEF Drops!Passes
<1>3. /\ \/ /\ offers' = [offers EXCEPT ![d].retained = "over"] /\ offers[d].retained = "kept"
            /\ transfers' = transfers
         \/ offers' = [offers EXCEPT ![d].due = TRUE] /\ transfers' = transfers
         \/ d \in DOMAIN transfers /\ transfers' = [transfers EXCEPT ![d].due = TRUE] /\ offers' = offers
  BY DEF Drops!Passes
<1>4. /\ DOMAIN offers' = DOMAIN offers /\ offers' = [x \in DOMAIN offers |-> offers'[x]]
      /\ \A x \in DOMAIN offers :
           /\ offers'[x] \in Offers /\ offers'[x].key = offers[x].key
           /\ offers'[x].source = offers[x].source
           /\ offers'[x].retained # "no" => offers[x].retained # "no"
           /\ Drops!Over(offers'[x]) <=> Drops!Over(offers[x])
  <2>1. offers = [x \in DOMAIN offers |-> offers[x]] /\ \A x \in DOMAIN offers : offers[x] \in Offers
    BY <1>1 DEF Table
  <2>2. CASE offers' = [offers EXCEPT ![d].retained = "over"] /\ offers[d].retained = "kept"
    BY <1>2, <2>1, <2>2 DEF Offers, Drops!Over
  <2>3. CASE offers' = [offers EXCEPT ![d].due = TRUE]
    BY <1>2, <2>1, <2>3 DEF Offers, Drops!Over
  <2>4. CASE offers' = offers
    BY <2>1, <2>4
  <2>. QED BY <1>3, <2>2, <2>3, <2>4
<1>5. /\ DOMAIN transfers' = DOMAIN transfers /\ transfers' = [x \in DOMAIN transfers |-> transfers'[x]]
      /\ \A x \in DOMAIN transfers :
           /\ transfers'[x] \in Transfers /\ transfers'[x].key = transfers[x].key
           /\ transfers'[x].gen = transfers[x].gen
           /\ transfers'[x].active = transfers[x].active
  <2>1. transfers = [x \in DOMAIN transfers |-> transfers[x]] /\ \A x \in DOMAIN transfers : transfers[x] \in Transfers
    BY <1>1 DEF Table
  <2>2. CASE transfers' = [transfers EXCEPT ![d].due = TRUE]
    BY <2>1, <2>2 DEF Transfers
  <2>3. CASE transfers' = transfers
    BY <2>1, <2>3
  <2>. QED BY <1>3, <2>2, <2>3
<1>6. Ages(offers', transfers')
  <2>1. offers' \in [DOMAIN offers' -> Offers] /\ transfers' \in [DOMAIN transfers' -> Transfers]
    BY <1>4, <1>5
  <2>. QED BY <1>1, <1>4, <1>5, <2>1 DEF Ages, Table, Matched
<1>7. Kept(offers', transfers')
  BY <1>6, AgesKeep
<1>8. Kept(offers, transfers)'
  BY <1>2, <1>7, StaysKept
<1>9. /\ DropTypes' /\ OneServes' /\ Reachable' /\ Marked'
  BY <1>2 DEF DropInv, DropTypes, OneServes, Serving, Reachable, Drops!Streaming, Drops!Current,
     Marked
<1>10. Once'
  BY <1>2, OnceKept DEF DropInv
<1>. QED BY <1>8, <1>9, <1>10 DEF DropInv

LEMMA DropStep == ASSUME DropInv, Drops!Next \/ UNCHANGED Drops!vars PROVE DropInv'
<1>1. ASSUME NEW k \in Drops!Keys, Drops!SetBinding(k) PROVE DropInv'
  BY <1>1, QuietDrop DEF Drops!SetBinding
<1>2. CASE UNCHANGED Drops!vars
  BY <1>2, QuietDrop DEF Drops!vars
<1>3. ASSUME NEW c \in Conns,
             \/ Drops!Install(c) \/ Drops!Stream(c) \/ Drops!ReadResult(c) \/ Drops!ClearShutdown(c) \/ Drops!connection_lost(c)
             \/ \E allow \in BOOLEAN : Drops!FinishTransfer(c, allow)
      PROVE  DropInv'
  BY <1>3, ConnectionKeeps, LossKeeps, FinishKeeps
<1>4. ASSUME NEW d \in 1..MaxDrops,
             \/ Drops!Accept(d) \/ Drops!Advance(d) \/ Drops!Cancel(d) \/ Drops!StopSource(d) \/ Drops!Passes(d)
             \/ \E c \in Conns : Drops!Open(c, d)
      PROVE  DropInv'
  BY <1>4, AcceptKeeps, AdvanceKeeps, CancelKeeps, StopSourceKeeps, PassesKeeps, OpenKeeps
<1>5. ASSUME NEW hit \in BOOLEAN, NEW auto \in BOOLEAN, NEW type_path \in BOOLEAN,
             Drops!OfferFile(hit, auto, type_path)
      PROVE  DropInv'
  BY <1>5, OfferKeeps
<1>. QED BY <1>1, <1>2, <1>3, <1>4, <1>5, RemovalsKeep, ServiceKeeps, TakeKeeps DEF Drops!Next
=============================================================================
