---------------------------- MODULE PlaybackProofs ----------------------------
(***************************************************************************)
(* Proofs about the playback of one audio track, for any number of channel *)
(* generations, producers and ring sizes.  They rest on accounts of each   *)
(* output: what was pushed is counted but for a push under way (Counted),  *)
(* a reset's watermark lies between what was before it and what comes      *)
(* after (Lined, Floored), and an output whose decoder is done is the one  *)
(* its generation's channel has finished with (Ends).                      *)
(***************************************************************************)
EXTENDS Playback, FiniteSetTheorems, SequenceTheorems, WellFoundedInduction, TLAPS

TrackRecords ==
  [life : {"live", "lost", "gone"}, gen : 1 .. Gens, epoch : 0 .. MaxEpoch,
   miles : SUBSET Milestones, sync : BOOLEAN, proved : BOOLEAN]
OutRecords ==
  [gen : 0 .. Gens, enabled : BOOLEAN, prebuffered : BOOLEAN, stopped : BOOLEAN,
   error : BOOLEAN, done : BOOLEAN, eos : BOOLEAN, queued : Nat, played : Nat, cut : Nat,
   rendered : BOOLEAN, waiting : BOOLEAN, mark : Nat, need : Minimums \cup {Prebuffer},
   ring : Seq(Samples), line : Nat, floor : 0 .. Gens]
DevRecords ==
  [at : {"idle", "skipped", "gate", "pop", "popped"}, heard : Seq(Samples), floor : 0 .. Gens]
ChanPlaces ==
  {"none", "lookup", "open", "bind", "loop", "decoded", "push", "count", "pushed", "sync",
   "start", "finish", "signal", "closing", "failed", "losing", "stopping", "dead"}
ChanRecords ==
  [at : ChanPlaces, out : 0 .. Gens, sent : Nat, last : BOOLEAN, started : 0 .. Gens]
ActorPlaces ==
  {"idle", "service", "swap", "evict", "barrier", "remove", "sync", "start"} \cup FlushSteps
ActorRecords == [at : ActorPlaces, out : 0 .. Gens, advancing : BOOLEAN]
Entries ==
  [id : Requests, wait : BOOLEAN, gen : 1 .. Gens, out : 0 .. Gens,
   cond : Conditions \cup {"none"}, due : BOOLEAN]

OutputTypes ==
  /\ out \in [Outputs -> OutRecords] /\ dev \in [Outputs -> DevRecords]
  /\ \A o \in Outputs : Len(out[o].ring) <= Ring
PendingTypes ==
  /\ pending \in Seq(Entries) /\ cancelled \subseteq Requests
  /\ Len(pending) <= MaxRequests /\ Waits(pending) <= MaxWaits
Types ==
  /\ producer \in Producers /\ track \in TrackRecords /\ registered \in 0 .. Gens
  /\ OutputTypes /\ chan \in [1 .. Gens -> ChanRecords] /\ actor \in ActorRecords
  /\ PendingTypes

(* Who pushes to the output o, and whether what was pushed is counted yet. *)
Pushes(o, g) == chan[g].out = o /\ chan[g].at \in {"push", "count"}
Counting(o) == \E g \in 1 .. Gens : chan[g].out = o /\ chan[g].at = "count"

(* Where the actor is with an output that it flushes for a new generation. *)
Flushing(o) == actor.out = o /\ actor.advancing /\ actor.at \in FlushSteps
Cutting(o) == actor.out = o /\ actor.advancing /\ actor.at \in {"gate", "clock"}
Advanced(o) == actor.out = o /\ actor.advancing /\ actor.at \in {"barrier", "cut", "gate"}

(* An output that nobody opened is untouched, and nobody knows of it.      *)
Fine(o) == o = 0 \/ (o \in Outputs /\ out[o].gen # 0)
Untouched(o) == out[o] = Unopened /\ dev[o] = [at |-> "idle", heard |-> <<>>, floor |-> 0]
Known ==
  /\ \A o \in Outputs : out[o].gen = 0 => Untouched(o)
  /\ Fine(registered) /\ Fine(actor.out)
  /\ \A i \in DOMAIN pending : Fine(pending[i].out)
  /\ \A g \in 1 .. Gens : Fine(chan[g].out) /\ Fine(chan[g].started)

(* What a channel has at each place, and the actor.                        *)
Serving == {"loop", "decoded", "push", "count", "pushed", "sync", "start", "finish", "signal"}
PlacedChan(g) ==
  /\ chan[g].at \in {"none", "lookup", "open"} => chan[g].out = 0 /\ out[g].gen = 0
  /\ chan[g].at = "bind" => chan[g].out # 0
  /\ chan[g].at \in Serving => chan[g].out # 0 /\ g <= out[chan[g].out].gen
  /\ chan[g].at = "start" => chan[g].started # 0
  /\ chan[g].at \in {"none", "lookup", "open", "bind", "loop"} => ~chan[g].last
  /\ chan[g].at \in {"finish", "signal"} => chan[g].last
  /\ chan[g].at # "none" => g <= track.gen
PlacedActor ==
  /\ actor.at \in {"barrier", "start"} \cup FlushSteps => actor.out # 0
  /\ actor.at = "barrier" => actor.advancing
  /\ actor.advancing => actor.at \in {"barrier"} \cup FlushSteps
  /\ actor.at = "swap" => ~track.proved
PlacedOut(o) ==
  out[o].gen <= track.gen /\ dev[o].floor <= out[o].floor /\ out[o].floor <= out[o].gen
Placed ==
  /\ \A g \in 1 .. Gens : PlacedChan(g)
  /\ PlacedActor
  /\ \A o \in Outputs : PlacedOut(o)

(* The number of a sample in an output's ring, of all that were pushed.    *)
Index(o, j) == out[o].played + Len(dev[o].heard) + j

(* What was pushed is in the ring, with the callback, or played, and the   *)
(* count lags by the one push that is under way.                           *)
Counted(o) ==
  /\ \A g, h \in 1 .. Gens : Pushes(o, g) /\ Pushes(o, h) => g = h
  /\ out[o].queued + (IF Counting(o) THEN 1 ELSE 0) = Index(o, Len(out[o].ring))
  /\ out[o].cut <= out[o].queued
  /\ dev[o].at \in {"idle", "gate", "pop"} => dev[o].heard = <<>>
  /\ dev[o].at = "popped" => Len(dev[o].heard) = 1

(* What is before the watermark was pushed before the reset.               *)
Lined(o) ==
  \A j \in DOMAIN out[o].ring :
    /\ out[o].ring[j].line <= out[o].line
    /\ Index(o, j) <= out[o].cut => out[o].ring[j].line < out[o].line

(* What a generation that is over left in the ring is before the watermark.*)
Floored(o) ==
  /\ dev[o].at \in {"gate", "pop"} =>
       \A j \in DOMAIN out[o].ring : out[o].ring[j].gen >= dev[o].floor
  /\ \A j \in DOMAIN out[o].ring : out[o].ring[j].gen < out[o].floor => Index(o, j) <= out[o].cut
  /\ Flushing(o) => \A g \in 1 .. Gens : ~Pushes(o, g)
  /\ Cutting(o) => \A j \in DOMAIN out[o].ring : Index(o, j) <= out[o].cut

(* What the callback holds.                                                *)
InHand(o) ==
  /\ dev[o].at = "popped" => \A i \in DOMAIN dev[o].heard : dev[o].heard[i].gen >= dev[o].floor
  /\ dev[o].at = "skipped" => \A i \in DOMAIN dev[o].heard : dev[o].heard[i].line < out[o].line

Sound(o) == Counted(o) /\ Lined(o) /\ Floored(o) /\ InHand(o)
Sounds == \A o \in Outputs : Sound(o)

(* A decoder that is done has a channel that has finished; an output that  *)
(* has stayed behind has none that can.                                    *)
Over == {"signal", "sync", "start", "closing", "dead"}
Gone(g) == chan[g].last /\ chan[g].at \in Over
Finished(o) ==
  /\ chan[out[o].gen].out = o /\ Gone(out[o].gen)
  /\ \A g \in 1 .. Gens : ~Pushes(o, g)
Unfinished(o) == ~out[o].done /\ (chan[out[o].gen].out = o => ~chan[out[o].gen].last)
UpToDate(o) == out[o].gen = track.gen \/ Unfinished(o)

Ends ==
  /\ \A o \in Outputs : out[o].done => Finished(o) \/ Advanced(o)
  /\ registered # 0 /\ actor.at \notin {"swap", "evict"} => UpToDate(registered)
  /\ \A i \in DOMAIN pending :
       /\ pending[i].gen <= track.gen
       /\ pending[i].out # 0 /\ pending[i].gen = track.gen => UpToDate(pending[i].out)

(* An end that was learnt from an output.                                  *)
Learnt == track.life = "live" /\ track.proved /\ "ended" \in track.miles
Quiet ==
  /\ Gone(track.gen)
  /\ \A o \in Outputs : out[o].gen = track.gen /\ chan[track.gen].out = o => out[o].ring = <<>>
Silent == Learnt => Quiet

IInv == Types /\ Known /\ Placed /\ Sounds /\ Ends /\ Silent

-----------------------------------------------------------------------------
(* The parts of the types, as the checked runs state them.                 *)
LEMMA TypesAre == Types => TypeOK
BY DEF Types, OutputTypes, PendingTypes, TypeOK, TrackRecords, OutRecords, DevRecords, ChanRecords,
       ChanPlaces, ActorRecords, ActorPlaces, Entries

(* The initial states. *)
LEMMA InitHolds == ASSUME Init PROVE IInv
<1>1. Types
  <2>1. producer \in Producers /\ registered \in 0 .. Gens /\ cancelled \subseteq Requests
    BY PlaybackAssumption DEF Init
  <2>2. track \in TrackRecords
    BY PlaybackAssumption DEF Init, TrackRecords, Milestones
  <2>3. Unopened \in OutRecords /\ Len(Unopened.ring) = 0
    BY PlaybackAssumption DEF OutRecords, Unopened
  <2>4. OutputTypes
    BY <2>3, PlaybackAssumption DEF Init, OutputTypes, DevRecords
  <2>5. chan \in [1 .. Gens -> ChanRecords] /\ actor \in ActorRecords
    BY PlaybackAssumption DEF Init, ChanRecords, ChanPlaces, ActorRecords, ActorPlaces
  <2>6. PendingTypes
    <3>1. pending = <<>> /\ Len(<<>>) = 0 /\ pending \in Seq(Entries)
      BY DEF Init
    <3>2. {i \in DOMAIN pending : pending[i].wait} = {}
      BY <3>1
    <3>3. Waits(pending) = 0
      BY <3>2, FS_EmptySet DEF Waits
    <3> QED BY <2>1, <3>1, <3>3, PlaybackAssumption DEF PendingTypes
  <2> QED BY <2>1, <2>2, <2>4, <2>5, <2>6 DEF Types
<1>2. /\ \A o \in Outputs : Untouched(o) /\ out[o].gen = 0 /\ out[o].done = FALSE
      /\ \A g \in 1 .. Gens : chan[g] = [at |-> "none", out |-> 0, sent |-> 0, last |-> FALSE,
                                         started |-> 0]
      /\ registered = 0 /\ actor = [at |-> "idle", out |-> 0, advancing |-> FALSE]
      /\ pending = <<>> /\ track.gen = 1 /\ track.proved = FALSE
  BY DEF Init, Untouched, Unopened
<1>3. Known
  BY <1>2 DEF Known, Fine
<1>4. Placed
  <2>1. ASSUME NEW g \in 1 .. Gens PROVE PlacedChan(g)
    <3>1. /\ chan[g].at = "none" /\ chan[g].out = 0 /\ chan[g].last = FALSE
          /\ out[g].gen = 0
      BY <1>2 DEF Outputs
    <3> QED BY <3>1 DEF PlacedChan, Serving
  <2>2. PlacedActor
    BY <1>2 DEF PlacedActor, FlushSteps
  <2>3. ASSUME NEW o \in Outputs PROVE PlacedOut(o)
    BY <1>2 DEF PlacedOut, Untouched, Unopened
  <2> QED BY <2>1, <2>2, <2>3 DEF Placed
<1>5. Sounds
  <2> SUFFICES ASSUME NEW o \in Outputs PROVE Sound(o)
    BY DEF Sounds
  <2>1. /\ out[o].ring = <<>> /\ out[o].queued = 0 /\ out[o].played = 0 /\ out[o].cut = 0
        /\ dev[o].at = "idle" /\ dev[o].heard = <<>> /\ Len(<<>>) = 0 /\ DOMAIN <<>> = {}
    BY <1>2 DEF Untouched, Unopened
  <2>2. \A g \in 1 .. Gens : ~Pushes(o, g)
    BY <1>2 DEF Pushes
  <2>3. ~Counting(o)
    BY <1>2 DEF Counting
  <2>4. Counted(o)
    BY <2>1, <2>2, <2>3 DEF Counted, Index
  <2> QED BY <2>1, <2>2, <2>4 DEF Sound, Lined, Floored, InHand
<1>6. Ends
  BY <1>2 DEF Ends
<1>7. Silent
  BY <1>2 DEF Silent, Learnt
<1> QED BY <1>1, <1>3, <1>4, <1>5, <1>6, <1>7 DEF IInv

-----------------------------------------------------------------------------
(* What each part of the invariant makes of a step that keeps what it      *)
(* speaks of.                                                              *)

(* A step leaves an output's counters, ring and generation as they are.    *)
Alike(o) ==
  /\ out'[o].gen = out[o].gen /\ out'[o].floor = out[o].floor
  /\ out'[o].queued = out[o].queued /\ out'[o].played = out[o].played
  /\ out'[o].cut = out[o].cut /\ out'[o].line = out[o].line /\ out'[o].ring = out[o].ring
  /\ out[o].gen = 0 => out'[o] = out[o]

(* Whom a step may hand an output to: the output is registered.            *)
LEMMA KnownKeep ==
  ASSUME Known,
         \A o \in Outputs : out[o].gen # 0 => out'[o].gen # 0,
         \A o \in Outputs : out'[o].gen = 0 => out'[o] = out[o] /\ dev'[o] = dev[o],
         registered' \in {0, registered}, actor'.out \in {0, actor.out, registered},
         \A i \in DOMAIN pending' :
           \/ pending'[i].out \in {0, registered}
           \/ \E j \in DOMAIN pending : pending'[i].out = pending[j].out,
         \A g \in 1 .. Gens : /\ chan'[g].out \in {0, chan[g].out, registered}
                              /\ chan'[g].started \in {0, chan[g].started, registered}
  PROVE  Known'
<1>1. \A o \in Outputs : out'[o].gen = 0 => Untouched(o)'
  BY DEF Known, Untouched
<1>2. \A o : Fine(o) => Fine(o)'
  BY DEF Fine
<1>3. Fine(0) /\ Fine(registered) /\ Fine(actor.out)
  BY DEF Known, Fine
<1>4. (Fine(registered))' /\ (Fine(actor.out))'
  <2>1. Fine(registered)
    BY <1>3
  <2>2. registered' = 0 \/ (registered' \in Outputs /\ out'[registered'].gen # 0)
    BY <1>3 DEF Fine
  <2>3. actor'.out = 0 \/ (actor'.out \in Outputs /\ out'[actor'.out].gen # 0)
    BY <1>3 DEF Fine
  <2> QED BY <2>2, <2>3 DEF Fine
<1>5. \A i \in DOMAIN pending' :
        pending'[i].out = 0 \/ (pending'[i].out \in Outputs /\ out'[pending'[i].out].gen # 0)
  BY <1>3 DEF Known, Fine
<1>6. \A g \in 1 .. Gens :
        /\ chan'[g].out = 0 \/ (chan'[g].out \in Outputs /\ out'[chan'[g].out].gen # 0)
        /\ \/ chan'[g].started = 0
           \/ chan'[g].started \in Outputs /\ out'[chan'[g].started].gen # 0
  BY <1>3 DEF Known, Fine
<1> QED BY <1>1, <1>4, <1>5, <1>6 DEF Known, Fine

(* The accounts of an output that a step leaves alike.                     *)
LEMMA SoundKeep ==
  ASSUME NEW o \in Outputs, Sound(o), Alike(o), UNCHANGED dev,
         \A g, h \in 1 .. Gens : Pushes(o, g)' /\ Pushes(o, h)' => g = h,
         Counting(o)' <=> Counting(o),
         Flushing(o)' => \A g \in 1 .. Gens : ~Pushes(o, g)',
         Cutting(o)' => Cutting(o)
  PROVE  Sound(o)'
<1>1. \A j : Index(o, j)' = Index(o, j)
  BY DEF Index, Alike
<1>2. Counted(o)'
  BY <1>1 DEF Sound, Counted, Alike
<1>3. Lined(o)'
  BY <1>1 DEF Sound, Lined, Alike
<1>4. Floored(o)'
  BY <1>1 DEF Sound, Floored, Alike
<1>5. InHand(o)'
  BY DEF Sound, InHand, Alike
<1> QED BY <1>2, <1>3, <1>4, <1>5 DEF Sound

(* Where the channels and outputs are, when none opens and none moves on.  *)
LEMMA PlacedKeep ==
  ASSUME Types, Placed, \A o \in Outputs : out'[o].gen = out[o].gen /\ out'[o].floor = out[o].floor,
         track'.gen = track.gen, NEW g \in 1 .. Gens, PlacedChan(g)',
         \A h \in 1 .. Gens \ {g} : chan'[h] = chan[h],
         \A o \in Outputs : dev'[o].floor <= out[o].floor,
         PlacedActor'
  PROVE  Placed'
<1>1. ASSUME NEW h \in 1 .. Gens \ {g}
      PROVE  PlacedChan(h)'
  <2>1. PlacedChan(h) /\ chan'[h] = chan[h] /\ out'[h].gen = out[h].gen
    BY DEF Placed, Outputs
  <2>2. chan[h].out # 0 => out'[chan[h].out].gen = out[chan[h].out].gen
    <3>1. chan[h].out \in 0 .. Gens
      BY DEF Types, ChanRecords
    <3> QED BY <3>1, PlaybackAssumption DEF Outputs
  <2> QED BY <2>1, <2>2 DEF PlacedChan, Serving
<1>2. ASSUME NEW o \in Outputs PROVE PlacedOut(o)'
  BY DEF Placed, PlacedOut
<1> QED BY <1>1, <1>2 DEF Placed

-----------------------------------------------------------------------------
(* A step of a channel's thread, or of someone else for it, that keeps the *)
(* accounts: it pushes only while nobody else does, and finishes only what *)
(* its own generation pushed to its output.                                *)
ChannelOnly(g) ==
  /\ UNCHANGED <<dev, actor, pending>>
  /\ \A h \in 1 .. Gens \ {g} : chan'[h] = chan[h]
  /\ registered' \in {0, registered}
  /\ chan'[g].out \in {0, chan[g].out, registered}
  /\ chan'[g].started \in {0, chan[g].started, registered}
  /\ track'.gen = track.gen /\ track'.proved = track.proved /\ (Learnt' => Learnt)
  /\ \A o \in Outputs : Alike(o)

(* No push begins but at an output that nobody holds, by its own           *)
(* generation, which has not finished; none is left half counted.          *)
PushesOwn(g) ==
  \A o \in Outputs :
    /\ Pushes(o, g)' => Pushes(o, g) \/ (~Held(o) /\ out[o].gen = g /\ ~Gone(g))
    /\ chan'[g].out = o /\ chan'[g].at = "count" <=> chan[g].out = o /\ chan[g].at = "count"

(* A channel whose end matters: it is current, or its output still is of   *)
(* its generation.                                                         *)
Matters(g) == Gone(g) /\ (g = track.gen \/ out[chan[g].out].gen = g)

(* Such a channel stays gone; one finishes while it is current; a decoder  *)
(* is done because its channel says so.                                    *)
EndsOwn(g) ==
  /\ Matters(g) => Gone(g)' /\ chan'[g].out = chan[g].out
  /\ chan'[g].last => g = track.gen \/ (chan[g].last /\ chan'[g].out = chan[g].out)
  /\ \A o \in Outputs : out'[o].done =>
       out[o].done \/ (Finished(o)' /\ chan[out[o].gen].out = o /\ chan[out[o].gen].last)

LEMMA ChannelSounds ==
  ASSUME IInv, NEW g \in 1 .. Gens, ChannelOnly(g), PushesOwn(g)
  PROVE  Sounds'
<1> SUFFICES ASSUME NEW o \in Outputs PROVE Sound(o)'
  BY DEF Sounds
<1>1. Sound(o) /\ Alike(o) /\ UNCHANGED <<dev, actor>>
  BY DEF IInv, Sounds, ChannelOnly
<1>2. \A h \in 1 .. Gens : h # g => (Pushes(o, h)' <=> Pushes(o, h))
  BY DEF ChannelOnly, Pushes
<1>3. Pushes(o, g)' => Pushes(o, g) \/ (~Held(o) /\ \A h \in 1 .. Gens : ~Pushes(o, h))
  BY DEF PushesOwn, Held, Pushes
<1>4. \A h, k \in 1 .. Gens : Pushes(o, h)' /\ Pushes(o, k)' => h = k
  <2>1. \A h, k \in 1 .. Gens : Pushes(o, h) /\ Pushes(o, k) => h = k
    BY <1>1 DEF Sound, Counted
  <2> QED BY <1>2, <1>3, <2>1
<1>5. Counting(o)' <=> Counting(o)
  <2>1. \A h \in 1 .. Gens : (chan'[h].out = o /\ chan'[h].at = "count")
                             <=> (chan[h].out = o /\ chan[h].at = "count")
    BY DEF ChannelOnly, PushesOwn
  <2> QED BY <2>1 DEF Counting
<1>6. (Flushing(o)' <=> Flushing(o)) /\ (Cutting(o)' <=> Cutting(o))
  BY <1>1 DEF Flushing, Cutting
<1>7. Flushing(o)' => \A h \in 1 .. Gens : ~Pushes(o, h)'
  <2> SUFFICES ASSUME Flushing(o) PROVE \A h \in 1 .. Gens : ~Pushes(o, h)'
    BY <1>6
  <2>1. \A h \in 1 .. Gens : ~Pushes(o, h)
    BY <1>1 DEF Sound, Floored
  <2>2. Held(o)
    BY DEF Flushing, Held
  <2> QED BY <1>2, <1>3, <2>1, <2>2
<1> QED BY <1>1, <1>4, <1>5, <1>6, <1>7, SoundKeep

LEMMA ChannelEnding ==
  ASSUME IInv, NEW g \in 1 .. Gens, ChannelOnly(g), PushesOwn(g), EndsOwn(g)
  PROVE  Ends' /\ Silent'
<1> USE DEF ChannelOnly
<1>1. ASSUME NEW o \in Outputs, Finished(o), out[o].gen \in 1 .. Gens
      PROVE  Finished(o)'
  <2>1. PICK f \in 1 .. Gens : f = out[o].gen
    BY <1>1
  <2>2. out'[o].gen = f /\ chan[f].out = o /\ Gone(f) /\ \A h \in 1 .. Gens : ~Pushes(o, h)
    BY <1>1, <2>1 DEF Finished, Alike
  <2>3. chan'[f].out = o /\ Gone(f)'
    <3>1. CASE f = g
      BY <2>1, <2>2, <3>1 DEF EndsOwn, Matters
    <3>2. CASE f # g
      BY <2>2, <3>2 DEF Gone
    <3> QED BY <3>1, <3>2
  <2>4. ASSUME NEW h \in 1 .. Gens PROVE ~Pushes(o, h)'
    <3>1. CASE h # g
      BY <2>2, <3>1 DEF Pushes
    <3>2. CASE h = g
      <4> SUFFICES ASSUME Pushes(o, g)' PROVE FALSE
        BY <3>2
      <4>1. f = g /\ ~Gone(g)
        BY <2>1, <2>2 DEF PushesOwn
      <4> QED BY <2>2, <4>1
    <3> QED BY <3>1, <3>2
  <2>5. chan'[out'[o].gen].out = o /\ Gone(out[o].gen)'
    BY <2>2, <2>3 DEF Gone
  <2> QED BY <2>4, <2>5 DEF Finished
<1>2. \A o \in Outputs : out[o].gen \in 0 .. Gens /\ (out[o].done => out[o].gen # 0)
  BY DEF IInv, Types, OutputTypes, OutRecords, Known, Untouched, Unopened
<1>3. \A o \in Outputs : out'[o].done => Finished(o)' \/ Advanced(o)'
  <2> SUFFICES ASSUME NEW o \in Outputs, out'[o].done, ~Finished(o)'
               PROVE  Advanced(o)'
    OBVIOUS
  <2>1. out[o].done
    BY DEF EndsOwn
  <2>2. ~Finished(o)
    BY <1>1, <1>2, <2>1, PlaybackAssumption
  <2>3. Advanced(o)
    BY <2>1, <2>2 DEF IInv, Ends
  <2> QED BY <2>3 DEF Advanced
<1>4. ASSUME NEW o \in Outputs, UpToDate(o), out[o].gen # 0
      PROVE  UpToDate(o)'
  <2> DEFINE f == out[o].gen
  <2>1. f \in 1 .. Gens /\ out'[o].gen = f
    BY <1>2, <1>4, PlaybackAssumption DEF Alike
  <2>2. CASE f = track.gen
    BY <2>1, <2>2 DEF UpToDate
  <2>3. CASE f # track.gen
    <3>1. ~out[o].done /\ (chan[f].out = o => ~chan[f].last)
      BY <1>4, <2>3 DEF UpToDate, Unfinished
    <3>2. ~out'[o].done
      BY <3>1 DEF EndsOwn
    <3>3. chan'[f].out = o => ~chan'[f].last
      <4>1. CASE f # g
        BY <2>1, <3>1, <4>1
      <4>2. CASE f = g
        BY <2>1, <2>3, <3>1, <4>2 DEF EndsOwn
      <4> QED BY <4>1, <4>2
    <3>4. chan'[out'[o].gen].out = o => ~chan'[out'[o].gen].last
      BY <2>1, <3>3
    <3> QED BY <3>2, <3>4 DEF UpToDate, Unfinished
  <2> QED BY <2>2, <2>3
<1>5. /\ registered # 0 => registered \in Outputs /\ out[registered].gen # 0
      /\ \A i \in DOMAIN pending : pending[i].out # 0 =>
           pending[i].out \in Outputs /\ out[pending[i].out].gen # 0
  BY DEF IInv, Known, Fine
<1>6. registered' # 0 /\ actor'.at \notin {"swap", "evict"} => UpToDate(registered)'
  <2> SUFFICES ASSUME registered' # 0, actor'.at \notin {"swap", "evict"}
               PROVE  UpToDate(registered)'
    OBVIOUS
  <2>1. registered' = registered /\ registered \in Outputs /\ out[registered].gen # 0
    BY <1>5
  <2>2. UpToDate(registered)
    BY <2>1 DEF IInv, Ends
  <2> DEFINE r == registered
  <2>3. \A o \in Outputs : o = registered => UpToDate(o)'
    BY <1>4, <2>1, <2>2
  <2> QED BY <2>1, <2>3 DEF UpToDate, Unfinished
<1>7. ASSUME NEW i \in DOMAIN pending'
      PROVE  /\ pending'[i].gen <= track'.gen
             /\ pending'[i].out # 0 /\ pending'[i].gen = track'.gen => UpToDate(pending[i].out)'
  <2>1. pending' = pending /\ i \in DOMAIN pending
    OBVIOUS
  <2>2. pending[i].gen <= track.gen
    BY <2>1 DEF IInv, Ends
  <2>3. ASSUME pending[i].out # 0, pending[i].gen = track.gen
        PROVE  UpToDate(pending[i].out)'
    <3>1. UpToDate(pending[i].out) /\ pending[i].out \in Outputs /\ out[pending[i].out].gen # 0
      BY <1>5, <2>1, <2>3 DEF IInv, Ends
    <3>2. \A o \in Outputs : o = pending[i].out => UpToDate(o)'
      BY <1>4, <3>1
    <3> QED BY <2>1, <3>1, <3>2 DEF UpToDate, Unfinished
  <2> QED BY <2>1, <2>2, <2>3
<1>8. Ends'
  BY <1>3, <1>6, <1>7 DEF Ends
<1>9. Silent'
  <2> SUFFICES ASSUME Learnt' PROVE Quiet'
    BY DEF Silent
  <2>1. Quiet
    BY DEF IInv, Silent
  <2>2. PICK f \in 1 .. Gens : f = track.gen /\ track'.gen = f
    BY DEF IInv, Types, TrackRecords
  <2>3. Gone(f) /\ Gone(f)' /\ chan'[f].out = chan[f].out
    <3>1. Gone(f)
      BY <2>1, <2>2 DEF Quiet
    <3>2. CASE f = g
      BY <2>2, <3>1, <3>2 DEF EndsOwn, Matters
    <3>3. CASE f # g
      BY <3>1, <3>3 DEF Gone
    <3> QED BY <3>1, <3>2, <3>3
  <2>4. \A o \in Outputs : out'[o].gen = f /\ chan'[f].out = o => out'[o].ring = <<>>
    BY <2>1, <2>2, <2>3 DEF Quiet, Alike
  <2>5. Gone(track.gen)'
    BY <2>2, <2>3 DEF Gone
  <2> QED BY <2>2, <2>4, <2>5 DEF Quiet
<1> QED BY <1>8, <1>9

LEMMA ChannelKeeps ==
  ASSUME IInv, NEW g \in 1 .. Gens, Types', ChannelOnly(g), PlacedChan(g)', PushesOwn(g),
         EndsOwn(g)
  PROVE  IInv'
<1>1. Known'
  <2>1. \A i \in DOMAIN pending' : \E j \in DOMAIN pending : pending'[i].out = pending[j].out
    BY DEF ChannelOnly
  <2>2. \A h \in 1 .. Gens : /\ chan'[h].out \in {0, chan[h].out, registered}
                             /\ chan'[h].started \in {0, chan[h].started, registered}
    BY DEF ChannelOnly
  <2>3. \A o \in Outputs : /\ out[o].gen # 0 => out'[o].gen # 0
                           /\ out'[o].gen = 0 => out'[o] = out[o] /\ dev'[o] = dev[o]
    BY DEF ChannelOnly, Alike
  <2> QED BY <2>1, <2>2, <2>3, KnownKeep DEF ChannelOnly, IInv
<1>2. Placed'
  <2>1. PlacedActor'
    BY DEF IInv, Placed, PlacedActor, ChannelOnly
  <2>2. \A o \in Outputs : /\ out'[o].gen = out[o].gen /\ out'[o].floor = out[o].floor
                           /\ dev'[o].floor <= out[o].floor
    BY DEF IInv, Placed, PlacedOut, ChannelOnly, Alike
  <2> QED BY <2>1, <2>2, PlacedKeep DEF ChannelOnly, IInv
<1> QED BY <1>1, <1>2, ChannelSounds, ChannelEnding DEF IInv

-----------------------------------------------------------------------------
(* A step of the actor that keeps the accounts.                            *)
ActorOnly ==
  /\ UNCHANGED <<chan, dev>>
  /\ registered' \in {0, registered} /\ actor'.out \in {0, actor.out, registered}
  /\ track'.gen = track.gen
  /\ \A o \in Outputs : Alike(o) /\ (out'[o].done => out[o].done)

(* Or one that changes the timeline of an output only.                     *)
ActorMoves ==
  /\ UNCHANGED <<chan, dev>>
  /\ registered' \in {0, registered} /\ actor'.out \in {0, actor.out, registered}
  /\ track'.gen = track.gen
  /\ \A o \in Outputs :
       /\ out'[o].gen = out[o].gen /\ out'[o].ring = out[o].ring
       /\ out[o].gen = 0 => out'[o] = out[o]
       /\ out'[o].done => out[o].done

(* It is done with a decoder before its flush ends, and with an output     *)
(* that stayed behind before the actor turns to something else.            *)
EndsHeld ==
  /\ \A o \in Outputs : Advanced(o) /\ out'[o].done => Advanced(o)'
  /\ registered' # 0 /\ actor'.at \notin {"swap", "evict"} => actor.at \notin {"swap", "evict"}

(* It flushes an output that nobody pushes to.                             *)
FlushesFree ==
  /\ \A o \in Outputs : /\ Flushing(o)' => Flushing(o) \/ ~Held(o)
                        /\ Cutting(o)' => Cutting(o)
  /\ EndsHeld

(* A pending entry was there, or is about the output registered now.       *)
EntriesKept ==
  \A i \in DOMAIN pending' :
    \/ \E j \in DOMAIN pending : /\ pending'[i].gen = pending[j].gen
                                 /\ pending'[i].out = pending[j].out
    \/ /\ actor.at \notin {"swap", "evict"}
       /\ pending'[i].gen <= track.gen /\ pending'[i].out \in {0, registered}

LEMMA ActorSounds ==
  ASSUME IInv, ActorOnly, FlushesFree
  PROVE  Sounds'
<1> SUFFICES ASSUME NEW o \in Outputs PROVE Sound(o)'
  BY DEF Sounds
<1>1. Sound(o) /\ Alike(o) /\ UNCHANGED <<chan, dev>>
  BY DEF IInv, Sounds, ActorOnly
<1>2. \A g \in 1 .. Gens : Pushes(o, g)' <=> Pushes(o, g)
  BY <1>1 DEF Pushes
<1>3. Counting(o)' <=> Counting(o)
  BY <1>1 DEF Counting
<1>4. \A g, h \in 1 .. Gens : Pushes(o, g)' /\ Pushes(o, h)' => g = h
  BY <1>1, <1>2 DEF Sound, Counted
<1>5. Flushing(o)' => \A g \in 1 .. Gens : ~Pushes(o, g)'
  <2>1. Flushing(o) => \A g \in 1 .. Gens : ~Pushes(o, g)
    BY <1>1 DEF Sound, Floored
  <2>2. ~Held(o) => \A g \in 1 .. Gens : ~Pushes(o, g)
    BY DEF Held, Pushes
  <2> QED BY <1>2, <2>1, <2>2 DEF FlushesFree
<1>6. Cutting(o)' => Cutting(o)
  BY DEF FlushesFree
<1> QED BY <1>1, <1>3, <1>4, <1>5, <1>6, SoundKeep

LEMMA ActorEnding ==
  ASSUME IInv, ActorMoves, EndsHeld, EntriesKept, Learnt' => Learnt \/ Quiet
  PROVE  Ends' /\ Silent'
<1> USE DEF ActorMoves
<1>1. \A o \in Outputs : Finished(o) => Finished(o)'
  BY DEF Finished, Gone, Pushes
<1>2. \A o \in Outputs : UpToDate(o) => UpToDate(o)'
  BY DEF UpToDate, Unfinished
<1>3. \A o \in Outputs : out'[o].done => Finished(o)' \/ Advanced(o)'
  BY <1>1 DEF IInv, Ends, EndsHeld
<1>4. /\ registered # 0 => registered \in Outputs
      /\ \A j \in DOMAIN pending : pending[j].out # 0 => pending[j].out \in Outputs
  BY DEF IInv, Known, Fine
<1>5. registered # 0 /\ actor.at \notin {"swap", "evict"} =>
        \A o \in Outputs : o = registered => UpToDate(o)'
  BY <1>2, <1>4 DEF IInv, Ends
<1>6. registered' # 0 /\ actor'.at \notin {"swap", "evict"} => UpToDate(registered)'
  <2> SUFFICES ASSUME registered' # 0, actor'.at \notin {"swap", "evict"}
               PROVE  UpToDate(registered)'
    OBVIOUS
  <2>1. registered' = registered /\ actor.at \notin {"swap", "evict"}
    BY DEF EndsHeld
  <2>2. \A o \in Outputs : o = registered => UpToDate(o)'
    BY <1>5, <2>1
  <2> QED BY <1>4, <2>1, <2>2 DEF UpToDate, Unfinished
<1>7. ASSUME NEW i \in DOMAIN pending'
      PROVE  /\ pending'[i].gen <= track'.gen
             /\ pending'[i].out # 0 /\ pending'[i].gen = track'.gen => UpToDate(pending[i].out)'
  <2>1. CASE \E j \in DOMAIN pending : /\ pending'[i].gen = pending[j].gen
                                       /\ pending'[i].out = pending[j].out
    <3>1. PICK j \in DOMAIN pending : /\ pending'[i].gen = pending[j].gen
                                      /\ pending'[i].out = pending[j].out
      BY <2>1
    <3>2. pending[j].gen <= track.gen
      BY DEF IInv, Ends
    <3>3. ASSUME pending[j].out # 0, pending[j].gen = track.gen
          PROVE  UpToDate(pending[i].out)'
      <4>1. UpToDate(pending[j].out) /\ pending[j].out \in Outputs
        BY <1>4, <3>3 DEF IInv, Ends
      <4>2. \A o \in Outputs : o = pending[j].out => UpToDate(o)'
        BY <1>2, <4>1
      <4> QED BY <3>1, <4>1, <4>2 DEF UpToDate, Unfinished
    <3> QED BY <3>1, <3>2, <3>3
  <2>2. CASE /\ actor.at \notin {"swap", "evict"}
             /\ pending'[i].gen <= track.gen /\ pending'[i].out \in {0, registered}
    <3>1. ASSUME pending'[i].out # 0 PROVE UpToDate(pending[i].out)'
      <4>1. pending'[i].out = registered /\ registered \in Outputs
        BY <1>4, <2>2, <3>1
      <4>2. \A o \in Outputs : o = registered => UpToDate(o)'
        BY <1>5, <2>2, <3>1
      <4> QED BY <4>1, <4>2 DEF UpToDate, Unfinished
    <3> QED BY <2>2, <3>1
  <2> QED BY <2>1, <2>2 DEF EntriesKept
<1>8. Ends'
  BY <1>3, <1>6, <1>7 DEF Ends
<1>9. Silent'
  <2>1. Quiet => Quiet'
    BY DEF Quiet, Gone
  <2> QED BY <2>1 DEF Silent, IInv
<1> QED BY <1>8, <1>9

LEMMA ActorKeeps ==
  ASSUME IInv, Types', ActorOnly, PlacedActor', FlushesFree, EntriesKept,
         Learnt' => Learnt \/ Quiet
  PROVE  IInv'
<1>1. Known'
  <2>1. \A i \in DOMAIN pending' :
          \/ pending'[i].out \in {0, registered}
          \/ \E j \in DOMAIN pending : pending'[i].out = pending[j].out
    BY DEF EntriesKept
  <2>2. \A h \in 1 .. Gens : /\ chan'[h].out \in {0, chan[h].out, registered}
                             /\ chan'[h].started \in {0, chan[h].started, registered}
    BY DEF ActorOnly
  <2>3. \A o \in Outputs : /\ out[o].gen # 0 => out'[o].gen # 0
                           /\ out'[o].gen = 0 => out'[o] = out[o] /\ dev'[o] = dev[o]
    BY DEF ActorOnly, Alike
  <2> QED BY <2>1, <2>2, <2>3, KnownKeep DEF ActorOnly, IInv
<1>2. Placed'
  <2>1. PICK g \in 1 .. Gens : TRUE
    BY PlaybackAssumption
  <2>2. out'[g].gen = out[g].gen /\ (chan[g].out # 0 => chan[g].out \in Outputs)
    BY DEF ActorOnly, Alike, Outputs, IInv, Known, Fine
  <2>3. PlacedChan(g)'
    BY <2>2 DEF IInv, Placed, PlacedChan, ActorOnly, Alike, Serving
  <2>4. \A o \in Outputs : /\ out'[o].gen = out[o].gen /\ out'[o].floor = out[o].floor
                           /\ dev'[o].floor <= out[o].floor
    BY DEF IInv, Placed, PlacedOut, ActorOnly, Alike
  <2> QED BY <2>3, <2>4, PlacedKeep DEF ActorOnly, IInv
<1>3. ActorMoves /\ EndsHeld
  BY DEF ActorOnly, ActorMoves, Alike, FlushesFree
<1> QED BY <1>1, <1>2, <1>3, ActorSounds, ActorEnding DEF IInv

-----------------------------------------------------------------------------
(* The device callback.                                                    *)

(* The types of one output's records, one at a time.                       *)
LEMMA OutputSet ==
  ASSUME OutputTypes, NEW o \in Outputs, NEW r \in OutRecords, Len(r.ring) <= Ring,
         out' = [out EXCEPT ![o] = r]
  PROVE  /\ out' \in [Outputs -> OutRecords] /\ \A p \in Outputs : Len(out'[p].ring) <= Ring
         /\ out'[o] = r /\ \A p \in Outputs \ {o} : out'[p] = out[p]
BY DEF OutputTypes

LEMMA DeviceSet ==
  ASSUME OutputTypes, NEW o \in Outputs, NEW d \in DevRecords, dev' = [dev EXCEPT ![o] = d]
  PROVE  /\ dev' \in [Outputs -> DevRecords]
         /\ dev'[o] = d /\ \A p \in Outputs \ {o} : dev'[p] = dev[p]
BY DEF OutputTypes

(* A step of one output's callback, which touches neither who pushes to it *)
(* nor what its threads hold it for.                                       *)
DeviceOnly(o) ==
  /\ UNCHANGED <<producer, track, registered, chan, actor, pending, cancelled>>
  /\ \A p \in Outputs \ {o} : out'[p] = out[p] /\ dev'[p] = dev[p]
  /\ out[o].gen # 0
  /\ out'[o].gen = out[o].gen /\ out'[o].floor = out[o].floor /\ out'[o].done = out[o].done
  /\ out[o].ring = <<>> => out'[o].ring = <<>>
  /\ dev'[o].floor <= out[o].floor

LEMMA DeviceKeeps ==
  ASSUME IInv, NEW o \in Outputs, OutputTypes', DeviceOnly(o), Sound(o)'
  PROVE  IInv'
<1> USE DEF DeviceOnly
<1>1. Types'
  BY DEF IInv, Types, PendingTypes, Waits
<1>2. \A p \in Outputs : out'[p].gen = out[p].gen /\ out'[p].floor = out[p].floor
                         /\ out'[p].done = out[p].done
  OBVIOUS
<1>3. Known'
  <2>1. \A p \in Outputs : /\ out[p].gen # 0 => out'[p].gen # 0
                           /\ out'[p].gen = 0 => out'[p] = out[p] /\ dev'[p] = dev[p]
    OBVIOUS
  <2>2. /\ registered' \in {0, registered} /\ actor'.out \in {0, actor.out, registered}
        /\ \A i \in DOMAIN pending' : \E j \in DOMAIN pending : pending'[i].out = pending[j].out
        /\ \A g \in 1 .. Gens : /\ chan'[g].out \in {0, chan[g].out, registered}
                                /\ chan'[g].started \in {0, chan[g].started, registered}
    OBVIOUS
  <2> QED BY <2>1, <2>2, KnownKeep DEF IInv
<1>4. Placed'
  <2>1. PICK g \in 1 .. Gens : TRUE
    BY PlaybackAssumption
  <2>2. out'[g].gen = out[g].gen /\ (chan[g].out # 0 => chan[g].out \in Outputs)
    BY <1>2 DEF Outputs, IInv, Known, Fine
  <2>3. PlacedChan(g)'
    BY <1>2, <2>2 DEF IInv, Placed, PlacedChan, Serving
  <2>4. PlacedActor'
    BY DEF IInv, Placed, PlacedActor
  <2>5. \A p \in Outputs : dev'[p].floor <= out[p].floor
    BY DEF IInv, Placed, PlacedOut
  <2> QED BY <1>2, <2>3, <2>4, <2>5, PlacedKeep DEF IInv
<1>5. Sounds'
  <2> SUFFICES ASSUME NEW p \in Outputs \ {o} PROVE Sound(p)'
    BY DEF Sounds
  <2>1. Sound(p) /\ out'[p] = out[p] /\ dev'[p] = dev[p]
    BY DEF IInv, Sounds
  <2>2. /\ \A g \in 1 .. Gens : Pushes(p, g)' <=> Pushes(p, g)
        /\ Counting(p)' <=> Counting(p)
        /\ Flushing(p)' <=> Flushing(p)
    BY DEF Pushes, Counting, Flushing
  <2>3. Cutting(p)' <=> Cutting(p)
    BY DEF Cutting
  <2> HIDE DEF DeviceOnly
  <2>4. Counted(p)'
    BY <2>1, <2>2 DEF Sound, Counted, Index
  <2>5. Lined(p)'
    BY <2>1 DEF Sound, Lined, Index
  <2>6. Floored(p)'
    BY <2>1, <2>2, <2>3 DEF Sound, Floored, Index
  <2>7. InHand(p)'
    BY <2>1 DEF Sound, InHand
  <2> QED BY <2>4, <2>5, <2>6, <2>7 DEF Sound
<1>6. Ends'
  <2>1. \A p \in Outputs : Finished(p) => Finished(p)'
    BY <1>2 DEF Finished, Gone, Pushes
  <2>2. \A p \in Outputs : UpToDate(p) => UpToDate(p)'
    BY <1>2 DEF UpToDate, Unfinished
  <2>3. \A p \in Outputs : out'[p].done => Finished(p)' \/ Advanced(p)'
    BY <1>2, <2>1 DEF IInv, Ends, Advanced
  <2>4. registered' # 0 /\ actor'.at \notin {"swap", "evict"} => UpToDate(registered)'
    <3> SUFFICES ASSUME registered # 0, actor.at \notin {"swap", "evict"}
                 PROVE  UpToDate(registered)'
      OBVIOUS
    <3>1. UpToDate(registered) /\ registered \in Outputs
      BY DEF IInv, Ends, Known, Fine
    <3>2. \A p \in Outputs : p = registered => UpToDate(p)'
      BY <2>2, <3>1
    <3> QED BY <3>1, <3>2 DEF UpToDate, Unfinished
  <2>5. ASSUME NEW i \in DOMAIN pending'
        PROVE  /\ pending'[i].gen <= track'.gen
               /\ pending'[i].out # 0 /\ pending'[i].gen = track'.gen => UpToDate(pending[i].out)'
    <3>1. i \in DOMAIN pending /\ pending[i].gen <= track.gen
      BY DEF IInv, Ends
    <3>2. ASSUME pending[i].out # 0, pending[i].gen = track.gen PROVE UpToDate(pending[i].out)'
      <4>1. UpToDate(pending[i].out) /\ pending[i].out \in Outputs
        BY <3>1, <3>2 DEF IInv, Ends, Known, Fine
      <4>2. \A p \in Outputs : p = pending[i].out => UpToDate(p)'
        BY <2>2, <4>1
      <4> QED BY <4>1, <4>2 DEF UpToDate, Unfinished
    <3> QED BY <3>1, <3>2
  <2> QED BY <2>3, <2>4, <2>5 DEF Ends
<1>7. Silent'
  <2>1. Quiet => Quiet'
    BY <1>2 DEF Quiet, Gone
  <2>2. Learnt' <=> Learnt
    BY DEF Learnt
  <2> QED BY <2>1, <2>2 DEF Silent, IInv
<1> QED BY <1>1, <1>3, <1>4, <1>5, <1>6, <1>7 DEF IInv

(* What the invariant says of an output that is open. *)
LEMMA OpenOutputIs ==
  ASSUME IInv, NEW o \in Outputs, out[o].gen # 0 \/ dev[o].at # "idle" \/ out[o].ring # <<>>
  PROVE  /\ out[o] \in OutRecords /\ dev[o] \in DevRecords /\ OutputTypes /\ Sound(o)
         /\ out[o].gen # 0 /\ Len(out[o].ring) <= Ring /\ PlacedOut(o)
         /\ out[o].queued \in Nat /\ out[o].played \in Nat /\ out[o].cut \in Nat
         /\ out[o].line \in Nat /\ out[o].ring \in Seq(Samples) /\ dev[o].heard \in Seq(Samples)
         /\ out[o].gen \in Nat /\ out[o].floor \in Nat /\ dev[o].floor \in Nat
<1>1. out[o] \in OutRecords /\ dev[o] \in DevRecords /\ OutputTypes /\ Sound(o) /\ PlacedOut(o)
  BY DEF IInv, Types, OutputTypes, Sounds, Placed
<1>2. out[o].gen # 0
  BY DEF IInv, Known, Untouched, Unopened
<1> QED BY <1>1, <1>2, PlaybackAssumption DEF OutRecords, DevRecords, OutputTypes

(* A ring in two halves. *)
LEMMA Halves ==
  ASSUME NEW S, NEW q \in Seq(S), NEW n \in 0 .. Len(q)
  PROVE  /\ SubSeq(q, n + 1, Len(q)) \in Seq(S) /\ Len(SubSeq(q, n + 1, Len(q))) = Len(q) - n
         /\ \A j \in 1 .. Len(q) - n : SubSeq(q, n + 1, Len(q))[j] = q[n + j]
         /\ SubSeq(q, 1, n) \in Seq(S) /\ Len(SubSeq(q, 1, n)) = n
         /\ \A j \in 1 .. n : SubSeq(q, 1, n)[j] = q[j]
<1> DEFINE L == Len(q)
           rest == SubSeq(q, n + 1, L)
           first == SubSeq(q, 1, n)
<1>1. L \in Nat /\ n \in Nat /\ n <= L /\ (\A i \in 1 .. L : q[i] \in S)
  OBVIOUS
<1> HIDE DEF L
<1>2. /\ n + 1 \in Int /\ L \in Int /\ 1 \in Int /\ n \in Int
      /\ \A i \in n + 1 .. L : q[i] \in S
      /\ \A i \in 1 .. n : q[i] \in S
  BY <1>1
<1>3. /\ rest \in Seq(S) /\ Len(rest) = (IF n + 1 <= L THEN L - (n + 1) + 1 ELSE 0)
      /\ \A j \in 1 .. L - (n + 1) + 1 : rest[j] = q[(n + 1) + j - 1]
  BY <1>2, SubSeqProperties
<1>4. /\ first \in Seq(S) /\ Len(first) = (IF 1 <= n THEN n - 1 + 1 ELSE 0)
      /\ \A j \in 1 .. n - 1 + 1 : first[j] = q[1 + j - 1]
  BY <1>2, SubSeqProperties
<1> HIDE DEF rest, first
<1>5. L - (n + 1) + 1 = L - n /\ (~(n + 1 <= L) => L - n = 0)
  BY <1>1
<1>6. ASSUME NEW j \in 1 .. L - n PROVE rest[j] = q[n + j]
  <2>1. (n + 1) + j - 1 = n + j
    BY <1>1
  <2>2. rest[j] = q[(n + 1) + j - 1]
    BY <1>3, <1>5
  <2> QED BY <2>1, <2>2
<1>7. ASSUME NEW j \in 1 .. n PROVE first[j] = q[j]
  <2>1. 1 + j - 1 = j /\ n - 1 + 1 = n
    BY <1>1
  <2>2. first[j] = q[1 + j - 1]
    BY <1>4, <2>1
  <2> QED BY <2>1, <2>2
<1>8. Len(rest) = L - n /\ Len(first) = n
  BY <1>1, <1>3, <1>4, <1>5
<1> QED BY <1>3, <1>4, <1>6, <1>7, <1>8 DEF rest, first, L

(* It drops what a reset left, from the front of the ring: all of that was *)
(* pushed before the reset.                                                *)
LEMMA SkipKeeps ==
  ASSUME IInv, NEW o \in Outputs, DeviceSkip(o)
  PROVE  IInv'
<1> DEFINE R == out[o].ring
           n == IF Outstanding(o) < Len(R) THEN Outstanding(o) ELSE Len(R)
           r == [out[o] EXCEPT !.ring = SubSeq(R, n + 1, Len(R))]
           d == [at |-> "skipped", heard |-> SubSeq(R, 1, n), floor |-> out[o].floor]
<1>1. /\ dev[o].at = "idle" /\ Outstanding(o) > 0 /\ R # <<>>
      /\ out' = [out EXCEPT ![o] = r] /\ dev' = [dev EXCEPT ![o] = d]
      /\ UNCHANGED <<producer, track, registered, chan, actor, pending, cancelled>>
  BY DEF DeviceSkip
<1>2. /\ out[o] \in OutRecords /\ dev[o] \in DevRecords /\ OutputTypes /\ Sound(o)
      /\ out[o].gen # 0 /\ Len(R) <= Ring /\ R \in Seq(Samples)
      /\ out[o].queued \in Nat /\ out[o].played \in Nat /\ out[o].cut \in Nat
      /\ out[o].floor \in 0 .. Gens
  BY <1>1, OpenOutputIs DEF OutRecords
<1>3. /\ n \in Nat /\ 1 <= n /\ n <= Len(R) /\ out[o].played + n <= out[o].cut /\ Len(R) \in Nat
  BY <1>1, <1>2 DEF Outstanding
<1> DEFINE rest == SubSeq(R, n + 1, Len(R))
           first == SubSeq(R, 1, n)
<1> HIDE DEF n
<1>4. /\ rest \in Seq(Samples) /\ Len(rest) = Len(R) - n
      /\ \A j \in DOMAIN rest : rest[j] = R[n + j] /\ n + j \in DOMAIN R
      /\ first \in Seq(Samples) /\ Len(first) = n
      /\ \A j \in DOMAIN first : first[j] = R[j] /\ j \in DOMAIN R /\ j <= n
  <2> HIDE DEF R
  <2>1. n \in 0 .. Len(R)
    BY <1>2, <1>3
  <2>2. /\ rest \in Seq(Samples) /\ Len(rest) = Len(R) - n
        /\ \A j \in 1 .. Len(R) - n : rest[j] = R[n + j]
        /\ first \in Seq(Samples) /\ Len(first) = n
        /\ \A j \in 1 .. n : first[j] = R[j]
    BY <1>2, <2>1, Halves
  <2> HIDE DEF rest, first
  <2>3. DOMAIN rest = 1 .. Len(R) - n /\ DOMAIN first = 1 .. n /\ DOMAIN R = 1 .. Len(R)
    BY <1>2, <1>3, <2>2
  <2> QED BY <1>3, <2>2, <2>3
<1>5. /\ r = [out[o] EXCEPT !.ring = rest]
      /\ d = [at |-> "skipped", heard |-> first, floor |-> out[o].floor]
  BY DEF rest, first
<1> HIDE DEF R, rest, first, r, d
<1>6. r \in OutRecords /\ d \in DevRecords /\ Len(r.ring) <= Ring /\ r.ring = rest
  <2>1. r \in OutRecords /\ r.ring = rest
    BY <1>2, <1>4, <1>5 DEF OutRecords
  <2>2. d \in DevRecords
    BY <1>2, <1>4, <1>5 DEF DevRecords
  <2> QED BY <1>2, <1>3, <1>4, <2>1, <2>2, PlaybackAssumption
<1>7. /\ r.gen = out[o].gen /\ r.floor = out[o].floor /\ r.done = out[o].done
      /\ r.queued = out[o].queued /\ r.played = out[o].played /\ r.cut = out[o].cut
      /\ r.line = out[o].line
  BY <1>2, <1>5 DEF OutRecords
<1>8. d.at = "skipped" /\ d.heard = first /\ d.floor = out[o].floor
  BY <1>5
<1>9. /\ OutputTypes' /\ out'[o] = r /\ dev'[o] = d
      /\ \A p \in Outputs \ {o} : out'[p] = out[p] /\ dev'[p] = dev[p]
  BY <1>1, <1>2, <1>6, OutputSet, DeviceSet DEF OutputTypes
<1>10. /\ dev[o].heard = <<>> /\ Len(dev[o].heard) = 0
  BY <1>1, <1>2 DEF Sound, Counted
<1>11. \A j \in Nat : Index(o, j)' = Index(o, n + j)
  BY <1>2, <1>3, <1>4, <1>7, <1>8, <1>9, <1>10 DEF Index
<1>12. Counted(o)'
  <2>1. Index(o, Len(out[o].ring))' = Index(o, Len(R))
    BY <1>2, <1>3, <1>4, <1>6, <1>7, <1>8, <1>9, <1>10 DEF Index
  <2> QED BY <1>1, <1>2, <1>7, <1>8, <1>9, <2>1 DEF Sound, Counted, Pushes, Counting, R
<1>13. Lined(o)' /\ InHand(o)'
  <2>1. \A j \in DOMAIN R : /\ R[j].line <= out[o].line
                            /\ (Index(o, j) <= out[o].cut => R[j].line < out[o].line)
    BY <1>2 DEF Sound, Lined, R
  <2>2. ASSUME NEW j \in DOMAIN rest
        PROVE  /\ rest[j].line <= out[o].line
               /\ (Index(o, j)' <= out[o].cut => rest[j].line < out[o].line)
    <3>1. Index(o, j)' = Index(o, n + j)
      BY <1>4, <1>11
    <3> QED BY <1>4, <2>1, <3>1
  <2>3. \A j \in DOMAIN first : first[j].line < out[o].line
    <3> SUFFICES ASSUME NEW j \in DOMAIN first PROVE R[j].line < out[o].line
      BY <1>4
    <3>1. Index(o, j) = out[o].played + j /\ j <= n /\ j \in DOMAIN R /\ j \in Nat
      BY <1>2, <1>3, <1>4, <1>10 DEF Index
    <3> QED BY <1>2, <1>3, <2>1, <3>1
  <2> QED BY <1>6, <1>7, <1>8, <1>9, <2>2, <2>3 DEF Lined, InHand
<1>14. Floored(o)'
  <2>1. \A j \in DOMAIN R : R[j].gen < out[o].floor => Index(o, j) <= out[o].cut
    BY <1>2 DEF Sound, Floored, R
  <2>2. /\ Flushing(o)' <=> Flushing(o) 
        /\ \A g \in 1 .. Gens : Pushes(o, g)' <=> Pushes(o, g)
    BY <1>1 DEF Flushing, Pushes
  <2>3. \A j \in DOMAIN rest : rest[j].gen < out[o].floor => Index(o, j)' <= out[o].cut
    <3> SUFFICES ASSUME NEW j \in DOMAIN rest, rest[j].gen < out[o].floor
                 PROVE  Index(o, j)' <= out[o].cut
      OBVIOUS
    <3>1. Index(o, j)' = Index(o, n + j)
      BY <1>4, <1>11
    <3> QED BY <1>4, <2>1, <3>1
  <2>4. Cutting(o)' => \A j \in DOMAIN rest : Index(o, j)' <= out[o].cut
    <3> SUFFICES ASSUME Cutting(o)', NEW j \in DOMAIN rest PROVE Index(o, j)' <= out[o].cut
      OBVIOUS
    <3>1. Cutting(o)
      BY <1>1 DEF Cutting
    <3>2. Index(o, j)' = Index(o, n + j) /\ n + j \in DOMAIN R
      BY <1>4, <1>11
    <3> QED BY <1>2, <3>1, <3>2 DEF Sound, Floored, R
  <2> QED BY <1>2, <1>6, <1>7, <1>8, <1>9, <2>2, <2>3, <2>4 DEF Floored, Sound
<1>15. DeviceOnly(o)
  BY <1>1, <1>2, <1>7, <1>8, <1>9 DEF DeviceOnly, R
<1> QED BY <1>9, <1>12, <1>13, <1>14, <1>15, DeviceKeeps DEF Sound

(* It publishes what it dropped or played: the samples it held.            *)
LEMMA PublishKeeps ==
  ASSUME IInv, NEW o \in Outputs, NEW r \in OutRecords, dev[o].at \in {"skipped", "popped"},
         /\ r.played = out[o].played + Len(dev[o].heard)
         /\ r.queued = out[o].queued /\ r.cut = out[o].cut /\ r.line = out[o].line
         /\ r.ring = out[o].ring /\ r.gen = out[o].gen /\ r.floor = out[o].floor
         /\ r.done = out[o].done,
         out' = [out EXCEPT ![o] = r],
         dev' = [dev EXCEPT ![o] = [dev[o] EXCEPT !.at = "idle", !.heard = <<>>]],
         UNCHANGED <<producer, track, registered, chan, actor, pending, cancelled>>
  PROVE  IInv'
<1> DEFINE d == [dev[o] EXCEPT !.at = "idle", !.heard = <<>>]
<1>1. /\ out[o] \in OutRecords /\ dev[o] \in DevRecords /\ OutputTypes /\ Sound(o)
      /\ out[o].gen # 0 /\ Len(out[o].ring) <= Ring /\ out[o].ring \in Seq(Samples)
      /\ out[o].played \in Nat /\ dev[o].heard \in Seq(Samples) /\ dev[o].floor <= out[o].floor
  BY OpenOutputIs DEF PlacedOut
<1>2. d \in DevRecords /\ d.at = "idle" /\ d.heard = <<>> /\ d.floor = dev[o].floor
      /\ Len(<<>>) = 0
  <2>1. <<>> \in Seq(Samples) /\ Len(<<>>) = 0
    OBVIOUS
  <2>2. d \in DevRecords
    BY <1>1, <2>1 DEF DevRecords
  <2>3. d.at = "idle" /\ d.heard = <<>> /\ d.floor = dev[o].floor
    BY <1>1 DEF DevRecords
  <2> QED BY <2>1, <2>2, <2>3
<1> HIDE DEF d
<1>3. dev' = [dev EXCEPT ![o] = d]
  BY DEF d
<1>4. /\ OutputTypes' /\ out'[o] = r /\ dev'[o] = d
      /\ \A p \in Outputs \ {o} : out'[p] = out[p] /\ dev'[p] = dev[p]
  BY <1>1, <1>2, <1>3, OutputSet, DeviceSet DEF OutputTypes
<1>5. ASSUME NEW j \in Nat PROVE Index(o, j)' = Index(o, j)
  <2>1. Len(dev[o].heard) \in Nat
    BY <1>1
  <2> QED BY <1>1, <1>2, <1>4, <2>1 DEF Index
<1>6. /\ \A g \in 1 .. Gens : Pushes(o, g)' <=> Pushes(o, g)
      /\ Counting(o)' <=> Counting(o)
      /\ Flushing(o)' <=> Flushing(o)
      /\ Cutting(o)' <=> Cutting(o)
  BY DEF Pushes, Counting, Flushing, Cutting
<1>7. DOMAIN out[o].ring \subseteq Nat /\ Len(out[o].ring) \in Nat
  BY <1>1
<1>8. Counted(o)'
  <2>1. Index(o, Len(out[o].ring))' = Index(o, Len(out[o].ring))
    <3>1. Len(out'[o].ring) = Len(out[o].ring)
      BY <1>4
    <3>2. Index(o, Len(out[o].ring))' = out'[o].played + Len(dev'[o].heard) + Len(out[o].ring)
      BY <3>1 DEF Index
    <3>3. Len(dev[o].heard) \in Nat
      BY <1>1
    <3> QED BY <1>1, <1>2, <1>4, <1>7, <3>2, <3>3 DEF Index
  <2> QED BY <1>1, <1>2, <1>4, <1>6, <2>1 DEF Sound, Counted
<1>9. Lined(o)'
  BY <1>1, <1>4, <1>5, <1>7 DEF Sound, Lined
<1>10. Floored(o)'
  BY <1>1, <1>2, <1>4, <1>5, <1>6, <1>7 DEF Sound, Floored
<1>11. InHand(o)'
  BY <1>2, <1>4 DEF InHand
<1>12. DeviceOnly(o)
  BY <1>1, <1>2, <1>4 DEF DeviceOnly
<1> QED BY <1>4, <1>8, <1>9, <1>10, <1>11, <1>12, DeviceKeeps DEF Sound

LEMMA SkippedKeeps ==
  ASSUME IInv, NEW o \in Outputs, DeviceSkipped(o)
  PROVE  IInv'
<1> DEFINE p == out[o].played + Len(dev[o].heard)
           r == [out[o] EXCEPT !.played = p]
<1>1. /\ dev[o].at = "skipped" /\ out' = [out EXCEPT ![o] = r]
      /\ dev' = [dev EXCEPT ![o] = [dev[o] EXCEPT !.at = "idle", !.heard = <<>>]]
      /\ UNCHANGED <<producer, track, registered, chan, actor, pending, cancelled>>
  BY DEF DeviceSkipped
<1>2. out[o] \in OutRecords /\ out[o].played \in Nat /\ dev[o].heard \in Seq(Samples)
  BY <1>1, OpenOutputIs
<1>3. p \in Nat
  BY <1>2
<1> HIDE DEF p
<1>4. /\ r \in OutRecords /\ r.played = p
      /\ r.queued = out[o].queued /\ r.cut = out[o].cut /\ r.line = out[o].line
      /\ r.ring = out[o].ring /\ r.gen = out[o].gen /\ r.floor = out[o].floor
      /\ r.done = out[o].done
  BY <1>2, <1>3 DEF OutRecords
<1> HIDE DEF r
<1> QED BY <1>1, <1>4, PublishKeeps DEF p

LEMMA PlayedKeeps ==
  ASSUME IInv, NEW o \in Outputs, DevicePlayed(o)
  PROVE  IInv'
<1> DEFINE p == out[o].played + 1
           r == [out[o] EXCEPT !.played = p, !.rendered = TRUE]
<1>1. /\ dev[o].at = "popped" /\ out' = [out EXCEPT ![o] = r]
      /\ dev' = [dev EXCEPT ![o] = [dev[o] EXCEPT !.at = "idle", !.heard = <<>>]]
      /\ UNCHANGED <<producer, track, registered, chan, actor, pending, cancelled>>
  BY DEF DevicePlayed
<1>2. out[o] \in OutRecords /\ out[o].played \in Nat /\ Sound(o)
  BY <1>1, OpenOutputIs
<1>3. p \in Nat /\ p = out[o].played + Len(dev[o].heard)
  <2>1. Len(dev[o].heard) = 1
    BY <1>1, <1>2 DEF Sound, Counted
  <2> QED BY <1>2, <2>1
<1> HIDE DEF p
<1>4. /\ r \in OutRecords /\ r.played = p
      /\ r.queued = out[o].queued /\ r.cut = out[o].cut /\ r.line = out[o].line
      /\ r.ring = out[o].ring /\ r.gen = out[o].gen /\ r.floor = out[o].floor
      /\ r.done = out[o].done
  BY <1>2, <1>3 DEF OutRecords
<1> HIDE DEF r
<1> QED BY <1>1, <1>3, <1>4, PublishKeeps

(* A callback begins with nothing left to drop, so that what is in the     *)
(* ring is of the generations it may play.                                 *)
LEMMA BeginKeeps ==
  ASSUME IInv, NEW o \in Outputs, DeviceBegin(o)
  PROVE  IInv'
<1> DEFINE at == IF out[o].prebuffered THEN "pop" ELSE "gate"
           d == [dev[o] EXCEPT !.at = at, !.floor = out[o].floor]
<1>1. /\ out[o].gen # 0 /\ dev[o].at = "idle" /\ (Outstanding(o) = 0 \/ out[o].ring = <<>>)
      /\ dev' = [dev EXCEPT ![o] = d] /\ UNCHANGED out
      /\ UNCHANGED <<producer, track, registered, chan, actor, pending, cancelled>>
  BY DEF DeviceBegin, Alive
<1>2. /\ out[o] \in OutRecords /\ dev[o] \in DevRecords /\ OutputTypes /\ Sound(o)
      /\ Len(out[o].ring) <= Ring /\ out[o].ring \in Seq(Samples)
      /\ out[o].played \in Nat /\ out[o].cut \in Nat /\ out[o].floor \in 0 .. Gens
      /\ out[o].floor \in Nat /\ dev[o].heard = <<>>
  BY <1>1, OpenOutputIs DEF OutRecords, Sound, Counted
<1>3. d \in DevRecords /\ d.at \in {"pop", "gate"} /\ d.heard = <<>> /\ d.floor = out[o].floor
  BY <1>2 DEF DevRecords
<1> HIDE DEF d
<1>4. OutputTypes' /\ dev'[o] = d /\ \A p \in Outputs \ {o} : dev'[p] = dev[p]
  BY <1>1, <1>2, <1>3, DeviceSet DEF OutputTypes
<1>5. \A j : Index(o, j)' = Index(o, j)
  BY <1>1, <1>2, <1>3, <1>4 DEF Index
<1>6. /\ \A g \in 1 .. Gens : Pushes(o, g)' <=> Pushes(o, g)
      /\ Counting(o)' <=> Counting(o)
      /\ Flushing(o)' <=> Flushing(o)
      /\ Cutting(o)' <=> Cutting(o)
  BY <1>1 DEF Pushes, Counting, Flushing, Cutting
<1>7. Counted(o)'
  BY <1>1, <1>2, <1>3, <1>4, <1>6 DEF Sound, Counted, Index
<1>8. Lined(o)'
  BY <1>1, <1>2, <1>5 DEF Sound, Lined
<1>9. \A j \in DOMAIN out[o].ring : out[o].ring[j].gen >= out[o].floor
  <2> SUFFICES ASSUME NEW j \in DOMAIN out[o].ring, out[o].ring[j].gen < out[o].floor
               PROVE  FALSE
    <3>1. \A j \in DOMAIN out[o].ring : out[o].ring[j] \in Samples
      BY <1>2
    <3> QED BY <1>2, <3>1 DEF Samples
  <2>1. j \in Nat /\ j >= 1 /\ out[o].ring # <<>>
    BY <1>2
  <2>2. Index(o, j) = out[o].played + j
    BY <1>2, <2>1 DEF Index
  <2>3. Index(o, j) <= out[o].cut
    BY <1>2 DEF Sound, Floored
  <2> QED BY <1>1, <1>2, <2>1, <2>2, <2>3 DEF Outstanding
<1>10. Floored(o)'
  BY <1>1, <1>2, <1>3, <1>4, <1>5, <1>6, <1>9 DEF Sound, Floored
<1>11. InHand(o)'
  BY <1>3, <1>4 DEF InHand
<1>12. DeviceOnly(o)
  BY <1>1, <1>2, <1>3, <1>4 DEF DeviceOnly
<1> QED BY <1>4, <1>7, <1>8, <1>10, <1>11, <1>12, DeviceKeeps DEF Sound

(* It takes the first sample of the ring. *)
LEMMA PopKeeps ==
  ASSUME IInv, NEW o \in Outputs, DevicePop(o)
  PROVE  IInv'
<1> DEFINE R == out[o].ring
           n == IF R = <<>> THEN 0 ELSE 1
           opens == dev[o].at = "gate"
           rest == SubSeq(R, n + 1, Len(R))
           first == SubSeq(R, 1, n)
           w == out[o].waiting /\ ~opens
           b == out[o].prebuffered \/ opens
           at == IF n = 0 THEN "idle" ELSE "popped"
           r == [out[o] EXCEPT !.ring = rest, !.waiting = w, !.prebuffered = b]
           d == [dev[o] EXCEPT !.at = at, !.heard = first]
<1>1. /\ dev[o].at \in {"gate", "pop"}
      /\ out' = [out EXCEPT ![o] = r] /\ dev' = [dev EXCEPT ![o] = d]
      /\ UNCHANGED <<producer, track, registered, chan, actor, pending, cancelled>>
  BY DEF DevicePop
<1>2. /\ out[o] \in OutRecords /\ dev[o] \in DevRecords /\ OutputTypes /\ Sound(o)
      /\ out[o].gen # 0 /\ Len(R) <= Ring /\ R \in Seq(Samples)
      /\ out[o].queued \in Nat /\ out[o].played \in Nat /\ out[o].cut \in Nat
      /\ dev[o].heard = <<>> /\ Len(dev[o].heard) = 0 /\ dev[o].floor <= out[o].floor
      /\ out[o].waiting \in BOOLEAN /\ out[o].prebuffered \in BOOLEAN
  <2>1. /\ out[o] \in OutRecords /\ dev[o] \in DevRecords /\ OutputTypes /\ Sound(o)
        /\ out[o].gen # 0 /\ Len(R) <= Ring /\ R \in Seq(Samples)
        /\ out[o].queued \in Nat /\ out[o].played \in Nat /\ out[o].cut \in Nat
        /\ dev[o].floor <= out[o].floor
    BY <1>1, OpenOutputIs DEF PlacedOut
  <2>2. dev[o].heard = <<>> /\ Len(<<>>) = 0
    BY <1>1, <2>1 DEF Sound, Counted
  <2>3. out[o].waiting \in BOOLEAN /\ out[o].prebuffered \in BOOLEAN
    BY <2>1 DEF OutRecords
  <2> QED BY <2>1, <2>2, <2>3
<1>3. n \in {0, 1} /\ n \in Nat /\ n <= Len(R) /\ (n = 0 => R = <<>>) /\ Len(R) \in Nat
  BY <1>2
<1>4. /\ rest \in Seq(Samples) /\ Len(rest) = Len(R) - n
      /\ \A j \in DOMAIN rest : rest[j] = R[n + j] /\ n + j \in DOMAIN R /\ j \in Nat
      /\ first \in Seq(Samples) /\ Len(first) = n
      /\ \A j \in DOMAIN first : first[j] = R[j] /\ j \in DOMAIN R
  <2> HIDE DEF R, n
  <2>1. n \in 0 .. Len(R)
    BY <1>2, <1>3
  <2>2. /\ rest \in Seq(Samples) /\ Len(rest) = Len(R) - n
        /\ \A j \in 1 .. Len(R) - n : rest[j] = R[n + j]
        /\ first \in Seq(Samples) /\ Len(first) = n
        /\ \A j \in 1 .. n : first[j] = R[j]
    BY <1>2, <2>1, Halves
  <2> HIDE DEF rest, first
  <2>3. DOMAIN rest = 1 .. Len(R) - n /\ DOMAIN first = 1 .. n /\ DOMAIN R = 1 .. Len(R)
    BY <1>2, <1>3, <2>2
  <2> QED BY <1>3, <2>2, <2>3
<1>5. R = <<>> => rest = <<>>
  <2> HIDE DEF R, rest
  <2> QED BY <1>3, <1>4
<1>6. w \in BOOLEAN /\ b \in BOOLEAN
  OBVIOUS
<1>7. /\ at \in {"idle", "popped"} /\ (at = "popped" => n = 1)
      /\ (at = "idle" => n = 0 /\ first = <<>>)
  <2> HIDE DEF first, n
  <2> QED BY <1>3, <1>4
<1> HIDE DEF R, n, rest, first, w, b, at
<1>8. /\ r \in OutRecords /\ r.ring = rest /\ r.gen = out[o].gen /\ r.floor = out[o].floor
      /\ r.done = out[o].done /\ r.queued = out[o].queued /\ r.played = out[o].played
      /\ r.cut = out[o].cut /\ r.line = out[o].line
  BY <1>2, <1>4, <1>6 DEF OutRecords
<1>9. /\ d \in DevRecords /\ d.at = at /\ d.heard = first /\ d.floor = dev[o].floor
  BY <1>2, <1>4, <1>7 DEF DevRecords
<1> HIDE DEF r, d
<1>10. Len(rest) <= Ring
  BY <1>2, <1>3, <1>4, PlaybackAssumption
<1>11. /\ OutputTypes' /\ out'[o] = r /\ dev'[o] = d
       /\ \A p \in Outputs \ {o} : out'[p] = out[p] /\ dev'[p] = dev[p]
  BY <1>1, <1>2, <1>8, <1>9, <1>10, OutputSet, DeviceSet DEF OutputTypes
<1>12. /\ \A j \in Nat : Index(o, j)' = Index(o, n + j)
       /\ Index(o, Len(out[o].ring))' = Index(o, Len(R))
  <2>1. /\ out'[o].played = out[o].played /\ Len(dev'[o].heard) = n /\ Len(dev[o].heard) = 0
        /\ out'[o].ring = rest
    BY <1>2, <1>4, <1>8, <1>9, <1>11
  <2>2. ASSUME NEW j \in Nat PROVE out[o].played + n + j = out[o].played + 0 + (n + j)
    BY <1>2, <1>3
  <2>3. out[o].played + n + (Len(R) - n) = out[o].played + 0 + Len(R)
    BY <1>2, <1>3
  <2> QED BY <1>4, <2>1, <2>2, <2>3 DEF Index
<1>13. /\ \A g \in 1 .. Gens : Pushes(o, g)' <=> Pushes(o, g)
       /\ Counting(o)' <=> Counting(o)
       /\ Flushing(o)' <=> Flushing(o)
       /\ Cutting(o)' <=> Cutting(o)
  BY <1>1 DEF Pushes, Counting, Flushing, Cutting
<1>14. Counted(o)'
  BY <1>2, <1>4, <1>7, <1>8, <1>9, <1>11, <1>12, <1>13 DEF Sound, Counted, R
<1>15. Lined(o)'
  <2>1. \A j \in DOMAIN R : /\ R[j].line <= out[o].line
                            /\ Index(o, j) <= out[o].cut => R[j].line < out[o].line
    BY <1>2 DEF Sound, Lined, R
  <2>2. ASSUME NEW j \in DOMAIN rest
        PROVE  /\ rest[j].line <= out[o].line
               /\ Index(o, j)' <= out[o].cut => rest[j].line < out[o].line
    <3>1. Index(o, j)' = Index(o, n + j)
      BY <1>4, <1>12
    <3> QED BY <1>4, <2>1, <3>1
  <2> QED BY <1>8, <1>11, <2>2 DEF Lined
<1>16. Floored(o)'
  <2>1. \A j \in DOMAIN R : R[j].gen < out[o].floor => Index(o, j) <= out[o].cut
    BY <1>2 DEF Sound, Floored, R
  <2>2. ASSUME NEW j \in DOMAIN rest, rest[j].gen < out[o].floor
        PROVE  Index(o, j)' <= out[o].cut
    <3>1. Index(o, j)' = Index(o, n + j)
      BY <1>4, <1>12, <2>2
    <3> QED BY <1>4, <2>1, <2>2, <3>1
  <2>3. Cutting(o)' => \A j \in DOMAIN rest : Index(o, j)' <= out[o].cut
    <3> SUFFICES ASSUME Cutting(o), NEW j \in DOMAIN rest PROVE Index(o, j)' <= out[o].cut
      BY <1>13
    <3>1. Index(o, j)' = Index(o, n + j) /\ n + j \in DOMAIN R
      BY <1>4, <1>12
    <3> QED BY <1>2, <3>1 DEF Sound, Floored, R
  <2> QED BY <1>2, <1>7, <1>8, <1>9, <1>11, <1>13, <2>2, <2>3 DEF Floored, Sound
<1>17. InHand(o)'
  <2>1. \A j \in DOMAIN R : R[j].gen >= dev[o].floor
    BY <1>1, <1>2 DEF Sound, Floored, R
  <2> QED BY <1>4, <1>7, <1>9, <1>11, <2>1 DEF InHand
<1>18. DeviceOnly(o)
  BY <1>1, <1>2, <1>5, <1>8, <1>9, <1>11 DEF DeviceOnly, R
<1> QED BY <1>11, <1>14, <1>15, <1>16, <1>17, <1>18, DeviceKeeps DEF Sound

(* A stream that fails says so. *)
LEMMA DeviceFailsKeeps ==
  ASSUME IInv, NEW o \in Outputs, DeviceFails(o)
  PROVE  IInv'
<1> DEFINE r == [out[o] EXCEPT !.error = TRUE]
<1>1. /\ out[o].gen # 0 /\ out' = [out EXCEPT ![o] = r] /\ UNCHANGED dev
      /\ UNCHANGED <<producer, track, registered, chan, actor, pending, cancelled>>
  BY DEF DeviceFails, Alive
<1>2. out[o] \in OutRecords /\ OutputTypes /\ Sound(o) /\ Len(out[o].ring) <= Ring
      /\ dev[o].floor <= out[o].floor
  BY <1>1, OpenOutputIs DEF PlacedOut
<1>3. /\ r \in OutRecords /\ r.ring = out[o].ring /\ r.gen = out[o].gen
      /\ r.floor = out[o].floor /\ r.done = out[o].done /\ r.queued = out[o].queued
      /\ r.played = out[o].played /\ r.cut = out[o].cut /\ r.line = out[o].line
  BY <1>2 DEF OutRecords
<1> HIDE DEF r
<1>4. OutputTypes' /\ out'[o] = r /\ \A p \in Outputs \ {o} : out'[p] = out[p] /\ dev'[p] = dev[p]
  BY <1>1, <1>2, <1>3, OutputSet DEF OutputTypes
<1>5. Sound(o)'
  <2>1. Alike(o) /\ UNCHANGED dev
    BY <1>1, <1>3, <1>4 DEF Alike
  <2>2. /\ \A g \in 1 .. Gens : Pushes(o, g)' <=> Pushes(o, g)
        /\ Counting(o)' <=> Counting(o)
        /\ Flushing(o)' <=> Flushing(o)
        /\ Cutting(o)' <=> Cutting(o)
    BY <1>1 DEF Pushes, Counting, Flushing, Cutting
  <2>3. /\ \A g, h \in 1 .. Gens : Pushes(o, g)' /\ Pushes(o, h)' => g = h
        /\ Flushing(o)' => \A g \in 1 .. Gens : ~Pushes(o, g)'
    BY <1>2, <2>2 DEF Sound, Counted, Floored
  <2> QED BY <1>2, <2>1, <2>2, <2>3, SoundKeep
<1>6. DeviceOnly(o)
  BY <1>1, <1>2, <1>3, <1>4 DEF DeviceOnly
<1> QED BY <1>4, <1>5, <1>6, DeviceKeeps

-----------------------------------------------------------------------------
(* The steps of a channel.                                                 *)

(* What a channel or a PLAY makes of the track is no end learnt.           *)
Mild ==
  /\ track' \in TrackRecords /\ track'.gen = track.gen /\ track'.proved = track.proved
  /\ Learnt' => Learnt

LEMMA StaysMild ==
  ASSUME IInv, UNCHANGED track
  PROVE  Mild
BY DEF Mild, IInv, Types, Learnt

LEMMA MilesMild ==
  ASSUME IInv, NEW M \in SUBSET Milestones, "ended" \in M => "ended" \in track.miles,
         track' = [track EXCEPT !.miles = M]
  PROVE  Mild
<1>1. track \in TrackRecords
  BY DEF IInv, Types
<1>2. /\ track' \in TrackRecords /\ track'.gen = track.gen /\ track'.proved = track.proved
      /\ track'.miles = M /\ track'.life = track.life
  BY <1>1 DEF TrackRecords
<1> QED BY <1>2 DEF Mild, Learnt

LEMMA SyncMild ==
  ASSUME IInv, NEW s \in BOOLEAN, track' = [track EXCEPT !.sync = s]
  PROVE  Mild
<1>1. track \in TrackRecords
  BY DEF IInv, Types
<1>2. /\ track' \in TrackRecords /\ track'.gen = track.gen /\ track'.proved = track.proved
      /\ track'.miles = track.miles /\ track'.life = track.life
  BY <1>1 DEF TrackRecords
<1> QED BY <1>2 DEF Mild, Learnt

(* The records a channel goes through: where it may be after where it was. *)
Follows(g, c) ==
  /\ c.out \in {0, chan[g].out, registered} /\ c.started \in {0, chan[g].started, registered}
  /\ c.at \in {"none", "lookup", "open"} =>
       chan[g].at \in {"none", "lookup", "open"} /\ c.out = chan[g].out
  /\ c.at = "bind" => c.out # 0
  /\ c.at \in Serving =>
       c.out # 0 /\ (out[c.out].gen = g \/ (chan[g].at \in Serving /\ c.out = chan[g].out))
  /\ c.at = "start" => c.started # 0
  /\ c.at \in {"none", "lookup", "open", "bind", "loop"} => ~c.last
  /\ c.at \in {"finish", "signal"} => c.last
  /\ c.at # "none" => chan[g].at # "none" \/ g = track.gen
  /\ c.last => g = track.gen \/ (chan[g].last /\ c.out = chan[g].out)
  /\ Matters(g) => c.last /\ c.at \in Over /\ c.out = chan[g].out

LEMMA ChanSet ==
  ASSUME IInv, NEW g \in 1 .. Gens, NEW c \in ChanRecords, chan' = [chan EXCEPT ![g] = c]
  PROVE  /\ chan' \in [1 .. Gens -> ChanRecords] /\ chan'[g] = c
         /\ \A h \in 1 .. Gens \ {g} : chan'[h] = chan[h]
BY DEF IInv, Types

LEMMA FollowsPlaced ==
  ASSUME IInv, NEW g \in 1 .. Gens, NEW c \in ChanRecords, chan'[g] = c, Follows(g, c),
         track'.gen = track.gen, \A o \in Outputs : Alike(o)
  PROVE  PlacedChan(g)'
<1>1. PlacedChan(g) /\ track.gen \in Nat /\ g \in Nat /\ g \in Outputs
  BY DEF IInv, Placed, Types, TrackRecords, Outputs
<1>2. c.out # 0 => c.out \in Outputs /\ out'[c.out].gen = out[c.out].gen
                   /\ out[c.out].gen \in Nat
  <2> SUFFICES ASSUME c.out # 0
               PROVE  /\ c.out \in Outputs /\ out'[c.out].gen = out[c.out].gen
                      /\ out[c.out].gen \in Nat
    OBVIOUS
  <2>1. c.out \in Outputs
    BY DEF IInv, Known, Fine, Follows
  <2>2. \A o \in Outputs : out[o].gen \in Nat
    BY PlaybackAssumption DEF IInv, Types, OutputTypes, OutRecords
  <2> QED BY <2>1, <2>2 DEF Alike
<1>3. out'[g].gen = out[g].gen
  BY <1>1 DEF Alike
<1>4. c.at \in {"none", "lookup", "open"} => c.out = 0 /\ out'[g].gen = 0
  BY <1>1, <1>3 DEF Follows, PlacedChan
<1>5. c.at \in Serving => c.out # 0 /\ g <= out'[c.out].gen
  BY <1>1, <1>2 DEF Follows, PlacedChan
<1>6. c.at # "none" => g <= track'.gen
  BY <1>1 DEF Follows, PlacedChan
<1> QED BY <1>4, <1>5, <1>6 DEF Follows, PlacedChan

(* A move that neither begins nor counts a push.                           *)
LEMMA Moves ==
  ASSUME IInv, NEW g \in 1 .. Gens, NEW c \in ChanRecords, chan' = [chan EXCEPT ![g] = c],
         UNCHANGED <<producer, dev, actor, pending, cancelled>>,
         registered' \in {0, registered}, Mild, OutputTypes',
         \A o \in Outputs : Alike(o) /\ (out'[o].done => out[o].done),
         Follows(g, c), c.at \notin {"push", "count"}, chan[g].at # "count"
  PROVE  IInv'
<1>1. /\ chan' \in [1 .. Gens -> ChanRecords] /\ chan'[g] = c
      /\ \A h \in 1 .. Gens \ {g} : chan'[h] = chan[h]
  BY ChanSet
<1>2. Types'
  <2>1. registered' \in 0 .. Gens
    BY PlaybackAssumption DEF IInv, Types
  <2> QED BY <1>1, <2>1 DEF IInv, Types, Mild, PendingTypes, Waits
<1>3. ChannelOnly(g)
  BY <1>1 DEF ChannelOnly, Follows, Mild
<1>4. PushesOwn(g)
  BY <1>1 DEF PushesOwn, Pushes
<1>5. EndsOwn(g)
  BY <1>1 DEF EndsOwn, Follows, Matters, Gone
<1>6. PlacedChan(g)'
  BY <1>1, FollowsPlaced DEF Mild
<1> QED BY <1>2, <1>3, <1>4, <1>5, <1>6, ChannelKeeps

LEMMA StillOutputs ==
  ASSUME IInv, UNCHANGED <<out, dev>>
  PROVE  OutputTypes' /\ \A o \in Outputs : Alike(o) /\ (out'[o].done => out[o].done)
BY DEF IInv, Types, OutputTypes, Alike

(* The channel's record at another place. *)
At(g, at) == [chan[g] EXCEPT !.at = at]

LEMMA AtIs ==
  ASSUME IInv, NEW g \in 1 .. Gens, NEW at \in ChanPlaces
  PROVE  /\ At(g, at) \in ChanRecords /\ At(g, at).at = at
         /\ At(g, at).out = chan[g].out /\ At(g, at).last = chan[g].last
         /\ At(g, at).started = chan[g].started
         /\ ChanAt(g, at) => chan' = [chan EXCEPT ![g] = At(g, at)]
<1>1. chan[g] \in ChanRecords
  BY DEF IInv, Types
<1> QED BY <1>1 DEF At, ChanRecords, ChanAt

(* The same output, at a place that is not before the channel is bound:    *)
(* the thread goes on, or fails.                                           *)
LEMMA GoesOn ==
  ASSUME IInv, NEW g \in 1 .. Gens, NEW at \in ChanPlaces, ChanAt(g, at),
         UNCHANGED <<producer, dev, actor, pending, cancelled>>,
         registered' \in {0, registered}, Mild, OutputTypes',
         \A o \in Outputs : Alike(o) /\ (out'[o].done => out[o].done),
         at \notin {"none", "bind", "push", "count"},
         chan[g].at \notin {"none", "count"},
         at \in {"lookup", "open"} => chan[g].at \in {"lookup", "open"},
         at \in Serving => chan[g].at \in Serving \/ (chan[g].out # 0 /\ out[chan[g].out].gen = g),
         at = "start" => chan[g].started # 0,
         at \in {"lookup", "open", "loop"} => ~chan[g].last,
         at \in {"finish", "signal"} => chan[g].last,
         Matters(g) => at \in Over
  PROVE  IInv'
<1> DEFINE c == At(g, at)
<1>1. /\ c \in ChanRecords /\ c.at = at /\ c.out = chan[g].out /\ c.last = chan[g].last
      /\ c.started = chan[g].started /\ chan' = [chan EXCEPT ![g] = c]
  BY AtIs
<1> HIDE DEF c
<1>2. PlacedChan(g)
  BY DEF IInv, Placed
<1>3. Follows(g, c)
  BY <1>1, <1>2 DEF Follows, PlacedChan, Matters, Gone, Serving
<1> QED BY <1>1, <1>3, Moves

(* A fresh channel of the current generation. *)
LEMMA OpenChannelKeeps ==
  ASSUME IInv, NEW g \in 1 .. Gens, OpenChannel(g)
  PROVE  IInv'
<1> DEFINE c == At(g, "lookup")
<1>1. /\ chan[g].at = "none" /\ track.gen = g /\ ChanAt(g, "lookup")
      /\ track' = [track EXCEPT !.miles = Accepted(track.miles)]
      /\ UNCHANGED <<producer, registered, out, dev, actor, pending, cancelled>>
  BY DEF OpenChannel, Current
<1>2. Mild
  <2>1. /\ Accepted(track.miles) \in SUBSET Milestones
        /\ "ended" \in Accepted(track.miles) => "ended" \in track.miles
    BY DEF IInv, Types, TrackRecords, Accepted, Milestones
  <2> QED BY <1>1, <2>1, MilesMild
<1>3. /\ c \in ChanRecords /\ c.at = "lookup" /\ c.out = chan[g].out /\ c.last = chan[g].last
      /\ c.started = chan[g].started /\ chan' = [chan EXCEPT ![g] = c]
  BY <1>1, AtIs DEF ChanPlaces
<1> HIDE DEF c
<1>4. PlacedChan(g)
  BY DEF IInv, Placed
<1>5. Follows(g, c)
  BY <1>1, <1>3, <1>4 DEF Follows, PlacedChan, Matters, Gone, Serving, Over
<1> QED BY <1>1, <1>2, <1>3, <1>5, StillOutputs, Moves

(* It looks for the output that serves its generation already.             *)
LEMMA LookupKeeps ==
  ASSUME IInv, NEW g \in 1 .. Gens, Lookup(g)
  PROVE  IInv'
<1> DEFINE c == IF registered # 0 /\ out[registered].gen = g
                THEN [chan[g] EXCEPT !.at = "bind", !.out = registered]
                ELSE [chan[g] EXCEPT !.at = "open"]
<1>1. /\ chan[g].at = "lookup" /\ chan' = [chan EXCEPT ![g] = c]
      /\ UNCHANGED <<producer, track, registered, out, dev, actor, pending, cancelled>>
  BY DEF Lookup
<1>2. PlacedChan(g) /\ chan[g] \in ChanRecords /\ registered \in 0 .. Gens
  BY DEF IInv, Placed, Types
<1>3. c \in ChanRecords /\ c.last = chan[g].last /\ c.started = chan[g].started
  BY <1>2 DEF ChanRecords, ChanPlaces
<1>4. \/ c.at = "bind" /\ c.out = registered /\ registered # 0
      \/ c.at = "open" /\ c.out = chan[g].out
  BY <1>2 DEF ChanRecords
<1> HIDE DEF c
<1>5. Follows(g, c)
  BY <1>1, <1>2, <1>3, <1>4 DEF Follows, PlacedChan, Matters, Gone, Serving, Over
<1> QED BY <1>1, <1>3, <1>4, <1>5, StaysMild, StillOutputs, Moves

LEMMA OpenFailsKeeps ==
  ASSUME IInv, NEW g \in 1 .. Gens, OpenFails(g)
  PROVE  IInv'
<1>1. /\ chan[g].at = "open" /\ ChanAt(g, "failed")
      /\ UNCHANGED <<producer, track, registered, out, dev, actor, pending, cancelled>>
  BY DEF OpenFails
<1>2. Mild
  BY <1>1, StaysMild
<1> QED BY <1>1, <1>2, StillOutputs, GoesOn DEF ChanPlaces, Serving, Matters, Gone, Over

(* It is bound to an output of its generation, or fails.                   *)
LEMMA BindKeeps ==
  ASSUME IInv, NEW g \in 1 .. Gens, Bind(g)
  PROVE  IInv'
<1> DEFINE at == IF out[chan[g].out].gen = g THEN "loop" ELSE "failed"
<1>1. /\ chan[g].at = "bind" /\ ChanAt(g, at)
      /\ UNCHANGED <<producer, track, registered, out, dev, actor, pending, cancelled>>
  BY DEF Bind
<1>2. Mild /\ chan[g].out # 0 /\ ~chan[g].last
  BY <1>1, StaysMild DEF IInv, Placed, PlacedChan
<1>3. at \in {"loop", "failed"} /\ (at = "loop" => out[chan[g].out].gen = g)
  OBVIOUS
<1> HIDE DEF at
<1> QED BY <1>1, <1>2, <1>3, StillOutputs, GoesOn DEF ChanPlaces, Serving, Matters, Gone, Over

(* A packet is decoded while its generation is current, or fails.          *)
LEMMA AdmitKeeps ==
  ASSUME IInv, NEW g \in 1 .. Gens, Admit(g)
  PROVE  IInv'
<1> DEFINE at == IF Current(g) THEN "decoded" ELSE "failed"
           n == chan[g].sent + 1
           c == [chan[g] EXCEPT !.at = at, !.sent = n]
<1>1. /\ chan[g].at = "loop" /\ chan' = [chan EXCEPT ![g] = c]
      /\ UNCHANGED <<producer, track, registered, out, dev, actor, pending, cancelled>>
  BY DEF Admit
<1>2. PlacedChan(g) /\ chan[g] \in ChanRecords
  BY DEF IInv, Placed, Types
<1>3. n \in Nat /\ at \in {"decoded", "failed"}
  BY <1>2 DEF ChanRecords
<1> HIDE DEF n, at
<1>4. c \in ChanRecords /\ c.at = at /\ c.out = chan[g].out /\ c.last = chan[g].last
      /\ c.started = chan[g].started
  BY <1>2, <1>3 DEF ChanRecords, ChanPlaces
<1> HIDE DEF c
<1>5. Follows(g, c)
  BY <1>1, <1>2, <1>3, <1>4 DEF Follows, PlacedChan, Matters, Gone, Serving, Over
<1> QED BY <1>1, <1>3, <1>4, <1>5, StaysMild, StillOutputs, Moves

(* A packet that was pushed marks the output ready, if its generation is   *)
(* current still.                                                          *)
LEMMA PushedKeeps ==
  ASSUME IInv, NEW g \in 1 .. Gens, Pushed(g)
  PROVE  IInv'
<1>1. /\ chan[g].at = "pushed"
      /\ UNCHANGED <<producer, registered, out, dev, actor, pending, cancelled>>
      /\ \/ chan[g].last /\ ChanAt(g, "finish") /\ UNCHANGED track
         \/ ChanAt(g, "sync") /\ track' = [track EXCEPT !.miles = track.miles \cup {"ready"}]
         \/ ChanAt(g, "failed") /\ UNCHANGED track
  BY DEF Pushed
<1>2. Mild
  <2>1. CASE UNCHANGED track
    BY <2>1, StaysMild
  <2>2. CASE track' = [track EXCEPT !.miles = track.miles \cup {"ready"}]
    <3>1. /\ track.miles \cup {"ready"} \in SUBSET Milestones
          /\ "ended" \in track.miles \cup {"ready"} => "ended" \in track.miles
      BY DEF IInv, Types, TrackRecords, Milestones
    <3> QED BY <2>2, <3>1, MilesMild
  <2> QED BY <1>1, <2>1, <2>2
<1>3. PICK at \in {"finish", "sync", "failed"} : ChanAt(g, at) /\ (at = "finish" => chan[g].last)
  BY <1>1
<1> QED BY <1>1, <1>2, <1>3, StillOutputs, GoesOn DEF ChanPlaces, Serving, Matters, Gone, Over

(* A synchronized PLAY is released by a channel once the audio is ready.   *)
LEMMA TryStartKeeps ==
  ASSUME IInv, NEW g \in 1 .. Gens, TryStart(g)
  PROVE  IInv'
<1> DEFINE at == IF Releases /\ registered # 0 THEN "start"
                 ELSE IF chan[g].last THEN "closing" ELSE "loop"
           s == IF Releases THEN registered ELSE 0
           c == [chan[g] EXCEPT !.at = at, !.started = s]
           y == track.sync /\ ~Releases
<1>1. /\ chan[g].at = "sync" /\ chan' = [chan EXCEPT ![g] = c]
      /\ track' = [track EXCEPT !.sync = y]
      /\ UNCHANGED <<producer, registered, out, dev, actor, pending, cancelled>>
  BY DEF TryStart
<1>2. PlacedChan(g) /\ chan[g] \in ChanRecords /\ registered \in 0 .. Gens
      /\ track.sync \in BOOLEAN
  BY DEF IInv, Placed, Types, TrackRecords
<1>3. /\ at \in {"start", "closing", "loop"} /\ s \in {0, registered} /\ s \in 0 .. Gens
      /\ (at = "start" => s # 0) /\ (at = "loop" => ~chan[g].last) /\ (chan[g].last => at # "loop")
  BY <1>2, PlaybackAssumption
<1>4. y \in BOOLEAN
  OBVIOUS
<1> HIDE DEF y, s, at
<1>5. Mild
  BY <1>1, <1>4, SyncMild
<1>6. c \in ChanRecords /\ c.at = at /\ c.out = chan[g].out /\ c.last = chan[g].last
      /\ c.started = s
  BY <1>2, <1>3 DEF ChanRecords, ChanPlaces
<1> HIDE DEF c
<1>7. Follows(g, c)
  BY <1>1, <1>2, <1>3, <1>6 DEF Follows, PlacedChan, Matters, Gone, Serving, Over
<1> QED BY <1>1, <1>3, <1>5, <1>6, <1>7, StillOutputs, Moves

(* The output that was released starts. *)
LEMMA StartOutputKeeps ==
  ASSUME IInv, NEW g \in 1 .. Gens, StartOutput(g)
  PROVE  IInv'
<1> DEFINE at == IF chan[g].last THEN "closing" ELSE "loop"
           c == [chan[g] EXCEPT !.at = at, !.started = 0]
           o == chan[g].started
           r == [out[o] EXCEPT !.enabled = TRUE]
<1>1. /\ chan[g].at = "start" /\ chan' = [chan EXCEPT ![g] = c]
      /\ out' = [out EXCEPT ![o] = r]
      /\ UNCHANGED <<producer, track, registered, dev, actor, pending, cancelled>>
  BY DEF StartOutput
<1>2. PlacedChan(g) /\ chan[g] \in ChanRecords
  BY DEF IInv, Placed, Types
<1>3. o \in Outputs /\ out[o].gen # 0
  BY <1>1, <1>2 DEF PlacedChan, IInv, Known, Fine
<1>4. at \in {"closing", "loop"} /\ (at = "loop" => ~chan[g].last)
  OBVIOUS
<1> HIDE DEF at, o
<1>5. c \in ChanRecords /\ c.at = at /\ c.out = chan[g].out /\ c.last = chan[g].last
      /\ c.started = 0
  <2>1. 0 \in 0 .. Gens /\ at \in ChanPlaces
    BY <1>4, PlaybackAssumption DEF ChanPlaces
  <2> QED BY <1>2, <2>1 DEF ChanRecords
<1> HIDE DEF c
<1>6. out[o] \in OutRecords /\ OutputTypes /\ Len(out[o].ring) <= Ring
  BY <1>3, OpenOutputIs
<1>7. /\ r \in OutRecords /\ r.ring = out[o].ring /\ r.gen = out[o].gen
      /\ r.floor = out[o].floor /\ r.done = out[o].done /\ r.queued = out[o].queued
      /\ r.played = out[o].played /\ r.cut = out[o].cut /\ r.line = out[o].line
  BY <1>6 DEF OutRecords
<1> HIDE DEF r
<1>8. OutputTypes' /\ out'[o] = r /\ \A p \in Outputs \ {o} : out'[p] = out[p]
  BY <1>1, <1>3, <1>6, <1>7, OutputSet DEF OutputTypes
<1>9. \A p \in Outputs : Alike(p) /\ (out'[p].done => out[p].done)
  BY <1>3, <1>7, <1>8 DEF Alike
<1>10. Follows(g, c)
  BY <1>1, <1>2, <1>4, <1>5 DEF Follows, PlacedChan, Matters, Gone, Serving, Over
<1> QED BY <1>1, <1>4, <1>5, <1>8, <1>9, <1>10, StaysMild, Moves

(* CHANNEL_EOS of the current generation. *)
LEMMA ChannelEosKeeps ==
  ASSUME IInv, NEW g \in 1 .. Gens, ChannelEos(g)
  PROVE  IInv'
<1>1. /\ chan[g].at = "loop"
      /\ UNCHANGED <<producer, registered, out, dev, actor, pending, cancelled>>
  BY DEF ChannelEos
<1>2. PlacedChan(g) /\ chan[g] \in ChanRecords
  BY DEF IInv, Placed, Types
<1>3. CASE ChanAt(g, "failed") /\ UNCHANGED track
  BY <1>1, <1>3, StaysMild, StillOutputs, GoesOn DEF ChanPlaces, Serving, Matters, Gone, Over
<1>4. CASE track.life # "gone" /\ track.gen = g
  <2> DEFINE at == IF producer.tail THEN "decoded" ELSE "finish"
             c == [chan[g] EXCEPT !.at = at, !.last = TRUE]
  <2>1. chan' = [chan EXCEPT ![g] = c] /\ track' = [track EXCEPT !.miles = track.miles \cup {"eos"}]
    BY <1>4 DEF ChannelEos
  <2>2. Mild
    <3>1. /\ track.miles \cup {"eos"} \in SUBSET Milestones
          /\ "ended" \in track.miles \cup {"eos"} => "ended" \in track.miles
      BY DEF IInv, Types, TrackRecords, Milestones
    <3> QED BY <2>1, <3>1, MilesMild
  <2>3. at \in {"decoded", "finish"}
    OBVIOUS
  <2> HIDE DEF at
  <2>4. c \in ChanRecords /\ c.at = at /\ c.out = chan[g].out /\ c.last = TRUE
        /\ c.started = chan[g].started
    BY <1>2, <2>3 DEF ChanRecords, ChanPlaces
  <2> HIDE DEF c
  <2>5. Follows(g, c)
    BY <1>1, <1>2, <1>4, <2>3, <2>4 DEF Follows, PlacedChan, Matters, Gone, Serving, Over
  <2> QED BY <1>1, <2>1, <2>2, <2>3, <2>4, <2>5, StillOutputs, Moves
<1> QED BY <1>3, <1>4 DEF ChannelEos

(* The lock is taken while nobody else holds it, and the generation read.  *)
LEMMA PushBeginKeeps ==
  ASSUME IInv, NEW g \in 1 .. Gens, PushBegin(g)
  PROVE  IInv'
<1>1. /\ chan[g].at = "decoded" /\ ~Held(chan[g].out)
      /\ UNCHANGED <<producer, track, registered, out, dev, actor, pending, cancelled>>
      /\ \/ out[chan[g].out].gen = g /\ ChanAt(g, "push")
         \/ ChanAt(g, "failed")
  BY DEF PushBegin
<1>2. PlacedChan(g) /\ chan[g] \in ChanRecords /\ Mild
  BY <1>1, StaysMild DEF IInv, Placed, Types
<1>3. CASE ChanAt(g, "failed")
  BY <1>1, <1>2, <1>3, StillOutputs, GoesOn DEF ChanPlaces, Serving, Matters, Gone, Over
<1>4. CASE out[chan[g].out].gen = g /\ ChanAt(g, "push")
  <2> DEFINE c == At(g, "push")
  <2>1. /\ c \in ChanRecords /\ c.at = "push" /\ c.out = chan[g].out /\ c.last = chan[g].last
        /\ c.started = chan[g].started /\ chan' = [chan EXCEPT ![g] = c]
    BY <1>4, AtIs DEF ChanPlaces
  <2> HIDE DEF c
  <2>2. Follows(g, c)
    BY <1>1, <1>2, <2>1 DEF Follows, PlacedChan, Matters, Gone, Serving, Over
  <2>3. /\ chan' \in [1 .. Gens -> ChanRecords] /\ chan'[g] = c
        /\ \A h \in 1 .. Gens \ {g} : chan'[h] = chan[h]
    BY <2>1, ChanSet
  <2>4. OutputTypes' /\ \A o \in Outputs : Alike(o) /\ (out'[o].done => out[o].done)
    BY <1>1, StillOutputs
  <2>5. Types'
    BY <1>1, <2>3, <2>4 DEF IInv, Types, PendingTypes, Waits
  <2>6. ChannelOnly(g)
    BY <1>1, <1>2, <2>1, <2>3, <2>4 DEF ChannelOnly, Mild
  <2>7. PushesOwn(g)
    BY <1>1, <1>4, <2>1, <2>3 DEF PushesOwn, Pushes, Gone, Over
  <2>8. EndsOwn(g)
    BY <2>2, <2>3, <2>4 DEF EndsOwn, Follows, Matters, Gone
  <2>9. PlacedChan(g)'
    BY <1>1, <2>1, <2>2, <2>3, <2>4, FollowsPlaced
  <2> QED BY <2>5, <2>6, <2>7, <2>8, <2>9, ChannelKeeps
<1> QED BY <1>1, <1>3, <1>4

(* finish_decode(): nothing is pushed any more when it says so.            *)
LEMMA FinishDecodeKeeps ==
  ASSUME IInv, NEW g \in 1 .. Gens, FinishDecode(g)
  PROVE  IInv'
<1>1. /\ chan[g].at = "finish" /\ PlacedChan(g) /\ chan[g] \in ChanRecords
      /\ UNCHANGED <<producer, track, registered, dev, actor, pending, cancelled>>
  BY DEF FinishDecode, IInv, Placed, Types
<1>2. PICK o \in Outputs : o = chan[g].out /\ out[o].gen # 0 /\ o # 0 /\ chan[g].last
  BY <1>1 DEF PlacedChan, IInv, Known, Fine, Serving
<1> DEFINE b == out[o].done \/ out[o].gen = g
           r == [out[o] EXCEPT !.done = b]
           at == IF out[o].gen = g THEN "signal" ELSE "failed"
           c == At(g, at)
<1>3. ~Held(o) /\ out' = [out EXCEPT ![o] = r] /\ ChanAt(g, at) /\ Mild /\ track.gen \in Nat
  BY <1>1, <1>2, StaysMild DEF FinishDecode, IInv, Types, TrackRecords
<1>4. out[o] \in OutRecords /\ OutputTypes /\ Len(out[o].ring) <= Ring
  BY <1>2, OpenOutputIs
<1>5. /\ b \in BOOLEAN /\ (b => out[o].done \/ out[o].gen = g)
      /\ at \in {"signal", "failed"} /\ (at = "signal" <=> out[o].gen = g)
  BY <1>4 DEF OutRecords
<1>6. /\ c \in ChanRecords /\ c.at = at /\ c.out = o /\ c.last = chan[g].last
      /\ c.started = chan[g].started /\ chan' = [chan EXCEPT ![g] = c]
  <2> HIDE DEF at
  <2>1. at \in ChanPlaces
    BY <1>5 DEF ChanPlaces
  <2> QED BY <1>2, <1>3, <2>1, AtIs
<1>7. \A h \in 1 .. Gens : ~Pushes(o, h)
  BY <1>3 DEF Held, Pushes
<1> HIDE DEF b, at, c
<1>8. /\ r \in OutRecords /\ r.ring = out[o].ring /\ r.gen = out[o].gen
      /\ r.floor = out[o].floor /\ r.done = b /\ r.queued = out[o].queued
      /\ r.played = out[o].played /\ r.cut = out[o].cut /\ r.line = out[o].line
  BY <1>4, <1>5 DEF OutRecords
<1> HIDE DEF r
<1>9. OutputTypes' /\ out'[o] = r /\ \A p \in Outputs \ {o} : out'[p] = out[p]
  BY <1>1, <1>2, <1>3, <1>4, <1>8, OutputSet DEF OutputTypes
<1>10. \A p \in Outputs : Alike(p)
  BY <1>2, <1>8, <1>9 DEF Alike
<1>11. Follows(g, c)
  <2>1. c.at = "signal" \/ c.at = "failed"
    BY <1>5, <1>6
  <2> QED BY <1>1, <1>2, <1>5, <1>6, <2>1 DEF Follows, PlacedChan, Matters, Gone, Serving, Over
<1>12. /\ chan' \in [1 .. Gens -> ChanRecords] /\ chan'[g] = c
       /\ \A h \in 1 .. Gens \ {g} : chan'[h] = chan[h]
  BY <1>6, ChanSet
<1>13. Types'
  BY <1>1, <1>9, <1>12 DEF IInv, Types, PendingTypes, Waits
<1>14. ChannelOnly(g)
  BY <1>1, <1>2, <1>3, <1>6, <1>10, <1>12 DEF ChannelOnly, Mild
<1>15. PushesOwn(g)
  BY <1>1, <1>5, <1>6, <1>12 DEF PushesOwn, Pushes
<1>16. EndsOwn(g)
  <2>1. Matters(g) => Gone(g)' /\ chan'[g].out = chan[g].out
    BY <1>1 DEF Matters, Gone, Over
  <2>2. chan'[g].last => g = track.gen \/ (chan[g].last /\ chan'[g].out = chan[g].out)
    BY <1>11, <1>12 DEF Follows
  <2>3. ASSUME NEW p \in Outputs, out'[p].done, ~out[p].done
        PROVE  Finished(p)' /\ chan[out[p].gen].out = p /\ chan[out[p].gen].last
    <3>1. p = o /\ out[o].gen = g /\ out'[o].gen = g
      BY <1>5, <1>8, <1>9, <2>3
    <3>2. chan[g].out = o
      BY <1>2
    <3>3. chan'[g].out = o /\ Gone(g)'
      BY <1>2, <1>5, <1>6, <1>12, <3>1 DEF Gone, Over
    <3>4. \A h \in 1 .. Gens : ~Pushes(o, h)'
      <4> SUFFICES ASSUME NEW h \in 1 .. Gens, Pushes(o, h)' PROVE FALSE
        OBVIOUS
      <4>1. h # g
        BY <1>5, <1>6, <1>12 DEF Pushes
      <4>2. Pushes(o, h)
        BY <1>12, <4>1 DEF Pushes
      <4> QED BY <1>7, <4>2
    <3>5. chan'[out'[p].gen].out = p /\ chan'[out'[p].gen].last /\ chan'[out'[p].gen].at \in Over
      BY <3>1, <3>3 DEF Gone
    <3>6. \A h \in 1 .. Gens : ~Pushes(p, h)'
      BY <3>1, <3>4 DEF Pushes
    <3>7. Finished(p)'
      BY <3>5, <3>6 DEF Finished, Gone
    <3> QED BY <1>2, <3>1, <3>2, <3>7
  <2> QED BY <2>1, <2>2, <2>3 DEF EndsOwn
<1>17. PlacedChan(g)'
  BY <1>1, <1>6, <1>10, <1>11, <1>12, FollowsPlaced
<1> QED BY <1>13, <1>14, <1>15, <1>16, <1>17, ChannelKeeps

(* signal_eos(). *)
LEMMA SignalEosKeeps ==
  ASSUME IInv, NEW g \in 1 .. Gens, SignalEos(g)
  PROVE  IInv'
<1>1. /\ chan[g].at = "signal" /\ PlacedChan(g) /\ chan[g] \in ChanRecords
      /\ UNCHANGED <<producer, track, registered, dev, actor, pending, cancelled>>
  BY DEF SignalEos, IInv, Placed, Types
<1>2. PICK o \in Outputs : o = chan[g].out /\ out[o].gen # 0 /\ o # 0 /\ g <= out[o].gen
  BY <1>1 DEF PlacedChan, IInv, Known, Fine, Serving
<1> DEFINE b == out[o].eos \/ out[o].gen = g
           r == [out[o] EXCEPT !.eos = b]
           at == IF out[o].gen = g THEN "sync" ELSE "failed"
<1>3. out' = [out EXCEPT ![o] = r] /\ ChanAt(g, at) /\ Mild
  BY <1>1, <1>2, StaysMild DEF SignalEos
<1>4. /\ out[o] \in OutRecords /\ OutputTypes /\ Len(out[o].ring) <= Ring /\ PlacedOut(o)
      /\ out[o].gen \in Nat /\ track.gen \in Nat
  BY <1>2, OpenOutputIs DEF IInv, Types, TrackRecords
<1>5. b \in BOOLEAN /\ at \in {"sync", "failed"} /\ (at = "failed" => out[o].gen # g)
  BY <1>4 DEF OutRecords
<1> HIDE DEF b, at
<1>6. /\ r \in OutRecords /\ r.ring = out[o].ring /\ r.gen = out[o].gen
      /\ r.floor = out[o].floor /\ r.done = out[o].done /\ r.queued = out[o].queued
      /\ r.played = out[o].played /\ r.cut = out[o].cut /\ r.line = out[o].line
  BY <1>4, <1>5 DEF OutRecords
<1> HIDE DEF r
<1>7. OutputTypes' /\ out'[o] = r /\ \A p \in Outputs \ {o} : out'[p] = out[p]
  BY <1>1, <1>3, <1>4, <1>6, OutputSet DEF OutputTypes
<1>8. \A p \in Outputs : Alike(p) /\ (out'[p].done => out[p].done)
  BY <1>2, <1>6, <1>7 DEF Alike
<1>9. Matters(g) => at \in Over
  BY <1>2, <1>4, <1>5 DEF Matters, Over, PlacedOut
<1> QED BY <1>1, <1>3, <1>5, <1>7, <1>8, <1>9, GoesOn DEF ChanPlaces, Serving

LEMMA ChannelEndsKeeps ==
  ASSUME IInv, NEW g \in 1 .. Gens, ChannelEnds(g)
  PROVE  IInv'
<1>1. /\ chan[g].at = "loop"
      /\ UNCHANGED <<producer, track, registered, out, dev, actor, pending, cancelled>>
  BY DEF ChannelEnds
<1>2. PICK at \in {"closing", "failed"} : ChanAt(g, at)
  BY DEF ChannelEnds
<1>3. Mild
  BY <1>1, StaysMild
<1> QED BY <1>1, <1>2, <1>3, StillOutputs, GoesOn DEF ChanPlaces, Serving, Matters, Gone, Over

(* TrackAttachmentCleanup::detach(). *)
LEMMA DetachKeeps ==
  ASSUME IInv, NEW g \in 1 .. Gens, Detach(g)
  PROVE  IInv'
<1> DEFINE at == IF chan[g].at = "closing" THEN "dead" ELSE "losing"
           M == IF Current(g) THEN Detached(track.miles) ELSE track.miles
<1>1. /\ chan[g].at \in {"closing", "failed"} /\ ChanAt(g, at)
      /\ track' = [track EXCEPT !.miles = M]
      /\ UNCHANGED <<producer, registered, out, dev, actor, pending, cancelled>>
  BY DEF Detach
<1>2. Mild
  <2>1. M \in SUBSET Milestones /\ ("ended" \in M => "ended" \in track.miles)
    BY DEF IInv, Types, TrackRecords, Detached, Milestones
  <2> HIDE DEF M
  <2> QED BY <1>1, <2>1, MilesMild
<1>3. at \in {"dead", "losing"} /\ (Gone(g) => at \in Over)
  BY <1>1 DEF Gone, Over
<1> HIDE DEF at, M
<1> QED BY <1>1, <1>2, <1>3, StillOutputs, GoesOn DEF ChanPlaces, Serving, Matters

LEMMA LoseTrackKeeps ==
  ASSUME IInv, NEW g \in 1 .. Gens, LoseTrack(g)
  PROVE  IInv'
<1>1. /\ chan[g].at = "losing"
      /\ UNCHANGED <<producer, registered, out, dev, actor, pending, cancelled>>
      /\ \/ /\ track' = [track EXCEPT !.life = "lost", !.miles = {"lost"}]
            /\ ChanAt(g, "stopping")
         \/ UNCHANGED track /\ ChanAt(g, "dead")
  BY DEF LoseTrack
<1>2. Mild
  <2>1. CASE UNCHANGED track
    BY <2>1, StaysMild
  <2>2. CASE track' = [track EXCEPT !.life = "lost", !.miles = {"lost"}]
    <3>1. track \in TrackRecords
      BY DEF IInv, Types
    <3>2. /\ track' \in TrackRecords /\ track'.gen = track.gen /\ track'.proved = track.proved
          /\ track'.life = "lost"
      BY <2>2, <3>1 DEF TrackRecords, Milestones
    <3> QED BY <3>2 DEF Mild, Learnt
  <2> QED BY <1>1, <2>1, <2>2
<1>3. PICK at \in {"dead", "stopping"} : ChanAt(g, at)
  BY <1>1
<1> QED BY <1>1, <1>2, <1>3, StillOutputs, GoesOn DEF ChanPlaces, Serving, Matters, Gone, Over

(* AudioOutput::stop() keeps every account. *)
LEMMA StopIs ==
  ASSUME IInv, StopRegistered, UNCHANGED dev
  PROVE  /\ OutputTypes' /\ registered' = 0
         /\ \A o \in Outputs : Alike(o) /\ (out'[o].done => out[o].done)
<1> DEFINE stop(o) == IF o = registered THEN [out[o] EXCEPT !.stopped = TRUE, !.enabled = FALSE]
                      ELSE out[o]
<1>1. registered' = 0 /\ out' = [o \in Outputs |-> stop(o)]
  BY DEF StopRegistered
<1>2. registered # 0 => registered \in Outputs /\ out[registered].gen # 0
  BY DEF IInv, Known, Fine
<1>3. ASSUME NEW o \in Outputs
      PROVE  /\ stop(o) \in OutRecords /\ stop(o).ring = out[o].ring /\ stop(o).gen = out[o].gen
             /\ stop(o).floor = out[o].floor /\ stop(o).done = out[o].done
             /\ stop(o).queued = out[o].queued /\ stop(o).played = out[o].played
             /\ stop(o).cut = out[o].cut /\ stop(o).line = out[o].line
             /\ Len(stop(o).ring) <= Ring
             /\ out[o].gen = 0 => stop(o) = out[o]
  <2>1. out[o] \in OutRecords /\ Len(out[o].ring) <= Ring
    BY DEF IInv, Types, OutputTypes
  <2>2. CASE o = registered
    <3>1. out[o].gen # 0
      BY <1>2, <2>2, PlaybackAssumption DEF Outputs
    <3> QED BY <2>1, <2>2, <3>1 DEF OutRecords
  <2> QED BY <2>1, <2>2
<1> HIDE DEF stop
<1>4. \A o \in Outputs : out'[o] = stop(o)
  BY <1>1
<1>5. OutputTypes'
  BY <1>1, <1>3, <1>4 DEF IInv, Types, OutputTypes
<1>6. \A o \in Outputs : Alike(o) /\ (out'[o].done => out[o].done)
  BY <1>3, <1>4 DEF Alike
<1> QED BY <1>1, <1>5, <1>6

LEMMA StopFailedKeeps ==
  ASSUME IInv, NEW g \in 1 .. Gens, StopFailed(g)
  PROVE  IInv'
<1>1. /\ chan[g].at = "stopping" /\ StopRegistered /\ ChanAt(g, "dead")
      /\ UNCHANGED <<producer, track, dev, actor, pending, cancelled>>
  BY DEF StopFailed
<1>2. Mild
  BY <1>1, StaysMild
<1> QED BY <1>1, <1>2, StopIs, GoesOn DEF ChanPlaces, Serving, Matters, Gone, Over

-----------------------------------------------------------------------------
(* The two halves of a push.  The others of the output's threads stay      *)
(* where they are, and those of other outputs see nothing.                 *)
HalfPush(g, o) ==
  /\ UNCHANGED <<producer, track, registered, dev, actor, pending, cancelled>>
  /\ \A h \in 1 .. Gens \ {g} : chan'[h] = chan[h]
  /\ chan'[g].out = o /\ chan'[g].last = chan[g].last /\ chan'[g].started = chan[g].started
  /\ \A p \in Outputs \ {o} : out'[p] = out[p]
  /\ out'[o].gen = out[o].gen /\ out'[o].floor = out[o].floor /\ out'[o].done = out[o].done
  /\ out'[o].ring = out[o].ring \/ out[o].gen = g

LEMMA HalfPushKeeps ==
  ASSUME IInv, NEW g \in 1 .. Gens, NEW o \in Outputs, o = chan[g].out, out[o].gen # 0,
         OutputTypes', chan' \in [1 .. Gens -> ChanRecords], HalfPush(g, o),
         chan[g].at \in {"push", "count"}, chan'[g].at \in {"count", "pushed"}, Sound(o)'
  PROVE  IInv'
<1> USE DEF HalfPush
<1>1. Types'
  BY DEF IInv, Types, PendingTypes, Waits
<1>2. \A p \in Outputs : out'[p].gen = out[p].gen /\ out'[p].floor = out[p].floor
                         /\ out'[p].done = out[p].done
  OBVIOUS
<1>3. Known'
  <2>1. \A p \in Outputs : /\ out[p].gen # 0 => out'[p].gen # 0
                           /\ out'[p].gen = 0 => out'[p] = out[p] /\ dev'[p] = dev[p]
    OBVIOUS
  <2>2. /\ registered' \in {0, registered} /\ actor'.out \in {0, actor.out, registered}
        /\ \A i \in DOMAIN pending' : \E j \in DOMAIN pending : pending'[i].out = pending[j].out
        /\ \A h \in 1 .. Gens : /\ chan'[h].out \in {0, chan[h].out, registered}
                                /\ chan'[h].started \in {0, chan[h].started, registered}
    OBVIOUS
  <2> QED BY <2>1, <2>2, KnownKeep DEF IInv
<1>4. Placed'
  <2>1. PlacedChan(g) /\ chan[g].out = o /\ out'[o].gen = out[o].gen
    BY DEF IInv, Placed
  <2>2. PlacedChan(g)'
    BY <2>1 DEF PlacedChan, Serving
  <2>3. PlacedActor'
    BY DEF IInv, Placed, PlacedActor
  <2>4. \A p \in Outputs : dev'[p].floor <= out[p].floor
    BY DEF IInv, Placed, PlacedOut
  <2> QED BY <1>2, <2>2, <2>3, <2>4, PlacedKeep DEF IInv
<1>5. Sounds'
  <2> SUFFICES ASSUME NEW p \in Outputs \ {o} PROVE Sound(p)'
    BY DEF Sounds
  <2>1. Sound(p) /\ out'[p] = out[p] /\ UNCHANGED dev
    BY DEF IInv, Sounds
  <2>2. \A h \in 1 .. Gens : Pushes(p, h)' <=> Pushes(p, h)
    BY DEF Pushes
  <2>3. \A h \in 1 .. Gens : (chan'[h].out = p /\ chan'[h].at = "count")
                             <=> (chan[h].out = p /\ chan[h].at = "count")
    OBVIOUS
  <2>4. Counting(p)' <=> Counting(p)
    BY <2>3 DEF Counting
  <2>5. (Flushing(p)' <=> Flushing(p)) /\ (Cutting(p)' <=> Cutting(p)) /\ Alike(p)
    BY <2>1 DEF Flushing, Cutting, Alike
  <2>6. /\ \A h, k \in 1 .. Gens : Pushes(p, h)' /\ Pushes(p, k)' => h = k
        /\ Flushing(p)' => \A h \in 1 .. Gens : ~Pushes(p, h)'
    BY <2>1, <2>2, <2>5 DEF Sound, Counted, Floored
  <2> QED BY <2>1, <2>4, <2>5, <2>6, SoundKeep
<1>6. ~Gone(g) /\ ~(Gone(g)') /\ Pushes(o, g)
  BY DEF Gone, Over, Pushes
<1>7. Ends'
  <2>1. ASSUME NEW p \in Outputs, Finished(p), out[p].gen \in 1 .. Gens PROVE Finished(p)'
    <3>1. PICK f \in 1 .. Gens : f = out[p].gen /\ out'[p].gen = f
      BY <2>1
    <3>2. chan[f].out = p /\ Gone(f) /\ \A h \in 1 .. Gens : ~Pushes(p, h)
      BY <2>1, <3>1 DEF Finished
    <3>3. p # o /\ f # g
      BY <1>6, <3>2
    <3>4. chan'[f] = chan[f]
      BY <3>3
    <3>5. \A h \in 1 .. Gens : ~Pushes(p, h)'
      BY <3>2, <3>3 DEF Pushes
    <3>6. chan'[out'[p].gen].out = p /\ Gone(out[p].gen)'
      BY <3>1, <3>2, <3>4 DEF Gone
    <3> QED BY <3>5, <3>6 DEF Finished
  <2>2. ASSUME NEW p \in Outputs, UpToDate(p), out[p].gen # 0 PROVE UpToDate(p)'
    <3>0. out[p].gen \in 0 .. Gens /\ out'[p].gen = out[p].gen
      BY <1>2 DEF IInv, Types, OutputTypes, OutRecords
    <3>1. PICK f \in 1 .. Gens : f = out[p].gen /\ out'[p].gen = f
      BY <2>2, <3>0, PlaybackAssumption
    <3>2. chan'[f].out = chan[f].out /\ chan'[f].last = chan[f].last
      OBVIOUS
    <3> QED BY <2>2, <3>1, <3>2 DEF UpToDate, Unfinished
  <2>3. ASSUME NEW p \in Outputs, out'[p].done PROVE Finished(p)' \/ Advanced(p)'
    <3>1. Finished(p) \/ Advanced(p)
      BY <1>2, <2>3 DEF IInv, Ends
    <3>2. out[p].gen \in 1 .. Gens
      <4>1. out[p].gen \in 0 .. Gens /\ out[p].done
        BY <1>2, <2>3 DEF IInv, Types, OutputTypes, OutRecords
      <4>2. out[p].gen # 0
        BY <4>1 DEF IInv, Known, Untouched, Unopened
      <4> QED BY <4>1, <4>2, PlaybackAssumption
    <3> QED BY <2>1, <3>1, <3>2 DEF Advanced
  <2>4. registered' # 0 /\ actor'.at \notin {"swap", "evict"} => UpToDate(registered)'
    <3> SUFFICES ASSUME registered # 0, actor.at \notin {"swap", "evict"}
                 PROVE  UpToDate(registered)'
      OBVIOUS
    <3>1. UpToDate(registered) /\ registered \in Outputs /\ out[registered].gen # 0
      BY DEF IInv, Ends, Known, Fine
    <3>2. \A p \in Outputs : p = registered => UpToDate(p)'
      BY <2>2, <3>1
    <3> QED BY <3>1, <3>2 DEF UpToDate, Unfinished
  <2>5. ASSUME NEW i \in DOMAIN pending'
        PROVE  /\ pending'[i].gen <= track'.gen
               /\ pending'[i].out # 0 /\ pending'[i].gen = track'.gen => UpToDate(pending[i].out)'
    <3>1. i \in DOMAIN pending /\ pending[i].gen <= track.gen
      BY DEF IInv, Ends
    <3>2. ASSUME pending[i].out # 0, pending[i].gen = track.gen PROVE UpToDate(pending[i].out)'
      <4>1. UpToDate(pending[i].out) /\ pending[i].out \in Outputs /\ out[pending[i].out].gen # 0
        BY <3>1, <3>2 DEF IInv, Ends, Known, Fine
      <4>2. \A p \in Outputs : p = pending[i].out => UpToDate(p)'
        BY <2>2, <4>1
      <4> QED BY <4>1, <4>2 DEF UpToDate, Unfinished
    <3> QED BY <3>1, <3>2
  <2> QED BY <2>3, <2>4, <2>5 DEF Ends
<1>8. Silent'
  <2> SUFFICES ASSUME Learnt' PROVE Quiet'
    BY DEF Silent
  <2>1. Quiet
    BY DEF IInv, Silent, Learnt
  <2>2. PICK f \in 1 .. Gens : f = track.gen /\ track'.gen = f
    BY DEF IInv, Types, TrackRecords
  <2>3. Gone(f) /\ f # g /\ chan'[f] = chan[f]
    BY <1>6, <2>1, <2>2 DEF Quiet
  <2>4. \A p \in Outputs : out'[p].gen = f /\ chan'[f].out = p => out'[p].ring = <<>>
    <3> SUFFICES ASSUME NEW p \in Outputs, out[p].gen = f, chan[f].out = p PROVE out'[p].ring = <<>>
      BY <2>3
    <3>1. out[p].ring = <<>>
      BY <2>1, <2>2 DEF Quiet
    <3>2. CASE p # o
      BY <3>1, <3>2
    <3>3. CASE p = o
      <4>1. out[o].gen = f /\ f # g
        BY <2>3, <3>3
      <4> QED BY <3>1, <3>3, <4>1
    <3> QED BY <3>2, <3>3
  <2>5. Gone(track.gen)'
    BY <2>2, <2>3 DEF Gone
  <2> QED BY <2>2, <2>4, <2>5 DEF Quiet
<1> QED BY <1>1, <1>3, <1>4, <1>5, <1>7, <1>8 DEF IInv

(* One round of push_while(): the sample it appends is of the generation   *)
(* and the timeline the output is at, and behind every watermark.          *)
LEMMA AppendSounds ==
  ASSUME IInv, NEW g \in 1 .. Gens, NEW o \in Outputs, Pushes(o, g), chan[g].at = "push",
         out[o].gen = g, NEW s \in Samples, s.gen = g, s.line = out[o].line,
         out'[o].ring = Append(out[o].ring, s),
         out'[o].gen = out[o].gen, out'[o].floor = out[o].floor, out'[o].line = out[o].line,
         out'[o].queued = out[o].queued, out'[o].played = out[o].played,
         out'[o].cut = out[o].cut, UNCHANGED <<dev, actor>>,
         \A h \in 1 .. Gens \ {g} : chan'[h] = chan[h],
         chan'[g].out = o, chan'[g].at = "count"
  PROVE  Sound(o)'
<1>1. /\ out[o] \in OutRecords /\ dev[o] \in DevRecords /\ Sound(o) /\ PlacedOut(o)
      /\ OutputTypes
  BY DEF IInv, Types, OutputTypes, Sounds, Placed
<1> DEFINE R == out[o].ring
           n == Len(R)
<1>2. /\ R \in Seq(Samples) /\ n \in Nat /\ DOMAIN R = 1 .. n
      /\ out[o].played \in Nat /\ out[o].queued \in Nat /\ out[o].cut \in Nat
      /\ out[o].line \in Nat /\ Len(dev[o].heard) \in Nat
      /\ dev[o].floor \in Nat /\ out[o].floor \in Nat /\ g \in Nat
  <2>1. /\ out[o].ring \in Seq(Samples) /\ out[o].played \in Nat /\ out[o].queued \in Nat
        /\ out[o].cut \in Nat /\ out[o].line \in Nat /\ out[o].floor \in 0 .. Gens
    BY <1>1 DEF OutRecords
  <2>2. dev[o].floor \in 0 .. Gens /\ Len(dev[o].heard) \in Nat
    BY <1>1 DEF DevRecords
  <2> QED BY <2>1, <2>2, PlaybackAssumption
<1> HIDE DEF n
<1>0. \A j \in 1 .. n + 1 : j \in 1 .. n \/ j = n + 1
  BY <1>2
<1>3. /\ Len(out'[o].ring) = n + 1 /\ DOMAIN out'[o].ring = 1 .. n + 1
      /\ \A j \in 1 .. n : out'[o].ring[j] = R[j]
      /\ out'[o].ring[n + 1] = s
  BY <1>2, AppendProperties DEF n
<1> HIDE DEF R
<1>4. \A j : Index(o, j)' = Index(o, j)
  BY DEF Index
<1>5. \A h \in 1 .. Gens : Pushes(o, h)' <=> Pushes(o, h)
  BY DEF Pushes
<1>6. \A h, k \in 1 .. Gens : Pushes(o, h) /\ Pushes(o, k) => h = k
  BY <1>1 DEF Sound, Counted
<1>7. ~Counting(o) /\ Counting(o)'
  <2>1. \A h \in 1 .. Gens : chan[h].out = o /\ chan[h].at = "count" => Pushes(o, h)
    BY DEF Pushes
  <2>2. ~Counting(o)
    BY <1>6, <2>1 DEF Counting
  <2>3. Counting(o)'
    BY DEF Counting
  <2> QED BY <2>2, <2>3
<1>8. out[o].queued = Index(o, n) /\ out[o].cut <= out[o].queued
  BY <1>1, <1>2, <1>7 DEF Sound, Counted, n, R
<1>9. Index(o, n + 1) = Index(o, n) + 1
  BY <1>2 DEF Index
<1>10. Counted(o)'
  <2>1. out'[o].queued + 1 = Index(o, n + 1)
    BY <1>2, <1>8, <1>9
  <2>2. /\ out'[o].queued + (IF Counting(o)' THEN 1 ELSE 0) = Index(o, Len(out'[o].ring))
    BY <1>3, <1>7, <2>1
  <2>3. /\ dev[o].at \in {"idle", "gate", "pop"} => dev[o].heard = <<>>
        /\ dev[o].at = "popped" => Len(dev[o].heard) = 1
    BY <1>1 DEF Sound, Counted
  <2> QED BY <1>4, <1>5, <1>6, <1>8, <2>2, <2>3 DEF Counted
<1>11. Lined(o)'
  <2> SUFFICES ASSUME NEW j \in 1 .. n + 1
               PROVE  /\ out'[o].ring[j].line <= out[o].line
                      /\ Index(o, j) <= out[o].cut => out'[o].ring[j].line < out[o].line
    BY <1>3, <1>4 DEF Lined
  <2>1. CASE j \in 1 .. n
    BY <1>1, <1>2, <1>3, <2>1 DEF Sound, Lined, n, R
  <2>2. CASE j = n + 1
    <3>1. out[o].cut < Index(o, j)
      BY <1>2, <1>8, <1>9, <2>2
    <3> QED BY <1>2, <1>3, <2>2, <3>1, <1>8, <1>9
  <2> QED BY <1>0, <2>1, <2>2
<1>12. Floored(o)'
  <2>1. \A h \in 1 .. Gens : h = g => Pushes(o, h)
    OBVIOUS
  <2>2. ~Flushing(o) /\ ~Cutting(o)
    BY <1>1, <2>1 DEF Sound, Floored, Flushing, Cutting, FlushSteps
  <2>3. ~(Flushing(o)') /\ ~(Cutting(o)')
    BY <2>2 DEF Flushing, Cutting
  <2>4. dev[o].floor <= g /\ out[o].floor <= g
    BY <1>1, <1>2 DEF PlacedOut
  <2>5. ASSUME dev[o].at \in {"gate", "pop"}, NEW j \in 1 .. n + 1
        PROVE  out'[o].ring[j].gen >= dev[o].floor
    <3>1. CASE j \in 1 .. n
      BY <1>1, <1>2, <1>3, <2>5, <3>1 DEF Sound, Floored, n, R
    <3>2. CASE j = n + 1
      BY <1>2, <1>3, <2>4, <3>2
    <3> QED BY <1>0, <3>1, <3>2
  <2>6. ASSUME NEW j \in 1 .. n + 1, out'[o].ring[j].gen < out[o].floor
        PROVE  Index(o, j) <= out[o].cut
    <3>1. CASE j \in 1 .. n
      BY <1>1, <1>2, <1>3, <2>6, <3>1 DEF Sound, Floored, n, R
    <3>2. CASE j = n + 1
      BY <1>2, <1>3, <2>4, <2>6, <3>2
    <3> QED BY <1>0, <3>1, <3>2
  <2> QED BY <1>3, <1>4, <2>3, <2>5, <2>6 DEF Floored
<1>13. InHand(o)'
  BY <1>1 DEF Sound, InHand
<1> QED BY <1>10, <1>11, <1>12, <1>13 DEF Sound

LEMMA PushKeeps ==
  ASSUME IInv, NEW g \in 1 .. Gens, Push(g)
  PROVE  IInv'
<1>1. /\ chan[g].at = "push" /\ PlacedChan(g) /\ chan[g] \in ChanRecords
      /\ UNCHANGED <<producer, track, registered, dev, actor, pending, cancelled>>
  BY DEF Push, IInv, Placed, Types
<1>2. PICK o \in Outputs : o = chan[g].out /\ out[o].gen # 0 /\ o # 0
  BY <1>1 DEF PlacedChan, IInv, Known, Fine, Serving
<1>3. CASE UNCHANGED out /\ (ChanAt(g, "failed") \/ ChanAt(g, "pushed"))
  <2>1. Mild
    BY <1>1, StaysMild
  <2>2. PICK at \in {"failed", "pushed"} : ChanAt(g, at)
    BY <1>3
  <2> QED BY <1>1, <1>3, <2>1, <2>2, StillOutputs, GoesOn
          DEF ChanPlaces, Serving, Matters, Gone, Over
<1>4. CASE /\ out[o].gen = g /\ Len(out[o].ring) < Ring
           /\ out' = [out EXCEPT ![o].ring = Append(out[o].ring, [gen |-> g, line |-> out[o].line])]
           /\ ChanAt(g, "count")
  <2> DEFINE s == [gen |-> g, line |-> out[o].line]
             R == Append(out[o].ring, s)
             r == [out[o] EXCEPT !.ring = R]
  <2>1. out[o] \in OutRecords /\ OutputTypes /\ out[o].ring \in Seq(Samples) /\ s \in Samples
    BY DEF IInv, Types, OutputTypes, OutRecords, Samples
  <2>2. R \in Seq(Samples) /\ Len(R) = Len(out[o].ring) + 1 /\ s.gen = g /\ s.line = out[o].line
    BY <2>1
  <2>3. Len(R) <= Ring
    BY <1>4, <2>1, <2>2, PlaybackAssumption
  <2>4. out' = [out EXCEPT ![o] = r]
    BY <1>4
  <2> HIDE DEF R
  <2>5. /\ r \in OutRecords /\ r.ring = R /\ r.gen = out[o].gen
        /\ r.floor = out[o].floor /\ r.done = out[o].done /\ r.queued = out[o].queued
        /\ r.played = out[o].played /\ r.cut = out[o].cut /\ r.line = out[o].line
    BY <2>1, <2>2 DEF OutRecords
  <2> HIDE DEF r, s
  <2>6. OutputTypes' /\ out'[o] = r /\ \A p \in Outputs \ {o} : out'[p] = out[p]
    BY <1>1, <2>1, <2>3, <2>4, <2>5, OutputSet DEF OutputTypes
  <2>7. /\ chan' \in [1 .. Gens -> ChanRecords] /\ chan'[g] = At(g, "count")
        /\ \A h \in 1 .. Gens \ {g} : chan'[h] = chan[h]
        /\ chan'[g].out = o /\ chan'[g].last = chan[g].last /\ chan'[g].started = chan[g].started
        /\ chan'[g].at = "count"
    <3>1. /\ At(g, "count") \in ChanRecords /\ At(g, "count").at = "count"
          /\ At(g, "count").out = chan[g].out /\ At(g, "count").last = chan[g].last
          /\ At(g, "count").started = chan[g].started
          /\ chan' = [chan EXCEPT ![g] = At(g, "count")]
      BY <1>4, AtIs DEF ChanPlaces
    <3> QED BY <1>2, <3>1, ChanSet
  <2>8. Sound(o)'
    <3>1. Pushes(o, g)
      BY <1>1, <1>2 DEF Pushes
    <3>2. out'[o].ring = Append(out[o].ring, s)
      BY <2>5, <2>6 DEF R
    <3> QED BY <1>1, <1>4, <2>1, <2>2, <2>5, <2>6, <2>7, <3>1, <3>2, AppendSounds
  <2>9. HalfPush(g, o)
    BY <1>1, <1>4, <2>5, <2>6, <2>7 DEF HalfPush
  <2> QED BY <1>1, <1>2, <2>6, <2>7, <2>8, <2>9, HalfPushKeeps
<1> QED BY <1>2, <1>3, <1>4 DEF Push

(* The count catches up with the push.                                     *)
LEMMA CountKeeps ==
  ASSUME IInv, NEW g \in 1 .. Gens, Count(g)
  PROVE  IInv'
<1>1. /\ chan[g].at = "count" /\ PlacedChan(g) /\ chan[g] \in ChanRecords /\ ChanAt(g, "pushed")
      /\ UNCHANGED <<producer, track, registered, dev, actor, pending, cancelled>>
  BY DEF Count, IInv, Placed, Types
<1>2. PICK o \in Outputs : o = chan[g].out /\ out[o].gen # 0 /\ o # 0
  BY <1>1 DEF PlacedChan, IInv, Known, Fine, Serving
<1> DEFINE q == out[o].queued + 1
           r == [out[o] EXCEPT !.queued = q]
<1>3. out' = [out EXCEPT ![o] = r]
  BY <1>2 DEF Count
<1>4. /\ out[o] \in OutRecords /\ OutputTypes /\ Len(out[o].ring) <= Ring /\ Sound(o)
      /\ dev[o] \in DevRecords /\ q \in Nat
  BY DEF IInv, Types, OutputTypes, OutRecords, Sounds
<1> HIDE DEF q
<1>5. /\ r \in OutRecords /\ r.ring = out[o].ring /\ r.gen = out[o].gen
      /\ r.floor = out[o].floor /\ r.done = out[o].done /\ r.queued = q
      /\ r.played = out[o].played /\ r.cut = out[o].cut /\ r.line = out[o].line
  BY <1>4 DEF OutRecords
<1> HIDE DEF r
<1>6. OutputTypes' /\ out'[o] = r /\ \A p \in Outputs \ {o} : out'[p] = out[p]
  BY <1>1, <1>3, <1>4, <1>5, OutputSet DEF OutputTypes
<1>7. /\ chan' \in [1 .. Gens -> ChanRecords]
      /\ \A h \in 1 .. Gens \ {g} : chan'[h] = chan[h]
      /\ chan'[g].out = o /\ chan'[g].last = chan[g].last /\ chan'[g].started = chan[g].started
      /\ chan'[g].at = "pushed"
  <2>1. /\ At(g, "pushed") \in ChanRecords /\ At(g, "pushed").at = "pushed"
        /\ At(g, "pushed").out = chan[g].out /\ At(g, "pushed").last = chan[g].last
        /\ At(g, "pushed").started = chan[g].started
        /\ chan' = [chan EXCEPT ![g] = At(g, "pushed")]
    BY <1>1, AtIs DEF ChanPlaces
  <2> QED BY <1>2, <2>1, ChanSet
<1>8. Sound(o)'
  <2>1. \A j : Index(o, j)' = Index(o, j)
    BY <1>1, <1>5, <1>6 DEF Index
  <2>2. Pushes(o, g) /\ \A h \in 1 .. Gens : Pushes(o, h) => h = g
    <3>1. Pushes(o, g)
      BY <1>1, <1>2 DEF Pushes
    <3> QED BY <1>4, <3>1 DEF Sound, Counted
  <2>3. \A h \in 1 .. Gens : ~(Pushes(o, h)')
    <3>1. ~(Pushes(o, g)')
      BY <1>7 DEF Pushes
    <3>2. \A h \in 1 .. Gens : h # g => (Pushes(o, h)' <=> Pushes(o, h))
      BY <1>7 DEF Pushes
    <3> QED BY <2>2, <3>1, <3>2
  <2>4. Counting(o) /\ ~(Counting(o)')
    <3>1. Counting(o)
      BY <1>1, <1>2 DEF Counting
    <3>2. ~(Counting(o)')
      BY <2>3 DEF Counting, Pushes
    <3> QED BY <3>1, <3>2
  <2>5. Counted(o)'
    <3>1. /\ out[o].queued + 1 = Index(o, Len(out[o].ring)) /\ out[o].cut <= out[o].queued
          /\ dev[o].at \in {"idle", "gate", "pop"} => dev[o].heard = <<>>
          /\ dev[o].at = "popped" => Len(dev[o].heard) = 1
      BY <1>4, <2>4 DEF Sound, Counted
    <3>2. out[o].queued \in Nat /\ out[o].cut \in Nat
      BY <1>4 DEF OutRecords
    <3>3. out'[o].queued + 0 = Index(o, Len(out[o].ring)) /\ out'[o].cut <= out'[o].queued
      BY <1>5, <1>6, <3>1, <3>2 DEF q
    <3> QED BY <1>1, <1>5, <1>6, <2>1, <2>3, <2>4, <3>1, <3>3 DEF Counted
  <2>6. Lined(o)'
    BY <1>4, <1>5, <1>6, <2>1 DEF Sound, Lined
  <2>7. Floored(o)'
    <3>1. (Flushing(o)' <=> Flushing(o)) /\ (Cutting(o)' <=> Cutting(o))
      BY <1>1 DEF Flushing, Cutting
    <3> QED BY <1>1, <1>4, <1>5, <1>6, <2>1, <2>3, <3>1 DEF Sound, Floored
  <2>8. InHand(o)'
    BY <1>1, <1>4, <1>5, <1>6 DEF Sound, InHand
  <2> QED BY <2>5, <2>6, <2>7, <2>8 DEF Sound
<1>9. HalfPush(g, o)
  BY <1>1, <1>5, <1>6, <1>7 DEF HalfPush
<1> QED BY <1>1, <1>2, <1>6, <1>7, <1>8, <1>9, HalfPushKeeps

(* A new output is nobody's but its channel's and the registry's.          *)
LEMMA OpenOutputKeeps ==
  ASSUME IInv, NEW g \in 1 .. Gens, OpenOutput(g)
  PROVE  IInv'
<1> DEFINE r == [Unopened EXCEPT !.gen = g, !.floor = g]
           c == [chan[g] EXCEPT !.at = "bind", !.out = g]
<1>1. /\ chan[g].at = "open" /\ PlacedChan(g) /\ chan[g] \in ChanRecords /\ OutputTypes
      /\ out' = [out EXCEPT ![g] = r] /\ registered' = g /\ chan' = [chan EXCEPT ![g] = c]
      /\ UNCHANGED <<producer, track, dev, actor, pending, cancelled>>
  BY DEF OpenOutput, IInv, Placed, Types
<1>2. /\ g \in Outputs /\ g \in Nat /\ g # 0 /\ g \in 0 .. Gens
      /\ chan[g].out = 0 /\ ~chan[g].last /\ out[g].gen = 0 /\ g <= track.gen
  BY <1>1, PlaybackAssumption DEF PlacedChan, Outputs
<1>3. out[g] = Unopened /\ dev[g] = [at |-> "idle", heard |-> <<>>, floor |-> 0]
  BY <1>2 DEF IInv, Known, Untouched
<1>4. /\ out[g] \in OutRecords /\ 0 \in 0 .. Gens
  BY <1>2, PlaybackAssumption DEF IInv, Types, OutputTypes
<1>5. /\ r \in OutRecords /\ r.ring = <<>> /\ r.gen = g /\ r.floor = g /\ r.done = FALSE
      /\ r.queued = 0 /\ r.played = 0 /\ r.cut = 0 /\ r.line = 0 /\ Len(r.ring) <= Ring
  <2>1. /\ Unopened.ring = <<>> /\ Unopened.done = FALSE /\ Unopened.queued = 0
        /\ Unopened.played = 0 /\ Unopened.cut = 0 /\ Unopened.line = 0
    BY DEF Unopened
  <2>2. Unopened \in OutRecords /\ Len(<<>>) <= Ring
    BY <1>3, <1>4, PlaybackAssumption
  <2> QED BY <1>2, <2>1, <2>2 DEF OutRecords
<1>6. /\ c \in ChanRecords /\ c.at = "bind" /\ c.out = g /\ c.last = FALSE
      /\ c.started = chan[g].started
  BY <1>1, <1>2 DEF ChanRecords, ChanPlaces
<1> HIDE DEF r, c
<1>7. OutputTypes' /\ out'[g] = r /\ \A p \in Outputs \ {g} : out'[p] = out[p]
  BY <1>1, <1>2, <1>5, OutputSet DEF OutputTypes
<1>8. /\ chan' \in [1 .. Gens -> ChanRecords] /\ chan'[g] = c
      /\ \A h \in 1 .. Gens \ {g} : chan'[h] = chan[h]
  BY <1>1, <1>6, ChanSet
<1>9. Types'
  BY <1>1, <1>2, <1>7, <1>8 DEF IInv, Types, PendingTypes, Waits
<1>10. /\ registered # g /\ actor.out # g
       /\ \A h \in 1 .. Gens : chan[h].out # g /\ chan[h].started # g
       /\ \A i \in DOMAIN pending : pending[i].out # g
  BY <1>2 DEF IInv, Known, Fine
<1>11. Known'
  <2>1. \A p : p # g /\ Fine(p) => Fine(p)'
    BY <1>7 DEF Fine
  <2>2. (Fine(g))'
    BY <1>2, <1>5, <1>7 DEF Fine
  <2>3. \A p \in Outputs : out'[p].gen = 0 => Untouched(p)'
    BY <1>1, <1>2, <1>5, <1>7 DEF IInv, Known, Untouched
  <2>4. Fine(registered)'
    BY <1>1, <1>2, <1>5, <1>7 DEF Fine
  <2>5. Fine(actor.out)'
    BY <1>1, <1>7, <1>10 DEF IInv, Known, Fine
  <2>6. \A i \in DOMAIN pending' : Fine(pending[i].out)'
    BY <1>1, <1>7, <1>10 DEF IInv, Known, Fine
  <2>7. ASSUME NEW h \in 1 .. Gens PROVE Fine(chan[h].out)' /\ Fine(chan[h].started)'
    <3>1. chan'[h].out = chan[h].out \/ chan'[h].out = g
      BY <1>6, <1>8
    <3>2. chan'[h].started = chan[h].started
      BY <1>6, <1>8
    <3>3. Fine(chan[h].out) /\ Fine(chan[h].started) /\ chan[h].out # g /\ chan[h].started # g
      BY <1>10 DEF IInv, Known
    <3> QED BY <1>2, <1>5, <1>7, <3>1, <3>2, <3>3 DEF Fine
  <2> QED BY <2>3, <2>4, <2>5, <2>6, <2>7 DEF Known
<1>12. Placed'
  <2>1. ASSUME NEW h \in 1 .. Gens PROVE PlacedChan(h)'
    <3>1. CASE h = g
      BY <1>1, <1>2, <1>6, <1>8, <3>1 DEF PlacedChan, Serving
    <3>2. CASE h # g
      <4>1. chan'[h] = chan[h] /\ PlacedChan(h) /\ out'[h] = out[h]
        BY <1>7, <1>8, <3>2 DEF IInv, Placed, Outputs
      <4>2. chan[h].out # 0 => out'[chan[h].out] = out[chan[h].out]
        BY <1>7, <1>10 DEF IInv, Known, Fine
      <4> QED BY <1>1, <4>1, <4>2 DEF PlacedChan, Serving
    <3> QED BY <3>1, <3>2
  <2>2. PlacedActor'
    BY <1>1 DEF IInv, Placed, PlacedActor
  <2>3. ASSUME NEW p \in Outputs PROVE PlacedOut(p)'
    <3>1. CASE p = g
      BY <1>1, <1>2, <1>3, <1>5, <1>7, <3>1 DEF PlacedOut
    <3>2. CASE p # g
      BY <1>1, <1>7, <3>2 DEF IInv, Placed, PlacedOut
    <3> QED BY <3>1, <3>2
  <2> QED BY <2>1, <2>2, <2>3 DEF Placed
<1>13. \A p \in Outputs, h \in 1 .. Gens : Pushes(p, h)' <=> Pushes(p, h)
  BY <1>1, <1>6, <1>8 DEF Pushes
<1>14. \A h \in 1 .. Gens : ~Pushes(g, h)
  BY <1>10 DEF Pushes
<1>15. Sounds'
  <2> SUFFICES ASSUME NEW p \in Outputs PROVE Sound(p)'
    BY DEF Sounds
  <2>1. CASE p = g
    <3>1. /\ out'[g].ring = <<>> /\ out'[g].queued = 0 /\ out'[g].played = 0 /\ out'[g].cut = 0
          /\ dev'[g].at = "idle" /\ dev'[g].heard = <<>> /\ Len(<<>>) = 0 /\ DOMAIN <<>> = {}
      BY <1>1, <1>3, <1>5, <1>7
    <3>2. \A h \in 1 .. Gens : ~(Pushes(g, h)')
      BY <1>2, <1>13, <1>14
    <3>3. ~(Counting(g)')
      BY <3>2 DEF Counting, Pushes
    <3>4. Counted(g)'
      BY <3>1, <3>2, <3>3 DEF Counted, Index
    <3> QED BY <2>1, <3>1, <3>2, <3>4 DEF Sound, Lined, Floored, InHand
  <2>2. CASE p # g
    <3>1. Sound(p) /\ Alike(p) /\ UNCHANGED dev
      BY <1>1, <1>7, <2>2 DEF IInv, Sounds, Alike
    <3>2. \A h \in 1 .. Gens : (chan'[h].out = p /\ chan'[h].at = "count")
                               <=> (chan[h].out = p /\ chan[h].at = "count")
      BY <1>1, <1>6, <1>8
    <3>3. Counting(p)' <=> Counting(p)
      BY <3>2 DEF Counting
    <3>4. (Flushing(p)' <=> Flushing(p)) /\ (Cutting(p)' <=> Cutting(p))
      BY <1>1 DEF Flushing, Cutting
    <3>5. /\ \A h, k \in 1 .. Gens : Pushes(p, h)' /\ Pushes(p, k)' => h = k
          /\ Flushing(p)' => \A h \in 1 .. Gens : ~Pushes(p, h)'
      BY <1>13, <3>1, <3>4 DEF Sound, Counted, Floored
    <3> QED BY <3>1, <3>3, <3>4, <3>5, SoundKeep
  <2> QED BY <2>1, <2>2
<1>16. Ends'
  <2>1. ASSUME NEW p \in Outputs \ {g}, Finished(p), out[p].gen \in 1 .. Gens
        PROVE  Finished(p)'
    <3>1. PICK f \in 1 .. Gens : f = out[p].gen /\ out'[p].gen = f
      BY <1>7, <2>1
    <3>2. chan[f].out = p /\ Gone(f) /\ \A h \in 1 .. Gens : ~Pushes(p, h)
      BY <2>1, <3>1 DEF Finished
    <3>3. chan'[f] = chan[f]
      BY <1>2, <1>8, <3>2 DEF Gone
    <3>4. chan'[out'[p].gen].out = p /\ Gone(out[p].gen)'
      BY <3>1, <3>2, <3>3 DEF Gone
    <3> QED BY <1>13, <3>2, <3>4 DEF Finished
  <2>2. ASSUME NEW p \in Outputs \ {g}, UpToDate(p), out[p].gen # 0 PROVE UpToDate(p)'
    <3>0. out[p].gen \in 0 .. Gens /\ out'[p] = out[p]
      BY <1>7 DEF IInv, Types, OutputTypes, OutRecords
    <3>1. PICK f \in 1 .. Gens : f = out[p].gen /\ out'[p].gen = f
      BY <2>2, <3>0, PlaybackAssumption
    <3>2. (chan'[f].last => chan[f].last) /\ (chan'[f].out = p => chan[f].out = p)
      <4>1. CASE f = g
        BY <1>6, <1>8, <4>1
      <4>2. CASE f # g
        BY <1>8, <4>2
      <4> QED BY <4>1, <4>2
    <3> QED BY <1>1, <2>2, <3>0, <3>1, <3>2 DEF UpToDate, Unfinished
  <2>3. ASSUME NEW p \in Outputs, out'[p].done PROVE Finished(p)' \/ Advanced(p)'
    <3>1. p # g /\ out'[p] = out[p] /\ out[p].done
      BY <1>5, <1>7, <2>3
    <3>2. Finished(p) \/ Advanced(p)
      BY <3>1 DEF IInv, Ends
    <3>3. out[p].gen \in 1 .. Gens
      <4>1. out[p].gen \in 0 .. Gens
        BY DEF IInv, Types, OutputTypes, OutRecords
      <4>2. out[p].gen # 0
        BY <3>1 DEF IInv, Known, Untouched, Unopened
      <4> QED BY <4>1, <4>2, PlaybackAssumption
    <3> QED BY <1>1, <2>1, <3>1, <3>2, <3>3 DEF Advanced
  <2>4. UpToDate(registered)'
    BY <1>1, <1>5, <1>6, <1>7, <1>8 DEF UpToDate, Unfinished
  <2>5. ASSUME NEW i \in DOMAIN pending'
        PROVE  /\ pending'[i].gen <= track'.gen
               /\ pending'[i].out # 0 /\ pending'[i].gen = track'.gen => UpToDate(pending[i].out)'
    <3>1. i \in DOMAIN pending /\ pending[i].gen <= track.gen
      BY <1>1 DEF IInv, Ends
    <3>2. ASSUME pending[i].out # 0, pending[i].gen = track.gen PROVE UpToDate(pending[i].out)'
      <4>1. /\ UpToDate(pending[i].out) /\ out[pending[i].out].gen # 0
            /\ pending[i].out \in Outputs \ {g}
        BY <1>10, <3>1, <3>2 DEF IInv, Ends, Known, Fine
      <4>2. \A p \in Outputs \ {g} : p = pending[i].out => UpToDate(p)'
        BY <2>2, <4>1
      <4> QED BY <1>1, <4>1, <4>2 DEF UpToDate, Unfinished
    <3> QED BY <1>1, <3>1, <3>2
  <2> QED BY <2>3, <2>4, <2>5 DEF Ends
<1>17. Silent'
  <2> SUFFICES ASSUME Learnt' PROVE Quiet'
    BY DEF Silent
  <2>1. Quiet
    BY <1>1 DEF IInv, Silent, Learnt
  <2>2. PICK f \in 1 .. Gens : f = track.gen /\ track'.gen = f
    BY <1>1 DEF IInv, Types, TrackRecords
  <2>3. Gone(f) /\ f # g /\ chan'[f] = chan[f]
    BY <1>2, <1>8, <2>1, <2>2 DEF Quiet, Gone
  <2>4. \A p \in Outputs : out'[p].gen = f /\ chan'[f].out = p => out'[p].ring = <<>>
    <3> SUFFICES ASSUME NEW p \in Outputs, out'[p].gen = f, chan[f].out = p
                 PROVE  out'[p].ring = <<>>
      BY <2>3
    <3>1. p # g /\ out'[p] = out[p]
      BY <1>7, <1>10
    <3> QED BY <2>1, <2>2, <3>1 DEF Quiet
  <2>5. Gone(track.gen)'
    BY <2>2, <2>3 DEF Gone
  <2> QED BY <2>2, <2>4, <2>5 DEF Quiet
<1> QED BY <1>9, <1>11, <1>12, <1>15, <1>16, <1>17 DEF IInv

-----------------------------------------------------------------------------
(* The steps of the actor that leave the outputs' accounts alone.          *)
LEMMA TurnIs ==
  ASSUME NEW p
  PROVE  /\ Turn(p) \in ActorRecords /\ Turn(p).out = 0 /\ Turn(p).advancing = FALSE
         /\ Turn(p).at \in {"idle", "service"}
BY PlaybackAssumption DEF Turn, ActorRecords, ActorPlaces

LEMMA ActorAtIs ==
  ASSUME IInv, NEW at \in ActorPlaces, ActorAt(at)
  PROVE  /\ actor' \in ActorRecords /\ actor'.at = at /\ actor'.out = actor.out
         /\ actor'.advancing = actor.advancing
<1>1. actor \in ActorRecords
  BY DEF IInv, Types
<1> QED BY <1>1 DEF ActorAt, ActorRecords

(* The actor is not in the middle of an ADVANCE_CHANNEL's flush, or at its *)
(* end, and none begins.                                                   *)
LEMMA Settles ==
  ASSUME IInv, UNCHANGED <<producer, chan, dev>>,
         track' \in TrackRecords, track'.gen = track.gen,
         registered' \in {0, registered}, OutputTypes', PendingTypes',
         \A o \in Outputs : Alike(o) /\ (out'[o].done => out[o].done),
         actor' \in ActorRecords, actor'.advancing = FALSE,
         actor'.out \in {0, actor.out, registered},
         actor.at \notin {"barrier", "cut", "gate"} \/ ~actor.advancing,
         actor'.at \notin {"barrier", "swap"},
         actor'.at \in {"start"} \cup FlushSteps => actor'.out # 0,
         registered' # 0 /\ actor'.at # "evict" => actor.at \notin {"swap", "evict"},
         EntriesKept, Learnt' => Learnt \/ Quiet
  PROVE  IInv'
<1>1. Types'
  <2>1. registered' \in 0 .. Gens
    BY PlaybackAssumption DEF IInv, Types
  <2> QED BY <2>1 DEF IInv, Types
<1>2. ActorOnly
  BY DEF ActorOnly
<1>3. PlacedActor'
  BY DEF PlacedActor
<1>4. FlushesFree
  BY DEF FlushesFree, EndsHeld, Flushing, Cutting, Advanced
<1> QED BY <1>1, <1>2, <1>3, <1>4, ActorKeeps

(* Whoever keeps the entries and the requests keeps what is owed.          *)
LEMMA SamePending ==
  ASSUME IInv, UNCHANGED <<pending, cancelled>>
  PROVE  PendingTypes' /\ EntriesKept
BY DEF IInv, Types, PendingTypes, Waits, EntriesKept

LEMMA SwapsNone ==
  ASSUME IInv, Swap,
         registered = 0 \/ (registered # 0 /\ out[registered].gen + 1 # track.gen)
  PROVE  IInv'
<1>1. /\ actor.at = "swap" /\ PlacedActor
      /\ UNCHANGED <<producer, track, registered, out, dev, chan, pending, cancelled>>
  BY DEF Swap, IInv, Placed
<1>2. Mild
  BY <1>1, StaysMild
<1>3. CASE registered = 0
  <2>1. actor' = Turn(pending)
    BY <1>3 DEF Swap
  <2> QED BY <1>1, <1>2, <1>3, <2>1, TurnIs, StillOutputs, SamePending, Settles
          DEF Mild, FlushSteps
<1>4. CASE registered # 0
  <2>1. ActorAt("evict")
    BY <1>4 DEF Swap
  <2>2. /\ actor' \in ActorRecords /\ actor'.at = "evict" /\ actor'.out = actor.out
        /\ actor'.advancing = actor.advancing
    BY <2>1, ActorAtIs DEF ActorPlaces
  <2>3. actor'.advancing = FALSE
    BY <1>1, <2>2 DEF PlacedActor, FlushSteps, IInv, Types, ActorRecords
  <2> QED BY <1>1, <1>2, <2>2, <2>3, StillOutputs, SamePending, Settles DEF Mild, FlushSteps
<1> QED BY <1>3, <1>4

(* ADVANCE_CHANNEL evicts an output that it cannot advance, DESTROY_TRACK  *)
(* removes it.                                                             *)
LEMMA EvictKeeps ==
  ASSUME IInv, Evict \/ RemoveOutput
  PROVE  IInv'
<1>1. /\ actor.at \in {"evict", "remove"} /\ StopRegistered /\ actor' = Turn(pending)
      /\ UNCHANGED <<producer, track, dev, chan, pending, cancelled>>
  BY DEF Evict, RemoveOutput
<1>2. Mild
  BY <1>1, StaysMild
<1>3. /\ OutputTypes' /\ registered' = 0
      /\ \A o \in Outputs : Alike(o) /\ (out'[o].done => out[o].done)
  BY <1>1, StopIs
<1> QED BY <1>1, <1>2, <1>3, TurnIs, SamePending, Settles DEF Mild, FlushSteps

(* The flush of an ADVANCE_CHANNEL waits for the push that is under way.   *)
LEMMA BarrierKeeps ==
  ASSUME IInv, Barrier
  PROVE  IInv'
<1>1. /\ actor.at = "barrier" /\ ~Held(actor.out) /\ ActorAt("cut") /\ PlacedActor
      /\ UNCHANGED <<producer, track, registered, out, dev, chan, pending, cancelled>>
  BY DEF Barrier, IInv, Placed
<1>2. Mild /\ PendingTypes' /\ EntriesKept /\ OutputTypes'
      /\ \A o \in Outputs : Alike(o) /\ (out'[o].done => out[o].done)
  BY <1>1, StaysMild, SamePending, StillOutputs
<1>3. /\ actor' \in ActorRecords /\ actor'.at = "cut" /\ actor'.out = actor.out
      /\ actor'.advancing = actor.advancing
  BY <1>1, ActorAtIs DEF ActorPlaces, FlushSteps
<1>4. Types'
  BY <1>1, <1>2, <1>3 DEF IInv, Types, Mild
<1>5. ActorOnly
  BY <1>1, <1>2, <1>3 DEF ActorOnly, Mild
<1>6. PlacedActor'
  BY <1>1, <1>3 DEF PlacedActor, FlushSteps
<1>7. FlushesFree
  BY <1>1, <1>3 DEF FlushesFree, EndsHeld, Flushing, Cutting, Advanced
<1> QED BY <1>2, <1>4, <1>5, <1>6, <1>7, ActorKeeps DEF Mild

(* What a flush does between its watermark and its clock: the decoder is   *)
(* not done.                                                               *)
LEMMA FlushGateKeeps ==
  ASSUME IInv, FlushGate
  PROVE  IInv'
<1> DEFINE r(o) == [out[o] EXCEPT !.prebuffered = FALSE, !.waiting = FALSE, !.mark = 0,
                                  !.done = FALSE]
<1>1. /\ actor.at = "gate" /\ ActorAt("clock") /\ PlacedActor /\ OutputTypes
      /\ UNCHANGED <<producer, track, registered, dev, chan, pending, cancelled>>
  BY DEF FlushGate, IInv, Placed, Types
<1>2. PICK o \in Outputs : o = actor.out /\ out[o].gen # 0 /\ o # 0
  BY <1>1 DEF PlacedActor, IInv, Known, Fine, FlushSteps
<1>3. out' = [out EXCEPT ![o] = r(o)]
  BY <1>2 DEF FlushGate
<1>4. out[o] \in OutRecords /\ Len(out[o].ring) <= Ring
  BY <1>1 DEF OutputTypes
<1>5. /\ r(o) \in OutRecords /\ r(o).ring = out[o].ring /\ r(o).gen = out[o].gen
      /\ r(o).floor = out[o].floor /\ r(o).done = FALSE /\ r(o).queued = out[o].queued
      /\ r(o).played = out[o].played /\ r(o).cut = out[o].cut /\ r(o).line = out[o].line
  BY <1>4 DEF OutRecords
<1> HIDE DEF r
<1>6. OutputTypes' /\ out'[o] = r(o) /\ \A p \in Outputs \ {o} : out'[p] = out[p]
  BY <1>1, <1>3, <1>4, <1>5, OutputSet DEF OutputTypes
<1>7. \A p \in Outputs : Alike(p) /\ (out'[p].done => out[p].done /\ p # o)
  BY <1>2, <1>5, <1>6 DEF Alike
<1>8. Mild /\ PendingTypes' /\ EntriesKept
  BY <1>1, StaysMild, SamePending
<1>9. /\ actor' \in ActorRecords /\ actor'.at = "clock" /\ actor'.out = actor.out
      /\ actor'.advancing = actor.advancing
  BY <1>1, ActorAtIs DEF ActorPlaces, FlushSteps
<1>10. Types'
  BY <1>1, <1>6, <1>8, <1>9 DEF IInv, Types, Mild
<1>11. ActorOnly
  BY <1>1, <1>7, <1>8, <1>9 DEF ActorOnly, Mild
<1>12. PlacedActor'
  BY <1>1, <1>9 DEF PlacedActor, FlushSteps
<1>13. FlushesFree
  BY <1>1, <1>2, <1>7, <1>9 DEF FlushesFree, EndsHeld, Flushing, Cutting, Advanced, FlushSteps
<1> QED BY <1>8, <1>10, <1>11, <1>12, <1>13, ActorKeeps DEF Mild

(* The actor holds no lock of a flush at any other place.                  *)
LEMMA Unlocked ==
  ASSUME IInv, actor.at \notin {"barrier"} \cup FlushSteps
  PROVE  actor.advancing = FALSE
BY DEF IInv, Placed, PlacedActor, Types, ActorRecords

(* FLUSH: a new epoch has no end yet. *)
LEMMA FlushKeeps ==
  ASSUME IInv, Flush
  PROVE  IInv'
<1>1. /\ actor.at = "idle" /\ track \in TrackRecords /\ track.epoch < MaxEpoch
      /\ track' = [track EXCEPT !.epoch = track.epoch + 1,
                                !.miles = track.miles \cap {"accepted"},
                                !.sync = FALSE, !.proved = FALSE]
      /\ UNCHANGED <<producer, registered, out, dev, chan, pending, cancelled>>
  BY DEF Flush, Asks, IInv, Types
<1>2. track.epoch + 1 \in 0 .. MaxEpoch
  BY <1>1, PlaybackAssumption DEF TrackRecords
<1>3. /\ track' \in TrackRecords /\ track'.gen = track.gen
      /\ track'.miles = track.miles \cap {"accepted"}
  BY <1>1, <1>2 DEF TrackRecords
<1>4. ~(Learnt')
  BY <1>3 DEF Learnt
<1>5. registered \in 0 .. Gens
  BY DEF IInv, Types
<1>6. CASE registered = 0
  <2>1. actor' = Turn(pending)
    BY <1>6 DEF Flush
  <2> QED BY <1>1, <1>3, <1>4, <2>1, TurnIs, StillOutputs, SamePending, Settles DEF FlushSteps
<1>7. CASE registered # 0
  <2>1. actor' = [at |-> "cut", out |-> registered, advancing |-> FALSE]
    BY <1>7 DEF Flush
  <2>2. /\ actor' \in ActorRecords /\ actor'.at = "cut" /\ actor'.out = registered
        /\ actor'.advancing = FALSE
    BY <1>5, <2>1 DEF ActorRecords, ActorPlaces, FlushSteps
  <2> QED BY <1>1, <1>3, <1>4, <1>7, <2>2, StillOutputs, SamePending, Settles DEF FlushSteps
<1> QED BY <1>6, <1>7

(* A step that changes the registered output's controls, and keeps what    *)
(* its accounts are about.                                                 *)
Tunes(o, r) ==
  /\ r \in OutRecords /\ r.ring = out[o].ring /\ r.gen = out[o].gen
  /\ r.floor = out[o].floor /\ r.done = out[o].done /\ r.queued = out[o].queued
  /\ r.played = out[o].played /\ r.cut = out[o].cut /\ r.line = out[o].line

LEMMA Tuned ==
  ASSUME IInv, UNCHANGED dev, out' = [o \in Outputs |-> out'[o]],
         \A o \in Outputs : out'[o] = out[o] \/ (o = registered /\ Tunes(o, out'[o]))
  PROVE  OutputTypes' /\ \A o \in Outputs : Alike(o) /\ (out'[o].done => out[o].done)
<1>1. OutputTypes /\ (registered # 0 => registered \in Outputs /\ out[registered].gen # 0)
  BY DEF IInv, Types, Known, Fine
<1>2. \A o \in Outputs : out'[o] = out[o] \/ (o = registered /\ registered # 0 /\ Tunes(o, out'[o]))
  BY PlaybackAssumption DEF Outputs
<1>3. DOMAIN out' = Outputs
  OBVIOUS
<1>4. \A o \in Outputs : out'[o] \in OutRecords /\ Len(out'[o].ring) <= Ring
  BY <1>1, <1>2 DEF Tunes, OutputTypes
<1>5. OutputTypes'
  BY <1>1, <1>3, <1>4 DEF OutputTypes
<1>6. \A o \in Outputs : Alike(o) /\ (out'[o].done => out[o].done)
  BY <1>1, <1>2 DEF Tunes, Alike
<1> QED BY <1>5, <1>6

(* PLAY: configure_playback() and configure_play(). *)
LEMMA PlayKeeps ==
  ASSUME IInv, NEW need \in Minimums, NEW synchronized \in BOOLEAN, Play(need, synchronized)
  PROVE  IInv'
<1> DEFINE T(o) == [out[o] EXCEPT !.mark = out[o].queued, !.waiting = out[o].rendered,
                                  !.need = need, !.prebuffered = FALSE,
                                  !.enabled = ~synchronized]
<1>1. /\ actor.at = "idle" /\ track' = [track EXCEPT !.sync = synchronized]
      /\ out' = [o \in Outputs |-> IF o # registered THEN out[o] ELSE T(o)]
      /\ UNCHANGED <<producer, registered, dev, chan, pending, cancelled>>
  BY DEF Play, Asks
<1>2. registered # 0 => registered \in Outputs /\ out[registered] \in OutRecords
  BY DEF IInv, Types, OutputTypes, Known, Fine
<1>3. registered # 0 => Tunes(registered, T(registered))
  BY <1>2 DEF Tunes, OutRecords
<1> HIDE DEF T
<1>4. OutputTypes' /\ \A o \in Outputs : Alike(o) /\ (out'[o].done => out[o].done)
  <2>1. \A o \in Outputs : out'[o] = IF o # registered THEN out[o] ELSE T(o)
    BY <1>1
  <2>2. \A o \in Outputs : out'[o] = out[o] \/ (o = registered /\ Tunes(o, out'[o]))
    BY <1>3, <2>1, PlaybackAssumption DEF Outputs
  <2>3. out' = [o \in Outputs |-> out'[o]]
    BY <1>1
  <2> QED BY <1>1, <2>2, <2>3, Tuned
<1>5. Mild
  BY <1>1, SyncMild
<1>6. /\ actor' \in ActorRecords /\ actor'.advancing = FALSE /\ actor'.out \in {0, actor.out}
      /\ actor'.at \in {"idle", "service", "sync"}
  <2>1. CASE synchronized
    <3>1. ActorAt("sync")
      BY <2>1 DEF Play, ActorAt
    <3>2. /\ actor' \in ActorRecords /\ actor'.at = "sync" /\ actor'.out = actor.out
          /\ actor'.advancing = actor.advancing
      BY <3>1, ActorAtIs DEF ActorPlaces
    <3> QED BY <1>1, <3>2, Unlocked DEF FlushSteps
  <2>2. CASE ~synchronized
    <3>1. actor' = Turn(pending)
      BY <2>2 DEF Play
    <3> QED BY <3>1, TurnIs
  <2> QED BY <2>1, <2>2
<1> QED BY <1>1, <1>4, <1>5, <1>6, SamePending, Settles DEF Mild, FlushSteps

LEMMA PauseKeeps ==
  ASSUME IInv, Pause
  PROVE  IInv'
<1> DEFINE T(o) == [out[o] EXCEPT !.enabled = FALSE]
<1>1. /\ actor.at = "idle" /\ track' = [track EXCEPT !.sync = FALSE]
      /\ out' = [o \in Outputs |-> IF o # registered THEN out[o] ELSE T(o)]
      /\ actor' = Turn(pending)
      /\ UNCHANGED <<producer, registered, dev, chan, pending, cancelled>>
  BY DEF Pause, Asks
<1>2. registered # 0 => registered \in Outputs /\ out[registered] \in OutRecords
  BY DEF IInv, Types, OutputTypes, Known, Fine
<1>3. registered # 0 => Tunes(registered, T(registered))
  BY <1>2 DEF Tunes, OutRecords
<1> HIDE DEF T
<1>4. OutputTypes' /\ \A o \in Outputs : Alike(o) /\ (out'[o].done => out[o].done)
  <2>1. \A o \in Outputs : out'[o] = IF o # registered THEN out[o] ELSE T(o)
    BY <1>1
  <2>2. \A o \in Outputs : out'[o] = out[o] \/ (o = registered /\ Tunes(o, out'[o]))
    BY <1>3, <2>1, PlaybackAssumption DEF Outputs
  <2>3. out' = [o \in Outputs |-> out'[o]]
    BY <1>1
  <2> QED BY <1>1, <2>2, <2>3, Tuned
<1>5. Mild
  BY <1>1, SyncMild
<1> QED BY <1>1, <1>4, <1>5, TurnIs, SamePending, Settles DEF Mild, FlushSteps

(* A synchronized PLAY starts the output once everything is ready.         *)
LEMMA PlayTryStartKeeps ==
  ASSUME IInv, PlayTryStart
  PROVE  IInv'
<1> DEFINE s == track.sync /\ ~Releases
<1>1. /\ actor.at = "sync" /\ track' = [track EXCEPT !.sync = s]
      /\ UNCHANGED <<producer, registered, out, dev, chan, pending, cancelled>>
      /\ \/ actor' = Turn(pending)
         \/ registered # 0 /\ actor' = [actor EXCEPT !.at = "start", !.out = registered]
  BY DEF PlayTryStart
<1>2. Mild
  <2>1. s \in BOOLEAN
    OBVIOUS
  <2> HIDE DEF s
  <2> QED BY <1>1, <2>1, SyncMild
<1>3. actor.advancing = FALSE /\ actor \in ActorRecords /\ registered \in 0 .. Gens
  BY <1>1, Unlocked DEF FlushSteps, IInv, Types
<1>4. CASE actor' = Turn(pending)
  BY <1>1, <1>2, <1>4, TurnIs, StillOutputs, SamePending, Settles DEF Mild, FlushSteps
<1>5. CASE registered # 0 /\ actor' = [actor EXCEPT !.at = "start", !.out = registered]
  <2>1. /\ actor' \in ActorRecords /\ actor'.at = "start" /\ actor'.out = registered
        /\ actor'.advancing = FALSE
    BY <1>3, <1>5 DEF ActorRecords, ActorPlaces
  <2> QED BY <1>1, <1>2, <1>5, <2>1, StillOutputs, SamePending, Settles DEF Mild, FlushSteps
<1> QED BY <1>1, <1>4, <1>5

LEMMA PlayStartKeeps ==
  ASSUME IInv, PlayStart
  PROVE  IInv'
<1> DEFINE r(o) == [out[o] EXCEPT !.enabled = TRUE]
<1>1. /\ actor.at = "start" /\ actor' = Turn(pending) /\ PlacedActor /\ OutputTypes
      /\ UNCHANGED <<producer, track, registered, dev, chan, pending, cancelled>>
  BY DEF PlayStart, IInv, Placed, Types
<1>2. PICK o \in Outputs : o = actor.out /\ out[o].gen # 0
  BY <1>1 DEF PlacedActor, IInv, Known, Fine
<1>3. out' = [out EXCEPT ![o] = r(o)]
  BY <1>2 DEF PlayStart
<1>4. out[o] \in OutRecords /\ Len(out[o].ring) <= Ring
  BY <1>1 DEF OutputTypes
<1>5. Tunes(o, r(o))
  BY <1>4 DEF Tunes, OutRecords
<1> HIDE DEF r
<1>6. OutputTypes' /\ out'[o] = r(o) /\ \A p \in Outputs \ {o} : out'[p] = out[p]
  BY <1>1, <1>3, <1>4, <1>5, OutputSet DEF OutputTypes, Tunes
<1>7. \A p \in Outputs : Alike(p) /\ (out'[p].done => out[p].done)
  BY <1>2, <1>5, <1>6 DEF Alike, Tunes
<1> QED BY <1>1, <1>6, <1>7, StaysMild, TurnIs, SamePending, Settles DEF Mild, FlushSteps

(* DESTROY_TRACK takes the track out of the scene, then the output.        *)
LEMMA DestroyTrackKeeps ==
  ASSUME IInv, DestroyTrack
  PROVE  IInv'
<1>1. /\ actor.at = "idle" /\ track' = [track EXCEPT !.life = "gone"] /\ ActorAt("remove")
      /\ track \in TrackRecords
      /\ UNCHANGED <<producer, registered, out, dev, chan, pending, cancelled>>
  BY DEF DestroyTrack, Asks, IInv, Types
<1>2. track' \in TrackRecords /\ track'.gen = track.gen /\ track'.life = "gone"
  BY <1>1 DEF TrackRecords
<1>3. ~(Learnt')
  BY <1>2 DEF Learnt
<1>4. /\ actor' \in ActorRecords /\ actor'.at = "remove" /\ actor'.out = actor.out
      /\ actor'.advancing = FALSE
  BY <1>1, ActorAtIs, Unlocked DEF ActorPlaces, FlushSteps
<1> QED BY <1>1, <1>2, <1>3, <1>4, StillOutputs, SamePending, Settles DEF FlushSteps

LEMMA TickKeeps ==
  ASSUME IInv, Tick
  PROVE  IInv'
<1>1. /\ actor.at = "idle" /\ ActorAt("service")
      /\ UNCHANGED <<producer, track, registered, out, dev, chan, pending, cancelled>>
  BY DEF Tick
<1>2. /\ actor' \in ActorRecords /\ actor'.at = "service" /\ actor'.out = actor.out
      /\ actor'.advancing = FALSE
  BY <1>1, ActorAtIs, Unlocked DEF ActorPlaces, FlushSteps
<1> QED BY <1>1, <1>2, StaysMild, StillOutputs, SamePending, Settles DEF Mild, FlushSteps

-----------------------------------------------------------------------------
(* The operations answered later: what the pending set registers, and what *)
(* the scene learns from an output that has drained.                       *)

LEMMA WaitsFinite ==
  ASSUME NEW p \in Seq(Entries)
  PROVE  IsFiniteSet({i \in DOMAIN p : p[i].wait})
<1>1. IsFiniteSet(1 .. Len(p)) /\ {i \in DOMAIN p : p[i].wait} \subseteq 1 .. Len(p)
  BY FS_Interval
<1> QED BY <1>1, FS_Subset

LEMMA WaitsAre ==
  ASSUME NEW p \in Seq(Entries)
  PROVE  Waits(p) \in Nat
BY WaitsFinite, FS_CardinalityType DEF Waits

LEMMA WaitsAppend ==
  ASSUME NEW p \in Seq(Entries), NEW e \in Entries
  PROVE  Waits(Append(p, e)) = IF e.wait THEN Waits(p) + 1 ELSE Waits(p)
<1> DEFINE n == Len(p)
           S == {i \in DOMAIN p : p[i].wait}
           T == {i \in DOMAIN Append(p, e) : Append(p, e)[i].wait}
<1>1. /\ n \in Nat /\ DOMAIN p = 1 .. n /\ DOMAIN Append(p, e) = 1 .. n + 1
      /\ \A i \in 1 .. n : Append(p, e)[i] = p[i]
      /\ Append(p, e)[n + 1] = e
  BY AppendProperties
<1>2. IsFiniteSet(S) /\ Waits(p) = Cardinality(S) /\ Waits(Append(p, e)) = Cardinality(T)
  BY WaitsFinite DEF Waits
<1> HIDE DEF n
<1>3. n + 1 \notin S
  BY <1>1
<1>4. CASE e.wait
  <2>1. T = S \cup {n + 1}
    BY <1>1, <1>4
  <2>2. Cardinality(S \cup {n + 1}) = Cardinality(S) + 1
    BY <1>2, <1>3, FS_AddElement
  <2> QED BY <1>2, <1>4, <2>1, <2>2
<1>5. CASE ~e.wait
  <2>1. T = S
    BY <1>1, <1>5
  <2> QED BY <1>2, <1>5, <2>1
<1> QED BY <1>4, <1>5

(* PendingSet::register() of a request about the output registered now.    *)
LEMMA Registers ==
  ASSUME IInv, actor.at = "idle", NEW q \in Requests, NEW wait \in BOOLEAN,
         NEW o \in {0, registered}, NEW cond \in Conditions \cup {"none"},
         Admits(wait), pending' = Append(pending, Entry(q, wait, track.gen, o, cond)),
         UNCHANGED cancelled
  PROVE  PendingTypes' /\ EntriesKept
<1> DEFINE e == Entry(q, wait, track.gen, o, cond)
<1>1. /\ pending \in Seq(Entries) /\ Waits(pending) <= MaxWaits /\ Len(pending) <= MaxRequests
      /\ cancelled \subseteq Requests /\ track.gen \in 1 .. Gens /\ o \in 0 .. Gens
  BY PlaybackAssumption DEF IInv, Types, PendingTypes, TrackRecords
<1>2. e \in Entries /\ e.wait = wait /\ e.gen = track.gen /\ e.out = o
  BY <1>1 DEF Entry, Entries
<1> HIDE DEF e
<1>3. /\ pending' = Append(pending, e) /\ pending' \in Seq(Entries) /\ Len(pending) \in Nat
      /\ DOMAIN pending = 1 .. Len(pending)
      /\ Len(pending') = Len(pending) + 1 /\ DOMAIN pending' = 1 .. Len(pending) + 1
      /\ \A i \in 1 .. Len(pending) : pending'[i] = pending[i]
      /\ pending'[Len(pending) + 1] = e
  BY <1>1, <1>2, AppendProperties DEF e
<1>4. Len(pending') <= MaxRequests
  BY <1>1, <1>3, PlaybackAssumption DEF Admits
<1>5. Waits(pending') <= MaxWaits
  <2>1. Waits(pending') = IF wait THEN Waits(pending) + 1 ELSE Waits(pending)
    BY <1>1, <1>2, <1>3, WaitsAppend
  <2>2. Waits(pending) \in Nat
    BY <1>1, WaitsAre
  <2> QED BY <1>1, <2>1, <2>2, PlaybackAssumption DEF Admits
<1>6. PendingTypes'
  <2>1. Waits(pending)' = Waits(pending')
    BY DEF Waits
  <2> QED BY <1>1, <1>3, <1>4, <1>5, <2>1 DEF PendingTypes
<1>7. EntriesKept
  <2> SUFFICES ASSUME NEW i \in 1 .. Len(pending) + 1
               PROVE  \/ \E j \in DOMAIN pending : /\ pending'[i].gen = pending[j].gen
                                                   /\ pending'[i].out = pending[j].out
                      \/ pending'[i].gen <= track.gen /\ pending'[i].out \in {0, registered}
    BY <1>3 DEF EntriesKept
  <2>1. i \in 1 .. Len(pending) \/ i = Len(pending) + 1
    BY <1>3
  <2>2. CASE i \in 1 .. Len(pending)
    BY <1>3, <2>2
  <2>3. CASE i = Len(pending) + 1
    BY <1>1, <1>2, <1>3, <2>3
  <2> QED BY <2>1, <2>2, <2>3
<1> QED BY <1>6, <1>7

(* SharedScene::mark_buffered_ended(). *)
LEMMA MarkEndedIs ==
  ASSUME NEW t \in TrackRecords, NEW g, NEW proved \in BOOLEAN
  PROVE  LET m == MarkEnded(t, g, proved)
         IN  /\ m \in TrackRecords /\ m.gen = t.gen /\ m.life = t.life
             /\ m.proved /\ "ended" \in m.miles =>
                  \/ t.proved /\ "ended" \in t.miles
                  \/ proved /\ t.gen = g
<1> DEFINE M == t.miles \cup {"eos", "ended"}
           b == proved \/ ("ended" \in t.miles /\ t.proved)
           m == [t EXCEPT !.miles = M, !.proved = b]
<1>1. M \in SUBSET Milestones /\ b \in BOOLEAN
  BY DEF TrackRecords, Milestones
<1>2. CASE t.life = "gone" \/ t.gen # g
  BY <1>2 DEF MarkEnded
<1>3. CASE ~(t.life = "gone" \/ t.gen # g)
  <2>1. MarkEnded(t, g, proved) = m
    BY <1>3 DEF MarkEnded
  <2>2. m.proved => proved \/ (t.proved /\ "ended" \in t.miles)
    BY <1>1 DEF TrackRecords
  <2> HIDE DEF M, b
  <2>3. m \in TrackRecords /\ m.gen = t.gen /\ m.life = t.life
    BY <1>1 DEF TrackRecords
  <2> HIDE DEF m
  <2> QED BY <1>3, <2>1, <2>2, <2>3
<1> QED BY <1>2, <1>3

(* An output that has drained, and has not stayed behind, is at the end of *)
(* the track: nothing is left in it, and nobody pushes to it any more.     *)
LEMMA DrainedIsQuiet ==
  ASSUME IInv, NEW o \in Outputs, Drained(o), UpToDate(o), ~Advanced(o)
  PROVE  Quiet /\ out[o].gen = track.gen
<1>1. out[o].done /\ out[o].played >= out[o].queued
  BY DEF Drained
<1>2. out[o].gen = track.gen
  BY <1>1 DEF UpToDate, Unfinished
<1>3. Finished(o)
  BY <1>1 DEF IInv, Ends
<1>4. PICK f \in 1 .. Gens : f = track.gen
  BY DEF IInv, Types, TrackRecords
<1>5. chan[f].out = o /\ Gone(f) /\ \A h \in 1 .. Gens : ~Pushes(o, h)
  BY <1>2, <1>3, <1>4 DEF Finished
<1>6. out[o].ring = <<>>
  <2>1. /\ out[o].ring \in Seq(Samples) /\ dev[o].heard \in Seq(Samples)
        /\ out[o].played \in Nat /\ out[o].queued \in Nat
    BY DEF IInv, Types, OutputTypes, OutRecords, DevRecords
  <2>2. ~Counting(o)
    BY <1>5 DEF Counting, Pushes
  <2>3. out[o].queued + 0 = out[o].played + Len(dev[o].heard) + Len(out[o].ring)
    BY <2>2 DEF IInv, Sounds, Sound, Counted, Index
  <2>4. Len(dev[o].heard) \in Nat /\ Len(out[o].ring) \in Nat
    BY <2>1
  <2>5. Len(out[o].ring) = 0
    <3>1. \A a, b, c, d \in Nat : a + 0 = b + c + d /\ b >= a => d = 0
      OBVIOUS
    <3> QED BY <1>1, <2>1, <2>3, <2>4, <3>1
  <2> QED BY <2>1, <2>5, EmptySeq
<1>7. \A p \in Outputs : chan[track.gen].out = p => p = o
  BY <1>4, <1>5
<1> QED BY <1>2, <1>4, <1>5, <1>6, <1>7 DEF Quiet

(* DRAIN: owed until the output has drained, or ended at once.             *)
LEMMA DrainKeeps ==
  ASSUME IInv, NEW q \in Requests, Drain(q)
  PROVE  IInv'
<1>1. /\ actor.at = "idle" /\ actor' = Turn(pending') /\ track \in TrackRecords /\ OutputTypes
      /\ UNCHANGED <<producer, registered, dev, chan, cancelled>>
  BY DEF Drain, Asks, IInv, Types
<1>2. /\ actor' \in ActorRecords /\ actor'.out = 0 /\ actor'.advancing = FALSE
      /\ actor'.at \in {"idle", "service"}
  BY <1>1, TurnIs
<1>3. CASE registered = 0
  <2>1. track' = MarkEnded(track, track.gen, FALSE) /\ UNCHANGED <<out, pending>>
    BY <1>3 DEF Drain
  <2>2. track' \in TrackRecords /\ track'.gen = track.gen /\ (Learnt' => Learnt)
    BY <1>1, <2>1, MarkEndedIs DEF Learnt
  <2> QED BY <1>1, <1>2, <1>3, <2>1, <2>2, StillOutputs, SamePending, Settles DEF FlushSteps
<1>4. CASE registered # 0
  <2> DEFINE b == out[registered].eos \/ Admits(FALSE)
             r == [out[registered] EXCEPT !.eos = b]
  <2>1. out' = [out EXCEPT ![registered] = r] /\ UNCHANGED track
    BY <1>4 DEF Drain
  <2>2. registered \in Outputs /\ out[registered].gen # 0 /\ out[registered] \in OutRecords
        /\ Len(out[registered].ring) <= Ring
    BY <1>1, <1>4 DEF IInv, Known, Fine, OutputTypes
  <2>3. b \in BOOLEAN
    BY <2>2 DEF OutRecords
  <2> HIDE DEF b
  <2>4. Tunes(registered, r)
    BY <2>2, <2>3 DEF OutRecords, Tunes
  <2> HIDE DEF r
  <2>5. OutputTypes' /\ out'[registered] = r /\ \A p \in Outputs \ {registered} : out'[p] = out[p]
    BY <1>1, <2>1, <2>2, <2>4, OutputSet DEF OutputTypes, Tunes
  <2>6. \A p \in Outputs : Alike(p) /\ (out'[p].done => out[p].done)
    BY <2>2, <2>4, <2>5 DEF Alike, Tunes
  <2>7. PendingTypes' /\ EntriesKept
    <3>1. CASE Admits(FALSE)
      <4>1. pending' = Append(pending, Entry(q, FALSE, track.gen, registered, "none"))
        BY <1>4, <3>1 DEF Drain
      <4> QED BY <1>1, <3>1, <4>1, Registers
    <3>2. CASE ~Admits(FALSE)
      <4>1. UNCHANGED pending
        BY <1>4, <3>2 DEF Drain
      <4> QED BY <1>1, <4>1, SamePending
    <3> QED BY <3>1, <3>2
  <2> QED BY <1>1, <1>2, <1>4, <2>1, <2>5, <2>6, <2>7, StaysMild, Settles DEF Mild, FlushSteps
<1> QED BY <1>3, <1>4

(* WAIT_TRACK: only the current generation can still be waited for.        *)
LEMMA WaitTrackKeeps ==
  ASSUME IInv, NEW q \in Requests, NEW g, NEW cond \in Conditions, WaitTrack(q, g, cond)
  PROVE  IInv'
<1>1. /\ actor.at = "idle" /\ actor' = Turn(pending')
      /\ UNCHANGED <<producer, track, registered, out, dev, chan, cancelled>>
  BY DEF WaitTrack, Asks
<1>2. PendingTypes' /\ EntriesKept
  <2> DEFINE o == IF cond = "ended" THEN registered ELSE 0
  <2>1. CASE Evaluate(track, g, cond) = "pending" /\ Admits(TRUE)
    <3>1. g = track.gen
      BY <2>1 DEF Evaluate
    <3>2. pending' = Append(pending, Entry(q, TRUE, track.gen, o, cond))
      BY <2>1, <3>1 DEF WaitTrack
    <3>3. o \in {0, registered}
      OBVIOUS
    <3> HIDE DEF o
    <3> QED BY <1>1, <2>1, <3>2, <3>3, Registers
  <2>2. CASE ~(Evaluate(track, g, cond) = "pending" /\ Admits(TRUE))
    <3>1. UNCHANGED pending
      BY <2>2 DEF WaitTrack
    <3> QED BY <1>1, <3>1, SamePending
  <2> QED BY <2>1, <2>2
<1> QED BY <1>1, <1>2, TurnIs, StaysMild, StillOutputs, Settles DEF Mild, FlushSteps

LEMMA CancelWaitKeeps ==
  ASSUME IInv, NEW q \in Requests, CancelWait(q)
  PROVE  IInv'
<1>1. /\ actor.at = "idle" /\ actor' = Turn(pending) /\ cancelled' = cancelled \cup {q}
      /\ UNCHANGED <<producer, track, registered, out, dev, chan, pending>>
  BY DEF CancelWait, Asks
<1>2. PendingTypes' /\ EntriesKept
  BY <1>1 DEF IInv, Types, PendingTypes, Waits, EntriesKept
<1> QED BY <1>1, <1>2, TurnIs, StaysMild, StillOutputs, Settles DEF Mild, FlushSteps

(* QUERY_TRACK takes the end from an output that is registered and drained.*)
LEMMA QueryTrackKeeps ==
  ASSUME IInv, QueryTrack
  PROVE  IInv'
<1>1. /\ actor.at = "idle" /\ actor' = Turn(pending) /\ track \in TrackRecords
      /\ UNCHANGED <<producer, registered, out, dev, chan, pending, cancelled>>
  BY DEF QueryTrack, Asks, IInv, Types
<1>2. track' \in TrackRecords /\ track'.gen = track.gen /\ (Learnt' => Learnt \/ Quiet)
  <2>1. CASE UNCHANGED track
    BY <1>1, <2>1 DEF Learnt
  <2>2. CASE registered # 0 /\ Drained(registered) /\ track' = MarkEnded(track, track.gen, TRUE)
    <3>1. registered \in Outputs /\ UpToDate(registered) /\ ~Advanced(registered)
      BY <1>1, <2>2 DEF IInv, Known, Fine, Ends, Advanced
    <3>2. Quiet
      BY <2>2, <3>1, DrainedIsQuiet
    <3> QED BY <1>1, <2>2, <3>2, MarkEndedIs
  <2> QED BY <2>1, <2>2 DEF QueryTrack
<1> QED BY <1>1, <1>2, TurnIs, StillOutputs, SamePending, Settles DEF FlushSteps

(* A wait's deadline passes, whatever the actor is doing.                  *)
LEMMA DeadlineKeeps ==
  ASSUME IInv, NEW i, Deadline(i)
  PROVE  IInv'
<1> DEFINE e == [pending[i] EXCEPT !.due = TRUE]
<1>1. /\ i \in DOMAIN pending /\ pending' = [pending EXCEPT ![i] = e]
      /\ UNCHANGED <<producer, track, registered, out, dev, chan, actor, cancelled>>
  BY DEF Deadline
<1>2. /\ pending \in Seq(Entries) /\ Len(pending) <= MaxRequests /\ Waits(pending) <= MaxWaits
      /\ cancelled \subseteq Requests
  BY DEF IInv, Types, PendingTypes
<1>3. pending[i] \in Entries
  BY <1>1, <1>2
<1>4. e \in Entries /\ e.wait = pending[i].wait /\ e.gen = pending[i].gen /\ e.out = pending[i].out
  BY <1>3 DEF Entries
<1> HIDE DEF e
<1>5. /\ pending' \in Seq(Entries) /\ Len(pending') = Len(pending)
      /\ DOMAIN pending' = DOMAIN pending /\ pending'[i] = e
      /\ \A j \in DOMAIN pending : j # i => pending'[j] = pending[j]
  BY <1>1, <1>2, <1>4, ExceptSeq
<1>6. \A j \in DOMAIN pending : /\ pending'[j].wait = pending[j].wait
                                /\ pending'[j].gen = pending[j].gen
                                /\ pending'[j].out = pending[j].out
  BY <1>4, <1>5
<1>7. Waits(pending') = Waits(pending)
  BY <1>5, <1>6 DEF Waits
<1>8. PendingTypes'
  <2>1. Waits(pending)' = Waits(pending')
    BY DEF Waits
  <2> QED BY <1>1, <1>2, <1>5, <1>7, <2>1 DEF PendingTypes
<1>9. EntriesKept
  BY <1>5, <1>6 DEF EntriesKept
<1>10. Mild /\ OutputTypes' /\ \A o \in Outputs : Alike(o) /\ (out'[o].done => out[o].done)
  BY <1>1, StaysMild, StillOutputs
<1>11. Types'
  BY <1>1, <1>8, <1>10 DEF IInv, Types
<1>12. ActorOnly
  BY <1>1, <1>10 DEF ActorOnly
<1>13. PlacedActor'
  BY <1>1 DEF IInv, Placed, PlacedActor
<1>14. FlushesFree
  BY <1>1 DEF FlushesFree, EndsHeld, Flushing, Cutting, Advanced
<1> QED BY <1>9, <1>10, <1>11, <1>12, <1>13, <1>14, ActorKeeps DEF Mild

-----------------------------------------------------------------------------
(* PendingSet::service(), entry by entry.                                  *)

(* Induction over the entries, from a set of numbers.                      *)
Below == {p \in Nat \X Nat : p[1] < p[2]}

LEMMA Induction ==
  ASSUME NEW S, 0 \in S, \A n \in Nat : n \in S => n + 1 \in S
  PROVE  \A n \in Nat : n \in S
<1> SUFFICES ASSUME Nat \ S # {} PROVE FALSE
  OBVIOUS
<1>1. IsWellFoundedOn(Below, Nat)
  BY NatLessThanWellFounded DEF OpToRel, Below
<1>2. PICK x \in Nat \ S : \A y \in Nat \ S : <<y, x>> \notin Below
  BY <1>1, WFMin
<1>3. x # 0 /\ x - 1 \in Nat /\ x - 1 < x /\ (x - 1) + 1 = x
  BY <1>2
<1> QED BY <1>2, <1>3 DEF Below

Begun == [track |-> track, cancelled |-> cancelled, kept |-> <<>>]
Serves(f, last) ==
  f = [i \in 0 .. last |-> IF i = 0 THEN Begun ELSE Serve(f[i - 1], pending[i])]

LEMMA ServesExist ==
  ASSUME NEW last \in Nat
  PROVE  \E f : Serves(f, last)
<1> DEFINE S == {k \in Nat : \E f : Serves(f, k)}
<1>1. 0 \in S
  <2> DEFINE f == [i \in 0 .. 0 |-> Begun]
  <2>1. f = [i \in 0 .. 0 |-> IF i = 0 THEN Begun ELSE Serve(f[i - 1], pending[i])]
    OBVIOUS
  <2> QED BY <2>1 DEF Serves
<1>2. ASSUME NEW k \in Nat, k \in S
      PROVE  k + 1 \in S
  <2>1. PICK f : Serves(f, k)
    BY <1>2
  <2> DEFINE G(i) == IF i = 0 THEN Begun ELSE Serve(f[i - 1], pending[i])
             g == [i \in 0 .. k + 1 |-> IF i = k + 1 THEN G(i) ELSE f[i]]
  <2>2. ASSUME NEW i \in 0 .. k + 1
        PROVE  g[i] = IF i = 0 THEN Begun ELSE Serve(g[i - 1], pending[i])
    <3>1. i # 0 => i - 1 \in 0 .. k /\ g[i - 1] = f[i - 1]
      OBVIOUS
    <3>2. i # k + 1 => i \in 0 .. k
      OBVIOUS
    <3>3. i # k + 1 => f[i] = G(i)
      BY <2>1, <3>2 DEF Serves
    <3>4. g[i] = G(i)
      BY <3>3
    <3> QED BY <3>1, <3>4
  <2>3. g = [i \in 0 .. k + 1 |-> g[i]]
    OBVIOUS
  <2> HIDE DEF g
  <2>4. Serves(g, k + 1)
    BY <2>2, <2>3 DEF Serves
  <2> QED BY <2>4
<1> HIDE DEF S
<1>3. last \in S
  BY <1>1, <1>2, Induction
<1> QED BY <1>3 DEF S

(* What is served after k entries: it is no more than those, and the end   *)
(* was learnt only from what is quiet.                                     *)
Waiting(k) == {j \in 1 .. k : pending[j].wait}
Served(s, k) ==
  /\ s \in [track : TrackRecords, cancelled : SUBSET Requests, kept : Seq(Entries)]
  /\ s.track.gen = track.gen /\ s.track.life = track.life
  /\ s.track.proved /\ "ended" \in s.track.miles =>
       (track.proved /\ "ended" \in track.miles) \/ Quiet
  /\ Len(s.kept) <= k /\ Waits(s.kept) <= Cardinality(Waiting(k))
  /\ \A i \in DOMAIN s.kept : \E j \in DOMAIN pending :
       s.kept[i].gen = pending[j].gen /\ s.kept[i].out = pending[j].out

LEMMA WaitingGrows ==
  ASSUME NEW k \in Nat
  PROVE  /\ Cardinality(Waiting(k)) \in Nat
         /\ Cardinality(Waiting(k + 1)) =
              IF pending[k + 1].wait THEN Cardinality(Waiting(k)) + 1 ELSE Cardinality(Waiting(k))
<1>1. IsFiniteSet(Waiting(k))
  <2>1. IsFiniteSet(1 .. k) /\ Waiting(k) \subseteq 1 .. k
    BY FS_Interval DEF Waiting
  <2> QED BY <2>1, FS_Subset
<1>2. Cardinality(Waiting(k)) \in Nat
  BY <1>1, FS_CardinalityType
<1>3. k + 1 \notin Waiting(k)
  BY DEF Waiting
<1>4. CASE pending[k + 1].wait
  <2>1. Waiting(k + 1) = Waiting(k) \cup {k + 1}
    BY <1>4 DEF Waiting
  <2>2. Cardinality(Waiting(k) \cup {k + 1}) = Cardinality(Waiting(k)) + 1
    BY <1>1, <1>3, FS_AddElement
  <2> QED BY <1>2, <1>4, <2>1, <2>2
<1>5. CASE ~pending[k + 1].wait
  <2>1. Waiting(k + 1) = Waiting(k)
    BY <1>5 DEF Waiting
  <2> QED BY <1>2, <1>5, <2>1
<1> QED BY <1>4, <1>5

(* What the scene learns from the output of one entry.                     *)
LEMMA LearnsQuiet ==
  ASSUME IInv, actor.at = "service", NEW i \in DOMAIN pending, NEW t \in TrackRecords,
         t.gen = track.gen
  PROVE  LET m == Learns(pending[i], t)
         IN  /\ m \in TrackRecords /\ m.gen = t.gen /\ m.life = t.life
             /\ m.proved /\ "ended" \in m.miles => (t.proved /\ "ended" \in t.miles) \/ Quiet
<1> DEFINE e == pending[i]
<1>1. CASE ~(e.out # 0 /\ Drained(e.out))
  BY <1>1 DEF Learns
<1>2. CASE e.out # 0 /\ Drained(e.out)
  <2>1. Learns(e, t) = MarkEnded(t, e.gen, TRUE)
    BY <1>2 DEF Learns
  <2>2. track.gen = e.gen => Quiet
    <3> SUFFICES ASSUME track.gen = e.gen PROVE Quiet
      OBVIOUS
    <3>1. e.out \in Outputs /\ UpToDate(e.out)
      BY <1>2 DEF IInv, Known, Fine, Ends
    <3>2. ~Advanced(e.out)
      BY DEF Advanced
    <3> QED BY <1>2, <3>1, <3>2, DrainedIsQuiet
  <2> DEFINE m == MarkEnded(t, e.gen, TRUE)
  <2>3. /\ m \in TrackRecords /\ m.gen = t.gen /\ m.life = t.life
        /\ m.proved /\ "ended" \in m.miles => (t.proved /\ "ended" \in t.miles) \/ t.gen = e.gen
    <3>1. TRUE \in BOOLEAN
      OBVIOUS
    <3> QED BY <3>1, MarkEndedIs
  <2> HIDE DEF m
  <2> QED BY <2>1, <2>2, <2>3 DEF m
<1> QED BY <1>1, <1>2

LEMMA ServeKeeps ==
  ASSUME IInv, actor.at = "service", NEW k \in Nat, k + 1 \in DOMAIN pending, NEW s, Served(s, k)
  PROVE  Served(Serve(s, pending[k + 1]), k + 1)
<1> DEFINE e == pending[k + 1]
           w == Cardinality(Waiting(k))
           x == Cardinality(Waiting(k + 1))
<1>1. e \in Entries
  BY DEF IInv, Types, PendingTypes
<1>2. w \in Nat /\ x = IF e.wait THEN w + 1 ELSE w
  BY WaitingGrows
<1>3. /\ s.track \in TrackRecords /\ s.cancelled \subseteq Requests /\ s.kept \in Seq(Entries)
      /\ Len(s.kept) \in Nat /\ Waits(s.kept) \in Nat /\ Len(s.kept) <= k /\ Waits(s.kept) <= w
  <2>1. s.kept \in Seq(Entries)
    BY DEF Served
  <2>2. Waits(s.kept) \in Nat /\ Len(s.kept) \in Nat
    BY <2>1, WaitsAre
  <2> QED BY <2>2 DEF Served
<1>4. CASE e.id \in s.cancelled
  <2> DEFINE r == [s EXCEPT !.cancelled = s.cancelled \ {e.id}]
  <2>1. Serve(s, e) = r
    BY <1>4 DEF Serve
  <2>2. /\ r \in [track : TrackRecords, cancelled : SUBSET Requests, kept : Seq(Entries)]
        /\ r.track = s.track /\ r.kept = s.kept
    BY <1>3 DEF Served
  <2> HIDE DEF r
  <2>3. Len(s.kept) <= k + 1 /\ Waits(s.kept) <= x
    BY <1>2, <1>3
  <2>4. Served(r, k + 1)
    BY <2>2, <2>3 DEF Served
  <2> QED BY <2>1, <2>4
<1>5. CASE e.id \notin s.cancelled
  <2> DEFINE t == Learns(e, s.track)
             q == IF Kept(e, t) THEN Append(s.kept, e) ELSE s.kept
             r == [s EXCEPT !.track = t, !.kept = q]
  <2>1. Serve(s, e) = r
    BY <1>5 DEF Serve
  <2>2. /\ t \in TrackRecords /\ t.gen = track.gen /\ t.life = track.life
        /\ t.proved /\ "ended" \in t.miles => (track.proved /\ "ended" \in track.miles) \/ Quiet
    BY <1>3, LearnsQuiet DEF Served
  <2> HIDE DEF t
  <2>3. /\ q \in Seq(Entries) /\ Len(q) <= k + 1 /\ Waits(q) <= x
        /\ \A i \in DOMAIN q : \E j \in DOMAIN pending :
             q[i].gen = pending[j].gen /\ q[i].out = pending[j].out
    <3>1. CASE ~Kept(e, t)
      <4>1. q = s.kept
        BY <3>1
      <4>2. Len(s.kept) <= k + 1 /\ Waits(s.kept) <= x
        BY <1>2, <1>3
      <4> HIDE DEF q
      <4> QED BY <1>3, <4>1, <4>2 DEF Served
    <3>2. CASE Kept(e, t)
      <4>1. q = Append(s.kept, e)
        BY <3>2
      <4> HIDE DEF q
      <4>2. /\ q \in Seq(Entries) /\ Len(q) = Len(s.kept) + 1
            /\ DOMAIN q = 1 .. Len(s.kept) + 1 /\ DOMAIN s.kept = 1 .. Len(s.kept)
            /\ \A i \in 1 .. Len(s.kept) : q[i] = s.kept[i]
            /\ q[Len(s.kept) + 1] = e
        BY <1>1, <1>3, <4>1, AppendProperties
      <4>3. Waits(q) = IF e.wait THEN Waits(s.kept) + 1 ELSE Waits(s.kept)
        BY <1>1, <1>3, <4>1, WaitsAppend
      <4>4. Len(q) <= k + 1 /\ Waits(q) <= x
        BY <1>2, <1>3, <4>2, <4>3
      <4>5. ASSUME NEW i \in DOMAIN q
            PROVE  \E j \in DOMAIN pending : q[i].gen = pending[j].gen /\ q[i].out = pending[j].out
        <5>1. i \in DOMAIN s.kept \/ i = Len(s.kept) + 1
          BY <1>3, <4>2
        <5>2. CASE i \in DOMAIN s.kept
          BY <4>2, <5>2 DEF Served
        <5>3. CASE i = Len(s.kept) + 1
          BY <4>2, <5>3
        <5> QED BY <5>1, <5>2, <5>3
      <4> QED BY <4>2, <4>4, <4>5
    <3> QED BY <3>1, <3>2
  <2> HIDE DEF q
  <2>4. /\ r \in [track : TrackRecords, cancelled : SUBSET Requests, kept : Seq(Entries)]
        /\ r.track = t /\ r.kept = q
    BY <2>2, <2>3 DEF Served
  <2> HIDE DEF r
  <2>5. Served(r, k + 1)
    BY <2>2, <2>3, <2>4 DEF Served
  <2> QED BY <2>1, <2>5
<1> QED BY <1>4, <1>5

(* One turn of the pending set.                                            *)
LEMMA ServiceKeeps ==
  ASSUME IInv, Service
  PROVE  IInv'
<1> DEFINE last == Len(pending)
           f == CHOOSE g : Serves(g, last)
           S == {k \in Nat : k <= last => Served(f[k], k)}
<1>1. /\ actor.at = "service" /\ ActorAt("idle")
      /\ UNCHANGED <<producer, registered, out, dev, chan>>
  BY DEF Service
<1>2. track' = f[last].track /\ cancelled' = f[last].cancelled /\ pending' = f[last].kept
  BY Zenon DEF Service, Serves, Begun
<1>3. /\ pending \in Seq(Entries) /\ last \in Nat /\ DOMAIN pending = 1 .. last
      /\ last <= MaxRequests /\ Waits(pending) <= MaxWaits /\ cancelled \subseteq Requests
      /\ track \in TrackRecords
  BY DEF IInv, Types, PendingTypes
<1> HIDE DEF last
<1>4. Serves(f, last)
  BY <1>3, ServesExist
<1> HIDE DEF f
<1>5. \A i \in 0 .. last : f[i] = IF i = 0 THEN Begun ELSE Serve(f[i - 1], pending[i])
  BY <1>4 DEF Serves
<1>6. 0 \in S
  <2>1. f[0] = Begun
    BY <1>3, <1>5
  <2>2. /\ <<>> \in Seq(Entries) /\ Len(<<>>) = 0 /\ DOMAIN <<>> = {}
    OBVIOUS
  <2>3. Waits(<<>>) = 0 /\ Cardinality(Waiting(0)) = 0
    <3>1. {i \in DOMAIN <<>> : <<>>[i].wait} = {} /\ Waiting(0) = {}
      BY <2>2 DEF Waiting
    <3> QED BY <3>1, FS_EmptySet DEF Waits
  <2>4. /\ Begun \in [track : TrackRecords, cancelled : SUBSET Requests, kept : Seq(Entries)]
        /\ Begun.track = track /\ Begun.kept = <<>>
    BY <1>3, <2>2 DEF Begun
  <2>5. Served(Begun, 0)
    BY <2>2, <2>3, <2>4 DEF Served
  <2> QED BY <2>1, <2>5
<1>7. ASSUME NEW k \in Nat, k \in S
      PROVE  k + 1 \in S
  <2> SUFFICES ASSUME k + 1 <= last PROVE Served(f[k + 1], k + 1)
    OBVIOUS
  <2>1. Served(f[k], k) /\ k + 1 \in 1 .. last /\ k + 1 \in 0 .. last
    BY <1>3, <1>7
  <2>2. f[k + 1] = Serve(f[k], pending[k + 1])
    <3>1. k + 1 # 0 /\ (k + 1) - 1 = k
      OBVIOUS
    <3> QED BY <1>5, <2>1, <3>1
  <2> QED BY <1>1, <1>3, <2>1, <2>2, ServeKeeps
<1> HIDE DEF S
<1>8. last \in S
  BY <1>3, <1>6, <1>7, Induction
<1>9. Served(f[last], last)
  BY <1>3, <1>8 DEF S
<1>10. PendingTypes' /\ EntriesKept
  <2>1. Waiting(last) = {i \in DOMAIN pending : pending[i].wait}
    BY <1>3 DEF Waiting
  <2>2. Waits(pending') <= Waits(pending) /\ Len(pending') <= last
    BY <1>2, <1>9, <2>1 DEF Served, Waits
  <2>3. pending' \in Seq(Entries) /\ cancelled' \subseteq Requests
    BY <1>2, <1>9 DEF Served
  <2>4. Waits(pending') \in Nat /\ Waits(pending) \in Nat /\ Len(pending') \in Nat
    BY <1>3, <2>3, WaitsAre
  <2>5. Waits(pending') <= MaxWaits /\ Len(pending') <= MaxRequests
    BY <1>3, <2>2, <2>4, PlaybackAssumption
  <2>6. Waits(pending)' = Waits(pending')
    BY DEF Waits
  <2>7. EntriesKept
    BY <1>2, <1>9 DEF Served, EntriesKept
  <2> QED BY <2>3, <2>5, <2>6, <2>7 DEF PendingTypes
<1>11. /\ track' \in TrackRecords /\ track'.gen = track.gen /\ (Learnt' => Learnt \/ Quiet)
  BY <1>2, <1>9 DEF Served, Learnt
<1>12. /\ actor' \in ActorRecords /\ actor'.at = "idle" /\ actor'.out = actor.out
       /\ actor'.advancing = FALSE
  BY <1>1, ActorAtIs, Unlocked DEF ActorPlaces, FlushSteps
<1> QED BY <1>1, <1>10, <1>11, <1>12, StillOutputs, Settles DEF FlushSteps

-----------------------------------------------------------------------------
(* ADVANCE_CHANNEL: the scene, the output, and the flush between them.     *)

(* A step of the actor that keeps every output's accounts, but not the     *)
(* generation it serves, nor where the actor is.                           *)
LEMMA Quarters ==
  ASSUME NEW o \in Outputs, Sound(o), UNCHANGED <<chan, dev>>,
         out'[o].floor = out[o].floor, out'[o].queued = out[o].queued,
         out'[o].played = out[o].played, out'[o].cut = out[o].cut,
         out'[o].line = out[o].line, out'[o].ring = out[o].ring,
         ~(Flushing(o)') \/ Flushing(o), ~(Cutting(o)') \/ Cutting(o)
  PROVE  Sound(o)'
<1>1. \A j : Index(o, j)' = Index(o, j)
  BY DEF Index
<1>2. \A g \in 1 .. Gens : Pushes(o, g)' <=> Pushes(o, g)
  BY DEF Pushes
<1>3. Counting(o)' <=> Counting(o)
  BY DEF Counting
<1>4. Counted(o)'
  BY <1>1, <1>2, <1>3 DEF Sound, Counted
<1>5. Lined(o)'
  BY <1>1 DEF Sound, Lined
<1>6. Floored(o)'
  BY <1>1, <1>2 DEF Sound, Floored
<1>7. InHand(o)'
  BY DEF Sound, InHand
<1> QED BY <1>4, <1>5, <1>6, <1>7 DEF Sound

LEMMA AdvanceChannelKeeps ==
  ASSUME IInv, AdvanceChannel
  PROVE  IInv'
<1>1. /\ actor.at = "idle" /\ ActorAt("swap") /\ track.gen < Len(producer.packets)
      /\ track' = [track EXCEPT !.gen = track.gen + 1, !.miles = {}, !.proved = FALSE]
      /\ track \in TrackRecords
      /\ UNCHANGED <<producer, registered, out, dev, chan, pending, cancelled>>
  BY DEF AdvanceChannel, Asks, IInv, Types
<1>2. track.gen \in Nat /\ track.gen + 1 \in 1 .. Gens
  <2>1. track.gen \in 1 .. Gens /\ Len(producer.packets) \in 1 .. Gens
    BY <1>1, PlaybackAssumption DEF TrackRecords, IInv, Types
  <2> QED BY <1>1, <2>1, PlaybackAssumption
<1>3. track' \in TrackRecords /\ track'.gen = track.gen + 1 /\ track'.proved = FALSE
  BY <1>1, <1>2 DEF TrackRecords
<1>4. /\ actor' \in ActorRecords /\ actor'.at = "swap" /\ actor'.out = actor.out
      /\ actor'.advancing = FALSE
  BY <1>1, ActorAtIs, Unlocked DEF ActorPlaces, FlushSteps
<1>5. /\ OutputTypes' /\ PendingTypes'
  BY <1>1, StillOutputs, SamePending
<1>6. Types'
  BY <1>1, <1>3, <1>4, <1>5 DEF IInv, Types
<1>7. Known'
  <2>1. /\ \A i \in DOMAIN pending' : \E j \in DOMAIN pending : pending'[i].out = pending[j].out
        /\ \A g \in 1 .. Gens : /\ chan'[g].out \in {0, chan[g].out, registered}
                                /\ chan'[g].started \in {0, chan[g].started, registered}
    BY <1>1
  <2> QED BY <1>1, <1>4, <2>1, KnownKeep DEF IInv
<1>8. Placed'
  <2>1. ASSUME NEW g \in 1 .. Gens PROVE PlacedChan(g)'
    <3>1. PlacedChan(g) /\ chan' = chan /\ out' = out /\ g \in Nat
      BY <1>1 DEF IInv, Placed
    <3>2. g <= track.gen => g <= track'.gen
      BY <1>2, <1>3, <3>1
    <3> QED BY <3>1, <3>2 DEF PlacedChan, Serving
  <2>2. PlacedActor'
    BY <1>3, <1>4 DEF PlacedActor, FlushSteps
  <2>3. ASSUME NEW o \in Outputs PROVE PlacedOut(o)'
    <3>1. PlacedOut(o) /\ out' = out /\ dev' = dev /\ out[o].gen \in 0 .. Gens
      BY <1>1 DEF IInv, Placed, Types, OutputTypes, OutRecords
    <3>2. out[o].gen <= track'.gen
      BY <1>2, <1>3, <3>1, PlaybackAssumption DEF PlacedOut
    <3> QED BY <3>1, <3>2 DEF PlacedOut
  <2> QED BY <2>1, <2>2, <2>3 DEF Placed
<1>9. Sounds'
  <2> SUFFICES ASSUME NEW o \in Outputs PROVE Sound(o)'
    BY DEF Sounds
  <2>1. ~(Flushing(o)') /\ ~(Cutting(o)') /\ Sound(o)
    BY <1>4 DEF Flushing, Cutting, IInv, Sounds
  <2> QED BY <1>1, <2>1, Quarters
<1>10. Ends'
  <2>1. \A o \in Outputs : out'[o].done => Finished(o)'
    <3>1. \A o \in Outputs : ~Advanced(o)
      BY <1>1 DEF Advanced
    <3>2. \A o \in Outputs : Finished(o) => Finished(o)'
      BY <1>1 DEF Finished, Gone, Pushes
    <3> QED BY <1>1, <3>1, <3>2 DEF IInv, Ends
  <2>2. ASSUME NEW i \in DOMAIN pending'
        PROVE  pending'[i].gen <= track'.gen /\ pending'[i].gen # track'.gen
    <3>1. i \in DOMAIN pending /\ pending' = pending /\ pending[i].gen <= track.gen
      BY <1>1 DEF IInv, Ends
    <3>2. pending[i].gen \in 1 .. Gens
      <4>1. pending[i] \in Entries
        BY <3>1 DEF IInv, Types, PendingTypes
      <4> QED BY <4>1 DEF Entries
    <3> QED BY <1>2, <1>3, <3>1, <3>2
  <2> QED BY <1>4, <2>1, <2>2 DEF Ends
<1>11. Silent'
  BY <1>3 DEF Silent, Learnt
<1> QED BY <1>6, <1>7, <1>8, <1>9, <1>10, <1>11 DEF IInv

(* The compare-and-swap: a decoder that was done is so until the flush has *)
(* swept it, and from here on no push of the old generation can begin.     *)
LEMMA SwapAdvances ==
  ASSUME IInv, Swap, registered # 0, out[registered].gen + 1 = track.gen
  PROVE  IInv'
<1>1. /\ actor.at = "swap" /\ PlacedActor /\ OutputTypes /\ ~track.proved
      /\ UNCHANGED <<producer, track, registered, dev, chan, pending, cancelled>>
  BY DEF Swap, IInv, Placed, PlacedActor, Types
<1>2. PICK o \in Outputs : o = registered /\ out[o].gen # 0 /\ o # 0
  BY DEF IInv, Known, Fine
<1> DEFINE r == [out[o] EXCEPT !.gen = track.gen]
<1>3. /\ out' = [out EXCEPT ![o] = r]
      /\ actor' = [at |-> "barrier", out |-> registered, advancing |-> TRUE]
  BY <1>2 DEF Swap
<1>4. /\ out[o] \in OutRecords /\ Len(out[o].ring) <= Ring /\ track.gen \in 1 .. Gens
      /\ track.gen \in 0 .. Gens /\ registered \in 0 .. Gens
  BY <1>1, PlaybackAssumption DEF OutputTypes, IInv, Types, TrackRecords
<1>5. /\ r \in OutRecords /\ r.ring = out[o].ring /\ r.gen = track.gen
      /\ r.floor = out[o].floor /\ r.done = out[o].done /\ r.queued = out[o].queued
      /\ r.played = out[o].played /\ r.cut = out[o].cut /\ r.line = out[o].line
  BY <1>4 DEF OutRecords
<1> HIDE DEF r
<1>6. OutputTypes' /\ out'[o] = r /\ \A p \in Outputs \ {o} : out'[p] = out[p]
  BY <1>1, <1>3, <1>4, <1>5, OutputSet DEF OutputTypes
<1>7. /\ actor' \in ActorRecords /\ actor'.at = "barrier" /\ actor'.out = o
      /\ actor'.advancing = TRUE
  BY <1>2, <1>3, <1>4 DEF ActorRecords, ActorPlaces
<1>8. PendingTypes' /\ Mild
  BY <1>1, SamePending, StaysMild
<1>9. Types'
  BY <1>1, <1>6, <1>7, <1>8 DEF IInv, Types
<1>10. track.gen # 0
  BY <1>4
<1>11. Known'
  <2>1. /\ \A i \in DOMAIN pending' : \E j \in DOMAIN pending : pending'[i].out = pending[j].out
        /\ \A g \in 1 .. Gens : /\ chan'[g].out \in {0, chan[g].out, registered}
                                /\ chan'[g].started \in {0, chan[g].started, registered}
    BY <1>1
  <2>2. \A p \in Outputs : /\ out[p].gen # 0 => out'[p].gen # 0
                           /\ out'[p].gen = 0 => out'[p] = out[p] /\ dev'[p] = dev[p]
    BY <1>1, <1>5, <1>6, <1>10
  <2>3. registered' \in {0, registered} /\ actor'.out \in {0, actor.out, registered}
    BY <1>1, <1>2, <1>7
  <2> QED BY <2>1, <2>2, <2>3, KnownKeep DEF IInv
<1>12. \A p \in Outputs : /\ out[p].gen \in 0 .. Gens /\ out'[p].gen \in 0 .. Gens
                          /\ out[p].gen <= out'[p].gen /\ out'[p].gen <= track.gen
  <2>1. \A p \in Outputs : out[p].gen \in 0 .. Gens /\ out[p].gen <= track.gen
    BY DEF IInv, Types, OutputTypes, OutRecords, Placed, PlacedOut
  <2>2. track.gen <= track.gen /\ \A p \in Outputs : out[p].gen <= out[p].gen
    BY <1>4, <2>1
  <2> QED BY <1>4, <1>5, <1>6, <2>1, <2>2
<1>13. Placed'
  <2>1. ASSUME NEW g \in 1 .. Gens PROVE PlacedChan(g)'
    <3>1. PlacedChan(g) /\ chan' = chan /\ track' = track /\ g \in Nat
      BY <1>1 DEF IInv, Placed
    <3>2. chan[g].out # 0 /\ g <= out[chan[g].out].gen => g <= out'[chan[g].out].gen
      <4> SUFFICES ASSUME chan[g].out # 0, g <= out[chan[g].out].gen
                   PROVE  g <= out'[chan[g].out].gen
        OBVIOUS
      <4>1. chan[g].out \in Outputs
        BY DEF IInv, Known, Fine
      <4> QED BY <1>12, <3>1, <4>1, PlaybackAssumption
    <3>3. chan[g].at \in {"none", "lookup", "open"} => out'[g].gen = 0
      BY <1>2, <1>6, <3>1 DEF PlacedChan, Outputs
    <3> QED BY <3>1, <3>2, <3>3 DEF PlacedChan, Serving
  <2>2. PlacedActor'
    BY <1>2, <1>7 DEF PlacedActor, FlushSteps
  <2>3. ASSUME NEW p \in Outputs PROVE PlacedOut(p)'
    <3>1. PlacedOut(p) /\ track' = track /\ dev' = dev /\ out'[p].floor = out[p].floor
      BY <1>1, <1>5, <1>6 DEF IInv, Placed
    <3>2. out[p].floor \in 0 .. Gens
      BY DEF IInv, Types, OutputTypes, OutRecords
    <3> QED BY <1>12, <3>1, <3>2, PlaybackAssumption DEF PlacedOut
  <2> QED BY <2>1, <2>2, <2>3 DEF Placed
<1>14. Sounds'
  <2> SUFFICES ASSUME NEW p \in Outputs PROVE Sound(p)'
    BY DEF Sounds
  <2>1. ~(Flushing(p)') /\ ~(Cutting(p)') /\ Sound(p)
    BY <1>7 DEF Flushing, Cutting, FlushSteps, IInv, Sounds
  <2> QED BY <1>1, <1>5, <1>6, <2>1, Quarters
<1>15. Ends'
  <2>1. Advanced(o)' /\ UpToDate(o)'
    BY <1>1, <1>5, <1>6, <1>7 DEF Advanced, UpToDate
  <2>2. \A p \in Outputs \ {o} : Finished(p) => Finished(p)'
    BY <1>1, <1>6 DEF Finished, Gone, Pushes
  <2>3. \A p \in Outputs \ {o} : UpToDate(p) => UpToDate(p)'
    BY <1>1, <1>6 DEF UpToDate, Unfinished
  <2>4. \A p \in Outputs : ~Advanced(p)
    BY <1>1 DEF Advanced
  <2>5. \A p \in Outputs : out'[p].done => Finished(p)' \/ Advanced(p)'
    BY <1>6, <2>1, <2>2, <2>4 DEF IInv, Ends
  <2>6. UpToDate(registered)'
    BY <1>1, <1>2, <2>1 DEF UpToDate, Unfinished
  <2>7. ASSUME NEW i \in DOMAIN pending'
        PROVE  /\ pending'[i].gen <= track'.gen
               /\ pending'[i].out # 0 /\ pending'[i].gen = track'.gen => UpToDate(pending[i].out)'
    <3>1. i \in DOMAIN pending /\ pending[i].gen <= track.gen
      BY <1>1 DEF IInv, Ends
    <3>2. ASSUME pending[i].out # 0, pending[i].gen = track.gen PROVE UpToDate(pending[i].out)'
      <4>1. UpToDate(pending[i].out) /\ pending[i].out \in Outputs
        BY <3>1, <3>2 DEF IInv, Ends, Known, Fine
      <4>2. \A p \in Outputs : p = pending[i].out => UpToDate(p)'
        BY <2>1, <2>3, <4>1
      <4> QED BY <1>1, <4>1, <4>2 DEF UpToDate, Unfinished
    <3> QED BY <1>1, <3>1, <3>2
  <2> QED BY <2>5, <2>6, <2>7 DEF Ends
<1>16. Silent'
  BY <1>1 DEF Silent, Learnt
<1> QED BY <1>9, <1>11, <1>13, <1>14, <1>15, <1>16 DEF IInv

(* AudioOutput::flush() on its way: the accounts of the other outputs, and *)
(* what is known of everyone's places.                                     *)
LEMMA FlushesOn ==
  ASSUME IInv, NEW o \in Outputs, o = actor.out, out[o].gen # 0,
         UNCHANGED <<producer, track, registered, dev, chan, pending, cancelled>>,
         OutputTypes', actor' \in ActorRecords, actor'.out \in {0, o}, PlacedActor',
         actor.at \in {"cut", "clock"}, actor.at = "clock" => actor'.at \in {"idle", "service"},
         actor.at = "cut" => actor'.at = "gate" /\ actor'.out = o
                             /\ actor'.advancing = actor.advancing,
         out'[o].gen = out[o].gen, out'[o].ring = out[o].ring, out'[o].done = out[o].done,
         out'[o].floor = out[o].floor \/ out'[o].floor = out[o].gen,
         \A p \in Outputs \ {o} : out'[p] = out[p],
         Sound(o)'
  PROVE  IInv'
<1>1. Types'
  BY SamePending DEF IInv, Types
<1>2. Known'
  <2>1. /\ \A i \in DOMAIN pending' : \E j \in DOMAIN pending : pending'[i].out = pending[j].out
        /\ \A g \in 1 .. Gens : /\ chan'[g].out \in {0, chan[g].out, registered}
                                /\ chan'[g].started \in {0, chan[g].started, registered}
    OBVIOUS
  <2>2. \A p \in Outputs : /\ out[p].gen # 0 => out'[p].gen # 0
                           /\ out'[p].gen = 0 => out'[p] = out[p] /\ dev'[p] = dev[p]
    OBVIOUS
  <2>3. registered' \in {0, registered} /\ actor'.out \in {0, actor.out, registered}
    OBVIOUS
  <2> QED BY <2>1, <2>2, <2>3, KnownKeep DEF IInv
<1>3. Placed'
  <2>1. \A p \in Outputs : out'[p].gen = out[p].gen
    OBVIOUS
  <2>2. ASSUME NEW g \in 1 .. Gens PROVE PlacedChan(g)'
    <3>1. PlacedChan(g) /\ out'[g].gen = out[g].gen
      BY <2>1 DEF IInv, Placed, Outputs
    <3>2. chan[g].out # 0 => out'[chan[g].out].gen = out[chan[g].out].gen
      BY <2>1 DEF IInv, Known, Fine
    <3> QED BY <3>1, <3>2 DEF PlacedChan, Serving
  <2>3. ASSUME NEW p \in Outputs PROVE PlacedOut(p)'
    <3>1. PlacedOut(p) /\ out[p].floor \in 0 .. Gens /\ out[p].gen \in 0 .. Gens
          /\ dev[p].floor \in 0 .. Gens
      BY DEF IInv, Placed, Types, OutputTypes, OutRecords, DevRecords
    <3>2. out'[p].floor = out[p].floor \/ out'[p].floor = out[p].gen
      OBVIOUS
    <3> QED BY <2>1, <3>1, <3>2, PlaybackAssumption DEF PlacedOut
  <2> QED BY <2>2, <2>3 DEF Placed
<1>4. Sounds'
  <2> SUFFICES ASSUME NEW p \in Outputs \ {o} PROVE Sound(p)'
    BY DEF Sounds
  <2>1. ~(Flushing(p)') /\ ~(Cutting(p)') /\ Sound(p)
    <3>1. actor'.out # p
      BY PlaybackAssumption DEF Outputs
    <3> QED BY <3>1 DEF Flushing, Cutting, IInv, Sounds
  <2> QED BY <2>1, Quarters
<1>5. ActorMoves
  BY DEF ActorMoves
<1>6. EndsHeld
  BY DEF EndsHeld, Advanced
<1>7. EntriesKept
  BY DEF EntriesKept
<1>8. Learnt' => Learnt
  BY DEF Learnt
<1> QED BY <1>1, <1>2, <1>3, <1>4, <1>5, <1>6, <1>7, <1>8, ActorEnding DEF IInv

(* The watermark is set at what was queued, after the last push of a       *)
(* generation that is over.                                                *)
LEMMA FlushCutKeeps ==
  ASSUME IInv, FlushCut
  PROVE  IInv'
<1>1. /\ actor.at = "cut" /\ ActorAt("gate") /\ PlacedActor /\ OutputTypes
      /\ UNCHANGED <<producer, track, registered, dev, chan, pending, cancelled>>
  BY DEF FlushCut, IInv, Placed, Types
<1>2. PICK o \in Outputs : o = actor.out /\ out[o].gen # 0 /\ o # 0
  BY <1>1 DEF PlacedActor, IInv, Known, Fine, FlushSteps
<1> DEFINE cut == IF CutMark(o) > out[o].cut THEN CutMark(o) ELSE out[o].cut
           line == out[o].line + 1
           r == [out[o] EXCEPT !.enabled = FALSE, !.line = line, !.cut = cut]
<1>3. out' = [out EXCEPT ![o] = r]
  BY <1>2 DEF FlushCut
<1>4. /\ out[o] \in OutRecords /\ Len(out[o].ring) <= Ring /\ Sound(o) /\ dev[o] \in DevRecords
  BY <1>1 DEF OutputTypes, IInv, Sounds
<1>5. /\ out[o].queued \in Nat /\ out[o].cut \in Nat /\ out[o].line \in Nat
      /\ out[o].played \in Nat /\ out[o].ring \in Seq(Samples) /\ Len(dev[o].heard) \in Nat
  BY <1>4 DEF OutRecords, DevRecords
<1>6. /\ cut = out[o].queued /\ out[o].cut <= cut /\ line \in Nat
  <2>1. out[o].cut <= out[o].queued
    BY <1>4 DEF Sound, Counted
  <2> QED BY <1>5, <2>1 DEF CutMark
<1> HIDE DEF cut
<1>7. /\ r \in OutRecords /\ r.ring = out[o].ring /\ r.gen = out[o].gen
      /\ r.floor = out[o].floor /\ r.done = out[o].done /\ r.queued = out[o].queued
      /\ r.played = out[o].played /\ r.cut = cut /\ r.line = out[o].line + 1
  <2> HIDE DEF line
  <2>1. /\ r \in OutRecords /\ r.ring = out[o].ring /\ r.gen = out[o].gen
        /\ r.floor = out[o].floor /\ r.done = out[o].done /\ r.queued = out[o].queued
        /\ r.played = out[o].played /\ r.cut = cut /\ r.line = line
    BY <1>4, <1>5, <1>6 DEF OutRecords
  <2> QED BY <2>1 DEF line
<1> HIDE DEF r, line
<1>8. OutputTypes' /\ out'[o] = r /\ \A p \in Outputs \ {o} : out'[p] = out[p]
  BY <1>1, <1>3, <1>4, <1>7, OutputSet DEF OutputTypes
<1>9. /\ actor' \in ActorRecords /\ actor'.at = "gate" /\ actor'.out = actor.out
      /\ actor'.advancing = actor.advancing
  BY <1>1, ActorAtIs DEF ActorPlaces, FlushSteps
<1>10. PlacedActor'
  BY <1>1, <1>9 DEF PlacedActor, FlushSteps
<1>11. Sound(o)'
  <2>1. \A j : Index(o, j)' = Index(o, j)
    BY <1>1, <1>7, <1>8 DEF Index
  <2>2. /\ \A g \in 1 .. Gens : Pushes(o, g)' <=> Pushes(o, g)
        /\ Counting(o)' <=> Counting(o)
        /\ Flushing(o)' => Flushing(o)
        /\ Cutting(o)' => Flushing(o)
    BY <1>1, <1>9 DEF Pushes, Counting, Flushing, Cutting, FlushSteps
  <2>3. out'[o].cut <= out'[o].queued /\ out[o].cut <= out'[o].cut /\ out'[o].cut \in Nat
    BY <1>5, <1>6, <1>7, <1>8
  <2>4. Counted(o)'
    BY <1>1, <1>4, <1>7, <1>8, <2>1, <2>2, <2>3 DEF Sound, Counted
  <2>5. \A j \in DOMAIN out[o].ring : out[o].ring[j].line < out'[o].line
    <3> SUFFICES ASSUME NEW j \in DOMAIN out[o].ring PROVE out[o].ring[j].line < out'[o].line
      OBVIOUS
    <3>1. out[o].ring[j] \in Samples
      BY <1>5
    <3>2. out[o].ring[j].line \in Nat /\ out[o].ring[j].line <= out[o].line
      BY <1>4, <3>1 DEF Sound, Lined, Samples
    <3> QED BY <1>5, <1>7, <1>8, <3>2
  <2>6. Lined(o)'
    <3>1. \A j \in DOMAIN out[o].ring : out[o].ring[j].line <= out'[o].line
      <4> SUFFICES ASSUME NEW j \in DOMAIN out[o].ring PROVE out[o].ring[j].line <= out'[o].line
        OBVIOUS
      <4>1. out[o].ring[j] \in Samples
        BY <1>5
      <4>2. out[o].ring[j].line \in Nat /\ out[o].ring[j].line <= out[o].line
        BY <1>4, <4>1 DEF Sound, Lined, Samples
      <4> QED BY <1>5, <1>7, <1>8, <4>2
    <3> QED BY <1>7, <1>8, <2>1, <2>5, <3>1 DEF Lined
  <2>7. Cutting(o)' => \A j \in DOMAIN out[o].ring : Index(o, j) <= out'[o].cut
    <3> SUFFICES ASSUME Flushing(o), NEW j \in DOMAIN out[o].ring
                 PROVE  Index(o, j) <= out'[o].cut
      BY <2>2
    <3>1. ~Counting(o)
      BY <1>4 DEF Sound, Floored, Counting, Pushes
    <3>2. out[o].queued + 0 = Index(o, Len(out[o].ring))
      BY <1>4, <3>1 DEF Sound, Counted
    <3>3. j \in 1 .. Len(out[o].ring) /\ Len(out[o].ring) \in Nat
      BY <1>5
    <3>4. \A a, b, c, l \in Nat : \A i \in 1 .. l : a + 0 = b + c + l => b + c + i <= a
      OBVIOUS
    <3>5. Index(o, j) <= out[o].queued
      BY <1>5, <3>2, <3>3, <3>4 DEF Index
    <3>6. out'[o].cut = out[o].queued
      BY <1>6, <1>7, <1>8
    <3> QED BY <3>5, <3>6
  <2>8. \A j \in DOMAIN out[o].ring :
          out[o].ring[j].gen < out[o].floor => Index(o, j) <= out'[o].cut
    <3> SUFFICES ASSUME NEW j \in DOMAIN out[o].ring, out[o].ring[j].gen < out[o].floor
                 PROVE  Index(o, j) <= out'[o].cut
      OBVIOUS
    <3>1. Index(o, j) <= out[o].cut /\ j \in Nat
      BY <1>4, <1>5 DEF Sound, Floored
    <3>2. Index(o, j) \in Nat
      BY <1>5, <3>1 DEF Index
    <3> QED BY <1>5, <2>3, <3>1, <3>2
  <2>9. Floored(o)'
    BY <1>1, <1>4, <1>7, <1>8, <2>1, <2>2, <2>7, <2>8 DEF Sound, Floored
  <2>10. InHand(o)'
    <3>1. dev[o].at = "skipped" =>
            \A i \in DOMAIN dev[o].heard : dev[o].heard[i].line < out'[o].line
      <4> SUFFICES ASSUME dev[o].at = "skipped", NEW i \in DOMAIN dev[o].heard
                   PROVE  dev[o].heard[i].line < out'[o].line
        OBVIOUS
      <4>1. dev[o].heard[i] \in Samples
        BY <1>4 DEF DevRecords
      <4>2. dev[o].heard[i].line \in Nat /\ dev[o].heard[i].line < out[o].line
        BY <1>4, <4>1 DEF Sound, InHand, Samples
      <4> QED BY <1>5, <1>7, <1>8, <4>2
    <3> QED BY <1>1, <1>4, <1>8, <3>1 DEF Sound, InHand
  <2> QED BY <2>4, <2>6, <2>9, <2>10 DEF Sound
<1> QED BY <1>1, <1>2, <1>7, <1>8, <1>9, <1>10, <1>11, FlushesOn

(* From the clock on, what a callback hears is of the new generation.      *)
LEMMA FlushClockKeeps ==
  ASSUME IInv, FlushClock
  PROVE  IInv'
<1>1. /\ actor.at = "clock" /\ actor' = Turn(pending) /\ PlacedActor /\ OutputTypes
      /\ UNCHANGED <<producer, track, registered, dev, chan, pending, cancelled>>
  BY DEF FlushClock, IInv, Placed, Types
<1>2. PICK o \in Outputs : o = actor.out /\ out[o].gen # 0 /\ o # 0
  BY <1>1 DEF PlacedActor, IInv, Known, Fine, FlushSteps
<1> DEFINE floor == IF actor.advancing THEN out[o].gen ELSE out[o].floor
           r == [out[o] EXCEPT !.eos = FALSE, !.rendered = FALSE, !.floor = floor]
<1>3. out' = [out EXCEPT ![o] = r]
  BY <1>2 DEF FlushClock
<1>4. /\ out[o] \in OutRecords /\ Len(out[o].ring) <= Ring /\ Sound(o)
  BY <1>1 DEF OutputTypes, IInv, Sounds
<1>5. /\ floor \in 0 .. Gens /\ (floor = out[o].gen \/ floor = out[o].floor)
      /\ floor # out[o].floor => actor.advancing
  BY <1>4 DEF OutRecords
<1> HIDE DEF floor
<1>6. /\ r \in OutRecords /\ r.ring = out[o].ring /\ r.gen = out[o].gen
      /\ r.floor = floor /\ r.done = out[o].done /\ r.queued = out[o].queued
      /\ r.played = out[o].played /\ r.cut = out[o].cut /\ r.line = out[o].line
  BY <1>4, <1>5 DEF OutRecords
<1> HIDE DEF r
<1>7. OutputTypes' /\ out'[o] = r /\ \A p \in Outputs \ {o} : out'[p] = out[p]
  BY <1>1, <1>3, <1>4, <1>6, OutputSet DEF OutputTypes
<1>8. /\ actor' \in ActorRecords /\ actor'.at \in {"idle", "service"} /\ actor'.out = 0
      /\ actor'.advancing = FALSE
  BY <1>1, TurnIs
<1>9. PlacedActor'
  BY <1>8 DEF PlacedActor, FlushSteps
<1>10. Sound(o)'
  <2>1. \A j : Index(o, j)' = Index(o, j)
    BY <1>1, <1>6, <1>7 DEF Index
  <2>2. /\ \A g \in 1 .. Gens : Pushes(o, g)' <=> Pushes(o, g)
        /\ Counting(o)' <=> Counting(o)
        /\ ~(Flushing(o)') /\ ~(Cutting(o)')
    BY <1>1, <1>8 DEF Pushes, Counting, Flushing, Cutting
  <2>3. Counted(o)'
    BY <1>1, <1>4, <1>6, <1>7, <2>1, <2>2 DEF Sound, Counted
  <2>4. Lined(o)'
    BY <1>4, <1>6, <1>7, <2>1 DEF Sound, Lined
  <2>5. \A j \in DOMAIN out[o].ring :
          out[o].ring[j].gen < out'[o].floor => Index(o, j) <= out[o].cut
    <3>1. CASE floor = out[o].floor
      BY <1>4, <1>6, <1>7, <3>1 DEF Sound, Floored
    <3>2. CASE floor # out[o].floor
      <4>1. Cutting(o)
        BY <1>1, <1>2, <1>5, <3>2 DEF Cutting
      <4> QED BY <1>4, <4>1 DEF Sound, Floored
    <3> QED BY <3>1, <3>2
  <2>6. Floored(o)'
    BY <1>1, <1>4, <1>6, <1>7, <2>1, <2>2, <2>5 DEF Sound, Floored
  <2>7. InHand(o)'
    BY <1>1, <1>4, <1>6, <1>7 DEF Sound, InHand
  <2> QED BY <2>3, <2>4, <2>6, <2>7 DEF Sound
<1> QED BY <1>1, <1>2, <1>5, <1>6, <1>7, <1>8, <1>9, <1>10, FlushesOn

-----------------------------------------------------------------------------
(* Every step keeps the invariant. *)
LEMMA NextKeeps ==
  ASSUME IInv, [Next]_vars
  PROVE  IInv'
<1>1. CASE ActorStep
  <2>1. CASE Swap
    <3>1. CASE registered # 0 /\ out[registered].gen + 1 = track.gen
      BY <2>1, <3>1, SwapAdvances
    <3>2. CASE registered = 0 \/ (registered # 0 /\ out[registered].gen + 1 # track.gen)
      BY <2>1, <3>2, SwapsNone
    <3> QED BY <3>1, <3>2
  <2> QED BY <1>1, <2>1, EvictKeeps, BarrierKeeps, FlushCutKeeps, FlushGateKeeps, FlushClockKeeps,
             PlayTryStartKeeps, PlayStartKeeps, TickKeeps, ServiceKeeps DEF ActorStep
<1>2. CASE AdvanceChannel \/ Flush \/ Pause \/ QueryTrack \/ DestroyTrack
  BY <1>2, AdvanceChannelKeeps, FlushKeeps, PauseKeeps, QueryTrackKeeps, DestroyTrackKeeps
<1>3. CASE \E need \in Minimums, synchronized \in BOOLEAN : Play(need, synchronized)
  BY <1>3, PlayKeeps
<1>4. producer.ids \subseteq Requests
  <2>1. producer \in Producers
    BY DEF IInv, Types
  <2> QED BY <2>1, PlaybackAssumption
<1>5. CASE \E q \in producer.ids : Drain(q) \/ CancelWait(q)
  BY <1>4, <1>5, DrainKeeps, CancelWaitKeeps
<1>6. CASE \E q \in producer.ids, g \in DOMAIN producer.packets, cond \in Conditions :
             WaitTrack(q, g, cond)
  BY <1>4, <1>6, WaitTrackKeeps
<1>7. CASE \E i \in 1 .. MaxRequests : Deadline(i)
  BY <1>7, DeadlineKeeps
<1>8. CASE \E o \in Outputs : DeviceStep(o) \/ DeviceFails(o)
  BY <1>8, SkipKeeps, SkippedKeeps, BeginKeeps, PopKeeps, PlayedKeeps, DeviceFailsKeeps
     DEF DeviceStep
<1>9. ASSUME NEW g \in 1 .. Gens,
             \/ ChannelStep(g) \/ OpenChannel(g) \/ OpenFails(g) \/ Admit(g) \/ ChannelEos(g)
             \/ ChannelEnds(g)
      PROVE  IInv'
  <2>1. CASE ChannelStep(g)
    BY <2>1, LookupKeeps, OpenOutputKeeps, BindKeeps, PushBeginKeeps, PushKeeps, CountKeeps,
       PushedKeeps, TryStartKeeps, StartOutputKeeps, FinishDecodeKeeps, SignalEosKeeps,
       DetachKeeps, LoseTrackKeeps, StopFailedKeeps DEF ChannelStep
  <2> QED BY <1>9, <2>1, OpenChannelKeeps, OpenFailsKeeps, AdmitKeeps, ChannelEosKeeps,
             ChannelEndsKeeps
<1>10. CASE UNCHANGED vars
  <2>1. UNCHANGED <<producer, track, registered, out, dev, chan, actor, pending, cancelled>>
    BY <1>10 DEF vars
  <2>2. /\ OutputTypes' /\ PendingTypes' /\ EntriesKept /\ Mild
        /\ \A o \in Outputs : Alike(o) /\ (out'[o].done => out[o].done)
    BY <2>1, StillOutputs, SamePending, StaysMild
  <2>3. Types' /\ ActorOnly
    BY <2>1, <2>2 DEF IInv, Types, ActorOnly
  <2>4. PlacedActor'
    BY <2>1 DEF IInv, Placed, PlacedActor
  <2>5. FlushesFree
    BY <2>1 DEF FlushesFree, EndsHeld, Flushing, Cutting, Advanced
  <2> QED BY <2>2, <2>3, <2>4, <2>5, ActorKeeps DEF Mild
<1> QED BY <1>1, <1>2, <1>3, <1>5, <1>6, <1>7, <1>8, <1>9, <1>10 DEF Next

(* The invariant holds of every reachable state of the playback.           *)
THEOREM Invariance == Spec => []IInv
<1>1. Init => IInv
  BY InitHolds
<1>2. IInv /\ [Next]_vars => IInv'
  BY NextKeeps
<1> QED BY <1>1, <1>2, PTL DEF Spec

(* A cut of the audio separates what was before it from what comes after:  *)
(* a callback that starts after ADVANCE_CHANNEL was answered renders no    *)
(* sample of a generation that is over, and a timeline reset drops only    *)
(* samples that were queued before it, for every interleaving of pushes,   *)
(* callbacks and flushes (with_current(), flush(), render_audio()).        *)
THEOREM CutsSeparate == Spec => []CutSeparates
<1>1. IInv => CutSeparates
  <2> SUFFICES ASSUME IInv PROVE CutSeparates
    OBVIOUS
  <2>1. TypeOK
    BY TypesAre DEF IInv
  <2>2. \A o \in Outputs : InHand(o)
    BY DEF IInv, Sounds, Sound
  <2> QED BY <2>1, <2>2 DEF CutSeparates, RetiredUnheard, CutSparesNew, InHand
<1> QED BY <1>1, Invariance, PTL

(* An end that DRAIN, WAIT_TRACK or QUERY_TRACK takes from an output is    *)
(* the end: the current channel has nothing more to push, and nothing is   *)
(* left to play of it, whatever output was asked and however late          *)
(* (poll_drained(), mark_buffered_ended()).                                *)
THEOREM EndsAreSilent == Spec => []EndedIsSilent
<1>1. IInv => EndedIsSilent
  BY DEF IInv, Silent, Learnt, Quiet, Gone, Over, EndedIsSilent
<1> QED BY <1>1, Invariance, PTL
===============================================================================
