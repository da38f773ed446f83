------------------------------ MODULE Playback ------------------------------
(***************************************************************************)
(* One timed audio track: the session's actor that serves its requests      *)
(* (ADVANCE_CHANNEL, PLAY, PAUSE, FLUSH, DRAIN, WAIT_TRACK, CANCEL_WAIT,    *)
(* QUERY_TRACK and DESTROY_TRACK in src/vivid/mod.rs) and its pending set   *)
(* (src/vivid/actor.rs), the threads of the track's channel, one for each   *)
(* generation (handle_track_channel() and channel_loop() in mod.rs), and    *)
(* the audio outputs they share (src/vivid/audio.rs) with the callback of   *)
(* the device.  An action is one critical section, or one run of atomic     *)
(* accesses no other thread can tell apart.  A packet is one sample.        *)
(***************************************************************************)
EXTENDS Naturals, Sequences, FiniteSets

CONSTANTS
  Gens,        \* channel generations of the track, 1 .. Gens
  Producers,   \* what a producer does: the requests it makes (ops), the IDs
               \* of those answered later, the packets it sends on each
               \* generation it uses, what its PLAYs may ask to buffer
               \* (needs), if its decoder holds samples back
               \* until the end (tail), if it opens a channel before
               \* ADVANCE_CHANNEL is answered (eager), if its connections
               \* and the device may fail (faults)
  Ring,        \* samples an output's ring holds
  Prebuffer,   \* samples an output buffers before it starts, by default
  Minimums,    \* what a PLAY may ask to buffer instead
  MaxEpoch,    \* epochs a FLUSH may reach
  Conditions,  \* milestones a WAIT_TRACK names
  Requests,    \* request IDs of the operations answered later
  MaxRequests, \* pending requests the contract allows
  MaxWaits     \* registered waits among them

Ops == {"advance", "play", "synchronize", "pause", "flush", "drain", "wait", "cancel",
        "query", "destroy"}

ASSUME PlaybackAssumption ==
  /\ Gens \in Nat \ {0} /\ Ring \in Nat \ {0}
  /\ Producers \subseteq [ops : SUBSET Ops, ids : SUBSET Requests,
                            packets : Seq(Nat), needs : SUBSET Minimums,
                            tail : BOOLEAN, eager : BOOLEAN, faults : BOOLEAN]
  /\ \A p \in Producers : Len(p.packets) \in 1 .. Gens
  /\ Prebuffer \in Nat /\ Minimums \subseteq Nat /\ MaxEpoch \in Nat
  /\ MaxRequests \in Nat /\ MaxWaits \in Nat

VARIABLES
  producer,   \* the producer of this track
  track,      \* the track's entry in the scene
  registered, \* the output audio_outputs has for the track, 0 for none
  out,        \* the outputs, named by the generation that opened them
  dev,        \* the device callback of each output
  chan,       \* the thread of each generation's channel
  actor,      \* where the session's actor is
  pending,    \* PendingSet.entries
  cancelled   \* request IDs that a CANCEL_WAIT named

vars == <<producer, track, registered, out, dev, chan, actor, pending, cancelled>>

Outputs == 1 .. Gens
Milestones == {"accepted", "detached", "ready", "eos", "ended", "lost"}
Samples == [gen : 1 .. Gens, line : Nat]

Unopened ==
  [gen |-> 0, enabled |-> FALSE, prebuffered |-> FALSE, stopped |-> FALSE, error |-> FALSE,
   done |-> FALSE, eos |-> FALSE, queued |-> 0, played |-> 0, cut |-> 0, rendered |-> FALSE,
   waiting |-> FALSE, mark |-> 0, need |-> Prebuffer, ring |-> <<>>, line |-> 0, floor |-> 0]

FlushSteps == {"cut", "gate", "clock"}

(* The waits that are registered, which PendingSet::register() counts.       *)
Waits(entries) == Cardinality({i \in DOMAIN entries : entries[i].wait})

TypeOK ==
  /\ producer \in Producers
  /\ track \in [life : {"live", "lost", "gone"}, gen : 1 .. Gens, epoch : 0 .. MaxEpoch,
                miles : SUBSET Milestones, sync : BOOLEAN, proved : BOOLEAN]
  /\ registered \in 0 .. Gens
  /\ out \in [Outputs -> [gen : 0 .. Gens, enabled : BOOLEAN, prebuffered : BOOLEAN,
                stopped : BOOLEAN, error : BOOLEAN, done : BOOLEAN, eos : BOOLEAN,
                queued : Nat, played : Nat, cut : Nat, rendered : BOOLEAN,
                waiting : BOOLEAN, mark : Nat, need : Minimums \cup {Prebuffer},
                ring : Seq(Samples), line : Nat, floor : 0 .. Gens]]
  /\ dev \in [Outputs -> [at : {"idle", "skipped", "gate", "pop", "popped"},
                          heard : Seq(Samples), floor : 0 .. Gens]]
  /\ chan \in [1 .. Gens ->
                [at : {"none", "lookup", "open", "bind", "loop", "decoded", "push", "count",
                       "pushed", "sync", "start", "finish", "signal", "closing",
                       "failed", "losing", "stopping", "dead"},
                 out : 0 .. Gens, sent : Nat, last : BOOLEAN, started : 0 .. Gens]]
  /\ actor \in [at : {"idle", "service", "swap", "evict", "barrier", "remove", "sync", "start"}
                        \cup FlushSteps,
                out : 0 .. Gens, advancing : BOOLEAN]
  /\ pending \in Seq([id : Requests, wait : BOOLEAN, gen : 1 .. Gens,
                             out : 0 .. Gens, cond : Conditions \cup {"none"},
                             due : BOOLEAN])
  /\ Len(pending) <= MaxRequests /\ Waits(pending) <= MaxWaits
  /\ \A o \in Outputs : Len(out[o].ring) <= Ring
  /\ cancelled \subseteq Requests

Init ==
  /\ producer \in Producers
  /\ track = [life |-> "live", gen |-> 1, epoch |-> 0, miles |-> {}, sync |-> FALSE,
              proved |-> FALSE]
  /\ registered = 0
  /\ out = [o \in Outputs |-> Unopened]
  /\ dev = [o \in Outputs |-> [at |-> "idle", heard |-> <<>>, floor |-> 0]]
  /\ chan = [g \in 1 .. Gens |->
              [at |-> "none", out |-> 0, sent |-> 0, last |-> FALSE, started |-> 0]]
  /\ actor = [at |-> "idle", out |-> 0, advancing |-> FALSE]
  /\ pending = <<>> /\ cancelled = {}

-----------------------------------------------------------------------------
(* The output: what its atomics say to whoever reads them.                   *)

Buffered(o) == IF out[o].queued > out[o].played THEN out[o].queued - out[o].played ELSE 0

(* Mutant: a full ring does not count as caught up after a resume.           *)
ReadyAfterAudio(o) ==
  /\ Buffered(o) >= out[o].need \/ out[o].done
  /\ ~out[o].waiting \/ out[o].queued > out[o].mark \/ out[o].done

(* audio_prebuffer_ready().                                                  *)
Ready(o) ==
  /\ Buffered(o) >= out[o].need \/ out[o].done
  /\ \/ ~out[o].waiting \/ out[o].queued > out[o].mark
     \/ Buffered(o) >= Ring \/ out[o].done

(* Mutant: the decoder's end is not asked for.                               *)
DrainedByEos(o) ==
  /\ ~out[o].stopped /\ ~out[o].error
  /\ out[o].eos /\ out[o].played >= out[o].queued

(* poll_drained(): an error, or the end of everything queued.                *)
Broken(o) == out[o].stopped \/ out[o].error
Drained(o) ==
  /\ ~out[o].stopped /\ ~out[o].error
  /\ out[o].eos /\ out[o].done /\ out[o].played >= out[o].queued

(* What a timeline reset still has to drop: discard_stale_samples().         *)
Outstanding(o) == IF out[o].cut > out[o].played THEN out[o].cut - out[o].played ELSE 0

(* generation_transition: held through a push, and through the flush of an   *)
(* ADVANCE_CHANNEL.                                                          *)
Held(o) ==
  \/ \E g \in 1 .. Gens : chan[g].out = o /\ chan[g].at \in {"push", "count"}
  \/ actor.out = o /\ actor.advancing /\ actor.at \in FlushSteps

(* The stream lives as long as someone holds the output.                     *)
Alive(o) ==
  /\ out[o].gen # 0
  /\ \/ registered = o \/ actor.out = o
     \/ \E g \in 1 .. Gens : chan[g].at # "dead" /\ o \in {chan[g].out, chan[g].started}
     \/ \E i \in DOMAIN pending : pending[i].out = o

-----------------------------------------------------------------------------
(* The device callback, render_audio(), for one sample.  A callback that     *)
(* drops samples renders nothing else.                                       *)

DeviceSkip(o) ==
  /\ Alive(o) /\ dev[o].at = "idle" /\ Outstanding(o) > 0 /\ out[o].ring # <<>>
  /\ LET n == IF Outstanding(o) < Len(out[o].ring) THEN Outstanding(o) ELSE Len(out[o].ring)
     IN  /\ out' = [out EXCEPT ![o].ring = SubSeq(@, n + 1, Len(@))]
         /\ dev' = [dev EXCEPT ![o] = [at |-> "skipped", heard |-> SubSeq(out[o].ring, 1, n),
                                       floor |-> out[o].floor]]
  /\ UNCHANGED <<producer, track, registered, chan, actor, pending, cancelled>>

DeviceSkipped(o) ==
  /\ dev[o].at = "skipped"
  /\ out' = [out EXCEPT ![o].played = @ + Len(dev[o].heard)]
  /\ dev' = [dev EXCEPT ![o].at = "idle", ![o].heard = <<>>]
  /\ UNCHANGED <<producer, track, registered, chan, actor, pending, cancelled>>

DeviceBegin(o) ==
  /\ Alive(o) /\ dev[o].at = "idle" /\ (Outstanding(o) = 0 \/ out[o].ring = <<>>)
  /\ out[o].enabled /\ (out[o].prebuffered \/ Ready(o))
  /\ dev' = [dev EXCEPT ![o].at = IF out[o].prebuffered THEN "pop" ELSE "gate",
                        ![o].floor = out[o].floor]
  /\ UNCHANGED <<producer, track, registered, out, chan, actor, pending, cancelled>>

DevicePop(o) ==
  /\ dev[o].at \in {"gate", "pop"}
  /\ LET n == IF out[o].ring = <<>> THEN 0 ELSE 1
         opens == dev[o].at = "gate"
     IN  /\ out' = [out EXCEPT ![o].ring = SubSeq(@, n + 1, Len(@)),
                               ![o].waiting = @ /\ ~opens, ![o].prebuffered = @ \/ opens]
         /\ dev' = [dev EXCEPT ![o].at = IF n = 0 THEN "idle" ELSE "popped",
                               ![o].heard = SubSeq(out[o].ring, 1, n)]
  /\ UNCHANGED <<producer, track, registered, chan, actor, pending, cancelled>>

DevicePlayed(o) ==
  /\ dev[o].at = "popped"
  /\ out' = [out EXCEPT ![o].played = @ + 1, ![o].rendered = TRUE]
  /\ dev' = [dev EXCEPT ![o].at = "idle", ![o].heard = <<>>]
  /\ UNCHANGED <<producer, track, registered, chan, actor, pending, cancelled>>

(* The error callback of the stream.                                         *)
DeviceFails(o) ==
  /\ producer.faults /\ Alive(o) /\ ~out[o].error
  /\ out' = [out EXCEPT ![o].error = TRUE]
  /\ UNCHANGED <<producer, track, registered, dev, chan, actor, pending, cancelled>>

DeviceStep(o) ==
  \/ DeviceSkip(o) \/ DeviceSkipped(o) \/ DeviceBegin(o)
  \/ DevicePop(o) \/ DevicePlayed(o)

-----------------------------------------------------------------------------
(* The channel thread of generation g.                                       *)

ChanAt(g, at) == chan' = [chan EXCEPT ![g].at = at]

(* What TrackState does with the milestones of a channel.                    *)
Accepted(miles) == miles \cup {"accepted"}
Detached(miles) == (miles \ {"accepted"}) \cup {"detached"}

(* The checks of accept_channel(), admit_media(), mark_output_ready() and    *)
(* the other scene calls of a channel.                                       *)
Current(g) == track.life = "live" /\ track.gen = g

(* An ADVANCE_CHANNEL is not answered yet.                                   *)
Advancing == actor.at \in {"swap", "evict"} \/ actor.advancing

(* handle_track_channel(): a fresh CHANNEL_OPEN of the current generation.   *)
OpenChannel(g) ==
  /\ chan[g].at = "none" /\ Current(g) /\ (producer.eager \/ ~Advancing)
  /\ track' = [track EXCEPT !.miles = Accepted(@)]
  /\ ChanAt(g, "lookup")
  /\ UNCHANGED <<producer, registered, out, dev, actor, pending, cancelled>>

(* channel_loop() looks for an output that already serves the generation.    *)
Lookup(g) ==
  /\ chan[g].at = "lookup"
  /\ chan' = [chan EXCEPT ![g] =
       IF registered # 0 /\ out[registered].gen = g
         THEN [@ EXCEPT !.at = "bind", !.out = registered] ELSE [@ EXCEPT !.at = "open"]]
  /\ UNCHANGED <<producer, track, registered, out, dev, actor, pending, cancelled>>

(* Otherwise it opens the device and registers a new one.                    *)
OpenOutput(g) ==
  /\ chan[g].at = "open"
  /\ out' = [out EXCEPT ![g] = [Unopened EXCEPT !.gen = g, !.floor = g]]
  /\ registered' = g
  /\ chan' = [chan EXCEPT ![g].at = "bind", ![g].out = g]
  /\ UNCHANGED <<producer, track, dev, actor, pending, cancelled>>

OpenFails(g) ==
  /\ producer.faults /\ chan[g].at = "open"
  /\ ChanAt(g, "failed")
  /\ UNCHANGED <<producer, track, registered, out, dev, actor, pending, cancelled>>

(* AudioOutput::channel() refuses a generation the output has left.          *)
Bind(g) ==
  /\ chan[g].at = "bind"
  /\ ChanAt(g, IF out[chan[g].out].gen = g THEN "loop" ELSE "failed")
  /\ UNCHANGED <<producer, track, registered, out, dev, actor, pending, cancelled>>

(* AUDIO_PACKET: admitted by the scene and decoded.  One with a stale epoch  *)
(* fails the channel, see ChannelFails.                                      *)
Admit(g) ==
  /\ chan[g].at = "loop" /\ chan[g].sent < producer.packets[g]
  /\ chan' = [chan EXCEPT ![g].at = IF Current(g) THEN "decoded" ELSE "failed",
                          ![g].sent = @ + 1]
  /\ UNCHANGED <<producer, track, registered, out, dev, actor, pending, cancelled>>

(* with_current(): the lock, then the generation.                            *)
PushBegin(g) ==
  /\ chan[g].at = "decoded" /\ ~Held(chan[g].out)
  /\ ChanAt(g, IF out[chan[g].out].gen = g THEN "push" ELSE "failed")
  /\ UNCHANGED <<producer, track, registered, out, dev, actor, pending, cancelled>>

(* One round of push_while(): it gives up on a retired generation or an      *)
(* error, drops the samples for a stopped output, sleeps on a full ring.     *)
Push(g) ==
  LET o == chan[g].out
  IN  /\ chan[g].at = "push"
      /\ \/ /\ out[o].gen # g \/ (out[o].error /\ ~out[o].stopped)
            /\ ChanAt(g, "failed") /\ UNCHANGED out
         \/ /\ out[o].gen = g /\ out[o].stopped
            /\ ChanAt(g, "pushed") /\ UNCHANGED out
         \/ /\ out[o].gen = g /\ ~out[o].stopped /\ ~out[o].error /\ Len(out[o].ring) < Ring
            /\ out' = [out EXCEPT ![o].ring = Append(@, [gen |-> g, line |-> out[o].line])]
            /\ ChanAt(g, "count")
      /\ UNCHANGED <<producer, track, registered, dev, actor, pending, cancelled>>

Count(g) ==
  /\ chan[g].at = "count"
  /\ out' = [out EXCEPT ![chan[g].out].queued = @ + 1]
  /\ ChanAt(g, "pushed")
  /\ UNCHANGED <<producer, track, registered, dev, actor, pending, cancelled>>

(* mark_output_ready(); after the decoder's last samples, nothing to mark.   *)
Pushed(g) ==
  /\ chan[g].at = "pushed"
  /\ IF chan[g].last THEN ChanAt(g, "finish") /\ UNCHANGED track
     ELSE IF Current(g)
       THEN ChanAt(g, "sync") /\ track' = [track EXCEPT !.miles = @ \cup {"ready"}]
       ELSE ChanAt(g, "failed") /\ UNCHANGED track
  /\ UNCHANGED <<producer, registered, out, dev, actor, pending, cancelled>>

(* playback_transition, held from the scene's decision to the start.         *)
Starting == actor.at = "start" \/ \E g \in 1 .. Gens : chan[g].at = "start"

(* The scene releases a synchronized PLAY once the audio is ready.           *)
Releases ==
  /\ track.life = "live" /\ track.sync
  /\ registered = 0 \/ Ready(registered)

(* try_start_synchronized(), as the channel calls it after a packet, whose   *)
(* capacity it then returns, and at the end.  That a grant fails once the    *)
(* generation is over is left to the next record, which fails as well.       *)
TryStart(g) ==
  LET after == IF chan[g].last THEN "closing" ELSE "loop"
  IN  /\ chan[g].at = "sync" /\ ~Starting
      /\ track' = [track EXCEPT !.sync = @ /\ ~Releases]
      /\ chan' = [chan EXCEPT
           ![g].at = IF Releases /\ registered # 0 THEN "start" ELSE after,
           ![g].started = IF Releases THEN registered ELSE 0]
      /\ UNCHANGED <<producer, registered, out, dev, actor, pending, cancelled>>

StartOutput(g) ==
  /\ chan[g].at = "start"
  /\ out' = [out EXCEPT ![chan[g].started].enabled = TRUE]
  /\ chan' = [chan EXCEPT ![g].at = IF chan[g].last THEN "closing" ELSE "loop",
                          ![g].started = 0]
  /\ UNCHANGED <<producer, track, registered, dev, actor, pending, cancelled>>

(* CHANNEL_EOS: the scene's mark, and samples the decoder still held.        *)
ChannelEos(g) ==
  /\ chan[g].at = "loop"
  /\ IF track.life # "gone" /\ track.gen = g
       THEN /\ track' = [track EXCEPT !.miles = @ \cup {"eos"}]
            /\ chan' = [chan EXCEPT ![g].at = IF producer.tail THEN "decoded" ELSE "finish",
                                    ![g].last = TRUE]
       ELSE ChanAt(g, "failed") /\ UNCHANGED track
  /\ UNCHANGED <<producer, registered, out, dev, actor, pending, cancelled>>

(* finish_decode() and signal_eos(), each under the lock.                    *)
FinishDecode(g) ==
  LET o == chan[g].out
  IN  /\ chan[g].at = "finish" /\ ~Held(o)
      /\ out' = [out EXCEPT ![o].done = @ \/ out[o].gen = g]
      /\ ChanAt(g, IF out[o].gen = g THEN "signal" ELSE "failed")
      /\ UNCHANGED <<producer, track, registered, dev, actor, pending, cancelled>>

SignalEos(g) ==
  LET o == chan[g].out
  IN  /\ chan[g].at = "signal" /\ ~Held(o)
      /\ out' = [out EXCEPT ![o].eos = @ \/ out[o].gen = g]
      /\ ChanAt(g, IF out[o].gen = g THEN "sync" ELSE "failed")
      /\ UNCHANGED <<producer, track, registered, dev, actor, pending, cancelled>>

(* The connection ends, or a record cannot be read, parsed or decoded, is    *)
(* of a stale epoch, or its grant cannot be written.                         *)
ChannelEnds(g) ==
  /\ chan[g].at = "loop"
  /\ \E at \in {"closing"} \cup (IF producer.faults THEN {"failed"} ELSE {}) : ChanAt(g, at)
  /\ UNCHANGED <<producer, track, registered, out, dev, actor, pending, cancelled>>

(* TrackAttachmentCleanup::detach().                                         *)
Detach(g) ==
  /\ chan[g].at \in {"closing", "failed"}
  /\ track' = [track EXCEPT !.miles = IF Current(g) THEN Detached(@) ELSE @]
  /\ ChanAt(g, IF chan[g].at = "closing" THEN "dead" ELSE "losing")
  /\ UNCHANGED <<producer, registered, out, dev, actor, pending, cancelled>>

LoseTrack(g) ==
  /\ chan[g].at = "losing"
  /\ IF Current(g)
       THEN /\ track' = [track EXCEPT !.life = "lost", !.miles = {"lost"}]
            /\ ChanAt(g, "stopping")
       ELSE ChanAt(g, "dead") /\ UNCHANGED track
  /\ UNCHANGED <<producer, registered, out, dev, actor, pending, cancelled>>

(* AudioOutput::stop() of whatever is registered.                            *)
StopRegistered ==
  /\ registered' = 0
  /\ out' = [o \in Outputs |->
       IF o = registered THEN [out[o] EXCEPT !.stopped = TRUE, !.enabled = FALSE] ELSE out[o]]

(* stop_failed_audio_output().                                               *)
StopFailed(g) ==
  /\ chan[g].at = "stopping"
  /\ StopRegistered
  /\ ChanAt(g, "dead")
  /\ UNCHANGED <<producer, track, dev, actor, pending, cancelled>>

ChannelStep(g) ==
  \/ Lookup(g) \/ OpenOutput(g) \/ Bind(g) \/ PushBegin(g) \/ Push(g) \/ Count(g) \/ Pushed(g)
  \/ TryStart(g) \/ StartOutput(g) \/ FinishDecode(g) \/ SignalEos(g)
  \/ Detach(g) \/ LoseTrack(g) \/ StopFailed(g)

-----------------------------------------------------------------------------
(* The actor.  A request is handled when the actor is idle, and the pending  *)
(* set is serviced at the end of the same turn, if anything is in it.        *)

Turn(p) == [at |-> IF p = <<>> THEN "idle" ELSE "service", out |-> 0, advancing |-> FALSE]
ActorAt(at) == actor' = [actor EXCEPT !.at = at]
Exists == track.life # "gone"

(* The actor takes a request of this kind from its queue.                    *)
Asks(op) == actor.at = "idle" /\ op \in producer.ops

(* SharedScene::mark_buffered_ended(); proved says the device had drained.   *)
MarkEnded(t, g, proved) ==
  IF t.life = "gone" \/ t.gen # g THEN t
  ELSE [t EXCEPT !.miles = @ \cup {"eos", "ended"},
                 !.proved = proved \/ ("ended" \in t.miles /\ @)]

(* Mutant: ADVANCE_CHANNEL takes the lock before it publishes the            *)
(* generation.                                                               *)
SwapLocked ==
  /\ actor.at = "swap" /\ (registered = 0 \/ ~Held(registered))
  /\ IF registered = 0 THEN actor' = Turn(pending) /\ UNCHANGED out
     ELSE IF out[registered].gen + 1 = track.gen
       THEN /\ out' = [out EXCEPT ![registered].gen = track.gen]
            /\ actor' = [at |-> "barrier", out |-> registered, advancing |-> TRUE]
       ELSE ActorAt("evict") /\ UNCHANGED out
  /\ UNCHANGED <<producer, track, registered, dev, chan, pending, cancelled>>

(* ADVANCE_CHANNEL: the scene first, then the output.                        *)
AdvanceChannel ==
  /\ Asks("advance") /\ Exists /\ track.gen < Len(producer.packets)
  /\ track' = [track EXCEPT !.gen = @ + 1, !.miles = {}, !.proved = FALSE]
  /\ ActorAt("swap")
  /\ UNCHANGED <<producer, registered, out, dev, chan, pending, cancelled>>

(* advance_audio_output(): the compare-and-swap of the generation.           *)
Swap ==
  /\ actor.at = "swap"
  /\ IF registered = 0 THEN actor' = Turn(pending) /\ UNCHANGED out
     ELSE IF out[registered].gen + 1 = track.gen
       THEN /\ out' = [out EXCEPT ![registered].gen = track.gen]
            /\ actor' = [at |-> "barrier", out |-> registered, advancing |-> TRUE]
       ELSE ActorAt("evict") /\ UNCHANGED out
  /\ UNCHANGED <<producer, track, registered, dev, chan, pending, cancelled>>

Evict ==
  /\ actor.at = "evict"
  /\ StopRegistered
  /\ actor' = Turn(pending)
  /\ UNCHANGED <<producer, track, dev, chan, pending, cancelled>>

(* Mutant: the flush does not wait for a push under way.                     *)
BarrierIgnored ==
  /\ actor.at = "barrier"
  /\ ActorAt("cut")
  /\ UNCHANGED <<producer, track, registered, out, dev, chan, pending, cancelled>>

Barrier ==
  /\ actor.at = "barrier" /\ ~Held(actor.out)
  /\ ActorAt("cut")
  /\ UNCHANGED <<producer, track, registered, out, dev, chan, pending, cancelled>>

(* Mutant: what is left to drop is a count taken at the flush, and samples   *)
(* the callback has taken but not published are counted again.               *)
CutRelative(o) == out[o].queued + Len(dev[o].heard)

(* The watermark of a timeline reset.                                        *)
CutMark(o) == out[o].queued

(* AudioOutput::flush(): pause, watermark, then the stores that reset the    *)
(* timeline, in their order.                                                 *)
FlushCut ==
  LET o == actor.out
  IN  /\ actor.at = "cut"
      /\ out' = [out EXCEPT ![o].enabled = FALSE, ![o].line = @ + 1,
                            ![o].cut = IF CutMark(o) > @ THEN CutMark(o) ELSE @]
      /\ ActorAt("gate")
      /\ UNCHANGED <<producer, track, registered, dev, chan, pending, cancelled>>

FlushGate ==
  /\ actor.at = "gate"
  /\ out' = [out EXCEPT ![actor.out].prebuffered = FALSE, ![actor.out].waiting = FALSE,
                        ![actor.out].mark = 0, ![actor.out].done = FALSE]
  /\ ActorAt("clock")
  /\ UNCHANGED <<producer, track, registered, dev, chan, pending, cancelled>>

FlushClock ==
  LET o == actor.out
  IN  /\ actor.at = "clock"
      /\ out' = [out EXCEPT ![o].eos = FALSE, ![o].rendered = FALSE,
                            ![o].floor = IF actor.advancing THEN out[o].gen ELSE @]
      /\ actor' = Turn(pending)
      /\ UNCHANGED <<producer, track, registered, dev, chan, pending, cancelled>>

(* FLUSH: the scene's epoch, then the output.                                *)
Flush ==
  /\ Asks("flush") /\ Exists /\ track.epoch < MaxEpoch
  /\ track' = [track EXCEPT !.epoch = @ + 1, !.miles = @ \cap {"accepted"}, !.sync = FALSE,
                            !.proved = FALSE]
  /\ actor' = IF registered = 0 THEN Turn(pending)
              ELSE [at |-> "cut", out |-> registered, advancing |-> FALSE]
  /\ UNCHANGED <<producer, registered, out, dev, chan, pending, cancelled>>

(* PLAY: configure_playback() and configure_play(), then start() now or, for *)
(* a synchronized one, when everything is ready.                             *)
Play(need, synchronized) ==
  /\ Asks(IF synchronized THEN "synchronize" ELSE "play") /\ track.life = "live" /\ ~Starting
  /\ need \in producer.needs
  /\ synchronized /\ registered = 0 => need = 0
  /\ track' = [track EXCEPT !.sync = synchronized]
  /\ out' = [o \in Outputs |-> IF o # registered THEN out[o] ELSE
       [out[o] EXCEPT !.mark = out[o].queued, !.waiting = out[o].rendered, !.need = need,
                      !.prebuffered = FALSE, !.enabled = ~synchronized]]
  /\ actor' = IF synchronized THEN [actor EXCEPT !.at = "sync"] ELSE Turn(pending)
  /\ UNCHANGED <<producer, registered, dev, chan, pending, cancelled>>

PlayTryStart ==
  /\ actor.at = "sync" /\ ~Starting
  /\ track' = [track EXCEPT !.sync = @ /\ ~Releases]
  /\ actor' = IF Releases /\ registered # 0
              THEN [actor EXCEPT !.at = "start", !.out = registered] ELSE Turn(pending)
  /\ UNCHANGED <<producer, registered, out, dev, chan, pending, cancelled>>

PlayStart ==
  /\ actor.at = "start"
  /\ out' = [out EXCEPT ![actor.out].enabled = TRUE]
  /\ actor' = Turn(pending)
  /\ UNCHANGED <<producer, track, registered, dev, chan, pending, cancelled>>

Pause ==
  /\ Asks("pause") /\ Exists /\ ~Starting
  /\ track' = [track EXCEPT !.sync = FALSE]
  /\ out' = [o \in Outputs |->
       IF o = registered THEN [out[o] EXCEPT !.enabled = FALSE] ELSE out[o]]
  /\ actor' = Turn(pending)
  /\ UNCHANGED <<producer, registered, dev, chan, pending, cancelled>>

-----------------------------------------------------------------------------
(* Operations that are answered later.                                       *)

(* evaluate_track_wait().                                                    *)
Evaluate(t, g, cond) ==
  CASE t.life = "gone"                     -> "not found"
    [] t.life # "gone" /\ t.gen # g        -> "stale generation"
    [] t.life = "lost" /\ t.gen = g /\ cond # "lost" -> "lost"
    [] OTHER -> IF cond \in t.miles THEN "satisfied" ELSE "pending"

(* Mutant: the registered waits are not counted.                             *)
AdmitsAnyWait(wait) == Len(pending) < MaxRequests

(* PendingSet::register().                                                   *)
Admits(wait) ==
  /\ Len(pending) < MaxRequests
  /\ wait => Waits(pending) < MaxWaits

Entry(q, wait, g, o, cond) ==
  [id |-> q, wait |-> wait, gen |-> g, out |-> o, cond |-> cond, due |-> FALSE]

Owed(q) == \E i \in DOMAIN pending : pending[i].id = q

(* DRAIN: with an output, owed until it has drained; without, at once.       *)
Drain(q) ==
  /\ Asks("drain") /\ Exists /\ ~Owed(q)
  /\ IF registered = 0
       THEN /\ track' = MarkEnded(track, track.gen, FALSE)
            /\ UNCHANGED <<producer, out, pending>>
       ELSE /\ pending' = IF Admits(FALSE)
                 THEN Append(pending, Entry(q, FALSE, track.gen, registered, "none"))
                 ELSE pending
            /\ out' = [out EXCEPT ![registered].eos = @ \/ Admits(FALSE)]
            /\ UNCHANGED track
  /\ actor' = Turn(pending')
  /\ UNCHANGED <<producer, registered, dev, chan, cancelled>>

(* WAIT_TRACK: answered at once unless it is still pending.                  *)
WaitTrack(q, g, cond) ==
  /\ Asks("wait") /\ ~Owed(q)
  /\ pending' = IF Evaluate(track, g, cond) = "pending" /\ Admits(TRUE)
       THEN Append(pending, Entry(q, TRUE, g, IF cond = "ended" THEN registered ELSE 0, cond))
       ELSE pending
  /\ actor' = Turn(pending')
  /\ UNCHANGED <<producer, track, registered, out, dev, chan, cancelled>>

CancelWait(q) ==
  /\ Asks("cancel")
  /\ cancelled' = cancelled \cup {q}
  /\ actor' = Turn(pending)
  /\ UNCHANGED <<producer, track, registered, out, dev, chan, pending>>

(* QUERY_TRACK also notices that the output has drained.                     *)
QueryTrack ==
  /\ Asks("query") /\ Exists
  /\ track' = IF "ended" \notin track.miles /\ registered # 0 /\ Drained(registered)
              THEN MarkEnded(track, track.gen, TRUE) ELSE track
  /\ actor' = Turn(pending)
  /\ UNCHANGED <<producer, registered, out, dev, chan, pending, cancelled>>

DestroyTrack ==
  /\ Asks("destroy") /\ Exists
  /\ track' = [track EXCEPT !.life = "gone"]
  /\ ActorAt("remove")
  /\ UNCHANGED <<producer, registered, out, dev, chan, pending, cancelled>>

RemoveOutput ==
  /\ actor.at = "remove"
  /\ StopRegistered
  /\ actor' = Turn(pending)
  /\ UNCHANGED <<producer, track, dev, chan, pending, cancelled>>

(* A wait's deadline passes.                                                 *)
Deadline(i) ==
  /\ i \in DOMAIN pending /\ pending[i].wait /\ ~pending[i].due
  /\ pending' = [pending EXCEPT ![i].due = TRUE]
  /\ UNCHANGED <<producer, track, registered, out, dev, chan, actor, cancelled>>

(* The observation timeout of a pending set that is not empty.               *)
Tick ==
  /\ actor.at = "idle" /\ pending # <<>>
  /\ ActorAt("service")
  /\ UNCHANGED <<producer, track, registered, out, dev, chan, pending, cancelled>>

(* Mutant: a drain is kept when its output is stopped or fails.              *)
KeptBroken(e, t) ==
  IF e.wait THEN Evaluate(t, e.gen, e.cond) = "pending" /\ ~e.due
  ELSE ~Drained(e.out)

(* PendingSet::service(), for one entry that is not cancelled: what the      *)
(* scene learns from its output, and whether it stays.                       *)
Learns(e, t) == IF e.out # 0 /\ Drained(e.out) THEN MarkEnded(t, e.gen, TRUE) ELSE t
Kept(e, t) ==
  IF e.wait THEN Evaluate(t, e.gen, e.cond) = "pending" /\ ~e.due
  ELSE ~Drained(e.out) /\ ~Broken(e.out)

Serve(s, e) ==
  IF e.id \in s.cancelled THEN [s EXCEPT !.cancelled = @ \ {e.id}]
  ELSE LET t == Learns(e, s.track)
       IN  [s EXCEPT !.track = t, !.kept = IF Kept(e, t) THEN Append(@, e) ELSE @]

Service ==
  LET served[i \in 0 .. Len(pending)] ==
        IF i = 0 THEN [track |-> track, cancelled |-> cancelled, kept |-> <<>>]
        ELSE Serve(served[i - 1], pending[i])
      s == served[Len(pending)]
  IN  /\ actor.at = "service"
      /\ track' = s.track /\ cancelled' = s.cancelled /\ pending' = s.kept
      /\ ActorAt("idle")
      /\ UNCHANGED <<producer, registered, out, dev, chan>>

-----------------------------------------------------------------------------
ActorStep ==
  \/ Swap \/ Evict \/ Barrier \/ FlushCut \/ FlushGate \/ FlushClock
  \/ PlayTryStart \/ PlayStart \/ RemoveOutput \/ Tick \/ Service

Next ==
  \/ ActorStep
  \/ AdvanceChannel \/ Flush \/ Pause \/ QueryTrack \/ DestroyTrack
  \/ \E need \in Minimums, synchronized \in BOOLEAN : Play(need, synchronized)
  \/ \E q \in producer.ids : Drain(q) \/ CancelWait(q)
  \/ \E q \in producer.ids, g \in DOMAIN producer.packets, cond \in Conditions :
       WaitTrack(q, g, cond)
  \/ \E i \in 1 .. MaxRequests : Deadline(i)
  \/ \E o \in Outputs : DeviceStep(o) \/ DeviceFails(o)
  \/ \E g \in 1 .. Gens :
       \/ ChannelStep(g) \/ OpenChannel(g) \/ OpenFails(g) \/ Admit(g) \/ ChannelEos(g)
       \/ ChannelEnds(g)

(* Threads run: the actor's loop has an observation timeout while something  *)
(* is pending, the device calls its callback periodically, a channel thread  *)
(* sleeps at most five milliseconds on a full ring, deadlines pass.  What a  *)
(* producer sends, and failures, are not owed.                               *)
Fairness ==
  /\ WF_vars(ActorStep)
  /\ \A o \in Outputs : WF_vars(DeviceStep(o))
  /\ \A g \in 1 .. Gens : WF_vars(ChannelStep(g))
  /\ \A i \in 1 .. MaxRequests : WF_vars(Deadline(i))

Spec == Init /\ [][Next]_vars
LiveSpec == Spec /\ Fairness

-----------------------------------------------------------------------------
(* "Once the lock is acquired, flushing is a barrier after every mutation    *)
(* from the old channel": a callback that starts after ADVANCE_CHANNEL was   *)
(* answered never renders a sample of a generation it retired.               *)
RetiredUnheard ==
  \A o \in Outputs : dev[o].at = "popped" =>
    \A i \in DOMAIN dev[o].heard : dev[o].heard[i].gen >= dev[o].floor

(* "An absolute watermark cannot cross that boundary": the samples a         *)
(* timeline reset drops were all queued before it, however the callback and  *)
(* the pushes interleave with it.                                            *)
CutSparesNew ==
  \A o \in Outputs : dev[o].at = "skipped" =>
    \A i \in DOMAIN dev[o].heard : dev[o].heard[i].line < out[o].line

(* A cut of the audio separates what was before it from what comes after:    *)
(* nothing old is heard and nothing new is dropped (flush(),                 *)
(* discard_stale_samples()).                                                 *)
CutSeparates == TypeOK /\ RetiredUnheard /\ CutSparesNew

(* When DRAIN, WAIT_TRACK or QUERY_TRACK take the end of the track from its  *)
(* output, the channel has nothing more to push and the device nothing more  *)
(* to play of it.                                                            *)
EndedIsSilent ==
  track.life = "live" /\ track.proved /\ "ended" \in track.miles =>
    /\ chan[track.gen].at \in {"signal", "sync", "start", "closing", "dead"}
    /\ \A o \in Outputs :
         out[o].gen = track.gen /\ chan[track.gen].out = o => out[o].ring = <<>>

(* "A producer blocked on a full, paused ring therefore observes retirement  *)
(* and releases the transition lock": ADVANCE_CHANNEL never hangs the        *)
(* session's actor behind a paused track.                                    *)
AdvanceCompletes == actor.at \in {"swap", "barrier"} ~> actor.at = "idle"

(* "A full ring is already safe and must be allowed to drain, because its    *)
(* producer may be blocked waiting for capacity": a channel does not stay    *)
(* blocked on the ring of an output that plays, unless its PLAY asked for    *)
(* more than the ring holds.  PLAY accepts such a minimum, and               *)
(* audio_prebuffer_ready() asks for it of a full ring too, so that device    *)
(* and channel wait for each other until a PLAY or a FLUSH.                  *)
Jammed ==
  \E g \in 1 .. Gens : LET o == out[chan[g].out]
    IN  /\ chan[g].at = "push" /\ Len(o.ring) = Ring /\ o.enabled /\ ~o.stopped
        /\ o.need <= Ring
FullRingDrains == Jammed ~> ~Jammed

(* A registered WAIT_TRACK is answered, whatever becomes of its track, and   *)
(* so is a DRAIN whose output is stopped, by DESTROY_TRACK or a lost         *)
(* channel, or fails: neither keeps its slot of the pending set.             *)
Overdue(q) ==
  \E i \in DOMAIN pending :
    pending[i].id = q /\ (pending[i].wait \/ Broken(pending[i].out))
PendingEnds == \A q \in Requests : Overdue(q) ~> ~Overdue(q)

(* Whoever waits for a playing or a broken output is let go: the channel     *)
(* behind a full ring, and the requests of the pending set (service()).      *)
WaitersReleased == FullRingDrains /\ PendingEnds
=============================================================================
