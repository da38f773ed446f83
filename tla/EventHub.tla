------------------------------ MODULE EventHub ------------------------------
(***************************************************************************)
(* Subscriptions to the automation events.  The event loop numbers every   *)
(* event, sends it to the matching subscribers through their connection's  *)
(* bounded queue and keeps the newest ones for replay.  A subscriber that  *)
(* does not keep up loses events; the range it lost is reported to it      *)
(* before delivery resumes.  PTY output reaches the hub through the        *)
(* transcript, a ring of bytes the PTY thread appends to and the event     *)
(* loop reads later.                                                       *)
(*                                                                         *)
(* An event is its number and its kind; the byte at offset o is o itself.  *)
(* What each subscriber was sent is kept in told, which is not a variable  *)
(* of the program.                                                         *)
(***************************************************************************)
EXTENDS Naturals, FiniteSets, SequencesExt

CONSTANTS
    Clients,           \* connections
    MaxSubscriptions,  \* MAX_SUBSCRIPTIONS
    MaxSubscriberEvents, \* MAX_SUBSCRIBER_EVENTS
    QueueFrames,       \* OUTPUT_QUEUE_FRAMES
    ReplayCount,       \* EVENT_REPLAY_COUNT
    Capacity,          \* TRANSCRIPT_CAPACITY
    Chunk,             \* OUTPUT_EVENT_CHUNK
    MaxEvents, MaxBytes, MaxSubs   \* bounds of the instance

EventKinds == {"output", "screen"}

VARIABLES
    published,               \* the kind of each event, by its number
    replay,                  \* AutomationHub: the events retained, and
    subscribers,             \* its subscriptions, oldest first
    next_subscription_id,
    frames,                  \* each connection's output queue: the subscription
                             \* of an event frame, 0 for a reply
    alive,                   \* connections not closed
    told,                    \* by subscription: the ranges of events sent or reported lost
    transcript,              \* [oldest_offset, end_offset]
    spans                   \* PtyOutput spans on their way to the event loop

vars == <<published, replay, subscribers, next_subscription_id, frames, alive, told,
          transcript, spans>>

event_sequence == Len(published)

NoRange == <<>>
Lost(r) == [first |-> r[1], last |-> r[2], lost |-> TRUE]
Sent(n) == [first |-> n, last |-> n, lost |-> FALSE]

(***************************************************************************)
(* IpcConnection::event: a slot of the subscription, then a place in the   *)
(* connection's queue.  A pass over the subscribers threads the queues and *)
(* what was told through an accumulator.                                   *)
(***************************************************************************)
queued_events(q, s) == Len(SelectSeq(q[s.conn], LAMBDA f : f = s.id))

CanQueue(acc, s) ==
    /\ s.conn \in alive
    /\ queued_events(acc.frames, s) < MaxSubscriberEvents
    /\ Len(acc.frames[s.conn]) < QueueFrames

event(acc, s, range) ==
    [acc EXCEPT !.frames[s.conn] = Append(@, s.id), !.told[s.id] = Append(@, range)]

(* Subscriber::send: a pending loss is reported first, and grows if even   *)
(* the report does not fit.                                                *)
send_mut(acc, s, n) ==
    IF CanQueue(acc, s)
    THEN [acc |-> event(IF s.overflow = NoRange THEN acc ELSE event(acc, s, Lost(s.overflow)), s, Sent(n)),
          sub |-> [s EXCEPT !.overflow = NoRange]]
    ELSE [acc |-> acc, sub |-> [s EXCEPT !.overflow = <<n, n>>]]

send(acc, s, n) ==
    LET reported == IF s.overflow = NoRange THEN acc ELSE event(acc, s, Lost(s.overflow))
        silent   == s.overflow # NoRange /\ ~CanQueue(acc, s)
    IN  CASE silent -> [acc |-> acc, sub |-> [s EXCEPT !.overflow = <<s.overflow[1], n>>]]
          [] ~silent /\ CanQueue(reported, s) ->
                [acc |-> event(reported, s, Sent(n)), sub |-> [s EXCEPT !.overflow = NoRange]]
          [] OTHER -> [acc |-> reported, sub |-> [s EXCEPT !.overflow = <<n, n>>]]

matches(s, e) == e.kind \in s.kinds

(* The events es, oldest first, for one subscriber. *)
SendAll(acc, s, es) ==
    LET step(x, e) == IF matches(x.sub, e) THEN send(x.acc, x.sub, e.seq) ELSE x
    IN  FoldLeft(step, [acc |-> acc, sub |-> s], es)

Retained(r) == IF Len(r) > ReplayCount THEN SubSeq(r, Len(r) - ReplayCount + 1, Len(r)) ELSE r

(* emit_payload for the events of one call, in order: delivery, then the   *)
(* subscribers of dead connections are forgotten, then retention.          *)
emit_payload(kinds) ==
    LET es == [i \in DOMAIN kinds |-> [seq |-> event_sequence + i, kind |-> kinds[i]]]
        step(x, s) == LET y == SendAll(x.acc, s, es)
                      IN  [acc |-> y.acc, subs |-> Append(x.subs, y.sub)]
        done == FoldLeft(step, [acc |-> [frames |-> frames, told |-> told], subs |-> <<>>], subscribers)
    IN  /\ event_sequence + Len(kinds) <= MaxEvents
        /\ published' = published \o kinds
        /\ frames' = done.acc.frames
        /\ told' = done.acc.told
        /\ subscribers' = SelectSeq(done.subs, LAMBDA s : s.conn \in alive)
        /\ replay' = Retained(replay \o es)

Emit ==
    /\ emit_payload(<<"screen">>)
    /\ UNCHANGED <<next_subscription_id, alive, transcript, spans>>

(***************************************************************************)
(* The transcript.                                                         *)
(***************************************************************************)

(* Transcript::append by the PTY thread, which then posts the span. *)
PtyAppends(n) ==
    /\ transcript.end_offset + n <= MaxBytes
    /\ LET end == transcript.end_offset + n
           held == IF n >= Capacity THEN Capacity
                   ELSE LET all == transcript.end_offset - transcript.oldest_offset + n
                        IN  IF all > Capacity THEN Capacity ELSE all
       IN  transcript' = [oldest_offset |-> end - held, end_offset |-> end]
    /\ spans' = Append(spans, [start |-> transcript.end_offset, end |-> transcript'.end_offset])
    /\ UNCHANGED <<published, replay, subscribers, next_subscription_id, frames, alive, told>>

(* Transcript::range: evicted bytes are an error. *)
Evicted(start) == start < transcript.oldest_offset

(* The PtyOutput event: emit_output cuts the bytes into chunks; a span     *)
(* that is no longer retained whole is not published.                      *)
PtyOutput ==
    /\ spans # <<>>
    /\ spans' = Tail(spans)
    /\ LET span == Head(spans)
           n == span.end - span.start
       IN  IF Evicted(span.start)
           THEN UNCHANGED <<published, replay, subscribers, frames, told>>
           ELSE emit_payload([i \in 1..((n + Chunk - 1) \div Chunk) |-> "output"])
    /\ UNCHANGED <<next_subscription_id, alive, transcript>>

(***************************************************************************)
(* Subscriptions.                                                          *)
(***************************************************************************)

(* finish_request, as far as the queue goes: a reply that does not fit     *)
(* closes the connection.                                                  *)
Fits(c) == Len(frames[c]) < QueueFrames
reply(c) == IF Fits(c) THEN [frames EXCEPT ![c] = Append(@, 0)] ELSE frames
AliveAfterReply(c) == IF Fits(c) THEN alive ELSE alive \ {c}

(* The notice of a replay gap reports all that was asked for as lost.  One  *)
(* that does not fit is forgotten but for the number it carried.            *)
SendGap(acc, s) ==
    IF CanQueue(acc, s)
    THEN [acc |-> event(acc, s, Lost(<<s.from, event_sequence>>)), sub |-> s]
    ELSE [acc |-> acc, sub |-> [s EXCEPT !.overflow = <<event_sequence, event_sequence>>,
                                         !.from = event_sequence]]

(* subscribe: the answer first, then the retained events after since, or   *)
(* one gap notice if some of those are gone.  since = 0 with no history    *)
(* stands for no replay.                                                   *)
Subscribe(c, kinds, since, history) ==
    /\ c \in alive
    /\ next_subscription_id < MaxSubs
    /\ since <= event_sequence
    /\ alive' = AliveAfterReply(c)
    /\ IF Len(subscribers) >= MaxSubscriptions
       THEN frames' = reply(c) /\ UNCHANGED <<subscribers, next_subscription_id, told>>
       ELSE LET id     == next_subscription_id + 1
                oldest == IF replay = <<>> THEN event_sequence + 1 ELSE Head(replay).seq
                gap    == since + 1 < oldest
                s      == [id |-> id, conn |-> c, kinds |-> kinds, overflow |-> NoRange,
                           from |-> IF history THEN since + 1 ELSE event_sequence + 1]
                acc    == [frames |-> reply(c), told |-> told]
                done   == IF ~history THEN [acc |-> acc, sub |-> s]
                          ELSE IF gap THEN SendGap(acc, s)
                          ELSE SendAll(acc, s, SelectSeq(replay, LAMBDA e : e.seq > since))
            IN  /\ next_subscription_id' = id
                /\ subscribers' = Append(subscribers, done.sub)
                /\ frames' = done.acc.frames
                /\ told' = done.acc.told
    /\ UNCHANGED <<published, replay, transcript, spans>>

StillTold(subs) ==
    [i \in DOMAIN told |-> IF \E j \in DOMAIN subs : subs[j].id = i THEN told[i] ELSE <<>>]

Unsubscribe(c, id) ==
    /\ c \in alive
    /\ alive' = AliveAfterReply(c)
    /\ frames' = reply(c)
    /\ subscribers' = SelectSeq(subscribers, LAMBDA s : s.conn # c \/ s.id # id)
    /\ told' = StillTold(subscribers')
    /\ UNCHANGED <<published, replay, next_subscription_id, transcript, spans>>

(* The reader thread's last word; the connection may be closed already. *)
Disconnect(c) ==
    /\ c \in alive \/ \E i \in DOMAIN subscribers : subscribers[i].conn = c
    /\ alive' = alive \ {c}
    /\ subscribers' = SelectSeq(subscribers, LAMBDA s : s.conn # c)
    /\ frames' = [frames EXCEPT ![c] = <<>>]
    /\ told' = StillTold(subscribers')
    /\ UNCHANGED <<published, replay, next_subscription_id, transcript, spans>>

(* The writer thread; dropping the frame frees its slot. *)
WriterSends(c) ==
    /\ frames[c] # <<>>
    /\ frames' = [frames EXCEPT ![c] = Tail(@)]
    /\ UNCHANGED <<published, replay, subscribers, next_subscription_id, alive, told,
                   transcript, spans>>

Init ==
    /\ published = <<>> /\ replay = <<>> /\ subscribers = <<>> /\ next_subscription_id = 0
    /\ frames = [c \in Clients |-> <<>>]
    /\ alive = Clients
    /\ told = [i \in 1..MaxSubs |-> <<>>]
    /\ transcript = [oldest_offset |-> 0, end_offset |-> 0]
    /\ spans = <<>>

Next ==
    \/ Emit \/ PtyOutput \/ \E n \in 1..MaxBytes : PtyAppends(n)
    \/ \E c \in Clients :
          \/ WriterSends(c) \/ Disconnect(c)
          \/ \E id \in 1..MaxSubs : Unsubscribe(c, id)
          \/ \E kinds \in {EventKinds, {"screen"}}, since \in 0..MaxEvents, history \in BOOLEAN :
                /\ history \/ since = 0
                /\ Subscribe(c, kinds, since, history)

Spec == Init /\ [][Next]_vars
-----------------------------------------------------------------------------
TypeOK ==
    /\ event_sequence \in 0..MaxEvents
    /\ \A c \in Clients : Len(frames[c]) <= QueueFrames
    /\ Len(replay) <= ReplayCount
    /\ Len(subscribers) <= MaxSubscriptions

(* What a subscriber knows of: told to it, or noted as lost and reported   *)
(* before anything else.                                                   *)
Reports(s) ==
    told[s.id] \o IF s.overflow = NoRange THEN <<>> ELSE << Lost(s.overflow) >>

(* Each subscriber accounts for every event it asked for exactly once and  *)
(* in order: an event is either delivered or inside one reported range, no *)
(* matter how the queues fill, drain and fill again, how replay and live   *)
(* delivery meet, or how large a loss grows (Subscriber::send).  What it    *)
(* asked for starts at from: behind a replay gap whose notice did not fit   *)
(* its connection's queue (SendGap), the account starts at the last event,  *)
(* for nothing reports the ones before.                                    *)
NoSilentGap ==
    \A i \in DOMAIN subscribers :
        LET s == subscribers[i]
            rs == Reports(s)
        IN  /\ \A j \in 1..(Len(rs) - 1) : rs[j].last < rs[j + 1].first
            /\ \A n \in s.from..event_sequence :
                  published[n] \in s.kinds => \E j \in DOMAIN rs : n \in rs[j].first..rs[j].last
=============================================================================
