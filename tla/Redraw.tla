------------------------------- MODULE Redraw -------------------------------
(***************************************************************************)
(* How a change reaches the screen: the PTY reader thread changes the      *)
(* terminal and wakes the window, Vivid channel threads change the scene   *)
(* and wake it through one coalesced frame event, and the UI thread turns  *)
(* wakes, frame timers, renderer recovery and native redraws into draws.   *)
(*                                                                         *)
(* Every wake on that path is coalesced (`wake_pending`, the terminal      *)
(* wakeup flag, `requested_redraw`, the `has_frame` gate, the one-slot     *)
(* latency timer) and a draw may be refused (hidden window, synchronized   *)
(* update, lost renderer, busy swapchain), so the question is whether a    *)
(* change can be left undrawn with nothing on its way to draw it.          *)
(*                                                                         *)
(* Content is a version number for the text and one for the media.  The    *)
(* winit queue is the set of event kinds in it: every handler here is      *)
(* idempotent and the order of delivery is left open.  direct is the       *)
(* macOS/Windows build, which also presents from the wake itself.          *)
(* Animations (bell, scrollbar, progress) are left out: they add redraws.  *)
(***************************************************************************)
EXTENDS Naturals

CONSTANTS
    Producers,    \* threads that publish decoded media
    MaxText,      \* bound on text changes
    MaxMedia,     \* bound on media changes
    MaxUpdates,   \* bound on synchronized updates
    MaxFailures,  \* bound on draws that present nothing
    Builds,       \* the values of direct to consider
    Stories       \* which optional events happen together, with how many media changes

ASSUME RedrawAssumption ==
    /\ MaxText \in Nat /\ MaxMedia \in Nat /\ MaxUpdates \in Nat /\ MaxFailures \in Nat
    /\ Builds \subseteq BOOLEAN
    /\ Stories \subseteq [ops : SUBSET {"occlude", "fault", "reset", "exit"}, media : 0 .. MaxMedia]

VARIABLES
    text,           \* version of the terminal's contents
    updates,        \* synchronized updates begun
    sync,           \* TermMode::SYNC_UPDATE
    deadline,       \* the parser's deadline for the synchronized update
    reader,         \* the PTY reader: "poll", "wake" (owes a wake), "hung" (the child's side
                    \* hung up), "quarantined", "left"
    wakeFlag,       \* PendingTerminalEvents.wakeup
    media,          \* version of the Vivid scene
    producer,       \* each producer: "idle", "changed", "won" (its CAS succeeded)
    wakePending,    \* ServiceShared.wake_pending
    queue,          \* kinds of user event in the event loop's queue
    timers,         \* scheduler topics armed
    latencyArmed,   \* the latency worker holds a delay
    latencyPending, \* LatencySensitiveFrameTimer.pending
    dirty, hasFrame, requested, occluded,
    unavailable,    \* Display.renderer_unavailable
    early,          \* last_draw is less than a frame interval ago
    ui,             \* "idle" or "drawing"
    frame,          \* the snapshot being drawn
    shown,          \* the last snapshot presented
    failures,
    direct,         \* the build: macOS/Windows, or not
    story,          \* what may happen in this behaviour
    lapsed          \* history: an update ended, or a read was cut short, without its wake

readerVars  == <<text, updates, sync, deadline, reader, direct, story, lapsed>>
sceneVars   == <<media, producer>>
latencyVars == <<latencyArmed, latencyPending>>
drawVars    == <<dirty, requested, ui, frame>>
gateVars    == <<wakeFlag, wakePending>>
rendVars    == <<hasFrame, occluded, unavailable, early, shown, failures>>
vars == <<readerVars, sceneVars, latencyVars, drawVars, gateVars, rendVars, queue, timers>>

Events   == {"Wakeup", "VividFrame", "Frame", "Recovery", "Latency", "Fault", "Reset"}
Snapshot == [text : 0..MaxText + 2, media : 0..MaxMedia]
Now      == [text |-> text, media |-> media]

(***************************************************************************)
(* The PTY reader.                                                         *)
(***************************************************************************)

wakeup_neededBeforeUpdate(kind, synchronized) ==
    kind \in {"text"} /\ ~synchronized

(* What one locked read amounts to: visible output, graphics data that     *)
(* shows nothing yet, the start of a marker (held back by the scanner, so  *)
(* nothing is processed), or the two ends of a synchronized update.        *)
ReadKinds == {"text", "quiet", "partial", "begin", "end"}

wakeup_needed(kind, synchronized) ==
    kind # "partial" /\ ~synchronized /\ kind # "quiet"

(* EventProxy::send_event for Wakeup.  The flag coalesces on direct only.  *)
SendWake ==
    IF direct /\ wakeFlag
    THEN UNCHANGED <<queue, wakeFlag>>
    ELSE queue' = queue \cup {"Wakeup"} /\ wakeFlag' = direct

(* One locked read's parsing, end_overdue_sync included: a deadline found  *)
(* in the past ends the update.                                            *)
Opened(kind) ==
    CASE kind = "begin" -> "armed"
      [] kind = "end" -> "none"
      [] OTHER -> deadline

EndsOverdue(kind) == Opened(kind) = "overdue"
DeadlineAfter(kind) == IF EndsOverdue(kind) THEN "none" ELSE Opened(kind)

Parse(kind) ==
    /\ kind = "text" => text < MaxText
    /\ kind = "begin" => updates < MaxUpdates
    /\ text' = IF kind = "text" THEN text + 1 ELSE text
    /\ updates' = IF kind = "begin" THEN updates + 1 ELSE updates
    /\ sync' = ((kind = "begin" \/ (sync /\ kind # "end")) /\ ~EndsOverdue(kind))

(* EventLoop::pty_read: parse under the terminal lock, end an update whose *)
(* deadline has passed, release the lock, and only then wake the window.   *)
PtyRead(kind) ==
    /\ reader = "poll" /\ Parse(kind)
    /\ deadline' = DeadlineAfter(kind)
    /\ reader' = IF wakeup_needed(kind, deadline' # "none") THEN "wake" ELSE "poll"
    /\ lapsed' = (lapsed \/ (EndsOverdue(kind) /\ reader' = "poll"))
    /\ UNCHANGED <<direct, story, sceneVars, latencyVars, drawVars, gateVars, rendVars, queue,
                   timers>>

(* The child's side hangs up (EIO, Linux): pty_read returns the error at   *)
(* once, without the wake for what its earlier iterations parsed, and the  *)
(* worker ignores it.  The dead PTY stays ready, so no poll times out any  *)
(* more either: what was parsed waits for the child's exit.                *)
PtyHangsUp ==
    /\ "exit" \in story.ops /\ ~direct /\ reader = "poll"
    /\ reader' = "hung"
    /\ \/ \E kind \in ReadKinds : Parse(kind) /\ deadline' = DeadlineAfter(kind)
       \/ UNCHANGED <<text, updates, sync, deadline>>
    /\ lapsed' = (lapsed \/ sync \/ sync' \/ text' # text)
    /\ UNCHANGED <<direct, story, sceneVars, latencyVars, drawVars, gateVars, rendVars, queue,
                   timers>>

ReaderWakes ==
    /\ reader = "wake"
    /\ reader' = "poll" /\ lapsed' = FALSE
    /\ SendWake
    /\ UNCHANGED <<direct, story, updates, text, sync, deadline, sceneVars, latencyVars,
                   drawVars, wakePending,
                   rendVars, timers>>

DeadlinePasses ==
    /\ deadline = "armed"
    /\ deadline' = "overdue"
    /\ UNCHANGED <<direct, story, lapsed, updates, text, sync, reader, sceneVars, latencyVars,
                   drawVars, gateVars, rendVars,
                   queue, timers>>

(* The poll timed out on the update's deadline: end_overdue_sync, Wakeup.  *)
PollTimeout ==
    /\ reader \in {"poll", "quarantined"} /\ deadline = "overdue"
    /\ deadline' = "none" /\ sync' = FALSE /\ lapsed' = FALSE
    /\ SendWake
    /\ UNCHANGED <<direct, story, updates, text, reader, sceneVars, latencyVars, drawVars,
                   wakePending, rendVars, timers>>

(* Msg::ResetClient on a healthy pane: fresh parser, client state cleared. *)
ResetClient ==
    /\ "reset" \in story.ops /\ reader \in {"poll", "hung"} /\ text < MaxText
    /\ text' = text + 1 /\ sync' = FALSE /\ deadline' = "none" /\ lapsed' = FALSE
    /\ queue' = (queue \cup {"Reset"}) \cup (IF direct /\ wakeFlag THEN {} ELSE {"Wakeup"})
    /\ wakeFlag' = direct
    /\ UNCHANGED <<direct, story, updates, reader, sceneVars, latencyVars, drawVars, wakePending,
                   rendVars, timers>>

(* A contained panic of the parser or writer, or a read or write that      *)
(* fails: whatever the read had parsed gets no wake.  The worker reports   *)
(* the fault and stops serving the PTY; a panic also drops the parser,     *)
(* with the update's deadline.                                             *)
ReaderFaults ==
    /\ "fault" \in story.ops /\ reader = "poll"
    /\ reader' = "quarantined"
    /\ \/ \E kind \in ReadKinds : Parse(kind) /\ deadline' \in {"none", DeadlineAfter(kind)}
       \/ UNCHANGED <<text, updates, sync>> /\ deadline' \in {"none", deadline}
    /\ queue' = queue \cup {"Fault"}
    /\ UNCHANGED <<direct, story, lapsed, sceneVars, latencyVars, drawVars, gateVars, rendVars,
                   timers>>

(* The child exited: its last output is drained, without regard for how    *)
(* the drain ends, and the window woken.  --hold keeps the window.         *)
ChildExits ==
    /\ "exit" \in story.ops /\ reader \in {"poll", "hung"}
    /\ reader' = "left"
    /\ \/ \E kind \in ReadKinds : Parse(kind) /\ deadline' = DeadlineAfter(kind)
       \/ UNCHANGED <<text, updates, sync, deadline>>
    /\ lapsed' = sync'
    /\ SendWake
    /\ UNCHANGED <<direct, story, sceneVars, latencyVars, drawVars, wakePending, rendVars,
                   timers>>

(***************************************************************************)
(* Vivid producers.                                                        *)
(***************************************************************************)

Publish(p) ==
    /\ producer[p] = "idle" /\ media < story.media
    /\ media' = media + 1
    /\ producer' = [producer EXCEPT ![p] = "changed"]
    /\ UNCHANGED <<readerVars, latencyVars, drawVars, gateVars, rendVars, queue, timers>>

(* request_frame_wake: one compare-exchange decides who sends the event.   *)
RequestFrameWake(p) ==
    /\ producer[p] = "changed"
    /\ producer' = [producer EXCEPT ![p] = IF wakePending THEN "idle" ELSE "won"]
    /\ wakePending' = TRUE
    /\ UNCHANGED <<readerVars, media, latencyVars, drawVars, wakeFlag, rendVars, queue, timers>>

SendFrameWake(p) ==
    /\ producer[p] = "won"
    /\ producer' = [producer EXCEPT ![p] = "idle"]
    /\ queue' = queue \cup {"VividFrame"}
    /\ UNCHANGED <<readerVars, media, latencyVars, drawVars, gateVars, rendVars, timers>>

(***************************************************************************)
(* Drawing, on the UI thread.                                              *)
(***************************************************************************)

(* WindowContext::draw up to the snapshot it takes under the terminal      *)
(* lock.  A hidden window keeps its dirt; an update in progress does not.  *)
BeginDraw(was) ==
    /\ requested' = FALSE
    /\ dirty' = ((occluded /\ was) \/ (~occluded /\ ~sync /\ unavailable))
    /\ IF ~occluded /\ ~sync /\ ~unavailable
       THEN ui' = "drawing" /\ frame' = Now
       ELSE UNCHANGED <<ui, frame>>

ScheduleLatencyUnmarked(pending) ==
    /\ latencyPending' = pending
    /\ latencyArmed' = TRUE

(* LatencySensitiveFrameTimer::schedule. *)
ScheduleLatency(pending) ==
    /\ latencyPending' = TRUE
    /\ latencyArmed' = (latencyArmed \/ ~pending)

DirectDrawDropped(pending, keepRequest) ==
    IF early
    THEN /\ dirty' = TRUE /\ requested' = keepRequest
         /\ latencyPending' = pending
         /\ UNCHANGED <<ui, frame, latencyArmed>>
    ELSE /\ BeginDraw(TRUE)
         /\ latencyPending' = pending
         /\ UNCHANGED latencyArmed

(* draw_latency_sensitive for a dirty, visible window: present now, or,    *)
(* within a frame interval of the last draw, leave it to the timer.        *)
DirectDraw(pending, keepRequest) ==
    IF early
    THEN /\ dirty' = TRUE /\ requested' = keepRequest
         /\ ScheduleLatency(pending)
         /\ UNCHANGED <<ui, frame>>
    ELSE /\ BeginDraw(TRUE)
         /\ latencyPending' = pending
         /\ UNCHANGED latencyArmed

(* draw_latency_sensitive declines, or this build has no direct draws. *)
Declines(was) == ~direct \/ ~was \/ occluded

FinishDrawClean(result) ==
    /\ ui = "drawing" /\ ui' = "idle"
    /\ result # "presented" => failures < MaxFailures
    /\ failures' = IF result = "presented" THEN failures ELSE failures + 1
    /\ shown' = IF result = "presented" THEN frame ELSE shown
    /\ requested' = (requested \/ result = "rebuilt")
    /\ unavailable' = (result = "lost")
    /\ hasFrame' = FALSE
    /\ timers' = timers \cup {"Frame"} \cup (IF result = "lost" THEN {"Recovery"} ELSE {})
    /\ early' = direct
    /\ UNCHANGED <<dirty, readerVars, sceneVars, latencyVars, frame, gateVars, occluded, queue>>

(* The rest of Display::draw: the render result, then request_frame, which *)
(* shuts the frame gate and arms the timer that reopens it.                *)
FinishDraw(result) ==
    /\ ui = "drawing" /\ ui' = "idle"
    /\ result # "presented" => failures < MaxFailures
    /\ failures' = IF result = "presented" THEN failures ELSE failures + 1
    /\ shown' = IF result = "presented" THEN frame ELSE shown
    /\ dirty' = (dirty \/ result # "presented")
    /\ requested' = (requested \/ result = "rebuilt")
    /\ unavailable' = (result = "lost")
    /\ hasFrame' = FALSE
    /\ timers' = timers \cup {"Frame"} \cup (IF result = "lost" THEN {"Recovery"} ELSE {})
    /\ early' = direct
    /\ UNCHANGED <<readerVars, sceneVars, latencyVars, frame, gateVars, occluded, queue>>

FrameIntervalPasses ==
    /\ early /\ early' = FALSE
    /\ UNCHANGED <<readerVars, sceneVars, latencyVars, drawVars, gateVars, hasFrame, occluded,
                   unavailable, shown, failures, queue, timers>>

(* The windowing system delivers RedrawRequested, asked for or not. *)
NativeRedraw ==
    /\ ui = "idle"
    /\ IF Declines(TRUE)
       THEN BeginDraw(direct \/ dirty) /\ UNCHANGED latencyVars
       ELSE DirectDraw(latencyPending, FALSE)
    /\ UNCHANGED <<readerVars, sceneVars, gateVars, rendVars, queue, timers>>

(***************************************************************************)
(* User events.                                                            *)
(***************************************************************************)

Take(event) == ui = "idle" /\ event \in queue /\ queue' = queue \ {event}

AskIfGateOpen == requested' = (requested \/ hasFrame) /\ UNCHANGED <<ui, frame>>

HandleVividFrameClosed ==
    /\ Take("VividFrame")
    /\ dirty' = TRUE /\ AskIfGateOpen
    /\ UNCHANGED <<readerVars, sceneVars, latencyVars, gateVars, rendVars, timers>>

HandleWakeupClosed ==
    /\ Take("Wakeup")
    /\ IF Declines(TRUE)
       THEN dirty' = TRUE /\ AskIfGateOpen /\ UNCHANGED latencyVars
       ELSE DirectDraw(latencyPending, requested)
    /\ UNCHANGED <<readerVars, sceneVars, gateVars, rendVars, timers>>

HandleWakeup ==
    /\ Take("Wakeup")
    /\ wakeFlag' = FALSE
    /\ IF Declines(TRUE)
       THEN dirty' = TRUE /\ AskIfGateOpen /\ UNCHANGED latencyVars
       ELSE DirectDraw(latencyPending, requested)
    /\ UNCHANGED <<readerVars, sceneVars, wakePending, rendVars, timers>>

HandleVividFrame ==
    /\ Take("VividFrame")
    /\ wakePending' = FALSE
    /\ dirty' = TRUE /\ AskIfGateOpen
    /\ UNCHANGED <<readerVars, sceneVars, latencyVars, wakeFlag, rendVars, timers>>

HandleFrame ==
    /\ Take("Frame")
    /\ hasFrame' = TRUE
    /\ IF Declines(dirty)
       THEN /\ requested' = (requested \/ dirty)
            /\ UNCHANGED <<dirty, ui, frame, latencyVars>>
       ELSE DirectDraw(latencyPending, requested)
    /\ UNCHANGED <<readerVars, sceneVars, gateVars, occluded, unavailable, early, shown,
                   failures, timers>>

HandleLatency ==
    /\ Take("Latency")
    /\ IF Declines(dirty)
       THEN latencyPending' = FALSE /\ UNCHANGED <<drawVars, latencyArmed>>
       ELSE DirectDraw(FALSE, requested)
    /\ UNCHANGED <<readerVars, sceneVars, gateVars, rendVars, timers>>

(* retry_renderer: rebuilding asks for a redraw itself, or tries again.    *)
HandleRecovery(rebuilt) ==
    /\ Take("Recovery")
    /\ ~rebuilt => failures < MaxFailures
    /\ failures' = IF rebuilt THEN failures ELSE failures + 1
    /\ unavailable' = ~rebuilt
    /\ dirty' = (dirty \/ rebuilt) /\ requested' = (requested \/ rebuilt)
    /\ timers' = IF rebuilt THEN timers ELSE timers \cup {"Recovery"}
    /\ UNCHANGED <<readerVars, sceneVars, latencyVars, ui, frame, gateVars, hasFrame, occluded,
                   early, shown>>

(* ClientFault: join the worker, replace the terminal, show the message.   *)
HandleFault ==
    /\ Take("Fault")
    /\ reader' = "left" /\ sync' = FALSE /\ lapsed' = FALSE /\ text' = text + 1
    /\ dirty' = TRUE /\ requested' = TRUE
    /\ UNCHANGED <<direct, story, updates, deadline, ui, frame, sceneVars, latencyVars, gateVars,
                   rendVars, timers>>

HandleReset ==
    /\ Take("Reset")
    /\ dirty' = TRUE /\ requested' = TRUE
    /\ UNCHANGED <<readerVars, ui, frame, sceneVars, latencyVars, gateVars, rendVars, timers>>

(* Occluded is handled in the batch that ends by asking for a redraw.      *)
SetOccluded(hidden) ==
    /\ "occlude" \in story.ops /\ ui = "idle" /\ occluded # hidden
    /\ occluded' = hidden
    /\ requested' = (requested \/ (dirty /\ hasFrame /\ ~hidden))
    /\ UNCHANGED <<readerVars, sceneVars, latencyVars, dirty, ui, frame, gateVars, hasFrame,
                   unavailable, early, shown, failures, queue, timers>>

(* Scheduler::update, and the latency worker at the end of its sleep. *)
TimerFires(topic) ==
    /\ topic \in timers
    /\ timers' = timers \ {topic} /\ queue' = queue \cup {topic}
    /\ UNCHANGED <<readerVars, sceneVars, latencyVars, drawVars, gateVars, rendVars>>

LatencyFires ==
    /\ latencyArmed /\ latencyArmed' = FALSE
    /\ queue' = queue \cup {"Latency"}
    /\ UNCHANGED <<readerVars, sceneVars, latencyPending, drawVars, gateVars, rendVars, timers>>

Init ==
    /\ text = 0 /\ updates = 0 /\ sync = FALSE /\ deadline = "none" /\ reader = "poll"
    /\ media = 0 /\ producer = [p \in Producers |-> "idle"]
    /\ wakeFlag = FALSE /\ wakePending = FALSE /\ queue = {} /\ timers = {}
    /\ latencyArmed = FALSE /\ latencyPending = FALSE
    /\ dirty = FALSE /\ hasFrame = TRUE /\ requested = FALSE /\ occluded = FALSE
    /\ unavailable = FALSE /\ early = FALSE /\ ui = "idle"
    /\ frame = [text |-> 0, media |-> 0] /\ shown = [text |-> 0, media |-> 0]
    /\ failures = 0 /\ direct \in Builds /\ story \in Stories /\ lapsed = FALSE

Reader    == \/ \E kind \in ReadKinds : PtyRead(kind)
             \/ PtyHangsUp \/ ReaderWakes \/ PollTimeout
Producer(p) == Publish(p) \/ RequestFrameWake(p) \/ SendFrameWake(p)
Handlers  == \/ HandleWakeup \/ HandleVividFrame \/ HandleFrame \/ HandleLatency
             \/ HandleRecovery(TRUE) \/ HandleRecovery(FALSE)
             \/ HandleFault \/ HandleReset
Drawing   == \E result \in {"presented", "skipped", "rebuilt", "lost"} : FinishDraw(result)

Next ==
    \/ Reader \/ DeadlinePasses \/ ResetClient \/ ReaderFaults \/ ChildExits
    \/ \E p \in Producers : Producer(p)
    \/ Handlers \/ Drawing \/ NativeRedraw \/ FrameIntervalPasses
    \/ \E hidden \in BOOLEAN : SetOccluded(hidden)
    \/ \E topic \in {"Frame", "Recovery"} : TimerFires(topic)
    \/ LatencyFires

Spec == Init /\ [][Next]_vars

(* The threads run, the event loop empties its queue, clocks advance and   *)
(* the windowing system answers a request of a visible window.  In a       *)
(* saturated macOS or Windows queue neither scheduler timers nor native    *)
(* redraws are ever guaranteed to run ("LatencySensitiveFrameTimer").      *)
Fairness ==
    /\ WF_vars(ReaderWakes) /\ WF_vars(PollTimeout) /\ WF_vars(DeadlinePasses)
    /\ \A p \in Producers : WF_vars(RequestFrameWake(p)) /\ WF_vars(SendFrameWake(p))
    /\ WF_vars(HandleWakeup) /\ WF_vars(HandleVividFrame) /\ WF_vars(HandleFrame)
    /\ WF_vars(HandleLatency) /\ WF_vars(HandleRecovery(TRUE)) /\ WF_vars(HandleFault)
    /\ WF_vars(HandleReset) /\ WF_vars(FinishDraw("presented"))
    /\ WF_vars(FrameIntervalPasses) /\ WF_vars(LatencyFires)
    /\ \A topic \in {"Frame", "Recovery"} : WF_vars(~direct /\ TimerFires(topic))
    /\ WF_vars(~direct /\ requested /\ ~occluded /\ NativeRedraw)

LiveSpec == Spec /\ Fairness

-----------------------------------------------------------------------------
TypeOK ==
    /\ text \in 0..MaxText + 2 /\ updates \in 0..MaxUpdates /\ media \in 0..MaxMedia
    /\ sync \in BOOLEAN /\ deadline \in {"none", "armed", "overdue"}
    /\ reader \in {"poll", "wake", "hung", "quarantined", "left"}
    /\ producer \in [Producers -> {"idle", "changed", "won"}]
    /\ wakeFlag \in BOOLEAN /\ wakePending \in BOOLEAN
    /\ queue \subseteq Events /\ timers \subseteq {"Frame", "Recovery"}
    /\ latencyPending \in BOOLEAN /\ latencyArmed \in {FALSE, latencyPending}
    /\ dirty \in BOOLEAN /\ hasFrame \in BOOLEAN /\ requested \in BOOLEAN
    /\ occluded \in BOOLEAN /\ unavailable \in BOOLEAN /\ early \in BOOLEAN
    /\ ui \in {"idle", "drawing"} /\ frame \in Snapshot /\ shown \in Snapshot
    /\ failures \in 0..MaxFailures /\ direct \in Builds /\ story \in Stories /\ lapsed \in BOOLEAN

(* A dirty window that something will come back to: a redraw is requested, *)
(* a timer or its event is outstanding, or un-hiding it will ask.          *)
WillRedraw ==
    dirty /\ \/ requested \/ occluded \/ latencyArmed
             \/ timers # {} \/ queue \cap {"Frame", "Recovery", "Latency"} # {}

(* The PTY reader owes the window a wake, now or at the update's end.      *)
ReaderOwesWake ==
    \/ reader = "wake" \/ queue \cap {"Wakeup", "Fault", "Reset"} # {}
    \/ reader = "poll" /\ sync /\ deadline # "none"

(* What the terminal shows and the screen does not is always on its way    *)
(* there: the reader will wake the window, a draw of it is in progress, or *)
(* the window is dirty with something coming back to it.  Against lost     *)
(* wakes around synchronized updates, failed draws and shut frame gates    *)
(* (`draw`: "Its end, or its deadline, wakes the window").                 *)
TextOnItsWay ==
    shown.text # text =>
        ReaderOwesWake \/ WillRedraw \/ (ui = "drawing" /\ frame.text = text)

(* TextOnItsWay, but for the ways the reader leaves a change without its   *)
(* wake until the next one makes good for it: two ways an update ends, and *)
(* a read that the child's hang-up cuts short after it parsed something    *)
(* (pty_read's early return), which waits for the child's exit.            *)
TextCovered == lapsed \/ TextOnItsWay

(* The same for media: a scene change behind a coalesced frame wake is     *)
(* drawn by the event already queued, or by the producer that won the      *)
(* compare-exchange after it was acknowledged.                             *)
MediaCovered ==
    shown.media # media =>
        \/ \E p \in Producers : producer[p] # "idle"
        \/ "VividFrame" \in queue
        \/ ReaderOwesWake \/ WillRedraw \/ (ui = "drawing" /\ frame.media = media)
        \/ lapsed

(* Nothing the terminal or a producer changed is forgotten before it is    *)
(* drawn (draw, handle_vivid_frame, wakeup_needed), but for what lapsed.   *)
ChangesCovered == TextCovered /\ MediaCovered

(* A closed gate always has its opener on the way: a set coalescing flag   *)
(* has its event queued or about to be sent, and a shut frame gate its     *)
(* timer.  Otherwise every later wake is swallowed.                        *)
GatesReopen ==
    /\ wakePending => "VividFrame" \in queue \/ \E p \in Producers : producer[p] = "won"
    /\ wakeFlag => "Wakeup" \in queue
    /\ latencyPending => latencyArmed \/ "Latency" \in queue
    /\ ~hasFrame => "Frame" \in timers \cup queue
    /\ unavailable => "Recovery" \in timers \cup queue

(* Whatever the reader wrote is eventually presented, unless the window    *)
(* gets hidden, an update lapses or a hang-up cut the read short, which is *)
(* made good for from the child's exit on; on macOS and Windows even if    *)
(* every scheduler timer and native redraw is starved, as long as no draw  *)
(* fails.                                                                  *)
TextShown ==
    \A v \in 1..MaxText + 1 :
        text >= v ~> (shown.text >= v \/ occluded \/ lapsed \/ (direct /\ failures > 0))

(* And so is whatever a producer published, where native redraws arrive.   *)
MediaShown ==
    \A v \in 1..MaxMedia :
        media >= v /\ ~direct ~> (shown.media >= v \/ occluded \/ lapsed)

(* Text and media are both presented in the end (draw, request_redraw).    *)
ChangesShown == TextShown /\ MediaShown
=============================================================================
