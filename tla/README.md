# Vivido in TLA+

Vivido is a GPU terminal emulator with a media protocol, *Vivid*: programs running inside a pane
open side connections to the terminal (the *presenter*), publish surfaces, tracks and frames, anchor
them to lines of text with in-band markers, lease parts of their session to child processes and
receive input over an interactive lane. This directory models the parts of that program where
several threads, connections and clocks meet, checks them with TLC and proves the central ones with
TLAPS. Paths below are relative to the repository (`src/vivid/mod.rs` is the file
`src/src/vivid/mod.rs` of PROJECT.json).

- [1. The system](#1-the-system)
- [2. The modules](#2-the-modules)
- [3. The runs](#3-the-runs)
- [4. The proofs](#4-the-proofs)
- [5. Where the code departs from what it says](#5-where-the-code-departs-from-what-it-says)
- [6. What is not modelled](#6-what-is-not-modelled)
- [7. Plan](#7-plan)

## 1. The system

### Threads

| thread | what it runs | shared state it touches |
| --- | --- | --- |
| UI / event loop | `event.rs`, `window_context.rs`, `display/` | terminal (fair mutex), scene, session registry, wake flags |
| PTY reader, one per pane | `terminal/event_loop.rs`, `terminal/term/mod.rs`, decodes of `terminal/graphics/mod.rs` | terminal, parser, wake flag of the pane |
| Vivid listener, one per presenter | `vivid/mod.rs` `listener_loop` | pending handshakes, connection slots |
| Vivid connection reader, one per control connection | `handle_control` | registry, the session's ingress queue |
| Vivid session actor, one per session | `actor_loop`, `dispatch` | registry, leases, scene, pending operations |
| Vivid egress worker, one per connection | `vivid/actor.rs` `Egress::run` | egress queue, socket |
| Vivid lane and channel threads | `handle_lane`, `handle_track_channel`, `channel_loop` | lane slot, input grant, scene, audio outputs |
| audio callback, latency worker | `audio.rs`, `event.rs` | ring counters, event queue |
| automation poller and its connections | `polling/`, `automation.rs` | event queue, subscribers, transcript |
| read-ahead thread, one per pane (macOS) | `terminal/tty/gather.rs` | two buffers, a readiness pipe |
| file-drop streams | `vivid/file_drop.rs` | transfers |
| notification worker and its tasks | `osc_notification.rs` | its channels |
| other processes | `session.rs`: daemons, clients, `rm` | the session directory |

### Components

For each: its state, its operations, the threads it is exposed to, and what makes it correct.

**Egress** (`vivid/actor.rs`). State: a bounded record queue, a closed flag, an overflow flag, the
reader's shutdown handle, the worker's join handle. Operations: `send`, `set_shutdown`, `close`,
`join`, `run`, `abort_after_fault`. Every thread of a connection posts; the worker alone writes;
overflow, a failed write or a panic abandons the connection while others are posting. Correct when
records leave in admission order and once, when an orderly close flushes everything, when closing
always ends, and when an abandoned connection is really cut.

**Session registry and leases** (`vivid/mod.rs`, `vivid/lease.rs`). State: sessions by ID and by
tag, the lease table, the capacity each context has delegated, the scenes. Operations: issue,
activation, exact retry of a lost WELCOME, resume, suspension, expiry, revocation, both teardowns,
`disconnect_clients`. The registry mutex is released between the steps of every teardown. Correct
when one transport serves a session, retries verify with the key the child still has, capacity is
charged once and returned once, no scene is orphaned and no detached lease lives forever.

**Interactive lane** (`vivid/lane.rs`, `vivid/mod.rs`). State: the lane slot (generation, nonce,
live, admitted input), the installed egress, the input grant. Operations: `admit`, binding,
`send_input`, `LaneCleanup::drop`, revocations. A lost lane's cleanup runs in four critical sections
beside the next lane's opening. Correct when a generation has one transport and losing it takes
input away from it only.

**Shared scene and renderer** (`vivid/scene.rs`, `display/media.rs`). State: sessions, target
generation, surfaces, slots, tracks, nodes, pending transactions, anchors, retained posters, a
render cache and revision counters. Forty methods behind one lock; the renderer takes a snapshot,
draws it without the lock and acknowledges items afterwards. Correct when the cache is what a
rebuild would give, a skipped draw would have changed nothing, names resolve, targets agree and what
a session leaves behind is exactly what still shows.

**Anchored media and the grid** (`terminal/term/mod.rs`, `terminal/grid/`, `event.rs`,
`vivid/scene.rs`). State: the lines of two screens and a history on one side, the anchors on the
other, and between them scroll, clear, swap and marker events that are merged, batched and applied
late. Correct when, once everything is handled, an anchor is where its text is.

**Redraw pipeline** (`terminal/event_loop.rs`, `event.rs`, `window_context.rs`, `display/mod.rs`,
`scheduler.rs`, `vivid/mod.rs`). State: five coalescing flags, timers, the dirty bit, the frame
gate, renderer availability, the synchronized update of the terminal and its deadline. Correct when
no change is left undrawn with nothing on its way to draw it.

**Timed audio playback** (`vivid/mod.rs`, `vivid/actor.rs`, `vivid/audio.rs`, `vivid/scene.rs`).
State: the track's lifecycle, channel generation, epoch and milestones in the scene; the map of audio
outputs; each output's ring, counters, gates and generation; the actor's pending operations and
cancelled request IDs. Operations: ADVANCE_CHANNEL, PLAY, PAUSE, FLUSH, DRAIN, WAIT_TRACK,
CANCEL_WAIT, QUERY_TRACK and DESTROY_TRACK on the actor; CHANNEL_OPEN, AUDIO_PACKET and CHANNEL_EOS
on a thread for each channel generation; the device's callback, which takes no lock. Correct when a
retired channel is not heard, a seek drops what it should and nothing else, an end that is reported
has been played, and nobody waits for somebody who waits for him.

**Automation IPC** (`polling/ipc.rs`, `event.rs`, `window_context.rs`, `automation.rs`). State: a
connection's request IDs and output queue; the waiters, pending writes, paced gesture, screenshot and
timers of a window; subscriptions, the replay ring and the transcript. A request may be held by the
connection, the event queue, the window, a PTY worker or an encoder, and the window, either client
and the child can go away at each of those places. Correct when every request is answered once or its
connection is over, a gesture ends with its button up, and a subscriber is told of every event or of
its loss.

**PTY reading ahead** (`terminal/tty/gather.rs`). State: two buffers that a thread fills and the
parser takes, a readiness byte and a wake byte; resets in the middle. Correct when the parser sees
the child's output once and in order, and neither side sleeps on the other.

**PTY worker** (`terminal/event_loop.rs`). State: the channel of messages, the write queue, the poll
interest, registration, quarantine. Correct when input is written in order and reported when it was,
and nothing waits for a poll that will not return.

**Kitty graphics** (`terminal/graphics/mod.rs`, `store.rs`). State: a store for each screen with
images, placements and quotas, a transmission in chunks, decodes that the reader runs without the
terminal's lock, replies in order behind them. Correct when the accounts balance and no decode changes or blocks what it no longer
belongs to.

**File drop** (`vivid/file_drop.rs`, `vivid/mod.rs`). State: bindings and their epochs, offers,
transfers and their generations, pastes that wait, a stream's thread and socket handle. Correct when
a transfer has one stream, what is retired is stopped, and a drop is typed once.

**Sessions on disk** (`session.rs`, `main.rs`, `daemon.rs`). State: a registry file and a socket per
name, shared by processes that take no lock. Correct when the files lead to the daemon that runs,
and a signal goes to the recorded process only.

**Terminal state** (`terminal/term/mod.rs`, `terminal/grid/`). State: two grids with a cursor and a
saved cursor each, the scroll region, modes, tab stops, history and view, damage. Correct when all of
it stays inside the screen through any controls and resizes, and a changed line is repainted.

**OSC notifications** (`osc_notification.rs`). State: notifications being assembled, a rate limiter,
the worker's bounded queue, its table of live notifications and the task and channel of each. Correct
when the table stays within its limit and never names a task that is not there.

**Listener and targets** (`vivid/mod.rs` `listener_loop`, `PendingConnection`,
`establish_root_session`, `flush_display_change`, `vivid/target.rs`). State: the pending handshakes,
the count of connections, the sessions, the cached WELCOMEs, the offered, queued and settled geometry,
the scene's target generation. A connection is admitted, evicted, served, published and retired by
threads that hold nothing in between, while the window offers geometries and the service may be
dropped. Correct when both budgets are released once on every path, no session is told of a target
that the scene has not reached, and each is told of the last one.

**Overlays** (`vivid/overlay.rs`, `display/overlay.rs`). State: a window per surface, the compiled
scenes and submissions of its tracks, what is active, being composed and displayed, receipts and a
lane. The channel worker compiles, the actor activates and sends receipts, the window's thread draws
and dismisses, the lane's loss revokes. Correct when a submission has one receipt and only what was
presented is displayed.

**Overlay text** (`vivid/overlay_text.rs`). State: text jobs, installed layouts and their charges; a
worker thread for each job. Correct when a job ends, what is retained is charged and belongs to a
window, and the two mutexes it needs are taken in one order.

**Tabs** (`shell/tabbed.rs`, `shell/tabs.rs`, `shell/chrome.rs`). State: the tabs and the active one,
the windows of their panes, the strip and its hit map as drawn, the launch menu, focus, three queues
that a turn of the loop drains. Correct when one pane is shown and focused and the strip that is drawn
is the one there is.

**Video tracks, live media, grid storage, prompts, updates** are state machines or data structures
worth modelling, see the plan. The rest (rendering, fonts, codecs,
devices, configuration, platform code) is listed with its reason in section 6 and in PROJECT.json.

### How they interact

A child's record passes the connection reader, the ingress queue, the actor, the scene or registry,
and its answer the egress. A scene change wakes the UI thread through one coalesced event
(*Redraw*), which draws a snapshot (*Scene*). A marker in the terminal's output is parsed by the PTY
thread, travels with the scroll events (*Anchors*) and becomes an anchor of the scene. A lost
connection runs the session's teardown (*Leases*), which suspends, detaches or removes its scene
(*Scene*) and closes its egress and lanes (*Egress*, *Lane*). A program's output
is read ahead (*Gather*), parsed under the pane's worker (*PtyLoop*) and changes the terminal
(*Term*), its images (*Graphics*) and its notifications (*Notifications*); what automation asks of a
window goes through the same worker (*Automation*), and what happened is published to subscribers
(*EventHub*). Producers come in through the listener (*Listener*); overlay windows and their text
(*Overlay*, *OverlayText*) use the lane and the scene's tracks; the panes are the tabs of one host
(*Tabs*). The modules meet at those calls: each models the call's effect on its own state and
leaves the caller's data open.

## 2. The modules

| module | models | one action is |
| --- | --- | --- |
| `Outbox` | what an egress promises: a first-in first-out outbox that never reopens | a step of the promise |
| `Egress` | one connection's egress with its posters, worker, installer and closer | one critical section of the queue mutex, or one system call |
| `EgressProofs` | theorems about `Egress` | |
| `Lane` | one session's lane slot, egress installation and input grant | one critical section |
| `Leases` | the registry and one lease: controller, child connections, teardowns | one critical section of the registry, or one call outside it |
| `LeasesProofs` | theorems about `Leases` | |
| `Scene` | the shared scene, its cache and its renderer | one method (the scene's lock is held throughout) |
| `SceneProofs` | theorems about `Scene` | |
| `Anchors` | both screens' lines, the events about them, the anchors | one terminal operation under the terminal's lock, one event handled |
| `AnchorsProofs` | theorems about `Anchors` | |
| `Playback` | one timed audio track: actor, pending operations, channel threads, outputs, device | one critical section, or a run of atomic accesses nobody can tell apart |
| `PlaybackProofs` | theorems about `Playback` | |
| `Redraw` | everything that turns a change into a presented frame | one locked read, one atomic operation, one event handler, half a draw |
| `RedrawProofs` | theorems about `Redraw` | |
| `Automation` | one window's automation requests, its clients, timers, PTY worker and encoder | one event handled, one callback, or one step of a connection |
| `EventHub` | event subscriptions, the replay ring and the transcript | one call under the subscribers' lock, one frame read by a client |
| `Gather` | the read-ahead thread and the parser that takes what it read | one critical section, or one read or poll |
| `PtyLoop` | the PTY worker's messages, write queue, poll interest, faults and end | one turn of the loop or a part that can be told apart |
| `Graphics` | a pane's two image stores, their transmissions, decodes and replies | one command under the terminal's lock, one job picked up or handed back |
| `FileDrop` | bindings, offers, transfers and pastes with the connections that serve them | one critical section of the hub |
| `Sessions` | one session name's files, two daemons and a client | one system call |
| `Term` | cursor, saved cursor, region, modes, history, view and damage of both screens | one control, resize or frame |
| `Notifications` | the assembly, the limiter, the worker and its tasks | one sequence parsed, one message handled, one task's step |
| `Listener` | the listener, connection budgets, sessions' publication, both targets and their announcements | one critical section, one socket call, or a step between two |
| `Overlay` | one overlay window, its tracks, receipts and lane | one critical section of the host, or a step of the scene between two |
| `OverlayText` | text jobs, layouts and charges, with the mutexes that nest | one critical section, or half of one where a second mutex is taken inside |
| `Tabs` | the tab host of Linux | one event, or one step of the queues before the loop waits |
| `Parts` | the lane, the read-ahead, the PTY worker, the sessions on disk, the text workers, the notifications and the file drops beside one another | |
| `PartsProofs` | the invariants of those seven, and the theorems about `Lane` | |
| `AllParts` | those seven, the automation events and the terminal, one per behaviour | a step of the one that runs |
| `AllPartsProofs` | theorems about `AllParts` | |
| `MC*` | the instances TLC runs; `MCParts`, `MCService`, `MCLeases` and `MCRedrawLive` run several modules that share no state | |

Definitions keep the names of the functions they model; PROJECT.json maps each to its lines. A
definition commented *Mutant* is a plausible bug in the definition below it. It is never part of a
specification: it documents, and lets one check, that a property depends on that line of code.

### Egress

`queue`, `closed`, `overflowed`, `handle` are the fields of the egress; `poisoned` is the mutex's
poison flag, `inflight` the record the worker popped and is writing, `wire` what the peer was sent,
`down` the socket. A record is its admission number. `SendAdmit`, `SendOverflow`, `SendPoisoned` are
the outcomes of `send()`'s critical section, `SendOverflowStop` the `stop_reader()` after it;
`InstallCheck` and `InstallStore` the two critical sections of `set_shutdown()`; `Worker*` the loop
of `run()` and its panic boundary; `Actor*` the end of `actor_loop()` with `join()`'s 250 ms limit.

### Leases

`lease` is the table's entry under one key, with the part of the external `LeaseMachine` the code
consults (`state`, `awaiting`, `live`); `due` says that the deadline in force has passed, so time is
one bit. A session tag and a resume key are the pair of session and resume generation they are
derived from. `Establish*` are the ends of `establish_root_session`, which holds the registry
throughout; `Finish*` are the critical sections of `finish_session`, `suspend_lease` and
`revoke_lease` in their order; `Issuer*`, `Expire*` those of the controller's actor.

### Lane

`slot` is `SessionRuntime.lane`; `installed` the lane whose egress is installed; `grant` the lane
whose binding activated the input grant. `Cleanup*` are the four critical sections of
`LaneCleanup::drop`, `Send*` the three of `send_input()`.

### Scene

Identities are constants with their owner (`Session`, `Context`, `Surface`, `Slot`), so that an
object named by two sessions cannot arise, as in the code, whose keys contain the session. Geometry
is the anchor's line; revision checks appear as the rejections they cause. `fresh` says that the
three revision counters are those of the renderer's last snapshot, which is all that comparing
counters that only grow can tell. `named` and `accepted` are history: the nodes at the last scene
revision, and the mutations answered with OK.

`stage` chooses which of the identities come up and the bounds on the generations, so that one
instance explores several small worlds instead of their product.

### Playback

`track` is the scene's entry, `registered` the output `audio_outputs` has for it, `out` the outputs
by the generation that opened them, `chan` and `dev` where each channel thread and each device
callback is, `actor` where the actor is in its request. A packet is one sample and a sample carries
its generation and the number of timeline resets before it (`line`): both are history, as are
`floor`, the generation of the last answered ADVANCE_CHANNEL, and `proved`, which tells an end learnt
from a drained output from the one a DRAIN without an output declares. `Swap`, `Barrier` and the
`Flush*` steps are `advance_channel()` and `flush()` in the order of their stores; `Push` and `Count`
the two halves of a round of `push_while()`, `DevicePop` and `DevicePlayed` those of `render_audio()`,
so that counters lag behind the ring as they do in the code. `Turn` ends a request with the service
of the pending set, as `actor_loop()` does. `producer` is the script of the other side: its requests,
packets, what its PLAYs ask to buffer, whether its decoder holds a tail back, whether it opens a channel before the advance is
answered and whether its connections and device fail.

### Anchors

`text` is a history variable: the line of the grid each anchor really marks, moved by what the grid
does. `anchors` is moved only by events. `pane` chooses the build, the heights and the
limits: on Windows events are collected in a batch that merges at its tail and is replaced by a clear when it overflows; elsewhere
each event is sent by itself. `departed` is history too: it records that the grid changed in one of
the ways section 5 lists, which no event describes.

### Redraw

Content is a version number for text and one for media; `frame` and `shown` are the versions being
drawn and presented. `direct` chooses the build (macOS and Windows draw from the wake itself).
`sync` and `deadline` are the synchronized update's mode bit and the parser's deadline, which are
separate in the code and can disagree. The event queue is a set: handlers are idempotent and the
order of delivery is left open, which includes every order winit can produce. `story` chooses which optional
events happen together in a behaviour and with how many media changes. `lapsed` is history:
an update ended, or a read was cut short, without the wake that should follow (section 5). A reader
whose child hung up (`"hung"`) serves only its commands and the child's exit.

### Automation

`Ask` is the reader's admission of a request, `inbox` the events it posted; the `Handle*` actions are
the methods. A request is then *held* in one place: an inbox, the window's waiters, writes or
screenshot, its gesture, an encoder thread, or the host's queue (`Places`). `timer` and `tick` are the
window's one automation timer and its expiry on the way. The model's `Loads` are the requests of one
behaviour, so that an instance explores the combinations which interfere. Connections fail at any
step; `ExitWindow`, `Fault`, the child's exit, reset and restart are the ways a window gives up what it
holds. `met`, `misled` and `replaced` are history: a condition that came true, one whose confirmation
another request received, and a screenshot whose place another took.

### EventHub

`replay` and `subscribers` are the fields of the shared hub, `frames` each client's output queue,
`transcript` the output recording with its `spans`. `published`, the kinds of all events by number,
`told`, what each subscriber has read, and a subscriber's `from`, the first event it asked for, are
history; `event_sequence` is the length of the first. A replay gap asks for one notice (`SendGap`).

### Gather and PtyLoop

In `Gather` the child's output is numbered; `gst` is the shared state under its mutex, `worker` and
`parser` where the two threads are, `ready` and `wake` the bytes in the two sockets; `heard` and `cut`
are history. In `PtyLoop` a message is a write of some bytes, a reset, a resize or the shutdown;
`interest` and `registered` are what the poller was last told, `quarantined` the state after a parser
fault, `fed` and `posted` the input the child got and what the window was told; `drain_on_exit` is
chosen at the start and kept.

### Graphics

The commands and deletions are records with the keys the code looks at. An image has a unique id
(`last_uid`) besides the ones the program gives it; `jobs` is the decoder's queue, `handed` what it
holds, `replies` the answers that wait for their turn. What a decoder makes of bytes, clear or opaque
pixels or an error, is a choice. Parsing, decoding and every reset run on the pane's reader thread, so
nothing is parsed or reset while a decode is handed out; resizes and clears of the other thread are.
`ReaderPanics` is the fault after which the pane is quarantined (`faulted`).

### FileDrop

A transfer has an id, a generation, a stream's connection and a shutdown handle; `conn` is where each
connection thread is. `typed` and `ended` are history.

### Sessions

A life is one run of a daemon under one PID; `registry` and `socket` are the directory entries, a
socket for each path, `holder` which life a PID belongs to, `client` where a terminating client is
between reading the entry and its signal. `launched` gives each process its build (the version of
protocol and registry) and its endpoint path, which decide whose record it can validate.
`overlapped` records that two operations on the files were under way at once. A start that fails is
"refused" while another life is there, "barred" by a record it cannot validate, and otherwise "stuck".

### Term

`term` is the whole state of the terminal's two screens; each control is an operator on it and one
action. Coordinates are the code's, the history is its length. A reflow may put the cursor at any
cell it could reach.

### Notifications

`pending`, `tokens` and `dropped` are the parsing side (assembly and token bucket), `inbox` the
worker's queue, `live`, `by_id` and `order` its table, `closing` the tasks a drained table has yet to
tell (in any order, the table being a hash map), `tasks` and `channels` the process behind each
notification and the messages on the way to it.

### Listener

`backlog` is what the kernel holds for `accept()`, `open` the pending handshakes, `active` the
connection budget, `conn[c].at` where a connection's thread is and `cut` whether its socket was shut
down. `kind` is what a peer asks for: nothing, a root session, the activation of a lease or a resume.
A geometry is the generation it was offered under; `told` is what each peer knows from its WELCOME
and the TARGET_CHANGED records since, with `replay` for a WELCOME that repeats an earlier one. `target`
is either profile: a draw announces what is queued, which the terminal can report settled at once
while the desktop needs a second announcement for that.
`registry` is held across steps where the code holds it, so that a drop and a publication meet.

### Overlay and OverlayText

`host` has the fields of the overlay host that matter for one window, `held` being a track's compiled
scene and its submission together. `scene` and `channel` are the shared scene's side, which the host
asks while it holds its own mutex but which changes without it. `told` and `admitted` are history:
the receipts a session was sent and the submissions it made while it had its lane. In `OverlayText`
`overlays` and `contexts[s]` are the two mutexes; the ones that are taken and released by themselves
are guards.

### Tabs

`app` is the host, `drawn` the view that is on the screen and in the hit map, `focus` what the window
system says and what it still has to say. `queued` counts what waits for the end of the turn; which
entries they are is chosen when they are carried out. The room for tabs is a constant.

### The runs with several parts

`MCParts`, `MCService`, `MCLeases` and `MCRedrawLive` put modules that share no state into one run:
`part` says which one a behaviour is about and the others keep one value. Where a module has theorems
the run extends it or, in `Parts`, instantiates it over variables and constants of its own; the others
are instances that are given as many of the variables `v1`, `v2`, ... as they declare. A state is a state of one part, so the size is the sum of the parts' and not their
product. A property is the conjunction its module names, asked of its part. Fairness is each part's
own; that of automation is stated, as in its module, by conditions that come true again and again
(`Handled`, `WindowMoves`, `EncodersEnd`, `HostServed`), asked of behaviours of its part only.

## 3. The runs

Bounds are constants of the cfg files; each is named in its module.

| run | instance | shows |
| --- | --- | --- |
| `service` | egress: 2 posters, capacity 3, 5 records; listener: a door with 1 pending and 2 connections, a target with an activation and its retry over 3 generations, a root beside a resume; overlay: two tracks, or one with two channels; tabs: two panes; a pane's images | `OrderlyCloseFlushes`; `Egress` implements `Outbox` (`OutboxSpec`); `ListenerKept`, `OverlayKept`, `TabsKept`, `ImagesKept` |
| `leases` | 3 connections, generations 0..2, one issue; automation: two clients, ten loads of at most two requests each | `OneServingTransport`, `RecoverableKeyKept`, `CapacityCharged`, `NoOrphanScene`, `RequestsHeld`, `MetWaitsMove`, `ButtonReleased`; `DetachedLeaseEnds`, `RequestsEnd` under fairness |
| `leases_resume` | 2 connections, generations 0..1 | violation: `ServedIsPublished` |
| `scene` | one surface, a node and four stages: two tracks in two slots with two frames; a track under two targets and two channel generations; a track behind an anchor with two channel generations, and with two surface generations | `CacheSound` (the cache is what a rebuild gives, a skipped draw shows nothing else), `NamesResolve` (slots name live tracks, a revision names its nodes), `TargetAgreement`, `PostersAnchored` |
| `anchors` | one anchor and two panes: 1 and 2 rows with a line of history and single events; one row and a batch limit of 2, as on Windows | `AnchorsKept` (anchors follow their text, the alternate screen agrees) |
| `redraw` | both builds, 2 producers, one update, one failed draw; two media changes with occlusion, one with occlusion and faults, none with resets, hang-up and child exit | `ChangesCovered` (text and media), `GatesReopen` |
| `redraw_live` | both builds, one producer, recovery and child exit; egress as in `service` | `ChangesShown`, `ClosingEnds` (closing completes and an abandoned connection is cut) under fairness |
| `playback` | nine producers, up to three generations, a ring of one sample, one reset | `CutSeparates` (a retired channel is not heard, a cut spares what comes after it), `EndedIsSilent`; `AdvanceCompletes`, `WaitersReleased` under fairness |
| `playback_eager` | a producer that opens the next channel early | violation: `AdvanceCompletes` |
| `automation_gesture` | a gesture and a closing window | violation: `GestureIsTicked` |
| `overlay_locks` | one session | violation: `LocksOrdered` |
| `parts` | see below | the four of `Lane`; `NoSilentGap`, `ReadAhead`, `PtyWorker`, `DropsKept`, `SessionsKept`, `TextKept`, `ScreenKept`, `NotificationsKept` |

### Why the bounds are enough to be interesting

- *egress*: a capacity of 3 with 5 records lets the queue fill, drain partly and overflow; two
  posters let one be between its overflow and its `stop_reader()` while the other posts. What is
  proved does not depend on them.
- *leases*: three connections are a loss, the retry or resume after it and one that competes with
  it; two resume generations are the fewest in which "the key of the generation before" and "some
  earlier key" differ. `MaxSessions` is 2, so admission is refused once in the reachable states.
- *lane*: three connections are an old generation being cleaned up, a new one and its retry.
- *scene*: two tracks in two slots make the selected track change with losses and activations; one
  anchor is enough for what nodes, posters and anchors do to each other. No property needs a second
  track, a second target, an anchor and a second surface generation at once, so four stages replace
  their product.
- *listener*: a pending limit of one evicts with the second peer, a connection limit of two refuses
  the third; the connection that wakes the listener is one more of both. Three generations are one
  that is drawn, one that is queued and one that is offered meanwhile. Session and connection limits
  of the code are constants that only appear in comparisons.
- *overlay*: two tracks replace each other's scene, a second channel generation makes the first stale;
  a capacity of one or two receipts overflows. *Tabs*: two
  panes with room for one tab need the overflow buttons; one entry in each queue is enough to be stale.
- *graphics*: two images, two placements, one job and two replies are each limit reached within four
  commands, with a panic at any point of them.
- *playback*: a ring of one sample is full after one packet, which is where the waiting happens; a
  second packet, or the decoder's tail, blocks behind it. One producer also asks PLAY for more than the
  ring holds, which `FullRingDrains` excludes by name. Each producer combines the requests that
  interfere: replacing a paused, a twice replaced, a playing or a waited-for channel; seeking with
  more than the ring holds and with a drain owed; failing with a drain and a wait owed; destroying;
  starting synchronized. Two pending slots, one of them for waits, make both limits bite.
- *anchors*: one line of history on two rows is the smallest grid in which a line crosses from the
  screen to the history, is dropped off its end, and comes back in a resize; a merge of two scrolls
  exercises every case of `queue_grid_scroll()`.
- *automation*: the loads pair what shares a timer or a table: two waits, a write with a wait,
  a gesture with a fault or a lost client in the middle, a close behind a screenshot, and refusals; two
  connections are one that fails and one that must not notice. Four screenshots beside a fault include
  the one that takes another's place while an encoder runs; a resize beside the other client's wait
  of the same number includes the confirmation that goes astray. `RequestsHeld`, `RequestsEnd` and
  `MetWaitsMove` except just these, and fail without the exception.
- *parts*: three lane connections, two generations and nonces, as above. *EventHub*: a queue of three
  frames and a subscriber limit of two events overflow both ways, a replay ring of two forgets.
  *Gather*: four bytes through two buffers of two wrap around, with one reset. *PtyLoop*: six messages
  with a reset and a resize between inputs, written one byte or more at a time.
  *FileDrop*: two connections, one drop and two generations let a late loss meet the next transfer.
  *Sessions*: two lives share two PIDs with a stranger; the second is of the same build and path, of
  another build, or of another path. *OverlayText*: one retained layout for each
  session meets the session's limit; with two sessions the host's own limit is never the first to be
  met, and the proof, which is for any number of both, covers the rest. *Term*: three sizes down to one line, four
  controls. *Notifications*: two ids, a worker queue of two and a task queue of one, four requests.
- *redraw*: one text change per kind of end (the fault screen adds another) and two media changes,
  so that one can hide behind the coalesced wake of the other.

### Deadlock

`CHECK_DEADLOCK FALSE` everywhere: a closed connection, an ended session, a spent bound and a quiet
terminal are proper final states. That nobody waits forever is stated as liveness instead.

### Fairness

- *Egress*: the worker, the installer, the join and a poster past its overflow keep running. A write
  blocks at most for the socket's two second write timeout (`transport.rs`), so the worker's step is
  weakly fair; posting, closing and panicking are not required.
- *Leases*: the presenter's own threads run: the controller's actor wakes at the next lease deadline
  (`lease.rs`, `next_deadline`), a teardown runs to its end, a HELLO is answered, clocks advance.
  Peers owe nothing.
- *Playback*: the actor finishes its request and, while something is pending, wakes at the observation
  timeout (`actor.rs` `TICK`); a device calls back for as long as its stream lives; a channel thread
  sleeps at most five milliseconds on a full ring; deadlines pass. Locks are not assumed fair: a
  waiting thread gets a lock only if it stays free. Producers and failures owe nothing.
- *Automation*: the event loop handles its queue, the scheduler's timers fire, the PTY worker and the
  encoder finish, a connection that is alive flushes. Clients and children owe nothing. The loss of a
  window's timer is not made good by fairness: that is what `automation_gesture` shows.
- *Redraw*: the threads run, the event loop empties its queue, deadlines pass. Scheduler timers and
  native redraws are fair only where `direct` is FALSE: on macOS and Windows a saturated queue
  starves both, which is what the latency worker is there for (`window_context.rs`).

## 4. The proofs

All proofs hold for every value of the constants that the named assumption of the module allows.
TLC evaluates `EgressAssumption`, `LaneAssumption`, `LeasesAssumption`, `SceneAssumption`,
`AnchorsAssumption`, `PlaybackAssumption` and `RedrawAssumption` in the runs `service`, `parts`,
`leases`, `scene`, `anchors`, `playback` and `redraw`, which check the properties the theorems state;
`PartsAssumption`, in `parts`, says that a buffer exists and holds a byte, that a daemon is neither a
client, nor nobody, nor a stranger's process, and has one of the socket paths, that the limits of the text workers are naturals, and
that the table of notifications holds one at least; the PTY worker needs no assumption, and the
file drops only that the bound on their number is one. `AllPartsAssumption`, in the same run, says
that a terminal has at least one line and two columns (`MIN_SCREEN_LINES` and `MIN_COLUMNS`, which
`SizeInfo::new` enforces), that a scrollback limit is a natural, and that the parameter of a control
is at least one, as the parser makes it.
Each component has an inductive invariant (`IInv`; in `PartsProofs` `LaneInv`, `GatherInv`,
`PtyInv`, `SessionInv`, `TextInv`, `NotesInv` and `DropInv`; in `AllPartsProofs` `TermInv`), a lemma per action or group of actions that preserves it, a theorem that
it is one (`Invariance`), and the theorems that follow from it. TLC checked each of them on its run's
instance before it was proved.

A run of several parts has theorems about the run where its module is small enough to be proved
about. `AllPartsProofs` has one for each part that `PartsProofs` treats: while that part runs its
invariant holds, and while another one runs the claim is empty; the other parts are never expanded.
It has the same for the terminal, one of the parts that `AllParts` adds, whose lemmas it holds too.

| module | theorems | the property of a run it states |
| --- | --- | --- |
| `EgressProofs` | `FlushCorrect`, `Refinement`, `TypeCorrect` | `OrderlyCloseFlushes`, `OutboxSpec` |
| `PartsProofs` | `OneTransport`, `LiveWhileAttached`, `InstalledHasOwner`, `GrantNeedsLane`, `LaneTypes` | the four of `Lane` |
| `AllPartsProofs` | `PartsHaveTheLane`; `ReadsAhead`, `QueueIsBounded`; `WorkerIsOrderly`; `SessionsAreKept`; `TextIsKept`; `NotificationsAreKept`; `DropsAreKept`; `TerminalIsKept` | `ReadAhead`; `PtyWorker`; `SessionsKept`; `TextKept`; `NotificationsKept`; `DropsKept`; `ScreenKept` |
| `LeasesProofs` | `CapacityCorrect`, `ScenesReclaimed`, `TypeCorrect`; `OneTransport`, `KeyRecoverable` | `CapacityCharged`, `NoOrphanScene`; `OneServingTransport`, `RecoverableKeyKept` |
| `SceneProofs` | `TargetsAgree`, `NamesStand`, `PostersStand`, `CacheIsSound` | `TargetAgreement`, `NamesResolve`, `PostersAnchored`, `CacheSound` |
| `AnchorsProofs` | `AnchorsFollowText`, `Invariance` | `AnchorsKept` |
| `PlaybackProofs` | `CutsSeparate`, `EndsAreSilent` | `CutSeparates`, `EndedIsSilent` |
| `RedrawProofs` | `ChangesAreCovered`, `GatesAlwaysReopen`, `TypeCorrect` | `ChangesCovered`, `GatesReopen` |

**`EgressProofs`**. `OrderlyCloseFlushes` speaks of the wire and of the number of admissions;
nothing in a single state connects the two. `IInv` adds that the records on the wire, in flight and
queued are consecutive admission numbers (`Consecutive`), that none is missing unless a fault emptied
the queue (`Accounted`), and what the places of the worker and of the closing threads imply
(`WorkerPlace`, `CloserPlace`): who can have cut the socket with nothing abandoned is only the actor
after its join, and then the worker is done with an empty queue. The refinement
(`Spec => OutboxSpec`) uses the same facts: the record written next is the wire's length plus one.

**The lane** (`PartsProofs`). `OneTransportPerGeneration` and `AttachedIsLive` speak of attached lanes, but a lane
between its loss and its `confirm_lost()` is no longer attached and can still mark the slot. The
strengthening is that a lane *holds* its generation until that critical section: the holder of the
slot's generation is not marked lost (`HolderIsLive`), there is one holder (`OneHolder`), and the
slot's generation is the newest (`Newest`).

**`LeasesProofs`**. The first three hold for any number of issues of the same key. Every action keeps
the lease, takes it out of the table, finishes a revocation or gives the lease its child; four lemmas
say what that does to the accounts. `IInv` adds where revocations are in progress (`ReleasePlace`),
that a lease has a child exactly from its activation on (`ChildKnown`), and that issues bound sessions
and charges (`Counted`). The last two are about the transports of one key. When a key is issued again
they fail (section 5), so the theorems say `issues <= 1 => ...`, for any number of connections and
resume generations. A connection *holds* the lease from its admission until it confirmed its loss
(`Holder`); `Once` says that there is one (`OneHolder`), that the lease is then attached and of the
holder's generation (`HolderAttached`), and which generation the stored key is of
(`KeyOfGeneration`).

**`SceneProofs`**. For any finite sets of nodes, surfaces, tracks, anchors and targets, and
transactions of any length. The properties rest on who owns what, which no property of the run says:
a track's surface lives as long as it does and in a live session (`Media`), a node and a queued
mutation name objects of their own session (`NodesOwned`, `PendingOwned`), a poster's track is one of
a session that has ended (`PostersKept`), an anchor is in the scene only once (`AnchorsSeen`). That
the cache is what a rebuild would give (`CacheFresh`) then comes down to this: a method that leaves
the cache valid changes nothing an item is made of, for which a lemma (`RenderFrame`) names what it is made
of. `Candidate(c)`, the transaction applied mutation by mutation, is a recursive function over the
numbers of mutations; that it is defined and keeps ownership is shown by an induction of our own
(`Induction`), from a *set* of numbers and the well-foundedness of `<`, since the library's theorems
take a predicate as parameter.

**`AnchorsProofs`**. For any set of anchors and of panes: any heights up to a largest one, histories,
limits and merge bound, batched (Windows) or not. `AnchorsKept` compares scene and grid when no event
is left; in between, the scene is behind by everything that was merged, queued or taken. `IInv` says
what is on its way makes of it (`Told`): the events turn the scene's screen into the grid's, and the
place of each anchor into the line it marks. Both are a trace with one state per event, and the trace
is part of the invariant, since an event that is added extends it, one that is handled is its first
step, and the two scrolls that `queue_grid_scroll()` merges have to be seen to shift a line as one
after the other would. A merged scroll keeps only the later length of the history; that is right
because between the two the history grows by no more than the second scroll pushes into it, which
`Histories` says of the scroll sent last and the one held back. A batch that overflows is replaced by a clear (`push_vivid_event()`): an anchor that
is left is still where its text is, but text may be left whose anchor has gone, and the screen is
lost with a swap. Such steps, and those no event describes (section 5), are graded in `departed`:
what is kept goes out of step before the lines, and the lines before the screen (`Graded`), so that
what each step leaves true is still shown. TLC checked `IInv` on the panes of the run and on larger
ones first.

**`PlaybackProofs`**. For any number of channel generations, ring size, set of producers (the eager
ones too) and limits of the pending set. `CutSeparates` speaks only of the sample a callback has just
taken or skipped, and of `EndedIsSilent` only the moment after it matters. `IInv` keeps the accounts
of each output instead: what was pushed is in the ring, with the callback or played, and is counted
but for the one push under way, which nobody else can overtake while it holds the output (`Counted`);
the watermark of a reset lies between what was queued before it and what comes after (`Lined`), and
what a retired generation left in the ring lies before it (`Floored`), which is what the callback
carries into the sample it renders or drops (`InHand`). The watermark is the
count of what was queued, so a push that is not counted yet is after it and never dropped; an
advance, which must not leave such a push to be heard, waits for the output to be free first. For the end, a decoder that is done is that of the channel that finished,
unless an advance has still to reset it, and an output that stayed behind when its channel advanced
has a decoder that is not done and never will be (`Ends`, `UpToDate`), so a waiter registered for it
cannot learn an end from it. `Known` and `Placed` say who can know an output and where the channel
threads and the actor are. The service of the pending set is a recursive function over the entries; what it keeps is shown by
the same kind of set-based induction as in `SceneProofs`.

**`RedrawProofs`**. For any set of producers and any bounds, and both builds. `GatesReopen` is
inductive; `ChangesCovered` is not: a draw that meets a synchronized update clears the window's dirt
and leaves the wake to the reader. `IInv` adds that an update has an owner that will end it
or has lapsed with the child (`UpdateOwned`, `FaultReported`), that a delayed draw is with the latency worker or in the queue but
never both (`OneDelay`), and that snapshots do not go back (`Versions`).

**The read-ahead** (`PartsProofs`, `AllPartsProofs`). For any number and size of buffers, any output
and any number of resets. `ReadAhead` speaks of the bytes between the parser and the PTY as one
sequence; `GatherInv` follows its three parts (`Flow`: the batch half read, the queue as a chain of
ranges, the worker's buffer), where the two threads are (`GatherPlaces`), and that each buffer is in
one place and each batch has its readiness byte (`Slotted`).

**The PTY worker**. For any messages in any order, any output of the child and either setting of
`drain_on_exit`. `PtyWorker` says that the input the child got is what was sent, whole and in order,
and that it was reported when it was written; that nothing waits without something to wake it; and
that the worker's end comes last. Everything an input goes through is one line: what was fed, the
message being written, the list, the channel (`LineInOrder`, `FedBefore`), and each step moves its
head along. A message in the channel has a wake-up on its way (`Woken`), since the sender notifies
after it sends and the worker empties the channel after it was woken. A fault leaves a worker that
handles no further event of its turn (`FaultEnds`), which is why what it drops is not written later.

**The sessions on disk**. For any number of lives, clients, PIDs, builds and endpoint paths. `SessionsKept` says three things:
the process a client signals is the daemon it read from the registry; a running daemon's files lead to
it; and a name is not locked by leftovers, but for a record the next start cannot validate ("barred",
which may happen at any time); the last two as long as no two processes were starting,
ending or reaping at once. Two invariants carry them. `Always` holds however processes overlap: a PID
names the one process that has it (`Holders`), what was read from the registry is a life that wrote it
(`Records`), a pinned descriptor is that life or the life is gone, and what a process removes belongs
to somebody who is over or to itself (`Expected`). `Orderly` holds while nothing has overlapped: one
process is busy (`Alone`), and how far it is tells what the files hold (`FilesOf`). The step lemma is
the same for all processes: the one that moves keeps its own part, and nobody else was busy.

**The text workers**. For any limits and any number of sessions. The limits are tested when a batch is
admitted and the layouts are installed much later, after the host's mutex was released, so
`RetainedCharged` is not inductive. `RoomKept` adds that the room a batch was admitted for is still
there: a session has one job at a time (`OneJob`), only its own job adds layouts, and what removes
them leaves more room. That needs the sizes of unions of layouts, for any number of texts
(`BatchBounds`), and that the layouts charged are exactly the ones that are live (`RetainedIsLive`).

**The notifications**. For any limit of the table, sizes of the queues, number of identifiers and of
requests. `NotificationsKept` bounds what waits for its last chunk and what is on the desktop, says
that an identifier names a task that carries it, and that a task the worker forgot was told to close.
The bound of the table needs that an eviction finds a task: what is on the table is still in `order`
(`Evicts`). The last part needs the order of the worker's steps: a token is new, its task starts only
once it is on the table (`NewTokens`), and a Done in the queue is about a task that is over
(`DoneIsOver`), so taking it off the table forgets nothing that listens. A message lost on a full
queue breaks none of it.

**The file drops**. For any number of connections, drops and generations and any limits. `DropsKept`
says that an active transfer has one connection, and that a connection which was retired has been
told to stop, however the two met. A transfer that is not over is active just while somebody serves
it (`JustServed`), and a generation is served once (`OneServes`): a connection opens only what is
idle, and the generation that `advance` opens is one nobody has (`Reached`). Whoever streams without
having been told to stop has its own handle installed, and its source is either current or marked for
the stop that is under way (`Reachable`, `Marked`); clearing and installing leave the handle of another
generation alone. A path is in what was typed or what waits only if its drop is over, and that is for
good (`PastedIsOver`), so a second result types nothing. Operations that expire first are split: what
expiring leaves (`Ages`), then what they do (`Kept`).

**The terminal**. For any sizes, scrollback limits, tab width and parameters, with every text the
reflow can find. `TermInv` is `Sound(term)`: the parts of the terminal fit each other (`Fits`: the
cursors of both grids are on the screen, a history is within its limit, the region and the tab stops
belong to this size), and `Covered`: what was written since the last frame is damaged, or on the line
the last frame's cursor or this cursor is on. There is one lemma per handler, `Sound(t)` makes
`Sound(h(t))`, and two ways to move the cursor: along its line (`Stays`), which `Covered` allows as it
is, and anywhere after `damage_cursor` (`Goes`), which makes the damage independent of the cursor
(`Settled`). That is the whole argument for the damage: a handler that wrote a line and then left it
without calling `damage_cursor` first would have neither lemma. Resizing keeps the bounds since lines
that grow come from the history (`GrowsLines` needs that a history is a natural, hence its limit) and
lines that shrink push the cursor's line up first (`ShrinksLines`); reflow puts the cursor anywhere on
the new screen. The view's offset is in no invariant: see `ViewInHistory` in section 5.

Only model-checked: liveness (`ClosingEnds`, `DetachedLeaseEnds`, `ChangesShown`, `RequestsEnd`, and
those of `Playback`), since TLAPS cannot reason about fairness and ENABLED; and everything about the
modules without proofs. The type invariants of the modules with proofs are theorems
(`TypeCorrect`, or the property itself where its first conjunct is `TypeOK`); those of the others are
a conjunct of the first property of each module that a run checks.

## 5. Where the code departs from what it says

Four runs find a statement of the repository violated by the code (`findings` in PROJECT.json):

1. `leases_resume`: a lost session's teardown suspends its lease in one critical section and retires
   "its" session in a later one. A resume in between publishes a new runtime under the same session
   ID, which the teardown then removes (`vivid/mod.rs:2055`).
2. `playback_eager`: ADVANCE_CHANNEL lets the new generation in before it holds the output's lock. A
   channel thread of that generation can take the lock first and fall asleep under it on the full
   ring of the paused output; nothing retires it, the actor that could serve a PLAY waits for the
   lock, and the session hangs (`vivid/audio.rs:353`, `vivid/mod.rs:3255`). The run `playback` shows
   that a producer which waits for the answer is safe.
3. `automation_gesture`: a window that closes during a paced gesture unschedules the tick that alone
   could end the gesture; its request is never answered (`event.rs:4957`).
4. `overlay_locks`: the worker of a text batch takes its session's contexts and then the overlay host,
   and says that this is the order everywhere; `overlay::dispatch` takes the host and then asks for
   the context's authority (`vivid/overlay_text.rs:99`, `vivid/overlay.rs:1109`). An actor and a
   worker of one session can wait for each other, and with them everyone who needs the host,
   the window's thread included. In the run `service` the two then stay where they are; what it
   checks is not about them.

More statements do not hold of the models, and are recorded here without a run of their own. The
property that would say so excepts the one case, which occurs in its run:

- a refused BEGIN_TXN has already replaced the open transaction by an empty one
  (`vivid/scene.rs:1793`; history variable `accepted` of `Scene`);
- a read that shows nothing itself can end an overdue synchronized update without a wake
  (`terminal/event_loop.rs:288`; history variable `lapsed` of `Redraw`);
- a wait confirmed after a resize is looked up again by its request id alone, so another client's
  request of that number can receive the confirmation, or the error, in its stead (`event.rs:3156`;
  history field `misled` of `Automation`);
- "the AutomationHub still reports the exact dropped `event_sequence` range" (`polling/ipc.rs:66`):
  of a replay gap whose notice does not fit the connection's queue only the last number is kept, and
  the rest is not reported (`automation.rs:655`; `SendGap` of `EventHub`);
- "a full ring is already safe and must be allowed to drain" (`vivid/audio.rs:422`):
  `audio_prebuffer_ready()` asks a full ring for the PLAY's minimum as well (`vivid/audio.rs:940`), and
  PLAY bounds that minimum by the latency it allows and not by the ring (`vivid/mod.rs:3695`), so that
  the device and the channel behind the ring can wait for each other (`Jammed` of `Playback`);
- "Listing also reaps rendezvous files whose owning process is gone" (`docs/headless.md:106`): a record
  of another protocol version, or one whose name a start gives another `--socket`, is an error for
  that start (`session.rs:351`). A listing skips the former (`session.rs:455`, `session.rs:659`), so that
  after a crash the name is barred to the new build; the latter it reaps (`barred` of `Sessions`);
- the view offset can exceed the history when a region that does not start at the top scrolls
  (`terminal/grid/mod.rs:318`; `ViewInHistory` of `Term`).

The passing runs allow for further behaviour of the code. No line of the repository contradicts it
outright, but a maintainer should know of it; each is in the model, and the property that would not
hold says what it excludes:

- *listener*: an exact retry repeats the WELCOME of the first attempt, with the target of that time
  (`vivid/mod.rs:655` says that every later one reports the accepted geometry). A resumed session
  whose scene was retained is not registered again, so its WELCOME may name a generation the scene
  reaches with the next draw (`vivid/mod.rs:799`): `SceneReached` excludes it. The desktop's
  `take_change` drops a settled generation when an unsettled change is queued with it, so that
  settling before a draw is not announced (`vivid/target.rs:508`). `disconnect_clients` misses a
  session between its publication and the installation of its handle, and connections in their
  handshake survive a dropped service (`vivid/mod.rs:638`).
- *overlay*: semantics and clipboard records are negotiated (`vivid/mod.rs:1388`, `vivid/mod.rs:2258`)
  but `dispatch_control` never routes them (`vivid/mod.rs:2688`). A window whose active track was
  destroyed draws nothing while `displayed` keeps taking pointer hits. A track destroyed and created
  again between `lose_track` and `track_lost` loses its new scene (`vivid/mod.rs:4453`); a frame
  accepted for a primed track that is not active drops the active track's scene that was not shown yet.
- *overlay text*: a single measurement checks its authority, unlocks and posts later, so that its
  answer can follow a revocation it should not (`vivid/overlay_text.rs:257`).
- *tabs*: a click on a strip drawn before a change, or a command of an index read before it, acts on
  the tab that is there now. The `‹ ›` buttons cannot scroll past the active tab (`shell/tabs.rs:118`).
  A hidden pane that wants a redraw keeps the chrome drawing every turn (`event.rs:4209`). A frame of
  the chrome that is skipped without an error is neither shown nor retried (`shell/tabbed.rs:845`);
  commands from the accessibility thread do not wake the loop; the last pane's exit ends the loop even
  when another tab was asked for (`event.rs:4982`).
- *egress*: `set_shutdown()` reads the closed flag and stores the handle in two critical sections; an
  overflow in between finds no handle to stop, and the stored one is not stopped
  (`vivid/actor.rs:112`). `AbandonedIsCut` excludes overflows and refused records.
- *leases*: after a revocation a key can be issued again; the first child's late teardown then acts
  on the second lease (`vivid/mod.rs:2037`; `MaxIssues` above 1). Revocation retires a child and cuts
  no transport (`vivid/mod.rs:2007`).
- *lane*: `LaneCleanup` decides that it owns the slot before it revokes, so the grant of a newer
  generation can be revoked by an older lane's cleanup (`vivid/mod.rs:400`); an input event can be
  queued before the loss and noted after the retry was admitted (`vivid/mod.rs:1104`); a binding is
  gathered and applied in two sections, hence the condition of `GrantHasLane` (`vivid/mod.rs:5722`).
- *scene*: nodes that go with their anchor do not advance the scene revision (`remove_anchors`),
  which `RevisionNamesNodes` states as the one exception; `add_anchor` does not look at the session
  (`vivid/scene.rs:719`), so an anchor can outlive it.
- *anchors*: a scroll of the alternate screen moves the primary screen's anchors
  (`vivid/scene.rs:773`); RIS erases both screens and sends nothing (`terminal/term/mod.rs:3026`);
  erasing the history sends nothing off Windows (`terminal/term/mod.rs:2932`); a resize carries
  anchors that events in flight have not moved yet (`vivid/mod.rs:823`); an overflowing batch loses
  a swap (`event.rs:7250`). `departed` records each of them.
- *playback*: a DRAIN that comes before the channel thread has registered its output marks the track
  ended at once (`vivid/mod.rs:3860`); `EndedIsSilent` is about ends learnt from an output (`proved`).
  A FLUSH after CHANNEL_EOS clears what a pending DRAIN waits for and leaves it pending for good
  (`vivid/audio.rs:466`), so `PendingEnds` is about waits and about drains of stopped or failed
  outputs. A synchronized start can set `enabled` on an output that
  DESTROY_TRACK has just stopped (`vivid/mod.rs:5543`), and a channel thread can register its output
  after DESTROY_TRACK or a newer generation's (`vivid/mod.rs:4731`). A cancel that names an answered
  request stays in the set and cancels a later request of that ID (`vivid/actor.rs:387`).
- *automation*: a fault clears `screenshot_busy` while an encoder still runs
  (`window_context.rs:3429`); the end of that encoder then clears it for the next screenshot, which is
  still pending (`window_context.rs:3398`), and a third one takes its place: the second is never
  answered, keeps its request number and a place in flight for as long as its connection lives.
  `InFlightHeld` and `RequestsEnd` except it (`replaced`), and `InFlightHeld` says that nothing but a
  fault leads there. `restart_terminal_client` resets the counter of finished commands, so a
  wait for a later one waits longer. What a full transcript evicts is not published
  (`event.rs:4744`).
- *graphics*: a panic while images are decoded loses what the reader had taken; the images without
  pixels stay, their replies hold back those behind them, and the quarantined pane ignores the reset
  that would clear both (`terminal/event_loop.rs:495`, `terminal/event_loop.rs:167`).
  `NothingWaitsInVain` speaks of the time before.
- *pty*: a worker that ends leaves a channel into which writes still go; they can only time out. After
  a parser fault a second `ClientFault` may be sent for the same worker (`terminal/event_loop.rs:581`).
  A reset of the read-ahead clears the readiness byte even when the end of the output is behind it
  (`tty/gather.rs`).
- *file drop*: a report of loss names its transfer and generation, so a late one is harmless;
  `remove_binding` and `remove_surface` keep the pastes that wait, `remove_contexts` drops them.
- *sessions*: between reading an entry and unlinking it another daemon can publish its own
  (`session.rs:384`); a headed instance unlinks its files twice at exit (`main.rs:356`). `overlapped`
  records it, and `SessionsKept` speaks of what does not overlap.
- *notifications*: the end of a task whose notification was replaced removes the id of its successor,
  which can then not be closed by name (`osc_notification.rs:1125`); a close request is lost when the
  worker's queue is full.
- *redraw*: a read whose second iteration fails returns the error before the wake for what its first
  one parsed (`terminal/event_loop.rs:243`). A failure that is reported redraws the window with its
  message; the `EIO` of a hang-up on Linux is ignored, and the dead PTY, always ready, lets no poll
  time out, so the text, and an update that was open, wait for the child's exit: `lapsed` holds
  until then in `ChangesCovered`, and `ChangesShown` applies again from the exit on. With `--hold`, a child that exits inside a synchronized update leaves its mode set with
  no reader to end it (`terminal/event_loop.rs:484`). A program that begins a new update before
  every draw of the last one keeps the window from drawing for as long as it goes on.

## 6. What is not modelled

Rendering, fonts, text layout and shaping, GPU calls; codecs, devices, HID and clocks; configuration,
command line and migration; key bindings and the command palette; accessibility and platform code;
logging, screenshots, strings and counters; process set-up of the headless, daemon and ssh hosts.
They hold no protocol state, or are sequential code whose unit tests reach it. Cryptography is
abstracted to who holds which key. The crates `vivid_protocol` (lease machine, input grant, channel
state, record format) and `vvte` (escape sequence parser) are outside the repository and modelled
from their use; their definitions are marked external.

Of the listener: the cryptography of the handshake, profiles, record framing, `SCM_RIGHTS`; of the
targets: validation, extents and descriptors. Of the overlays: keyboard, pointer, clipboard and
semantics, viewport and environment updates, retained images, editors, the generation bump of
UPDATE_SURFACE, `remove_contexts`, and a second lane after a loss; a `mark_output_ready` that fails
because the track went is folded into the track's going. Of overlay text: shaping, and the reply
limit, which is one of the reasons why `InstallFails`. Of the tabs: pointer capture and routing,
titles, window controls, and the native hosts of macOS and Windows.

Of `Playback`'s components: video pacing and live tracks, the media clock (timeline origin, leading
silence, gain), exact replays of CHANNEL_OPEN and the window between its checks and
`accept_channel()`, flow grants, a channel thread that panics or fails before its loop
(`TrackAttachmentCleanup::drop`), the teardown of a whole session.

Of the terminal: the contents of cells, selection, search, titles, colours and keyboard modes
(`Term`); the marker scanner and the parser of the graphics and notification sequences, whose
results are choices. Of automation: the JSON of each method and the command-line client. Of the
sessions: the signals of macOS and Windows and the mesh watcher.

Most of the repository's lines are drawing, input translation, parsing, platform bindings and tests;
the models cover the state machines between them.

## 7. Plan

Proofs, in order of importance:

1. For `EventHub` `NoSilentGap`; for `Graphics` `ImagesKept`.
2. For `Listener` `BudgetsHold`; for `Tabs` `OneShown`.

Modules: `Video` (pacing against the audio clock, synchronized starts of both, CHANNEL_OPEN replays
and `TrackAttachmentCleanup`), `GridStorage` (the row ring against a plain sequence; a refinement to
prove), `Selection`, `Prompts`.

Runs stay few: a new question joins a run whose parts are as small, or replaces one whose question a
theorem covers.
