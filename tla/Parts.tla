-------------------------------- MODULE Parts --------------------------------
(***************************************************************************)
(* Seven parts that share no state: the interactive lane, whose module this *)
(* one extends, the read-ahead of a PTY, the PTY worker, the sessions on    *)
(* disk, the text workers of overlays, the desktop's notifications and file *)
(* drops.  PartsProofs proves about them; AllParts adds the other parts of  *)
(* the run.                                                                 *)
(***************************************************************************)
EXTENDS Lane

CONSTANTS
  Buffers, BufferSize, MaxOutput, MaxResets,  \* of Gather
  Sends, MaxParsed,                           \* of PtyLoop
  Lives, Clients, Pids, Paths, Launches, Other, NoLife,  \* of Sessions
  Producers, MAX_OWNERS, MAX_RETAINED_LAYOUTS, MaxTexts, MaxLayout,  \* of OverlayText
  Ids, NoId, MAX_PENDING, MAX_ASSEMBLED, WORKER_QUEUE, TASK_QUEUE, RATE_BURST, MaxRequests,
                                              \* of Notifications
  Conns, MaxPending, MaxActive, MaxPastes, MaxEpoch, MaxDrops, MaxGeneration  \* of FileDrop

VARIABLES
  child, taken, gst, worker, parser, ready, wake, heard, cut,                \* of Gather
  drain_on_exit, sent, wakeups, channel, write_list, writing, interest,      \* of
  registered, quarantined, turn, tty, fed, posted,                           \* PtyLoop
  registry, socket, holder, daemon, client, rm, launched, signalled, overlapped,  \* of Sessions
  overlays, contexts, granted, actor, text_worker, text_window, text_lane,   \* of
  text_jobs, layouts, scenes, layout_charges, next_layout,                   \* OverlayText
  enabled, pending, tokens, dropped, inbox, live, by_id, order, next_token,  \* of
  closing, spawning, working, tasks, channels, requests,                     \* Notifications
  bindings, binding_epochs, offers, transfers, next_drop_id, automation,     \* of
  cancellations, pending_pastes, typed, sources, stopping, conn,             \* FileDrop
  session_over

(* SLOTS and CAPACITY are positive constants of the code. *)
GatherAssumption == Buffers \in Nat \ {0} /\ BufferSize \in Nat \ {0}

(* No life is the absence of one or another program's process, and a daemon is no client; *)
(* each daemon has a socket path.                                                         *)
SessionsAssumption ==
  /\ NoLife \notin Lives /\ Other \notin Lives /\ Lives \cap Clients = {}
  /\ \A o \in Launches : \A l \in Lives : o[l].path \in Paths

(* Limits of the host and of a batch. *)
TextAssumption ==
  /\ MAX_OWNERS \in Nat /\ MAX_RETAINED_LAYOUTS \in Nat
  /\ MaxTexts \in Nat /\ MaxLayout \in Nat

(* The table holds one notification at least; MaxRequests is a bound.        *)
NotesAssumption == MAX_PENDING \in Nat \ {0} /\ MaxRequests \in Nat

(* A bound.                                                                  *)
DropAssumption == MaxDrops \in Nat

ASSUME PartsAssumption ==
  /\ GatherAssumption /\ SessionsAssumption /\ TextAssumption /\ NotesAssumption
  /\ DropAssumption

Ahead == INSTANCE Gather WITH Slots <- Buffers

Pty == INSTANCE PtyLoop

Disk == INSTANCE Sessions

Text == INSTANCE OverlayText WITH
  Sessions <- Producers, worker <- text_worker, window <- text_window, lane <- text_lane

Notes == INSTANCE Notifications

Drops == INSTANCE FileDrop WITH ended <- session_over

-----------------------------------------------------------------------------
(* The value of the variables of a part that is not the one that runs.       *)
AheadOff ==
  /\ child = 0 /\ taken = 0 /\ gst = 0 /\ worker = 0 /\ parser = 0
  /\ ready = 0 /\ wake = 0 /\ heard = 0 /\ cut = 0
PtyOff ==
  /\ drain_on_exit = 0 /\ sent = 0 /\ wakeups = 0 /\ channel = 0 /\ write_list = 0
  /\ writing = 0 /\ interest = 0 /\ registered = 0 /\ quarantined = 0 /\ turn = 0
  /\ tty = 0 /\ fed = 0 /\ posted = 0
DiskOff ==
  /\ registry = 0 /\ socket = 0 /\ holder = 0 /\ daemon = 0
  /\ client = 0 /\ rm = 0 /\ launched = 0 /\ signalled = 0 /\ overlapped = 0
TextOff ==
  /\ overlays = 0 /\ contexts = 0 /\ granted = 0 /\ actor = 0 /\ text_worker = 0
  /\ text_window = 0 /\ text_lane = 0 /\ text_jobs = 0 /\ layouts = 0 /\ scenes = 0
  /\ layout_charges = 0 /\ next_layout = 0
NotesOff ==
  /\ enabled = 0 /\ pending = 0 /\ tokens = 0 /\ dropped = 0 /\ inbox = 0 /\ live = 0
  /\ by_id = 0 /\ order = 0 /\ next_token = 0 /\ closing = 0 /\ spawning = 0 /\ working = 0
  /\ tasks = 0 /\ channels = 0 /\ requests = 0
DropOff ==
  /\ bindings = 0 /\ binding_epochs = 0 /\ offers = 0 /\ transfers = 0 /\ next_drop_id = 0
  /\ automation = 0 /\ cancellations = 0 /\ pending_pastes = 0 /\ typed = 0 /\ sources = 0
  /\ stopping = 0 /\ conn = 0 /\ session_over = 0
aheadVars == <<child, taken, gst, worker, parser, ready, wake, heard, cut>>
ptyVars ==
  <<drain_on_exit, sent, wakeups, channel, write_list, writing, interest, registered,
    quarantined, turn, tty, fed, posted>>
textVars ==
  <<overlays, contexts, granted, actor, text_worker, text_window, text_lane,
    text_jobs, layouts, scenes, layout_charges, next_layout>>
diskVars == <<registry, socket, holder, daemon, client, rm, launched, signalled, overlapped>>
notesVars ==
  <<enabled, pending, tokens, dropped, inbox, live, by_id, order, next_token,
    closing, spawning, working, tasks, channels, requests>>
dropVars ==
  <<bindings, binding_epochs, offers, transfers, next_drop_id, automation, cancellations,
    pending_pastes, typed, sources, stopping, conn, session_over>>
ownVars == <<aheadVars, ptyVars, diskVars, textVars, notesVars, dropVars>>
=============================================================================
