------------------------------ MODULE MCService ------------------------------
(***************************************************************************)
(* The Vivid service towards producers and the window, and the shell around  *)
(* it, in one run: a connection's egress, whose module this one extends, the *)
(* listener with the targets it announces, overlay windows, the tabs and the *)
(* images of a pane.                                                         *)
(* They share no state: part says which one a behaviour is about, the        *)
(* others never start.  The instances share the variables v1, v2, ...: each  *)
(* takes as many as it has, in the order it declares them.                   *)
(***************************************************************************)
EXTENDS Egress, TLC

CONSTANTS
  trackA, trackB, noTrack  \* tracks of an overlay window, and none

VARIABLES
  part,
  v1, v2, v3, v4, v5, v6, v7, v8, v9, v10, v11, v12, v13, v14, v15

(* Who comes to the listener: w is the connection of wake_listener.  At the    *)
(* door, silent peers against the deadline and the limits; for the targets,   *)
(* an activation that is retried, and a producer that resumes beside a root.  *)
DoorKinds == {("w" :> "silent") @@ ("s" :> "silent") @@ ("r" :> "root") @@ ("t" :> "root")}
TargetKinds == {("w" :> "silent") @@ ("a" :> "activation") @@ ("b" :> "activation")}
ResumingKinds == {("w" :> "silent") @@ ("a" :> "root") @@ ("b" :> "resume")}

Door == INSTANCE Listener WITH
  Conns <- {"w", "s", "r", "t"}, Waker <- "w", NoConn <- "none", Kinds <- DoorKinds,
  Profiles <- {"terminal"}, MAX_PENDING_CONNECTIONS <- 1, MAX_CONNECTIONS <- 2,
  MAX_SESSIONS <- 2, MaxGeneration <- 1, MayDrop <- TRUE,
  kind <- v1, backlog <- v2, listener <- v3, open <- v4, active <- v5, conn <- v6,
  sessions <- v7, registry <- v8, cached <- v9, retained <- v10, told <- v11,
  target <- v12, scene <- v13, window <- v14, owner <- v15

Target == INSTANCE Listener WITH
  Conns <- {"w", "a", "b"}, Waker <- "w", NoConn <- "none", Kinds <- TargetKinds,
  Profiles <- {"terminal", "desktop"}, MAX_PENDING_CONNECTIONS <- 2, MAX_CONNECTIONS <- 2,
  MAX_SESSIONS <- 2, MaxGeneration <- 3, MayDrop <- FALSE,
  kind <- v1, backlog <- v2, listener <- v3, open <- v4, active <- v5, conn <- v6,
  sessions <- v7, registry <- v8, cached <- v9, retained <- v10, told <- v11,
  target <- v12, scene <- v13, window <- v14, owner <- v15

Resuming == INSTANCE Listener WITH
  Conns <- {"w", "a", "b"}, Waker <- "w", NoConn <- "none", Kinds <- ResumingKinds,
  Profiles <- {"terminal", "desktop"}, MAX_PENDING_CONNECTIONS <- 2, MAX_CONNECTIONS <- 2,
  MAX_SESSIONS <- 2, MaxGeneration <- 2, MayDrop <- FALSE,
  kind <- v1, backlog <- v2, listener <- v3, open <- v4, active <- v5, conn <- v6,
  sessions <- v7, registry <- v8, cached <- v9, retained <- v10, told <- v11,
  target <- v12, scene <- v13, window <- v14, owner <- v15

(* Overlays: two tracks that replace each other, and one whose channel is      *)
(* advanced.                                                                *)
BothTracks == {trackA, trackB}
OneTrack == {trackA}
Two == INSTANCE Overlay WITH
  Tracks <- BothTracks, NoTrack <- noTrack, MaxRevision <- 2, MaxChannels <- 1,
  Capacity <- 2,
  scene <- v1, channel <- v2, window <- v3, host <- v4, lane <- v5, actor <- v6,
  drawer <- v7, told <- v8, admitted <- v9

Advancing == INSTANCE Overlay WITH
  Tracks <- OneTrack, NoTrack <- noTrack, MaxRevision <- 2, MaxChannels <- 2, Capacity <- 1,
  scene <- v1, channel <- v2, window <- v3, host <- v4, lane <- v5, actor <- v6,
  drawer <- v7, told <- v8, admitted <- v9

(* Tabs, with room for one: frames that fail, and focus events.               *)
Failing == INSTANCE Tabs WITH
  MaxPanes <- 2, Rooms <- {[all |-> 1, some |-> 1]}, Entries <- <<TRUE, FALSE>>,
  MAX_PENDING_SHELL_ACTIONS <- 1, MaxQueue <- 1, MaxFocus <- 0, MayFail <- TRUE,
  app <- v1, focus <- v2, drawn <- v3, queued <- v4, turn <- v5

Focused == INSTANCE Tabs WITH
  MaxPanes <- 2, Rooms <- {[all |-> 1, some |-> 1]}, Entries <- <<>>,
  MAX_PENDING_SHELL_ACTIONS <- 1, MaxQueue <- 1, MaxFocus <- 1, MayFail <- FALSE,
  app <- v1, focus <- v2, drawn <- v3, queued <- v4, turn <- v5

(* Kitty graphics: transmit and place with and without an id, a chunked      *)
(* transmission by number, a query, a frame (not supported), and puts.       *)
Control(action, id, number, placement, unicode, quiet, more) ==
  [action |-> action, id |-> id, number |-> number, placement |-> placement,
   unicode |-> unicode, quiet |-> quiet, more |-> more]
ImageCommands ==
  {Control("t", 1, 0, 0, FALSE, 0, FALSE), Control("T", 0, 0, 0, FALSE, 0, FALSE),
   Control("T", 1, 0, 1, TRUE, 1, FALSE), Control("t", 0, 1, 0, FALSE, 0, TRUE),
   Control("q", 1, 0, 0, FALSE, 1, FALSE), Control("f", 1, 0, 0, FALSE, 2, FALSE),
   Control("p", 1, 0, 0, FALSE, 0, FALSE), Control("p", 1, 0, 1, FALSE, 1, FALSE),
   Control("p", 0, 1, 0, FALSE, 0, FALSE)}
Delete(what, upper, id, number, placement) ==
  [delete |-> what, upper |-> upper, id |-> id, number |-> number, placement |-> placement]
ImageDeletes ==
  {Delete("a", FALSE, 0, 0, 0), Delete("i", TRUE, 1, 0, 0), Delete("i", FALSE, 1, 0, 1),
   Delete("n", TRUE, 0, 1, 0), Delete("r", TRUE, 1, 0, 0), Delete("c", TRUE, 0, 0, 0)}

Images == INSTANCE Graphics WITH
  MAX_IMAGES <- 2, MAX_PLACEMENTS <- 2, MAX_JOBS <- 1, MAX_REPLIES <- 2,
  ScreenLines <- 2, History <- 1, MaxSteps <- 4,
  Commands <- ImageCommands, Deletes <- ImageDeletes,
  screens <- v1, active <- v2, sink <- v3, command <- v4, loader <- v5, jobs <- v6,
  handed <- v7, last_job <- v8, last_uid <- v9, replies <- v10, answered <- v11, asked <- v12,
  steps <- v13, faulted <- v14

-----------------------------------------------------------------------------
(* The variables from the k-th on, and their value in a part of fewer.       *)
rest10 == <<v10, v11, v12, v13, v14, v15>>
rest6 == <<v6, v7, v8, v9, rest10>>
rest1 == <<v1, v2, v3, v4, v5, rest6>>

Off10 == v10 = 0 /\ v11 = 0 /\ v12 = 0 /\ v13 = 0 /\ v14 = 0 /\ v15 = 0
Off6 == v6 = 0 /\ v7 = 0 /\ v8 = 0 /\ v9 = 0 /\ Off10
Off1 == v1 = 0 /\ v2 = 0 /\ v3 = 0 /\ v4 = 0 /\ v5 = 0 /\ Off6

ServiceInit ==
  /\ Init
  /\ \/ part = "egress" /\ Off1
     \/ part = "door" /\ Door!Init
     \/ part = "target" /\ Target!Init
     \/ part = "resuming" /\ Resuming!Init
     \/ part = "two tracks" /\ Two!Init /\ Off10
     \/ part = "advancing" /\ Advancing!Init /\ Off10
     \/ part = "failing" /\ Failing!Init /\ Off6
     \/ part = "focused" /\ Focused!Init /\ Off6
     \/ part = "graphics" /\ Images!Init /\ v15 = 0

ServiceNext ==
  /\ UNCHANGED part
  /\ \/ part = "egress" /\ Next /\ UNCHANGED rest1
     \/ part = "door" /\ Door!Next /\ UNCHANGED vars
     \/ part = "target" /\ Target!Next /\ UNCHANGED vars
     \/ part = "resuming" /\ Resuming!Next /\ UNCHANGED vars
     \/ part = "two tracks" /\ Two!Next /\ UNCHANGED <<vars, rest10>>
     \/ part = "advancing" /\ Advancing!Next /\ UNCHANGED <<vars, rest10>>
     \/ part = "failing" /\ Failing!Next /\ UNCHANGED <<vars, rest6>>
     \/ part = "focused" /\ Focused!Next /\ UNCHANGED <<vars, rest6>>
     \/ part = "graphics" /\ Images!Next /\ UNCHANGED <<vars, v15>>

serviceVars == <<part, vars, rest1>>

ServiceSpec == ServiceInit /\ [][ServiceNext]_serviceVars

ServiceSymmetry ==
  Permutations(BothTracks) \cup Permutations(Posters)

-----------------------------------------------------------------------------
(* What each part promises, as its own module states it.                     *)

(* Connections give back their places whatever ends them, and sessions learn  *)
(* every geometry once, after the scene has it (mod.rs, listener_loop,        *)
(* establish_root_session, flush_display_change).                            *)
ListenerKept ==
  /\ part = "door" => Door!ListenerKept
  /\ part = "target" => Target!ListenerKept
  /\ part = "resuming" => Resuming!ListenerKept

(* Every overlay scene gets one receipt, and what is displayed has been       *)
(* reported presented (vivid/overlay.rs).                                   *)
OverlayKept ==
  (part = "two tracks" => Two!OverlayKept) /\ (part = "advancing" => Advancing!OverlayKept)

(* The shell shows one pane, focuses what it shows, and draws and announces   *)
(* the strip it has (shell/tabbed.rs, shell/chrome.rs).                      *)
TabsKept ==
  /\ part = "failing" => Failing!TabsKept
  /\ part = "focused" => Focused!TabsKept

(* The image stores balance and, unless the reader panicked, no image or     *)
(* reply waits for a decode nobody runs (graphics/mod.rs, graphics/store.rs).*)
ImagesKept == part = "graphics" => Images!ImagesKept
=============================================================================
