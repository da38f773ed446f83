------------------------------- MODULE Tabs --------------------------------
(***************************************************************************)
(* The tab host of Linux (shell/tabbed.rs, shell/tabs.rs, shell/linux.rs):   *)
(* one chrome window with a strip of tabs, an embedded terminal pane behind  *)
(* each.  The event loop handles events one at a time, and before it waits   *)
(* again drains, in this order, the automation requests it answers itself,   *)
(* the shell actions its panes sent and the accessibility commands, and      *)
(* reaps the tabs whose panes are gone.  Tabs are counted from 1.            *)
(***************************************************************************)
EXTENDS Integers, Sequences, SequencesExt, FiniteSets

CONSTANTS
  MaxPanes,    \* bounds how many panes are ever created
  Rooms,       \* widths: how many tabs fit, without and with overflow buttons
  Entries,     \* rows of the launch menu, TRUE for those that open a tab
  MAX_PENDING_SHELL_ACTIONS,
  MaxQueue,    \* bounds what is asked of a turn, and the focus events on
  MaxFocus,    \* their way
  MayFail      \* whether frames of the chrome may fail in this instance

VARIABLES
  app,      \* the host: see Init
  focus,    \* the chrome window's focus, and the focus events on their way
  drawn,    \* the hit map, as what was drawn under it, and how the frame went
  queued,   \* how many host requests, shell actions, accessibility commands wait;
            \* which they are is chosen when they are carried out
  turn      \* where the loop is, and how much is left of the queue it drains

vars == <<app, focus, drawn, queued, turn>>

Closed == -1
Lesser(a, b) == IF a < b THEN a ELSE b
Greater(a, b) == IF a > b THEN a ELSE b

-----------------------------------------------------------------------------
(* Tabs, an ordered strip with one active tab.                               *)

ActivePane(a) == IF a.active = 0 THEN 0 ELSE a.tabs[a.active]

(* Selecting what is not there changes nothing.                               *)
select(a, i) == IF i \in DOMAIN a.tabs THEN [a EXCEPT !.active = i] ELSE a

cycle(a, delta) ==
  IF Len(a.tabs) < 2 THEN a
  ELSE select(a, ((a.active - 1 + delta) % Len(a.tabs)) + 1)

Position(a, p) == CHOOSE i \in DOMAIN a.tabs : a.tabs[i] = p

(* The tab that takes the place is selected, else the one before.             *)
remove(a, p) ==
  LET left == RemoveAt(a.tabs, Position(a, p))
  IN [a EXCEPT !.tabs = left, !.active = Lesser(Position(a, p), Len(left)),
               !.start = Lesser(@, Greater(Len(left) - 1, 0))]

shift_visible(a, delta, capacity) ==
  [a EXCEPT !.start = Lesser(Greater(@ + delta, 0), Greater(Len(a.tabs) - capacity, 0))]

visible(a, capacity) ==
  LET fit == Lesser(capacity, Greater(Len(a.tabs), 1))
      at == Greater(a.active - 1, 0)
      near == IF at < a.start THEN at
              ELSE IF at >= a.start + fit THEN at + 1 - fit ELSE a.start
  IN [a EXCEPT !.start = Lesser(near, Greater(Len(a.tabs) - fit, 0))]

(* paint_tabs: how many tabs fit, and what is drawn.                          *)
Fitting(a) == IF Len(a.tabs) > a.room.all THEN a.room.some ELSE a.room.all

View(a) ==
  LET start == visible(a, Fitting(a)).start
  IN [from |-> start, tabs |-> SubSeq(a.tabs, start + 1, Lesser(start + Fitting(a), Len(a.tabs))),
      active |-> ActivePane(a), menu |-> a.menu]

-----------------------------------------------------------------------------
(* The host's own operations, from a host to a host, or to all it may become. *)

Redrawn(a) == [a EXCEPT !.redraw = TRUE]

(* Mutant: the tab that is left is not hidden.                                *)
SyncedShowing(a) ==
  LET shown == {ActivePane(a)} \cap a.windows
  IN [a EXCEPT !.revealed = @ \cup shown, !.focused = IF focus.now THEN shown ELSE {},
               !.wants = @ \cup shown, !.redraw = @ \/ a.tabs # <<>>]

(* sync_visibility_geometry_and_focus: revealing asks the pane for a frame,   *)
(* and revealing or hiding asks the chrome for one.                           *)
Synced(a) ==
  LET shown == {ActivePane(a)} \cap a.windows
  IN [a EXCEPT !.revealed = shown, !.focused = IF focus.now THEN shown ELSE {},
               !.wants = @ \cup shown, !.redraw = @ \/ a.tabs # <<>>]

(* A selection that moved nothing shows nothing.                              *)
Selected(a, s) == IF s.active = a.active THEN a ELSE Redrawn(Synced(s))

(* create_tab; creating the pane may fail.                                    *)
Create(a) ==
  {a} \cup
  IF a.used = MaxPanes THEN {}
  ELSE {Redrawn(Synced([a EXCEPT !.used = @ + 1, !.windows = @ \cup {a.used + 1},
                                 !.tabs = Append(@, a.used + 1), !.active = Len(a.tabs) + 1]))}

(* request_close, for those that still have a window.                         *)
Close(a, asked) == [a EXCEPT !.closing = @ \cup (asked \cap a.windows)]

(* close_tab, at the user's request: silently, or if the user agrees.         *)
CloseTab(a, i) == {a} \cup {Close(a, {a.tabs[j]}) : j \in {i} \cap DOMAIN a.tabs}

Quit(a) == {a, [Close(a, Range(a.tabs)) EXCEPT !.exit = TRUE, !.quit = TRUE]}

Dismissed(a) == IF a.menu = Closed THEN a ELSE Redrawn([a EXCEPT !.menu = Closed])

(* The menu hangs from a button that was drawn.                               *)
ToggleMenu(a) ==
  IF a.menu # Closed THEN Dismissed(a)
  ELSE IF drawn.view.tabs = <<>> THEN a ELSE Redrawn([a EXCEPT !.menu = 0])

(* A row opens a tab or starts another window's process.                      *)
Activate(a, row) ==
  IF a.menu # Closed /\ row \in DOMAIN Entries /\ Entries[row]
  THEN Create(Dismissed(a)) ELSE {Dismissed(a)}

(* reap_tabs.                                                                 *)
Reaped(a) ==
  LET gone == SelectSeq(a.tabs, LAMBDA p : p \notin a.windows)
      left == FoldLeft(remove, a, gone)
  IN IF gone = <<>> THEN a
     ELSE IF left.tabs = <<>> THEN [left EXCEPT !.exit = TRUE] ELSE Redrawn(Synced(left))

-----------------------------------------------------------------------------
Init ==
  LET first == [tabs |-> <<1>>, active |-> 1, start |-> 0,
                windows |-> {1}, used |-> 1, closing |-> {},
                revealed |-> {1}, focused |-> {}, wants |-> {1},
                menu |-> Closed, redraw |-> TRUE, retry |-> FALSE,
                exit |-> FALSE, quit |-> FALSE]
  IN /\ \E room \in Rooms : app = [room |-> room] @@ first
     /\ focus = [now |-> FALSE, events |-> <<>>]
     /\ drawn = [view |-> [from |-> 0, tabs |-> <<>>, active |-> 0, menu |-> Closed],
                 failed |-> FALSE]
     /\ queued = [hosts |-> 0, actions |-> 0, commands |-> 0]
     /\ turn = [at |-> "events", todo |-> 0, seen |-> TRUE]

Queued == queued.hosts + queued.actions + queued.commands

(* An event is handled at the loop's place for events; the turn that follows   *)
(* has yet to come.                                                           *)
Event(next) ==
  /\ turn.at = "events" /\ app.tabs # <<>>
  /\ app' = next
  /\ turn' = [turn EXCEPT !.seen = FALSE]

-----------------------------------------------------------------------------
(* Events of the chrome window.                                              *)

(* A press with a menu open dismisses it and reaches nothing behind it.        *)
PressMenu ==
  /\ app.menu # Closed
  /\ \E row \in 0 .. Len(Entries) : \E a \in Activate(app, row) : Event(a)
  /\ UNCHANGED <<focus, drawn, queued>>

(* click_chrome, on what was last drawn.                                      *)
Clicked(a) ==
  LET capacity == Greater(Len(drawn.view.tabs), 1)
      hit == {drawn.view.from + j : j \in DOMAIN drawn.view.tabs}
  IN UNION {CloseTab(a, i) : i \in hit} \cup {Selected(a, select(a, i)) : i \in hit}
     \cup {Redrawn(shift_visible(a, d, capacity)) : d \in {-1, 1}}
     \cup Create(a) \cup {ToggleMenu(a)} \cup Quit(a)

PressChrome ==
  /\ app.menu = Closed
  /\ \E a \in Clicked(app) : Event(a)
  /\ UNCHANGED <<focus, drawn, queued>>

(* menu_key.                                                                  *)
MenuKey ==
  /\ app.menu # Closed
  /\ \/ Event(Dismissed(app))
     \/ \E row \in 1 .. Len(Entries) : Event(Redrawn([app EXCEPT !.menu = row]))
     \/ app.menu # 0 /\ \E a \in Activate(app, app.menu) : Event(a)
  /\ UNCHANGED <<focus, drawn, queued>>

CloseRequested ==
  /\ \E a \in Quit(app) : Event(a)
  /\ UNCHANGED <<focus, drawn, queued>>

Resized ==
  /\ \E room \in Rooms : Event(Redrawn(Synced([Dismissed(app) EXCEPT !.room = room])))
  /\ UNCHANGED <<focus, drawn, queued>>

(* The window system moves the focus; the event that says so comes later.      *)
FocusMoves ==
  /\ Len(focus.events) < MaxFocus
  /\ focus' = [now |-> ~focus.now, events |-> Append(focus.events, ~focus.now)]
  /\ UNCHANGED <<app, drawn, queued, turn>>

Focused ==
  /\ focus.events # <<>>
  /\ LET a == IF Head(focus.events) THEN app ELSE Dismissed(app)
         active == {ActivePane(app)} \cap app.windows
     IN Event([a EXCEPT !.focused = IF Head(focus.events) THEN @ \cup active ELSE @ \ active])
  /\ focus' = [focus EXCEPT !.events = Tail(@)]
  /\ UNCHANGED <<drawn, queued>>

(* RedrawRequested: the panes on screen draw, and the chrome composes the      *)
(* active one.  The hit map is new even if the frame cannot be presented.      *)
(* After a failure the renderer waits, then is rebuilt.                        *)
Redraw ==
  /\ app.redraw
  /\ LET shown == visible([app EXCEPT !.redraw = FALSE, !.wants = @ \ app.revealed], Fitting(app))
     IN \E failed \in {FALSE, MayFail} :
          /\ Event([shown EXCEPT !.retry = failed])
          /\ drawn' = [view |-> View(app), failed |-> failed]
  /\ UNCHANGED <<focus, queued>>

-----------------------------------------------------------------------------
(* User events: each asks for a redraw.                                      *)

(* EventType::ShellAction: an activation or a resize supersedes the one its    *)
(* pane sent before, and the oldest is dropped for want of room.               *)
ShellAction ==
  /\ Queued < MaxQueue
  /\ \E superseded \in 0 .. Lesser(queued.actions, 1) :
       queued' = [queued EXCEPT !.actions = Lesser(@ - superseded + 1, MAX_PENDING_SHELL_ACTIONS)]
  /\ Event(Redrawn(app))
  /\ UNCHANGED <<focus, drawn>>

(* A pane's terminal ends: asked to, or by itself.  The loop ends with the     *)
(* last one.                                                                   *)
PaneExits ==
  /\ \E p \in app.windows :
       Event(Redrawn([app EXCEPT !.windows = @ \ {p}, !.closing = @ \ {p}, !.revealed = @ \ {p},
                                 !.focused = @ \ {p}, !.wants = @ \ {p},
                                 !.exit = @ \/ app.windows = {p}]))
  /\ UNCHANGED <<focus, drawn, queued>>

(* A pane has something to show.                                               *)
PaneChanges ==
  /\ \E p \in app.windows : Event(Redrawn([app EXCEPT !.wants = @ \cup {p}]))
  /\ UNCHANGED <<focus, drawn, queued>>

(* create_window of the automation server, which this host has claimed.        *)
HostRequest ==
  /\ Queued < MaxQueue
  /\ queued' = [queued EXCEPT !.hosts = @ + 1]
  /\ Event(Redrawn(app))
  /\ UNCHANGED <<focus, drawn>>

(* An assistive technology's request, from a thread of its own: the indices    *)
(* are those of a tree it read before.                                         *)
Command ==
  /\ Queued < MaxQueue
  /\ queued' = [queued EXCEPT !.commands = @ + 1]
  /\ UNCHANGED <<app, focus, drawn, turn>>

-----------------------------------------------------------------------------
(* about_to_wait.                                                            *)

Cycled(a) == {Selected(a, cycle(a, d)) : d \in {-1, 1}}

(* A position the strip has or has not, the last one, or that of the pane that *)
(* asks to be activated and may be gone.                                       *)
ActionDone(a) ==
  Create(a) \cup Cycled(a)
  \cup {Selected(a, select(a, i)) : i \in 1 .. Len(a.tabs) + 1}
  \cup {Redrawn(Synced(select(a, i))) : i \in DOMAIN a.tabs}
  \cup {a}

CommandDone(a) ==
  Create(a) \cup {ToggleMenu(a)} \cup Quit(a)
  \cup UNION {Activate(a, row) : row \in DOMAIN Entries}
  \cup UNION {CloseTab(a, i) \cup {Selected(a, select(a, i))} : i \in 1 .. Len(a.tabs) + 1}
  \cup {Redrawn(shift_visible(a, d, Greater(Len(drawn.view.tabs), 1))) : d \in {-1, 1}}

(* The loop takes the whole of a queue, then works through it.                 *)
AboutToWait ==
  /\ turn.at = "events" /\ ~turn.seen
  /\ turn' = [at |-> "hosts", todo |-> queued.hosts, seen |-> FALSE]
  /\ queued' = [queued EXCEPT !.hosts = 0]
  /\ UNCHANGED <<app, focus, drawn>>

DrainStep ==
  /\ turn.todo > 0
  /\ app' \in CASE turn.at = "hosts" -> Create(app)
                [] turn.at = "actions" -> ActionDone(app)
                [] turn.at = "commands" -> CommandDone(app)
  /\ turn' = [turn EXCEPT !.todo = @ - 1]
  /\ UNCHANGED <<focus, drawn, queued>>

NextQueue ==
  /\ turn.todo = 0
  /\ \/ /\ turn.at = "hosts"
        /\ turn' = [turn EXCEPT !.at = "actions", !.todo = queued.actions]
        /\ queued' = [queued EXCEPT !.actions = 0]
     \/ /\ turn.at = "actions"
        /\ turn' = [turn EXCEPT !.at = "commands", !.todo = queued.commands]
        /\ queued' = [queued EXCEPT !.commands = 0]
  /\ UNCHANGED <<app, focus, drawn>>

(* The tabs without a pane go; a pane that waits for a frame, hidden or not,   *)
(* asks the chrome for one, so does the end of a failed frame's wait.          *)
Settle ==
  /\ turn.at = "commands" /\ turn.todo = 0
  /\ \E due \in {FALSE, app.retry} :
       app' = LET a == Reaped(app)
              IN IF a.wants # {} \/ due THEN Redrawn(a) ELSE a
  /\ turn' = [turn EXCEPT !.at = IF Reaped(app).exit THEN "exiting" ELSE "events", !.seen = TRUE]
  /\ UNCHANGED <<focus, drawn, queued>>

(* The retry's deadline wakes the loop.                                        *)
Wakes ==
  /\ app.retry
  /\ Event(app)
  /\ UNCHANGED <<focus, drawn, queued>>

(* exiting: the panes are closed, the chrome goes.                             *)
Exiting ==
  /\ turn.at = "exiting"
  /\ app' = [Close(app, Range(app.tabs)) EXCEPT !.menu = Closed]
  /\ turn' = [turn EXCEPT !.at = "over"]
  /\ UNCHANGED <<focus, drawn, queued>>

Next ==
  \/ PressMenu \/ PressChrome \/ MenuKey \/ CloseRequested
  \/ Resized \/ FocusMoves \/ Focused \/ Redraw \/ ShellAction \/ PaneExits \/ PaneChanges
  \/ HostRequest \/ Command \/ AboutToWait \/ DrainStep \/ NextQueue \/ Settle \/ Wakes \/ Exiting

Spec == Init /\ [][Next]_vars

-----------------------------------------------------------------------------
TypeOK ==
  /\ app.active \in 0 .. Len(app.tabs) /\ app.start \in 0 .. MaxPanes
  /\ app.revealed \cup app.focused \cup app.wants \cup app.closing \subseteq app.windows
  /\ queued.actions <= MAX_PENDING_SHELL_ACTIONS
  /\ app.menu \in Closed .. Len(Entries)

Settled == turn.at = "events" /\ turn.seen

(* Every tab has its pane and the other way round, the active one alone is     *)
(* revealed, and once the focus events have come it alone has the focus, when  *)
(* the chrome has it (sync_visibility_geometry_and_focus).                     *)
OneShown ==
  Settled =>
    /\ Range(app.tabs) = app.windows /\ Len(app.tabs) = Cardinality(app.windows)
    /\ app.revealed = {ActivePane(app)}
    /\ focus.events = <<>> => app.focused = IF focus.now THEN app.revealed ELSE {}

(* What is on the screen, and under the pointer, is what there is, or a        *)
(* redraw is on its way; a frame that failed is tried again.                   *)
StripDrawn ==
  /\ Settled /\ ~app.redraw =>
       drawn.view = View(app) /\ ActivePane(app) \notin app.wants
  /\ Settled /\ drawn.failed => app.redraw \/ app.retry

(* "A contiguous visible range which always contains the active tab"           *)
(* (tabs.rs:118), and as many others as fit.                                   *)
RangeHoldsActive ==
  LET view == View(app)
  IN app.tabs # <<>> =>
       /\ view.active \in Range(view.tabs)
       /\ Len(view.tabs) = Lesser(Fitting(app), Len(app.tabs))

(* The loop ends with the last tab, or asked to.                               *)
EndsWithTabs ==
  /\ Settled => app.tabs # <<>> /\ ~app.exit
  /\ turn.at = "over" => app.windows \subseteq app.closing

TabsKept == TypeOK /\ OneShown /\ StripDrawn /\ RangeHoldsActive /\ EndsWithTabs
=============================================================================
