------------------------------- MODULE Anchors -------------------------------
(***************************************************************************)
(* Anchored media follows the text it was placed beside.  The PTY thread    *)
(* parses chunks into the terminal (src/terminal/term/mod.rs, over          *)
(* src/terminal/grid/mod.rs) and describes what happened to the lines with  *)
(* events; the window's thread applies them to the anchors of the scene     *)
(* (src/vivid/scene.rs) later, and resizes both.  The terminal's lock is    *)
(* held for a chunk and for each step of the window's thread.               *)
(*                                                                          *)
(* text is what the grid knows and the scene does not: where the line that  *)
(* an anchor marks really is.                                               *)
(***************************************************************************)
EXTENDS Integers, Sequences

CONSTANTS
  Anchors,    \* authenticated marker identities, each admitted once
  Panes,      \* the panes to consider, see Pane
  MergeBound  \* bound on the lines of one merged scroll

(* windows: events are batched behind one notification (cfg(windows)).       *)
(* rows: the heights the pane takes.  history: max_scroll_limit of its       *)
(* primary grid.  limit: MAX_PENDING_VIVID_EVENTS, and elsewhere than on     *)
(* Windows a bound on the queue.                                             *)
Pane == [windows : BOOLEAN, rows : SUBSET (Nat \ {0}), history : Nat, limit : Nat \ {0}]

ASSUME AnchorsAssumption ==
  /\ \A p \in Panes : p \in Pane /\ \E most \in p.rows : \A r \in p.rows : r <= most
  /\ MergeBound \in Nat \ {0}

VARIABLES
  rows,     \* screen_lines()
  hist,     \* history_size() of the primary grid; the alternate one has none
  alt,      \* TermMode::ALT_SCREEN
  parsing,  \* the PTY thread is inside Term::advance()
  pending,  \* pending_grid_scroll
  queue,    \* events sent to the window's thread
  batch,    \* events the window's thread has taken and not handled
  altScene, \* State::alternate_screen of the scene
  anchors,  \* State::anchors and gone_anchors
  pane,     \* which pane this is
  text,     \* history: the line each anchor marks
  departed  \* history: what an unannounced change has put out of step

grid  == <<rows, hist, alt, text>>
scene == <<altScene, anchors, pane>>
vars  == <<grid, parsing, pending, queue, batch, scene, departed>>

None == [kind |-> "none"]
Gone == [kind |-> "gone"]
At(line, alternate) == [kind |-> "at", line |-> line, alternate |-> alternate]

Scroll(origin, end, lines, history) ==
  [event |-> "scroll", origin |-> origin, end |-> end, lines |-> lines, history |-> history]
Clear == [event |-> "clear"]
Swap(alternate) == [event |-> "swap", alternate |-> alternate]
Marker(a, line, alternate) ==
  [event |-> "marker", anchor |-> a, line |-> line, alternate |-> alternate]

NoScroll == [event |-> "none"]
Least(a, b) == IF a < b THEN a ELSE b
windows == pane.windows
Rows    == pane.rows
HistMax == pane.history
Limit   == pane.limit
MaxRows == CHOOSE r \in Rows : \A q \in Rows : q <= r

Init ==
  /\ pane \in Panes /\ rows \in Rows /\ hist = 0 /\ alt = FALSE
  /\ parsing = FALSE /\ pending = NoScroll /\ queue = <<>> /\ batch = <<>>
  /\ altScene = FALSE /\ anchors = [a \in Anchors |-> None]
  /\ text = [a \in Anchors |-> None] /\ departed = {}

-----------------------------------------------------------------------------
(* Events on their way to the window's thread.                               *)

(* Mutant: scrolls of one region are folded whatever their direction.        *)
MergesAnyDirection(old, new) ==
  old.event = "scroll" /\ old.origin = new.origin /\ old.end = new.end

Merges(old, new) ==
  /\ old.event = "scroll"
  /\ old.origin = new.origin /\ old.end = new.end
  /\ (old.lines > 0) = (new.lines > 0)

Merged(old, new) == [new EXCEPT !.lines = old.lines + @]

(* push_vivid_event(): the batch that overflows is replaced by a clear, and  *)
(* a scroll joins an equal one at the tail.                                  *)
Push(q, e) ==
  LET kept == IF Len(q) >= Limit THEN <<Clear>> ELSE q
      tail == kept[Len(kept)]
  IN  IF kept # <<>> /\ e.event = "scroll" /\ Merges(tail, e)
      THEN [kept EXCEPT ![Len(kept)] = Merged(tail, e)]
      ELSE Append(kept, e)

(* EventProxy::send_event().                                                 *)
Sent(q, e) == IF windows THEN Push(q, e) ELSE Append(q, e)

(* Bound: no scroll in the queue has been merged beyond MergeBound lines.    *)
Bounded(q) == \A i \in DOMAIN q : q[i].event = "scroll" => q[i].lines \in -MergeBound .. MergeBound

(* flush_grid_scroll(), as what it leaves in the queue.                      *)
Flushed == IF pending = NoScroll THEN queue ELSE Sent(queue, pending)

(* History: what a batch that overflows loses track of.  A clear stands in   *)
(* for its events, but not for the screen they ended on.                     *)
Dropped(q) ==
  IF ~windows \/ Len(q) < Limit THEN {}
  ELSE IF \E i \in DOMAIN q : q[i].event = "swap" THEN {"kept", "lines", "screen", "swap"}
  ELSE {"kept"}
FlushDrops == IF pending = NoScroll THEN {} ELSE Dropped(queue)
SendDrops  == FlushDrops \cup Dropped(Flushed)
Depart(what) == departed' = departed \cup what

-----------------------------------------------------------------------------
(* The grid.                                                                 *)

(* Where a line of the active screen is after Grid::scroll_up() (lines > 0)  *)
(* or Grid::scroll_down() of the region, if it is still there: a region at   *)
(* the top pushes lines into the history, top being the oldest one kept.     *)
Scrolled(line, origin, end, lines, top) ==
  LET next  == line - lines
      moved == IF lines > 0 /\ origin = 0 /\ line < end THEN {next}
               ELSE IF line \in origin .. end - 1 THEN {next} \cap (origin .. end - 1)
               ELSE {line}
  IN  {l \in moved : l >= top}

OnScreen(t, alternate) == t.kind = "at" /\ t.alternate = alternate
Placed(lines, alternate) ==
  IF lines = {} THEN Gone ELSE At(CHOOSE l \in lines : TRUE, alternate)

(* Mutant: the limit of the history is forgotten.                            *)
GrownUncapped(lines) == hist + lines

(* increase_scroll_limit().                                                  *)
Grown(lines) == Least(HistMax, hist + lines)

(* The lines of the active screen are erased, and with them what they mark.  *)
Erased(alternate) == [a \in Anchors |-> IF OnScreen(text[a], alternate) THEN Gone ELSE text[a]]

(* Bounds: the window's thread is not further behind, elsewhere than on      *)
(* Windows, and no scroll is merged further.                                 *)
Room == (windows \/ Len(queue) < Limit) /\ Bounded(Flushed)
Parsing == parsing /\ Room /\ UNCHANGED <<parsing, batch, scene>>
Locked  == ~parsing /\ Room /\ UNCHANGED <<parsing, batch, scene>>

(* advance(): the chunk's lock, and the flush at its end.                    *)
BeginChunk ==
  /\ ~parsing /\ parsing' = TRUE
  /\ UNCHANGED <<grid, pending, queue, batch, scene, departed>>
EndChunk ==
  /\ parsing /\ Bounded(Flushed)
  /\ parsing' = FALSE /\ queue' = Flushed /\ pending' = NoScroll /\ Depart(FlushDrops)
  /\ UNCHANGED <<grid, batch, scene>>

(* scroll_up_relative_resetting() and scroll_down_relative(), with           *)
(* queue_grid_scroll(): lines > 0 moves text up.                             *)
GridScroll(start, end, origin, lines) ==
  /\ Parsing
  /\ start < end /\ end <= rows /\ origin \in start .. end - 1
  /\ lines # 0 /\ lines <= end - start /\ -lines <= end - origin
  /\ LET grown == IF ~alt /\ origin = 0 /\ lines > 0 THEN Grown(lines) ELSE hist
         size  == IF alt THEN 0 ELSE grown
         new   == Scroll(origin, end, lines, size)
         \* History: scroll_anchors() moves the primary screen's anchors too.
         OtherScreen == IF alt /\ \E a \in Anchors : OnScreen(text[a], FALSE)
                        THEN {"kept", "lines"} ELSE {}
     IN  /\ hist' = grown
         /\ text' = [a \in Anchors |->
                       IF OnScreen(text[a], alt)
                       THEN Placed(Scrolled(text[a].line, origin, end, lines, -size), alt)
                       ELSE text[a]]
         /\ IF pending # NoScroll /\ Merges(pending, new)
            THEN /\ pending' = Merged(pending, new) /\ pending'.lines \in -MergeBound .. MergeBound
                 /\ UNCHANGED queue /\ Depart(OtherScreen)
            ELSE pending' = new /\ queue' = Flushed /\ Depart(OtherScreen \cup FlushDrops)
  /\ UNCHANGED <<rows, alt>>

(* vivid_marker(): the marker takes the cursor's line, wherever it is.       *)
VividMarker(a, line) ==
  /\ Parsing /\ text[a] = None /\ line < rows
  /\ text' = [text EXCEPT ![a] = At(line, alt)]
  /\ queue' = Sent(Flushed, Marker(a, line, alt)) /\ pending' = NoScroll /\ Depart(SendDrops)
  /\ UNCHANGED <<rows, hist, alt>>

(* swap_alt(): the alternate screen starts empty each time.                  *)
SwapAlt ==
  /\ Parsing
  /\ alt' = ~alt
  /\ text' = Erased(TRUE)
  /\ queue' = Sent(Flushed, Swap(~alt)) /\ pending' = NoScroll
  /\ departed' = (departed \cup SendDrops) \ {"screen"}
  /\ UNCHANGED <<rows, hist>>

(* clear_screen(All).  The primary viewport goes to the history first; the   *)
(* marks of the screen, those in its history too, end with VividClear.       *)
ClearAll(positions) ==
  /\ Parsing
  /\ positions \in 0 .. rows /\ (alt => positions = 0)
  /\ hist' = IF alt THEN hist ELSE Grown(positions)
  /\ text' = Erased(alt)
  /\ queue' = Sent(Flushed, Clear) /\ pending' = NoScroll /\ Depart(SendDrops)
  /\ UNCHANGED <<rows, alt>>

(* clear_screen(Saved): the history goes, and on Windows the media with it.  *)
ClearSaved ==
  /\ Parsing
  /\ hist' = IF alt THEN hist ELSE 0
  /\ IF windows
     THEN /\ text' = Erased(alt)
          /\ queue' = Sent(Flushed, Clear) /\ pending' = NoScroll /\ Depart(SendDrops)
     ELSE /\ text' = [a \in Anchors |->
                        IF ~alt /\ OnScreen(text[a], FALSE) /\ text[a].line < 0
                        THEN Gone ELSE text[a]]
          /\ Depart(IF text' # text THEN {"kept", "lines"} ELSE {})
          /\ UNCHANGED <<queue, pending>>
  /\ UNCHANGED <<rows, alt>>

(* reset_state() (RIS): both grids are erased, and nothing is sent.          *)
ResetState ==
  /\ Parsing
  /\ hist' = 0 /\ alt' = FALSE
  /\ text' = [a \in Anchors |-> IF text[a] = None THEN None ELSE Gone]
  /\ Depart(IF alt THEN {"kept", "lines", "screen"}
            ELSE IF text' # text THEN {"kept", "lines"} ELSE {})
  /\ UNCHANGED <<rows, queue, pending>>

-----------------------------------------------------------------------------
(* clear_buffer(), from a key binding: the viewport and the history of the   *)
(* active screen are emptied around the cursor's line.                       *)
ClearBuffer ==
  /\ Locked
  /\ hist' = IF alt THEN hist ELSE 0
  /\ text' = Erased(alt)
  /\ queue' = Sent(Flushed, Clear) /\ pending' = NoScroll /\ Depart(SendDrops)
  /\ UNCHANGED <<rows, alt>>

(* Mutant: recovery from the alternate screen only clears.                   *)
ResetClientForgetsSwap ==
  /\ Locked
  /\ alt' = FALSE
  /\ text' = [a \in Anchors |-> IF text[a] = None THEN None ELSE Gone]
  /\ queue' = Sent(queue, Clear) /\ Depart(Dropped(queue))
  /\ UNCHANGED <<rows, hist, pending>>

(* reset_client_state(), from the event loop: the primary grid is kept, but  *)
(* its media is client state and goes.                                       *)
ResetClientState ==
  /\ Locked
  /\ alt' = FALSE
  /\ text' = [a \in Anchors |-> IF text[a] = None THEN None ELSE Gone]
  /\ LET swapped == IF alt THEN Sent(queue, Swap(FALSE)) ELSE queue
     IN  /\ queue' = Sent(swapped, Clear)
         /\ Depart(Dropped(swapped) \cup (IF alt THEN Dropped(queue) ELSE {}))
  /\ UNCHANGED <<rows, hist, pending>>

(* grow_lines() and shrink_lines(): lines come down from the history while   *)
(* it has any, or are pushed up to keep the cursor's line on the screen.     *)
Resized(line, to, up, down, top) ==
  {l \in {line - up + down} : l < to /\ l >= top}

(* Nothing that happened to the grid is still on its way to the scene.       *)
Settled == ~parsing /\ pending = NoScroll /\ queue = <<>> /\ batch = <<>>

(* resize_terminal(): positions read from the scene are carried through the  *)
(* resize of the grid, those that are not on it any more are removed.        *)
Resize(to, upPrimary, upAlternate) ==
  LET grows == to - rows
      down  == IF grows > 0 THEN Least(hist, grows) ELSE 0
      kept  == Grown(upPrimary) - down
      Carry(t) ==
        IF t.kind # "at" THEN t
        ELSE Placed(IF t.alternate
                    THEN {l \in Resized(t.line, to, upAlternate, 0, 0) :
                            t.line \in 0 .. rows - 1}
                    ELSE {l \in Resized(t.line, to, upPrimary, down, -kept) :
                            t.line \in -hist .. rows - 1},
                    t.alternate)
  IN  /\ ~parsing /\ to # rows
      /\ upPrimary \in 0 .. (IF grows < 0 THEN -grows ELSE 0)
      /\ upAlternate \in 0 .. (IF grows < 0 THEN -grows ELSE 0)
      /\ rows' = to /\ hist' = kept
      /\ anchors' = [a \in Anchors |-> Carry(anchors[a])]
      /\ text' = [a \in Anchors |-> Carry(text[a])]
      /\ Depart(IF Settled THEN {} ELSE {"kept", "lines"})
      /\ UNCHANGED <<alt, parsing, pending, queue, batch, altScene, pane>>

-----------------------------------------------------------------------------
(* The window's thread takes what was sent: one event, or on Windows the     *)
(* whole batch behind its notification (take_vivid_events()).                *)
TakeEvents ==
  /\ ~parsing /\ batch = <<>> /\ queue # <<>>
  /\ IF windows
     THEN batch' = queue /\ queue' = <<>>
     ELSE batch' = <<Head(queue)>> /\ queue' = Tail(queue)
  /\ UNCHANGED <<grid, parsing, pending, scene, departed>>

Handles(kind) ==
  /\ ~parsing /\ batch # <<>> /\ Head(batch).event = kind
  /\ batch' = Tail(batch)
  /\ UNCHANGED <<grid, parsing, pending, queue, pane, departed>>

(* Mutant: an anchor leaves the scene where its line enters the history.     *)
FollowedToTop(line, e) ==
  LET next  == line - e.lines
      moved == IF line < e.origin \/ line >= e.end THEN {line}
               ELSE {l \in {next} : IF e.lines > 0 THEN l >= e.origin ELSE l < e.end}
  IN  {l \in moved : l >= 0}

(* Where scroll_anchors() puts an anchor.                                    *)
Followed(line, e) ==
  LET next  == line - e.lines
      moved == IF e.lines > 0 /\ e.origin = 0 /\ line < e.end THEN {next}
               ELSE IF line \in e.origin .. e.end - 1
               THEN {l \in {next} : IF e.lines > 0 THEN l >= e.origin ELSE l < e.end}
               ELSE {line}
  IN  {l \in moved : l >= -e.history}

HandleGridScroll ==
  /\ Handles("scroll")
  /\ anchors' = [a \in Anchors |->
                   IF anchors[a].kind = "at"
                   THEN Placed(Followed(anchors[a].line, Head(batch)), anchors[a].alternate)
                   ELSE anchors[a]]
  /\ UNCHANGED altScene

Without(alternate) ==
  [a \in Anchors |-> IF OnScreen(anchors[a], alternate) THEN Gone ELSE anchors[a]]

(* set_alternate_screen().                                                   *)
SceneSwaps(to) ==
  /\ altScene' = to
  /\ anchors' = IF to \/ ~altScene THEN anchors ELSE Without(TRUE)

HandleScreenSwap == Handles("swap") /\ SceneSwaps(Head(batch).alternate)

HandleClear ==
  /\ Handles("clear")
  /\ anchors' = Without(altScene)
  /\ UNCHANGED altScene

(* handle_terminal_marker(), which refuses a marker of no live session, or   *)
(* one over its budget, or that does not verify: no line is marked then.     *)
HandleMarker ==
  /\ Handles("marker")
  /\ LET m == Head(batch)
     IN  anchors' = [anchors EXCEPT ![m.anchor] = At(m.line, m.alternate)]
  /\ UNCHANGED altScene

RefuseMarker ==
  /\ ~parsing /\ batch # <<>> /\ Head(batch).event = "marker"
  /\ batch' = Tail(batch)
  /\ text' = [text EXCEPT ![Head(batch).anchor] = Gone]
  /\ anchors' = [anchors EXCEPT ![Head(batch).anchor] = Gone]
  /\ UNCHANGED <<rows, hist, alt, parsing, pending, queue, altScene, pane, departed>>

-----------------------------------------------------------------------------
Next ==
  \/ BeginChunk \/ EndChunk
  \/ \E start, origin \in 0 .. MaxRows - 1, end \in 1 .. MaxRows,
        lines \in -MaxRows .. MaxRows : GridScroll(start, end, origin, lines)
  \/ \E a \in Anchors, line \in 0 .. MaxRows - 1 : VividMarker(a, line)
  \/ SwapAlt
  \/ \E positions \in 0 .. MaxRows : ClearAll(positions)
  \/ ClearSaved \/ ResetState \/ ClearBuffer \/ ResetClientState
  \/ \E to \in Rows, p, q \in 0 .. MaxRows : Resize(to, p, q)
  \/ TakeEvents \/ HandleGridScroll \/ HandleScreenSwap \/ HandleClear
  \/ HandleMarker \/ RefuseMarker

Spec == Init /\ [][Next]_vars

-----------------------------------------------------------------------------
Lines     == -(HistMax + MaxRows) .. MaxRows - 1
Positions == {None, Gone} \cup {At(l, b) : l \in Lines, b \in BOOLEAN}

(* The grid, the events and the anchors have their types: no scroll crosses  *)
(* its region and no anchor leaves the lines that exist (scroll_anchors()).  *)
TypeOK ==
  /\ rows \in Rows /\ hist \in 0 .. HistMax /\ alt \in BOOLEAN
  /\ parsing \in BOOLEAN /\ altScene \in BOOLEAN
  /\ pending = NoScroll \/ (pending.event = "scroll" /\ pending.origin < pending.end)
  /\ Len(queue) <= Limit + 2 /\ Len(batch) <= Limit + 2
  /\ anchors \in [Anchors -> Positions] /\ text \in [Anchors -> Positions]
  /\ pane \in Panes /\ departed \subseteq {"kept", "lines", "screen", "swap"}

(* When every event has been handled, each anchor is at the line it marks,   *)
(* and gone when that line is: merging scrolls (queue_grid_scroll(),         *)
(* push_vivid_event()) and applying them late (scroll_anchors()) leaves no   *)
(* media beside other text.  Not so once the grid has changed in a way no    *)
(* event describes: a scroll of the alternate screen while the primary one   *)
(* is marked, an erased history or terminal, a resize between events.        *)
Aligned ==
  Settled /\ "lines" \notin departed =>
    \A a \in Anchors : anchors[a].kind = "at" => anchors[a] = text[a]

(* When every event has been handled, a line that is still marked still has  *)
(* its anchor: no merge removes one that single scrolls would have kept.     *)
(* The batch that overflows gives anchors up.                                *)
Kept ==
  Settled /\ "kept" \notin departed =>
    \A a \in Anchors : text[a].kind = "at" => anchors[a] = text[a]

(* When every event has been handled, anchors and marked lines agree both    *)
(* ways (scroll_anchors(), queue_grid_scroll(), push_vivid_event()).         *)
AnchorsFollow == Aligned /\ Kept

(* When every event has been handled, the scene shows the anchors of the     *)
(* screen the terminal is on (swap_alt(), set_alternate_screen()), from any  *)
(* swap on that is neither undone by RIS nor lost with an overflowing batch. *)
(* And media placed on the alternate screen is never carried over to the     *)
(* primary one, in whatever order markers and swaps arrive, unless such a    *)
(* batch drops a swap.                                                       *)
ScreenAgrees ==
  /\ Settled /\ "screen" \notin departed => altScene = alt
  /\ "swap" \in departed \/ \A a \in Anchors : OnScreen(anchors[a], TRUE) => altScene

(* Both: after any merging and swapping, anchors are where their text is and   *)
(* on the screen their text is on.                                          *)
AnchorsKept == TypeOK /\ AnchorsFollow /\ ScreenAgrees
=============================================================================
