-------------------------------- MODULE Term --------------------------------
(***************************************************************************)
(* The terminal's positions (src/terminal/term/mod.rs, terminal/grid/mod.rs *)
(* and grid/resize.rs): the cursor and the saved cursor of the two screens, *)
(* the scroll region, the tab stops, the modes that steer the cursor, the   *)
(* scrollback and how far the view is scrolled into it, and the damage that *)
(* tells the next frame which lines to read again.  Cells have no content   *)
(* here: what depends on it (where wrapped text starts, how many lines hold *)
(* text, where reflow puts the cursor) is a parameter.                      *)
(*                                                                         *)
(* The PTY thread applies one handler at a time under the terminal's lock;  *)
(* the window's thread scrolls, resizes, reconfigures and draws under the   *)
(* same lock.  A handler is an operator from one terminal state to the      *)
(* next.  A run of text, REP and a counted tab are their repeated steps.    *)
(***************************************************************************)
EXTENDS Integers, FiniteSetsExt

CONSTANTS
  Sizes,        \* [lines, columns] the window takes
  Limits,       \* values of the option scrolling_history
  TabEvery,     \* INITIAL_TABSTOPS
  Counts,       \* parameters of a sequence: distances, lines, columns
  MaxTermSteps  \* handlers run

VARIABLES
  term,   \* Term: one record, see TypeOK
  ran     \* handlers run so far

termVars == <<term, ran>>

Modes == {"ORIGIN", "LINE_WRAP", "INSERT", "LINE_FEED_NEW_LINE", "ALT_SCREEN"}

MinOf(a, b) == IF a < b THEN a ELSE b
MaxOf(a, b) == IF a > b THEN a ELSE b

\* The lines and the columns of the screen.
Lines(t)   == 0 .. t.lines - 1
Columns(t) == 0 .. t.columns - 1

(***************************************************************************)
(* Grid: a cursor, a saved cursor, the history and the view's offset.       *)
(***************************************************************************)
Home     == [line |-> 0, column |-> 0, wrap |-> FALSE]
NewGrid(limit) == [cursor |-> Home, saved |-> Home, history |-> 0, offset |-> 0, limit |-> limit]

\* Grid::scroll_up(): the view keeps its text, and lines leave a region at the top into history.
GridScrollUp(g, start, end, positions) ==
  IF end - start <= positions /\ start # 0 THEN g
  ELSE [g EXCEPT !.offset  = IF @ # 0 THEN MinOf(@ + positions, g.limit) ELSE @,
                 !.history = IF start = 0 THEN @ + MinOf(positions, g.limit - @) ELSE @]

clear_history(g) == [g EXCEPT !.history = 0, !.offset = 0]

\* Grid::reset().
GridReset(g) == [clear_history(g) EXCEPT !.cursor = Home, !.saved = Home]

update_history(g, limit) ==
  [g EXCEPT !.history = MinOf(@, limit), !.offset = MinOf(@, limit), !.limit = limit]

\* Grid::scroll_display().
GridScrollDisplay(g, delta) == [g EXCEPT !.offset = MinOf(MaxOf(@ + delta, 0), g.history)]

decrease_scroll_limit(g, count) ==
  IF MinOf(count, g.history) = 0 THEN g
  ELSE [g EXCEPT !.history = @ - MinOf(count, @),
                 !.offset  = MinOf(@, g.history - MinOf(count, g.history))]

grow_lines(g, lines, target) ==
  LET added        == target - lines
      from_history == MinOf(g.history, added)
      scrolled     == IF from_history = added THEN g
                      ELSE GridScrollUp(g, 0, target, added - from_history)
      moved        == [scrolled EXCEPT !.cursor.line = @ + from_history,
                                       !.saved.line  = @ + from_history,
                                       !.offset      = MaxOf(@ - added, 0)]
  IN  decrease_scroll_limit(moved, added)

shrink_lines(g, lines, target) ==
  LET required == MaxOf(g.cursor.line + 1 - target, 0)
      scrolled == IF required = 0 THEN g
                  ELSE [GridScrollUp(g, 0, lines, required) EXCEPT
                          !.cursor.line = MinOf(@, target - 1)]
  IN  [scrolled EXCEPT !.saved.line = MinOf(@, target - 1)]

\* grow_columns() and shrink_columns(): without reflow the cursors are clamped; with it the text,
\* which is not here, decides where the cursor lands and how much history there is.
ResizeColumns(g, columns, target, reflow, r) ==
  LET flowed == IF reflow THEN [g EXCEPT !.cursor = r.cursor, !.history = MinOf(r.history, g.limit)]
                ELSE [g EXCEPT !.cursor.column = MinOf(@, target - 1)]
  IN  IF columns = target THEN g
      ELSE [flowed EXCEPT !.saved.column = MinOf(@, target - 1),
                          !.offset       = MinOf(@, flowed.history)]

\* Grid::resize().
GridResize(g, t, size, reflow, r) ==
  LET tall == IF size.lines > t.lines THEN grow_lines(g, t.lines, size.lines)
              ELSE IF size.lines < t.lines THEN shrink_lines(g, t.lines, size.lines) ELSE g
  IN  ResizeColumns(tall, t.columns, size.columns, reflow, r)

(***************************************************************************)
(* Damage.  A fully damaged terminal keeps no lines: the next reset_damage()*)
(* clears both.  Every glyph written is on the cursor's line (overwriting a  *)
(* wide glyph also drops a layout flag of the blank cell before it, maybe    *)
(* one line up).                                                           *)
(***************************************************************************)
mark_fully_damaged(t) == [t EXCEPT !.full = TRUE, !.damaged = {}, !.changed = {}]

damage_cursor(t) ==
  IF t.full THEN t ELSE [t EXCEPT !.damaged = @ \cup {t.grid.cursor.line}]

\* Cells of the cursor's line are written: the ghost the damage is held against.
Write(t) == IF t.full THEN t ELSE [t EXCEPT !.changed = @ \cup {t.grid.cursor.line}]

(***************************************************************************)
(* Scrolling and moving the cursor.                                        *)
(***************************************************************************)
scroll_up_relative(t, origin, lines) ==
  LET n == MinOf(lines, t.region.end - t.region.start)
  IN  mark_fully_damaged([t EXCEPT !.grid = GridScrollUp(@, origin, t.region.end, n)])

\* Grid::scroll_down() touches neither the history nor the view.
scroll_down_relative(t, origin, lines) == mark_fully_damaged(t)

scroll_up(t, lines)   == scroll_up_relative(t, t.region.start, lines)
scroll_down(t, lines) == scroll_down_relative(t, t.region.start, lines)

\* Mutant: the line the cursor moves to is not damaged, nor the one it leaves.
linefeed_mut(t) ==
  LET next == t.grid.cursor.line + 1 IN
    IF next = t.region.end THEN scroll_up(t, 1)
    ELSE IF next < t.lines THEN [t EXCEPT !.grid.cursor.line = next] ELSE t

linefeed(t) ==
  LET next == t.grid.cursor.line + 1 IN
    IF next = t.region.end THEN scroll_up(t, 1)
    ELSE IF next < t.lines
         THEN damage_cursor([damage_cursor(t) EXCEPT !.grid.cursor.line = next])
         ELSE t

carriage_return(t) ==
  [damage_cursor(t) EXCEPT !.grid.cursor.column = 0, !.grid.cursor.wrap = FALSE]

newline(t) ==
  IF "LINE_FEED_NEW_LINE" \in t.mode THEN carriage_return(linefeed(t)) ELSE linefeed(t)

\* wrapline() and wrapline_recycling(): without LINE_WRAP nothing moves.
wrapline(t) ==
  LET down == IF t.grid.cursor.line + 1 >= t.region.end THEN linefeed(t)
              ELSE [damage_cursor(t) EXCEPT !.grid.cursor.line = @ + 1]
  IN  IF "LINE_WRAP" \notin t.mode THEN t
      ELSE damage_cursor([down EXCEPT !.grid.cursor.column = 0, !.grid.cursor.wrap = FALSE])

goto(t, line, column) ==
  LET origin == "ORIGIN" \in t.mode
      offset == IF origin THEN t.region.start ELSE 0
      max_y  == IF origin THEN t.region.end - 1 ELSE t.lines - 1
  IN  damage_cursor([damage_cursor(t) EXCEPT
        !.grid.cursor = [line   |-> MaxOf(MinOf(line + offset, max_y), 0),
                         column |-> MinOf(column, t.columns - 1),
                         wrap   |-> FALSE]])

(***************************************************************************)
(* Printing.                                                               *)
(***************************************************************************)
\* The cursor moves past what was written, or waits in the last column for the next wrap.
Advance(t) ==
  IF t.grid.cursor.column + 1 < t.columns THEN [t EXCEPT !.grid.cursor.column = @ + 1]
  ELSE [t EXCEPT !.grid.cursor.wrap = TRUE]

\* A wide glyph that does not fit: a spacer and a wrap, or nothing without LINE_WRAP.
WideGlyph(t) ==
  LET fits == t.grid.cursor.column + 1 < t.columns
      at   == IF fits THEN t ELSE wrapline(Write(t))
  IN  IF ~fits /\ "LINE_WRAP" \notin t.mode THEN [t EXCEPT !.grid.cursor.wrap = TRUE]
      ELSE Advance([Write(at) EXCEPT !.grid.cursor.column = @ + 1])

\* input() of a character that takes `width` cells.
input(t, width) ==
  LET at == IF t.grid.cursor.wrap THEN wrapline(t) ELSE t IN
    CASE width = 0 -> Write(t)
      [] width = 1 -> Advance(Write(at))
      [] width = 2 -> WideGlyph(at)

\* One row segment of write_ascii_run() or write_text_run().
WriteSegment(t, count) ==
  LET at  == IF t.grid.cursor.wrap THEN wrapline(t) ELSE t
      end == MinOf(at.grid.cursor.column + count, t.columns)
  IN  [Write(at) EXCEPT !.grid.cursor.wrap = (end = t.columns),
                        !.grid.cursor.column = MinOf(end, t.columns - 1)]

\* The runs take the segment writer only with LINE_WRAP set and INSERT not.
input_str(t, count) ==
  IF "LINE_WRAP" \in t.mode /\ "INSERT" \notin t.mode THEN WriteSegment(t, count) ELSE input(t, 1)

\* The next tab stop, or the last column.
TabFrom(t, column) ==
  LET stops == {c \in Columns(t) : c > column /\ t.tabs[c]}
  IN  IF stops = {} THEN t.columns - 1 ELSE Min(stops)

put_tab(t) ==
  IF t.grid.cursor.wrap THEN wrapline(t)
  ELSE [Write(t) EXCEPT !.grid.cursor.column = TabFrom(t, @)]

move_forward_tabs(t) == damage_cursor([t EXCEPT !.grid.cursor.column = TabFrom(t, @)])

move_backward_tabs(t) ==
  LET before == {c \in Columns(t) : c < t.grid.cursor.column /\ t.tabs[c]} IN
    damage_cursor([t EXCEPT !.grid.cursor.column = IF before = {} THEN @ ELSE Max(before)])

(***************************************************************************)
(* Cursor motion and editing within a line.                                *)
(***************************************************************************)
move_up(t, lines)   == goto(t, t.grid.cursor.line - lines, t.grid.cursor.column)
move_down(t, lines) == goto(t, t.grid.cursor.line + lines, t.grid.cursor.column)
goto_line(t, line)  == goto(t, line, t.grid.cursor.column)
goto_col(t, column) == goto(t, t.grid.cursor.line, column)
move_down_and_cr(t, lines) == goto(t, t.grid.cursor.line + lines, 0)
move_up_and_cr(t, lines)   == goto(t, t.grid.cursor.line - lines, 0)

MoveTo(t, column) ==
  [damage_cursor(t) EXCEPT !.grid.cursor.column = column, !.grid.cursor.wrap = FALSE]

move_forward(t, columns)  == MoveTo(t, MinOf(t.grid.cursor.column + columns, t.columns - 1))
move_backward(t, columns) == MoveTo(t, MaxOf(t.grid.cursor.column - columns, 0))

backspace(t) ==
  IF t.grid.cursor.column > 0 THEN MoveTo(t, t.grid.cursor.column - 1) ELSE t

reverse_index(t) ==
  IF t.grid.cursor.line = t.region.start THEN scroll_down(t, 1)
  ELSE damage_cursor([damage_cursor(t) EXCEPT !.grid.cursor.line = MaxOf(@ - 1, 0)])

\* insert_blank(), erase_chars() and delete_chars(): cells of the cursor's line.
EditLine(t) == Write(damage_cursor(t))

\* clear_line(): to the right of a cursor that waits for a wrap there is nothing.
clear_line(t, right) == IF right /\ t.grid.cursor.wrap THEN t ELSE EditLine(t)

InRegion(t) == t.grid.cursor.line \in t.region.start .. t.region.end - 1

insert_blank_lines(t, lines) ==
  IF InRegion(t) THEN scroll_down_relative(t, t.grid.cursor.line, lines) ELSE t

delete_lines(t, lines) ==
  LET n == MinOf(t.lines - t.grid.cursor.line, lines) IN
    IF n > 0 /\ InRegion(t) THEN scroll_up_relative(t, t.grid.cursor.line, n) ELSE t

save_cursor_position(t)    == [t EXCEPT !.grid.saved = t.grid.cursor]
restore_cursor_position(t) ==
  damage_cursor([damage_cursor(t) EXCEPT !.grid.cursor = t.grid.saved])

(***************************************************************************)
(* Clearing, tab stops, regions, modes.                                    *)
(***************************************************************************)
\* ED above and below, and decaln(): cells only.
ClearCells(t) == mark_fully_damaged(t)

\* ED all: the `used` lines that hold text go into the primary screen's history.
ClearAll(t, used) ==
  IF "ALT_SCREEN" \in t.mode THEN mark_fully_damaged(t)
  ELSE mark_fully_damaged([t EXCEPT !.grid = GridScrollUp(@, 0, t.lines, MinOf(used, t.lines))])

\* ED saved.
ClearSaved(t) == mark_fully_damaged([t EXCEPT !.grid = IF @.history > 0 THEN clear_history(@) ELSE @])

\* clear_buffer(): the wrapped line the cursor is on starts `above` lines higher.
clear_buffer(t, above) ==
  LET start == MaxOf(t.grid.cursor.line - above, 0)
      grid  == clear_history(GridScrollUp(t.grid, 0, t.lines, start))
  IN  mark_fully_damaged([t EXCEPT !.grid = [grid EXCEPT !.cursor.line = @ - start]])

NewTabs(columns) == [c \in 0 .. columns - 1 |-> c % TabEvery = 0]

\* TabStops::resize(): columns kept keep their stops, new ones get the default.
ResizeTabs(tabs, columns) ==
  [c \in 0 .. columns - 1 |-> IF c \in DOMAIN tabs THEN tabs[c] ELSE c % TabEvery = 0]

set_horizontal_tabstop(t) == [t EXCEPT !.tabs[t.grid.cursor.column] = TRUE]
clear_tab(t)              == [t EXCEPT !.tabs[t.grid.cursor.column] = FALSE]
clear_all_tabs(t)         == [t EXCEPT !.tabs = [c \in DOMAIN @ |-> FALSE]]

set_scrolling_region(t, top, bottom) ==
  IF top >= bottom THEN t
  ELSE goto([t EXCEPT !.region = [start |-> MinOf(top - 1, t.lines),
                                  end   |-> MinOf(bottom, t.lines)]], 0, 0)

WholeScreen(lines) == [start |-> 0, end |-> lines]

\* DECCOLM clears the region and the screen, whichever way it is set.
deccolm(t) == mark_fully_damaged(set_scrolling_region(t, 1, t.lines))

set_origin(t)   == goto([t EXCEPT !.mode = @ \cup {"ORIGIN"}], 0, 0)
set_mode(t, m)  == [t EXCEPT !.mode = @ \cup {m}]
unset_mode(t, m) ==
  LET off == [t EXCEPT !.mode = @ \ {m}] IN
    IF m = "INSERT" THEN mark_fully_damaged(off) ELSE off

(***************************************************************************)
(* The two screens, resets, options and the window.                        *)
(***************************************************************************)
\* Entering takes the cursor along and overwrites the primary screen's saved one.
swap_alt(t) ==
  LET entering == "ALT_SCREEN" \notin t.mode
      primary  == [t.grid EXCEPT !.saved = IF entering THEN t.grid.cursor ELSE @]
      other    == [t.inactive EXCEPT !.cursor = IF entering THEN t.grid.cursor ELSE @]
  IN  mark_fully_damaged(
        [t EXCEPT !.grid = other, !.inactive = primary,
                  !.mode = IF entering THEN @ \cup {"ALT_SCREEN"} ELSE @ \ {"ALT_SCREEN"}])

Primary(t)   == IF "ALT_SCREEN" \in t.mode THEN t.inactive ELSE t.grid
Alternate(t) == IF "ALT_SCREEN" \in t.mode THEN t.grid ELSE t.inactive

\* RIS.
reset_state(t) ==
  mark_fully_damaged(
    [t EXCEPT !.grid = GridReset(Primary(t)), !.inactive = GridReset(Alternate(t)),
              !.region = WholeScreen(t.lines), !.tabs = NewTabs(t.columns),
              !.mode = {"LINE_WRAP"}])

\* The recovery that keeps the primary screen and its scrollback.
reset_client_state(t) ==
  mark_fully_damaged(
    [t EXCEPT !.grid = Primary(t), !.inactive = GridReset(Alternate(t)),
              !.region = WholeScreen(t.lines), !.tabs = NewTabs(t.columns),
              !.mode = {"LINE_WRAP"}])

\* set_options(): the history limit is the primary screen's.
set_options(t, limit) ==
  mark_fully_damaged(
    IF "ALT_SCREEN" \in t.mode THEN [t EXCEPT !.inactive = update_history(@, limit)]
                               ELSE [t EXCEPT !.grid = update_history(@, limit)])

scroll_display(t, delta) ==
  LET moved == [t EXCEPT !.grid = GridScrollDisplay(@, delta)] IN
    IF moved.grid.offset = t.grid.offset THEN t ELSE mark_fully_damaged(moved)

\* resize(): both grids, the primary one with reflow; region, tabs and damage follow.
resize(t, size, r) ==
  LET alt == "ALT_SCREEN" \in t.mode IN
    IF size = [lines |-> t.lines, columns |-> t.columns] THEN t
    ELSE mark_fully_damaged(
      [t EXCEPT !.grid     = GridResize(@, t, size, ~alt, r),
                !.inactive = GridResize(@, t, size, alt, r),
                !.lines = size.lines, !.columns = size.columns,
                !.tabs = ResizeTabs(@, size.columns),
                !.region = WholeScreen(size.lines),
                !.last = 0])

\* The lines damage() reports: those damaged, the last frame's cursor and this one's.
damage(t) ==
  IF t.full \/ "INSERT" \in t.mode THEN Lines(t)
  ELSE t.damaged \cup {t.last, t.grid.cursor.line}

\* A frame: damage() and reset_damage() under one lock.
Draw(t) ==
  [t EXCEPT !.full = FALSE, !.damaged = {}, !.changed = {}, !.last = t.grid.cursor.line]

(***************************************************************************)
(* The specification.                                                      *)
(***************************************************************************)
\* Term::new().
Init ==
  /\ \E size \in Sizes, limit \in Limits :
       term = [lines |-> size.lines, columns |-> size.columns,
               grid |-> NewGrid(limit), inactive |-> NewGrid(0),
               region |-> WholeScreen(size.lines), tabs |-> NewTabs(size.columns),
               mode |-> {"LINE_WRAP"},
               full |-> TRUE, damaged |-> {}, last |-> 0, changed |-> {}]
  /\ ran = 0

Run(t) == ran < MaxTermSteps /\ term' = t /\ ran' = ran + 1

Prints == \E n \in Counts \cup {0} : \/ n <= 2 /\ Run(input(term, n))
                                     \/ n > 0 /\ Run(input_str(term, n))
Control == \/ Run(linefeed(term)) \/ Run(newline(term)) \/ Run(carriage_return(term))
           \/ Run(backspace(term)) \/ Run(put_tab(term)) \/ Run(reverse_index(term))
Motion ==
  \E n \in Counts :
    \/ Run(move_up(term, n)) \/ Run(move_down(term, n))
    \/ Run(move_forward(term, n)) \/ Run(move_backward(term, n))
    \/ Run(goto_line(term, n - 1)) \/ Run(goto_col(term, n - 1))
    \/ Run(move_down_and_cr(term, n)) \/ Run(move_up_and_cr(term, n))
Tabs == \/ Run(move_forward_tabs(term)) \/ Run(move_backward_tabs(term))
        \/ Run(set_horizontal_tabstop(term)) \/ Run(clear_tab(term)) \/ Run(clear_all_tabs(term))
Edit ==
  \/ Run(EditLine(term))
  \/ \E right \in BOOLEAN : Run(clear_line(term, right))
  \/ \E n \in Counts : \/ Run(insert_blank_lines(term, n)) \/ Run(delete_lines(term, n))
                       \/ Run(scroll_up(term, n)) \/ Run(scroll_down(term, n))
Clear == \/ Run(ClearCells(term)) \/ Run(ClearSaved(term))
         \/ \E n \in Counts \cup {0} : Run(ClearAll(term, n)) \/ Run(clear_buffer(term, n))
Cursors == Run(save_cursor_position(term)) \/ Run(restore_cursor_position(term))
Regions == \/ \E top, bottom \in Counts : Run(set_scrolling_region(term, top, bottom))
           \/ Run(deccolm(term))
ModeChange ==
  \/ Run(set_origin(term))
  \/ \E m \in {"LINE_WRAP", "INSERT", "LINE_FEED_NEW_LINE"} : Run(set_mode(term, m))
  \/ \E m \in Modes \ {"ALT_SCREEN"} : Run(unset_mode(term, m))
  \/ Run(swap_alt(term))
Resets == Run(reset_state(term)) \/ Run(reset_client_state(term))

\* The window's thread.
Window ==
  \/ Run(Draw(term))
  \/ \E limit \in Limits : Run(set_options(term, limit))
  \/ \E n \in Counts : Run(scroll_display(term, n)) \/ Run(scroll_display(term, -n))
  \/ \E size \in Sizes, history \in UNION {0 .. limit : limit \in Limits}, wrap \in BOOLEAN :
       \E line \in 0 .. size.lines - 1, column \in 0 .. size.columns - 1 :
         Run(resize(term, size,
                    [cursor |-> [line |-> line, column |-> column, wrap |-> wrap],
                     history |-> history]))

Next ==
  \/ Prints \/ Control \/ Motion \/ Tabs \/ Edit \/ Clear \/ Cursors \/ Regions \/ ModeChange
  \/ Resets \/ Window

Spec == Init /\ [][Next]_termVars

(***************************************************************************)
(* Properties.                                                             *)
(***************************************************************************)
Inside(t, cursor) == cursor.line \in Lines(t) /\ cursor.column \in Columns(t)

\* The active cursor, both saved cursors and the hidden screen's cursor index a row, a cell and a
\* tab stop that exist, whatever regions, origin mode, screen swaps and resizes came between.
CursorsInside ==
  /\ \A g \in {term.grid, term.inactive} : Inside(term, g.cursor) /\ Inside(term, g.saved)
  /\ DOMAIN term.tabs = Columns(term)
  /\ 0 <= term.region.start /\ term.region.start <= term.region.end
  /\ term.region.end <= term.lines
  /\ term.last \in Lines(term)

\* No line a handler wrote since the last frame is missing from what damage() reports: a frame
\* with no damage may reuse the last one's cells.
ChangesDamaged == term.changed \subseteq damage(term)

\* The terminal's positions stay inside it and its changes reach the next frame.
ScreenKept == CursorsInside /\ ChangesDamaged

\* The view starts at a line that exists: Storage::compute_index() asserts it for every row it
\* is asked for, and Grid::display_iter() starts at the view's first line.
ViewInHistory == term.grid.offset <= term.grid.history
=============================================================================
