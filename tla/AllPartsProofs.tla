--------------------------- MODULE AllPartsProofs ---------------------------
(***************************************************************************)
(* What the proofs about each part say of the run of all of them: while     *)
(* the part runs its own inductive invariant holds, and when another one    *)
(* runs its variables do not change.  The terminal is one of the parts that *)
(* AllParts adds: its invariant and its lemmas stand here, at the end.      *)
(***************************************************************************)
EXTENDS AllParts, PartsProofs

(* The lane of the run is the lane: its theorems hold of PartsSpec.          *)
THEOREM PartsHaveTheLane == PartsSpec => Spec
<1>1. PartsInit => Init
  BY DEF PartsInit
<1>2. [PartsNext]_partsVars => [Next]_vars
  BY DEF PartsNext, partsVars
<1>. QED BY <1>1, <1>2, PTL DEF PartsSpec, Spec

-----------------------------------------------------------------------------
(* While the read-ahead runs, its invariant holds.                           *)
LEMMA GatherInvariance ==
  PartsSpec => [](part = "gather" => GatherInv)
<1>. DEFINE Inv == part = "gather" => GatherInv
<1>1. PartsInit => Inv
  BY PartsAssumption, GatherInit DEF PartsInit
<1>2. Inv /\ [PartsNext]_partsVars => Inv'
  <2>. SUFFICES ASSUME Inv, [PartsNext]_partsVars, part' = "gather"
                PROVE  GatherInv'
    OBVIOUS
  <2>1. part = "gather" /\ GatherInv
    BY DEF PartsNext, partsVars
  <2>2. Ahead!Next \/ UNCHANGED Ahead!vars
    BY <2>1 DEF PartsNext, partsVars, ownVars, aheadVars, Ahead!vars
  <2>. QED BY <2>1, <2>2, PartsAssumption, GatherStep
<1>. QED BY <1>1, <1>2, PTL DEF PartsSpec

(* Reading ahead loses, repeats and reorders nothing of what the child       *)
(* wrote, gives every buffer back and leaves nothing in the queue without    *)
(* a notification (tty/gather.rs), for any number and size of buffers, any   *)
(* amount of output and any number of resets.                                *)
THEOREM ReadsAhead ==
  PartsSpec => []ReadAhead
<1>1. (part = "gather" => GatherInv) => ReadAhead
  BY PartsAssumption, AheadOfParser DEF ReadAhead
<1>. QED BY <1>1, GatherInvariance, PTL

(* The queue and the socket never hold more than SLOTS batches and the end   *)
(* of the output.                                                            *)
THEOREM QueueIsBounded ==
  PartsSpec => [](part = "gather" => Ahead!TypeOK)
<1>1. (part = "gather" => GatherInv) => (part = "gather" => Ahead!TypeOK)
  BY PartsAssumption, QueueBounded
<1>. QED BY <1>1, GatherInvariance, PTL

-----------------------------------------------------------------------------
(* A client signals only the daemon whose record it read; and starts, ends   *)
(* and reapings that do not overlap keep a running daemon's record and       *)
(* socket, and leave nothing behind that locks the name, but for a record    *)
(* the next start cannot validate (session.rs), for any number of lives,     *)
(* clients and PIDs, any socket paths and any protocol versions.             *)
THEOREM SessionsAreKept ==
  PartsSpec => []SessionsKept
<1>. DEFINE Inv == part = "sessions" => SessionInv
<1>1. PartsInit => Inv
  BY PartsAssumption, SessionsInit DEF PartsInit
<1>2. Inv /\ [PartsNext]_partsVars => Inv'
  <2>. SUFFICES ASSUME Inv, [PartsNext]_partsVars, part' = "sessions"
                PROVE  SessionInv'
    OBVIOUS
  <2>1. part = "sessions" /\ SessionInv
    BY DEF PartsNext, partsVars
  <2>2. Disk!Next \/ UNCHANGED Disk!vars
    BY <2>1 DEF PartsNext, partsVars, ownVars, diskVars, Disk!vars
  <2>. QED BY <2>1, <2>2, PartsAssumption, SessionsStep
<1>3. Inv => SessionsKept
  BY DEF SessionInv, Always, Orderly, SessionsKept, Disk!SessionsKept
<1>. QED BY <1>1, <1>2, <1>3, PTL DEF PartsSpec

(* Text jobs end, and what a batch retained is charged, within the limits    *)
(* and has a window (vivid/overlay_text.rs), for any limits and any number   *)
(* of sessions.                                                              *)
THEOREM TextIsKept ==
  PartsSpec => []TextKept
<1>. DEFINE Inv == part = "text" => TextInv
<1>1. PartsInit => Inv
  BY PartsAssumption, TextInit DEF PartsInit
<1>2. Inv /\ [PartsNext]_partsVars => Inv'
  <2>. SUFFICES ASSUME Inv, [PartsNext]_partsVars, part' = "text"
                PROVE  TextInv'
    OBVIOUS
  <2>1. part = "text" /\ TextInv
    BY DEF PartsNext, partsVars
  <2>2. Text!Next \/ UNCHANGED Text!vars
    BY <2>1 DEF PartsNext, partsVars, ownVars, textVars, Text!vars, Text!locks
  <2>. QED BY <2>1, <2>2, PartsAssumption, TextStep
<1>3. Inv => TextKept
  BY DEF TextInv, TextTypes, TextKept, Text!TextKept
<1>. QED BY <1>1, <1>2, <1>3, PTL DEF PartsSpec

(* The table of the desktop's notifications stays within its limit and true, *)
(* and a task the worker forgot has been told to close or is about to be     *)
(* (osc_notification.rs), for any limit, any size of the queues, any number  *)
(* of identifiers and of requests.                                           *)
THEOREM NotificationsAreKept ==
  PartsSpec => []NotificationsKept
<1>. DEFINE Inv == part = "notify" => NotesInv
<1>1. PartsInit => Inv
  BY PartsAssumption, NotesInit DEF PartsInit
<1>2. Inv /\ [PartsNext]_partsVars => Inv'
  <2>. SUFFICES ASSUME Inv, [PartsNext]_partsVars, part' = "notify"
                PROVE  NotesInv'
    OBVIOUS
  <2>1. part = "notify" /\ NotesInv
    BY DEF PartsNext, partsVars
  <2>2. Notes!Next \/ UNCHANGED Notes!noteVars
    BY <2>1 DEF PartsNext, partsVars, ownVars, notesVars, Notes!noteVars, Notes!controllerVars,
       Notes!workerVars, Notes!taskVars
  <2>. QED BY <2>1, <2>2, PartsAssumption, NotesStep
<1>3. Inv => NotificationsKept
  BY DEF NotesInv, NotificationsKept, Notes!NotificationsKept
<1>. QED BY <1>1, <1>2, <1>3, PTL DEF PartsSpec

(* Input reaches the child in the order it was sent and is reported written  *)
(* exactly when it was, nothing waits without a wake-up, and the worker's    *)
(* end is heard last, after its faults (event_loop.rs), for any messages,    *)
(* any output and with or without the drain at the child's exit.             *)
THEOREM WorkerIsOrderly ==
  PartsSpec => []PtyWorker
<1>. DEFINE Inv == part = "pty" => PtyInv
<1>1. PartsInit => Inv
  BY PtyInit DEF PartsInit
<1>2. Inv /\ [PartsNext]_partsVars => Inv'
  <2>. SUFFICES ASSUME Inv, [PartsNext]_partsVars, part' = "pty"
                PROVE  PtyInv'
    OBVIOUS
  <2>1. part = "pty" /\ PtyInv
    BY DEF PartsNext, partsVars
  <2>2. Pty!Next \/ UNCHANGED Pty!vars
    BY <2>1 DEF PartsNext, partsVars, ownVars, ptyVars, Pty!vars
  <2>. QED BY <2>1, <2>2, PtyStep
<1>3. Inv => PtyWorker
  BY DEF PtyInv, PtyWorker, Pty!PtyWorker
<1>. QED BY <1>1, <1>2, <1>3, PTL DEF PartsSpec

(* A transfer belongs to an offer of its binding and is served by one        *)
(* connection while it is active, a connection whose source was cancelled or *)
(* moved on was told to stop, a drop that is over holds no file, and a path  *)
(* is typed at most once (vivid/file_drop.rs), for any number of             *)
(* connections, drops and generations and any limits.                        *)
THEOREM DropsAreKept ==
  PartsSpec => []DropsKept
<1>. DEFINE Inv == part = "drop" => DropInv
<1>1. PartsInit => Inv
  BY PartsAssumption, DropInit DEF PartsInit, DropAssumption
<1>2. Inv /\ [PartsNext]_partsVars => Inv'
  <2>. SUFFICES ASSUME Inv, [PartsNext]_partsVars, part' = "drop"
                PROVE  DropInv'
    OBVIOUS
  <2>1. part = "drop" /\ DropInv
    BY DEF PartsNext, partsVars
  <2>2. Drops!Next \/ UNCHANGED Drops!vars
    BY <2>1 DEF PartsNext, partsVars, ownVars, dropVars, Drops!vars
  <2>. QED BY <2>1, <2>2, DropStep
<1>3. Inv => DropsKept
  BY DropPromise DEF DropsKept
<1>. QED BY <1>1, <1>2, <1>3, PTL DEF PartsSpec

-----------------------------------------------------------------------------
(***************************************************************************)
(* The terminal's positions, for any sizes, limits, tab width and          *)
(* distances.  Every handler keeps Sound: the parts of the terminal fit     *)
(* each other (Fits), and what was written since the last frame is covered *)
(* by the damage, by the last frame's cursor or by the cursor's line        *)
(* (Covered).                                                              *)
(***************************************************************************)
Positions == [line : Nat, column : Nat, wrap : BOOLEAN]
Grids == [cursor : Positions, saved : Positions, history : Nat, offset : Int, limit : Nat]
TabStops == UNION {[0 .. c - 1 -> BOOLEAN] : c \in Nat}
Terms ==
  [lines : Nat \ {0}, columns : Nat \ {0, 1}, grid : Grids, inactive : Grids,
   region : [start : Nat, end : Nat], tabs : TabStops, mode : SUBSET Screen!Modes, full : BOOLEAN,
   damaged : SUBSET Nat, last : Nat, changed : SUBSET Nat]

(* A grid fits a screen.                                                     *)
Held(cursor, lines, columns) == cursor.line < lines /\ cursor.column < columns
GridFits(g, lines, columns) ==
  /\ g \in Grids
  /\ Held(g.cursor, lines, columns) /\ Held(g.saved, lines, columns)
  /\ g.history <= g.limit

Fits(t) ==
  /\ t \in Terms
  /\ GridFits(t.grid, t.lines, t.columns) /\ GridFits(t.inactive, t.lines, t.columns)
  /\ t.region.start <= t.region.end /\ t.region.end <= t.lines
  /\ DOMAIN t.tabs = 0 .. t.columns - 1
  /\ t.last < t.lines
  /\ t.changed \subseteq Screen!Lines(t)

(* The damage holds what was written, whatever the cursor does next.         *)
Settled(t) == t.full \/ "INSERT" \in t.mode \/ t.changed \subseteq t.damaged \cup {t.last}
Covered(t) ==
  \/ t.full \/ "INSERT" \in t.mode
  \/ t.changed \subseteq t.damaged \cup {t.last, t.grid.cursor.line}

Sound(t) == Fits(t) /\ Covered(t)
TermInv == Sound(term)

LEMMA MinMax ==
  ASSUME NEW a \in Int, NEW b \in Int
  PROVE  /\ Screen!MinOf(a, b) \in {a, b} /\ Screen!MinOf(a, b) <= a /\ Screen!MinOf(a, b) <= b
         /\ Screen!MaxOf(a, b) \in {a, b} /\ Screen!MaxOf(a, b) >= a /\ Screen!MaxOf(a, b) >= b
BY DEF Screen!MinOf, Screen!MaxOf

(* The damage takes in everything.                                           *)
LEMMA AllDamaged ==
  ASSUME NEW t, Fits(t)
  PROVE  Sound(Screen!mark_fully_damaged(t))
<1>1. Screen!mark_fully_damaged(t) \in Terms
  BY DEF Fits, Terms, Screen!mark_fully_damaged
<1>. QED BY <1>1 DEF Fits, Terms, Sound, Covered, Screen!mark_fully_damaged, Screen!Lines

(* After damage_cursor() the damage no longer depends on the cursor.         *)
LEMMA Damaged ==
  ASSUME NEW t, Sound(t)
  PROVE  /\ Sound(Screen!damage_cursor(t)) /\ Settled(Screen!damage_cursor(t))
         /\ Screen!damage_cursor(t) = [t EXCEPT !.damaged = Screen!damage_cursor(t).damaged]
<1>1. t.grid.cursor.line \in Nat /\ t.damaged \subseteq Nat /\ t \in Terms
  BY DEF Sound, Fits, Terms, Grids, Positions
<1>2. Screen!damage_cursor(t) \in Terms
  BY <1>1 DEF Terms, Screen!damage_cursor
<1>3. Screen!damage_cursor(t) = [t EXCEPT !.damaged = Screen!damage_cursor(t).damaged]
  BY <1>1 DEF Terms, Screen!damage_cursor
<1>4. Fits(Screen!damage_cursor(t))
  BY <1>2, <1>3 DEF Sound, Fits, Terms, Screen!Lines
<1>5. Settled(Screen!damage_cursor(t))
  BY <1>1 DEF Sound, Covered, Settled, Screen!damage_cursor, Terms
<1>6. Covered(Screen!damage_cursor(t))
  BY <1>5 DEF Settled, Covered
<1>. QED BY <1>3, <1>4, <1>5, <1>6 DEF Sound

(* The cursor may go anywhere on the screen when the damage is settled, and   *)
(* anywhere on its line when it is not.                                       *)
CursorAt(t, c) == [t EXCEPT !.grid.cursor = c]

LEMMA Moved ==
  ASSUME NEW t, Fits(t), NEW c \in Positions, Held(c, t.lines, t.columns),
         Settled(t) \/ (Covered(t) /\ c.line = t.grid.cursor.line)
  PROVE  Sound(CursorAt(t, c)) /\ (Settled(t) => Settled(CursorAt(t, c)))
<1>1. t.grid \in Grids /\ t \in Terms
  BY DEF Fits, GridFits
<1>2. [t.grid EXCEPT !.cursor = c] \in Grids
  BY <1>1 DEF Grids
<1>3. CursorAt(t, c) = [t EXCEPT !.grid = [t.grid EXCEPT !.cursor = c]]
  BY <1>1 DEF Terms, CursorAt
<1>4. CursorAt(t, c) \in Terms
  BY <1>1, <1>2, <1>3 DEF Terms
<1>5. CursorAt(t, c).grid = [t.grid EXCEPT !.cursor = c]
  BY <1>1, <1>3 DEF Terms
<1>6. GridFits(CursorAt(t, c).grid, t.lines, t.columns)
  BY <1>1, <1>2, <1>5 DEF Fits, GridFits, Grids
<1>7. Fits(CursorAt(t, c))
  BY <1>1, <1>3, <1>4, <1>6 DEF Fits, Terms, Screen!Lines
<1>8. Settled(t) => Settled(CursorAt(t, c))
  BY <1>1, <1>3 DEF Settled, Terms
<1>9. CursorAt(t, c).grid.cursor = c
  BY <1>1, <1>5 DEF Grids
<1>10. Covered(CursorAt(t, c))
  BY <1>1, <1>3, <1>8, <1>9 DEF Covered, Settled, Terms
<1>. QED BY <1>7, <1>8, <1>10 DEF Sound

(* What the state gives about the cursor.                                    *)
LEMMA CursorIs ==
  ASSUME NEW t, Fits(t)
  PROVE  /\ t.lines \in Nat \ {0} /\ t.columns \in Nat \ {0, 1}
         /\ t.grid.cursor \in Positions /\ t.grid.saved \in Positions
         /\ Held(t.grid.cursor, t.lines, t.columns) /\ Held(t.grid.saved, t.lines, t.columns)
         /\ t.grid.cursor.line \in Nat /\ t.grid.cursor.column \in Nat
         /\ t.grid.cursor.wrap \in BOOLEAN
         /\ t.grid.cursor.line < t.lines /\ t.grid.cursor.column < t.columns
BY DEF Fits, GridFits, Terms, Grids, Positions, Held

Point(line, column, wrap) == [line |-> line, column |-> column, wrap |-> wrap]

LEMMA Points ==
  ASSUME NEW line \in Nat, NEW column \in Nat, NEW wrap \in BOOLEAN
  PROVE  /\ Point(line, column, wrap) \in Positions
         /\ Point(line, column, wrap).line = line
         /\ Point(line, column, wrap).column = column
         /\ Point(line, column, wrap).wrap = wrap
         /\ \A lines, columns : line < lines /\ column < columns
              => Held(Point(line, column, wrap), lines, columns)
BY DEF Point, Positions, Held

LEMMA Written ==
  ASSUME NEW t, Sound(t)
  PROVE  Sound(Screen!Write(t)) /\ Screen!Write(t) = [t EXCEPT !.changed = Screen!Write(t).changed]
<1>1. t.grid.cursor.line \in Screen!Lines(t) /\ t.changed \subseteq Nat /\ t \in Terms
      /\ t.lines \in Nat /\ Screen!Lines(t) \subseteq Nat
  <2>1. /\ t \in Terms /\ t.lines \in Nat /\ t.grid.cursor.line \in Nat
        /\ t.grid.cursor.line < t.lines /\ t.changed \subseteq Screen!Lines(t)
    BY CursorIs DEF Sound, Fits
  <2>. QED BY <2>1 DEF Screen!Lines
<1>2. Screen!Write(t) \in Terms
  BY <1>1 DEF Terms, Screen!Write
<1>3. Screen!Write(t) = [t EXCEPT !.changed = Screen!Write(t).changed]
  BY <1>1 DEF Terms, Screen!Write
<1>4. Screen!Write(t).changed \subseteq Screen!Lines(t)
  BY <1>1 DEF Sound, Fits, Terms, Screen!Write
<1>5. Fits(Screen!Write(t))
  BY <1>2, <1>3, <1>4 DEF Sound, Fits, Terms, Screen!Lines
<1>6. Covered(Screen!Write(t))
  BY <1>1 DEF Sound, Covered, Screen!Write, Terms
<1>. QED BY <1>3, <1>5, <1>6 DEF Sound

(* A field of the cursor is set.                                             *)
LEMMA Edited ==
  ASSUME NEW t, Fits(t), NEW x \in Nat, NEW w \in BOOLEAN
  PROVE  LET c == t.grid.cursor IN
         /\ [t EXCEPT !.grid.cursor.line = x] = CursorAt(t, Point(x, c.column, c.wrap))
         /\ [t EXCEPT !.grid.cursor.column = x] = CursorAt(t, Point(c.line, x, c.wrap))
         /\ [t EXCEPT !.grid.cursor.wrap = w] = CursorAt(t, Point(c.line, c.column, w))
         /\ [t EXCEPT !.grid.cursor.column = x, !.grid.cursor.wrap = w]
            = CursorAt(t, Point(c.line, x, w))
         /\ [t EXCEPT !.grid.cursor.wrap = w, !.grid.cursor.column = x]
            = CursorAt(t, Point(c.line, x, w))
         /\ CursorAt(t, x).grid.cursor = x
<1>1. t \in Terms /\ t.grid \in Grids /\ t.grid.cursor \in Positions
  BY CursorIs DEF Fits, GridFits
<1>. DEFINE c == t.grid.cursor
<1>2. /\ [c EXCEPT !.line = x] = Point(x, c.column, c.wrap)
      /\ [c EXCEPT !.column = x] = Point(c.line, x, c.wrap)
      /\ [c EXCEPT !.wrap = w] = Point(c.line, c.column, w)
      /\ [c EXCEPT !.column = x, !.wrap = w] = Point(c.line, x, w)
  <2>. HIDE DEF c
  <2>1. c \in Positions
    BY <1>1 DEF c
  <2>2. /\ [c EXCEPT !.line = x] \in Positions /\ [c EXCEPT !.column = x] \in Positions
        /\ [c EXCEPT !.wrap = w] \in Positions
        /\ [c EXCEPT !.column = x, !.wrap = w] \in Positions
    BY <2>1 DEF Positions
  <2>3. \A p, q \in Positions : p.line = q.line /\ p.column = q.column /\ p.wrap = q.wrap
          => p = q
    BY DEF Positions
  <2>4. /\ c.line \in Nat /\ c.column \in Nat /\ c.wrap \in BOOLEAN
    BY <2>1 DEF Positions
  <2>5. [c EXCEPT !.line = x] = Point(x, c.column, c.wrap)
    BY <2>1, <2>2, <2>3, <2>4, Points DEF Positions
  <2>6. [c EXCEPT !.column = x] = Point(c.line, x, c.wrap)
    BY <2>1, <2>2, <2>3, <2>4, Points DEF Positions
  <2>7. [c EXCEPT !.wrap = w] = Point(c.line, c.column, w)
    BY <2>1, <2>2, <2>3, <2>4, Points DEF Positions
  <2>8. [c EXCEPT !.column = x, !.wrap = w] = Point(c.line, x, w)
    <3>1. /\ [c EXCEPT !.column = x, !.wrap = w].line = c.line
          /\ [c EXCEPT !.column = x, !.wrap = w].column = x
          /\ [c EXCEPT !.column = x, !.wrap = w].wrap = w
      BY <2>1 DEF Positions
    <3>. DEFINE d == [c EXCEPT !.column = x, !.wrap = w]
    <3>2. /\ Point(c.line, x, w) \in Positions /\ Point(c.line, x, w).line = c.line
          /\ Point(c.line, x, w).column = x /\ Point(c.line, x, w).wrap = w
      BY <2>4, Points
    <3>. HIDE DEF d
    <3>3. d \in Positions /\ d.line = c.line /\ d.column = x /\ d.wrap = w
      BY <2>2, <3>1 DEF d
    <3>4. d = Point(c.line, x, w)
      BY <2>3, <3>2, <3>3
    <3>. QED BY <3>4 DEF d
  <2>. QED BY <2>5, <2>6, <2>7, <2>8
<1>3. \A y : CursorAt(t, y) = [t EXCEPT !.grid = [t.grid EXCEPT !.cursor = y]]
             /\ CursorAt(t, y).grid.cursor = y
  BY <1>1 DEF CursorAt, Terms, Grids
<1>. HIDE DEF c
<1>4. /\ [t EXCEPT !.grid.cursor.line = x]
         = [t EXCEPT !.grid = [t.grid EXCEPT !.cursor = [c EXCEPT !.line = x]]]
      /\ [t EXCEPT !.grid.cursor.column = x]
         = [t EXCEPT !.grid = [t.grid EXCEPT !.cursor = [c EXCEPT !.column = x]]]
      /\ [t EXCEPT !.grid.cursor.wrap = w]
         = [t EXCEPT !.grid = [t.grid EXCEPT !.cursor = [c EXCEPT !.wrap = w]]]
  BY DEF c
<1>5. [t EXCEPT !.grid.cursor.column = x, !.grid.cursor.wrap = w]
      = [t EXCEPT !.grid = [t.grid EXCEPT !.cursor = [c EXCEPT !.column = x, !.wrap = w]]]
  BY <1>1 DEF c, Terms, Grids
<1>6. [t EXCEPT !.grid.cursor.wrap = w, !.grid.cursor.column = x]
      = CursorAt(t, Point(c.line, x, w))
  <2>. DEFINE p == Point(c.line, c.column, w)
              u == [t EXCEPT !.grid.cursor.wrap = w]
  <2>1. u = CursorAt(t, p) /\ u.grid.cursor = p
    BY <1>2, <1>3, <1>4
  <2>2. [p EXCEPT !.column = x] = Point(c.line, x, w)
    BY <1>1, Points DEF c, Point, Positions
  <2>. HIDE DEF p, u
  <2>3. [u EXCEPT !.grid.cursor.column = x]
        = [u EXCEPT !.grid = [u.grid EXCEPT !.cursor = [p EXCEPT !.column = x]]]
    BY <2>1
  <2>4. u = [t EXCEPT !.grid = [t.grid EXCEPT !.cursor = p]]
    BY <2>1, <1>3
  <2>5. u.grid = [t.grid EXCEPT !.cursor = p]
    BY <2>4, <1>1 DEF Terms
  <2>6. \A q : [u.grid EXCEPT !.cursor = q] = [t.grid EXCEPT !.cursor = q]
    BY <2>5, <1>1 DEF Grids
  <2>7. \A h : [u EXCEPT !.grid = h] = [t EXCEPT !.grid = h]
    BY <2>4, <1>1 DEF Terms
  <2>8. [u EXCEPT !.grid.cursor.column = x] = CursorAt(t, Point(c.line, x, w))
    <3>. DEFINE q == Point(c.line, x, w)
                h == [t.grid EXCEPT !.cursor = q]
    <3>1. [u.grid EXCEPT !.cursor = q] = h
      BY <2>6
    <3>2. [u EXCEPT !.grid = h] = [t EXCEPT !.grid = h]
      BY <2>7
    <3>3. CursorAt(t, q) = [t EXCEPT !.grid = h]
      BY <1>3
    <3>4. [u EXCEPT !.grid.cursor.column = x] = [u EXCEPT !.grid = [u.grid EXCEPT !.cursor = q]]
      BY <2>2, <2>3
    <3>. HIDE DEF h, q
    <3>5. [u EXCEPT !.grid.cursor.column = x] = CursorAt(t, q)
      BY <3>1, <3>2, <3>3, <3>4
    <3>. QED BY <3>5 DEF q
  <2>. QED BY <2>8 DEF u
<1>. QED BY <1>2, <1>3, <1>4, <1>5, <1>6 DEF c

LEMMA EditedLine ==
  ASSUME NEW t, Fits(t), NEW x \in Nat
  PROVE  [t EXCEPT !.grid.cursor.line = x]
         = CursorAt(t, Point(x, t.grid.cursor.column, t.grid.cursor.wrap))
BY Edited

LEMMA EditedColumn ==
  ASSUME NEW t, Fits(t), NEW x \in Nat
  PROVE  [t EXCEPT !.grid.cursor.column = x]
         = CursorAt(t, Point(t.grid.cursor.line, x, t.grid.cursor.wrap))
BY Edited

LEMMA EditedWrap ==
  ASSUME NEW t, Fits(t), NEW w \in BOOLEAN
  PROVE  [t EXCEPT !.grid.cursor.wrap = w]
         = CursorAt(t, Point(t.grid.cursor.line, t.grid.cursor.column, w))
BY Edited

LEMMA EditedBoth ==
  ASSUME NEW t, Fits(t), NEW x \in Nat, NEW w \in BOOLEAN
  PROVE  [t EXCEPT !.grid.cursor.column = x, !.grid.cursor.wrap = w]
         = CursorAt(t, Point(t.grid.cursor.line, x, w))
BY Edited

LEMMA EditedWaiting ==
  ASSUME NEW t, Fits(t), NEW x \in Nat, NEW w \in BOOLEAN
  PROVE  [t EXCEPT !.grid.cursor.wrap = w, !.grid.cursor.column = x]
         = CursorAt(t, Point(t.grid.cursor.line, x, w))
BY Edited

(* A point on the screen.                                                    *)
LEMMA PointHeld ==
  ASSUME NEW t, Fits(t), NEW line \in Nat, NEW column \in Nat, NEW wrap \in BOOLEAN,
         line < t.lines, column < t.columns
  PROVE  LET c == Point(line, column, wrap) IN
         /\ c \in Positions /\ Held(c, t.lines, t.columns)
         /\ c.line = line /\ c.column = column /\ c.wrap = wrap
BY Points

(* Only the cursor moved.                                                    *)
LEMMA AtIs ==
  ASSUME NEW t, Fits(t), NEW c
  PROVE  /\ CursorAt(t, c).lines = t.lines /\ CursorAt(t, c).columns = t.columns
         /\ CursorAt(t, c).mode = t.mode /\ CursorAt(t, c).tabs = t.tabs
         /\ CursorAt(t, c).grid.cursor = c
<1>1. t \in Terms /\ t.grid \in Grids
  BY DEF Fits, GridFits
<1>2. CursorAt(t, c) = [t EXCEPT !.grid = [t.grid EXCEPT !.cursor = c]]
  BY <1>1 DEF CursorAt, Terms
<1>3. [t.grid EXCEPT !.cursor = c].cursor = c
  BY <1>1 DEF Grids
<1>. QED BY <1>1, <1>2, <1>3 DEF Terms

(* The cursor is set between two damage_cursor() calls, or after one.         *)
LEMMA Placed ==
  ASSUME NEW t, Sound(t), NEW c \in Positions, Held(c, t.lines, t.columns)
  PROVE  /\ Sound(CursorAt(Screen!damage_cursor(t), c))
         /\ Settled(CursorAt(Screen!damage_cursor(t), c))
         /\ Sound(Screen!damage_cursor(CursorAt(Screen!damage_cursor(t), c)))
         /\ Settled(Screen!damage_cursor(CursorAt(Screen!damage_cursor(t), c)))
<1>1. /\ Sound(Screen!damage_cursor(t)) /\ Settled(Screen!damage_cursor(t))
      /\ Screen!damage_cursor(t) = [t EXCEPT !.damaged = Screen!damage_cursor(t).damaged]
  BY Damaged
<1>2. t \in Terms
  BY DEF Sound, Fits
<1>3. Screen!damage_cursor(t).lines = t.lines /\ Screen!damage_cursor(t).columns = t.columns
  BY <1>1, <1>2 DEF Terms
<1>4. Sound(CursorAt(Screen!damage_cursor(t), c)) /\ Settled(CursorAt(Screen!damage_cursor(t), c))
  BY <1>1, <1>3, Moved DEF Sound
<1>. QED BY <1>4, Damaged

LEMMA SameFrame ==
  ASSUME NEW t, Sound(t)
  PROVE  /\ Screen!damage_cursor(t).lines = t.lines /\ Screen!damage_cursor(t).columns = t.columns
         /\ Screen!damage_cursor(t).grid = t.grid /\ Screen!damage_cursor(t).mode = t.mode
         /\ Screen!damage_cursor(t).tabs = t.tabs
         /\ Screen!Write(t).lines = t.lines /\ Screen!Write(t).columns = t.columns
         /\ Screen!Write(t).grid = t.grid /\ Screen!Write(t).mode = t.mode
         /\ Screen!Write(t).tabs = t.tabs
<1>1. t \in Terms
  BY DEF Sound, Fits
<1>2. /\ Screen!damage_cursor(t) = [t EXCEPT !.damaged = Screen!damage_cursor(t).damaged]
      /\ Screen!Write(t) = [t EXCEPT !.changed = Screen!Write(t).changed]
  BY Damaged, Written
<1>. QED BY <1>1, <1>2 DEF Terms

(* A grid scrolls: its cursors stay and its history stays within its limit.  *)
LEMMA Scrolled ==
  ASSUME NEW g, NEW lines, NEW columns, GridFits(g, lines, columns),
         NEW start \in Nat, NEW end \in Nat, NEW positions \in Nat
  PROVE  LET h == Screen!GridScrollUp(g, start, end, positions) IN
         /\ GridFits(h, lines, columns)
         /\ h.cursor = g.cursor /\ h.saved = g.saved /\ h.limit = g.limit
         /\ h.offset \in Int /\ h.history \in Nat
<1>1. /\ g \in Grids /\ g.history \in Nat /\ g.limit \in Nat /\ g.offset \in Int
      /\ g.history <= g.limit
  BY DEF GridFits, Grids
<1>. DEFINE offset == IF g.offset # 0 THEN Screen!MinOf(g.offset + positions, g.limit)
                      ELSE g.offset
            history == IF start = 0 THEN g.history + Screen!MinOf(positions, g.limit - g.history)
                       ELSE g.history
<1>2. offset \in Int
  BY <1>1 DEF Screen!MinOf
<1>3. history \in Nat /\ history <= g.limit
  BY <1>1 DEF Screen!MinOf
<1>4. Screen!GridScrollUp(g, start, end, positions) = g
      \/ Screen!GridScrollUp(g, start, end, positions)
         = [g EXCEPT !.offset = offset, !.history = history]
  BY DEF Screen!GridScrollUp
<1>. HIDE DEF offset, history
<1>5. [g EXCEPT !.offset = offset, !.history = history] \in Grids
  BY <1>1, <1>2, <1>3 DEF Grids
<1>6. /\ GridFits([g EXCEPT !.offset = offset, !.history = history], lines, columns)
      /\ [g EXCEPT !.offset = offset, !.history = history].cursor = g.cursor
      /\ [g EXCEPT !.offset = offset, !.history = history].saved = g.saved
      /\ [g EXCEPT !.offset = offset, !.history = history].limit = g.limit
  BY <1>1, <1>3, <1>5 DEF GridFits, Grids
<1>. QED BY <1>1, <1>4, <1>6, <1>5 DEF Grids, GridFits

LEMMA ScrollKeeps ==
  ASSUME NEW g, NEW lines, NEW columns, GridFits(g, lines, columns),
         NEW start \in Nat, NEW end \in Nat, NEW positions \in Nat
  PROVE  /\ Screen!GridScrollUp(g, start, end, positions).cursor = g.cursor
         /\ Screen!GridScrollUp(g, start, end, positions).saved = g.saved
BY Scrolled

(* The screen shown is replaced by one that fits.                            *)
LEMMA Replaced ==
  ASSUME NEW t, Fits(t), NEW g, GridFits(g, t.lines, t.columns)
  PROVE  Sound(Screen!mark_fully_damaged([t EXCEPT !.grid = g]))
<1>1. t \in Terms /\ g \in Grids
  BY DEF Fits, GridFits
<1>2. [t EXCEPT !.grid = g] \in Terms
  BY <1>1 DEF Terms
<1>3. Fits([t EXCEPT !.grid = g])
  BY <1>1, <1>2 DEF Fits, Terms, Screen!Lines
<1>. QED BY <1>3, AllDamaged

(* Handlers that scroll.                                                     *)
LEMMA ScrollsUp ==
  ASSUME NEW t, Sound(t), NEW origin \in Nat, NEW n \in Nat
  PROVE  /\ Sound(Screen!scroll_up_relative(t, origin, n))
         /\ Sound(Screen!scroll_down_relative(t, origin, n))
<1>1. /\ Fits(t) /\ t.region.start \in Nat /\ t.region.end \in Nat
      /\ t.region.start <= t.region.end /\ GridFits(t.grid, t.lines, t.columns)
  BY DEF Sound, Fits, Terms
<1>. DEFINE m == Screen!MinOf(n, t.region.end - t.region.start)
            g == Screen!GridScrollUp(t.grid, origin, t.region.end, m)
<1>2. m \in Nat
  BY <1>1 DEF Screen!MinOf
<1>. HIDE DEF m
<1>3. GridFits(g, t.lines, t.columns)
  BY <1>1, <1>2, Scrolled
<1>4. Screen!scroll_up_relative(t, origin, n) = Screen!mark_fully_damaged([t EXCEPT !.grid = g])
  BY DEF Screen!scroll_up_relative, m
<1>. HIDE DEF g
<1>5. Sound(Screen!scroll_up_relative(t, origin, n))
  BY <1>1, <1>3, <1>4, Replaced
<1>. QED BY <1>1, <1>5, AllDamaged DEF Screen!scroll_down_relative

LEMMA Scrolls ==
  ASSUME NEW t, Sound(t), NEW n \in Nat
  PROVE  Sound(Screen!scroll_up(t, n)) /\ Sound(Screen!scroll_down(t, n))
<1>1. t.region.start \in Nat
  BY DEF Sound, Fits, Terms
<1>. QED BY <1>1, ScrollsUp DEF Screen!scroll_up, Screen!scroll_down

(* A handler keeps the size of the screen.                                   *)
Sized(u, t) == u.lines = t.lines /\ u.columns = t.columns

LEMMA Linefeed ==
  ASSUME NEW t, Sound(t)
  PROVE  Sound(Screen!linefeed(t)) /\ Sound(Screen!newline(t)) /\ Sound(Screen!carriage_return(t))
<1>1. \A u : Sound(u) => Sound(Screen!carriage_return(u))
  <2>. SUFFICES ASSUME NEW u, Sound(u) PROVE Sound(Screen!carriage_return(u))
    OBVIOUS
  <2>. DEFINE d == Screen!damage_cursor(u)
              c == Point(u.grid.cursor.line, 0, FALSE)
  <2>1. Fits(d) /\ d.grid = u.grid
    BY Damaged, SameFrame DEF Sound
  <2>2. Screen!carriage_return(u) = CursorAt(d, c)
    <3>1. Screen!carriage_return(u)
          = [d EXCEPT !.grid.cursor.column = 0, !.grid.cursor.wrap = FALSE]
      BY DEF Screen!carriage_return
    <3>. HIDE DEF d
    <3>. QED BY <2>1, <3>1, EditedBoth
  <2>3. c \in Positions /\ Held(c, u.lines, u.columns)
    <3>1. Fits(u) /\ u.grid.cursor.line \in Nat /\ u.grid.cursor.line < u.lines /\ 0 < u.columns
      BY CursorIs DEF Sound
    <3>. QED BY <3>1, PointHeld
  <2>. HIDE DEF c
  <2>. QED BY <2>2, <2>3, Placed
<1>2. Sound(Screen!linefeed(t))
  <2>. DEFINE d == Screen!damage_cursor(t)
              n == t.grid.cursor.line + 1
              c == Point(n, t.grid.cursor.column, t.grid.cursor.wrap)
  <2>1. Fits(d) /\ d.grid = t.grid
    BY Damaged, SameFrame DEF Sound
  <2>2. n \in Nat /\ t.grid.cursor.column \in Nat /\ t.grid.cursor.wrap \in BOOLEAN
        /\ t.grid.cursor.column < t.columns
    BY CursorIs DEF Sound
  <2>3. CASE n = t.region.end
    BY <2>3, Scrolls DEF Screen!linefeed
  <2>4. CASE n # t.region.end /\ n < t.lines
    <3>1. c \in Positions /\ Held(c, t.lines, t.columns)
      BY <2>2, <2>4, Points
    <3>2. [d EXCEPT !.grid.cursor.line = n] = CursorAt(d, c)
      <4>. HIDE DEF d, n
      <4>. QED BY <2>1, <2>2, EditedLine
    <3>3. Screen!linefeed(t) = Screen!damage_cursor(CursorAt(d, c))
      BY <2>4, <3>2 DEF Screen!linefeed
    <3>. HIDE DEF c, n
    <3>. QED BY <3>1, <3>3, Placed
  <2>5. CASE n # t.region.end /\ ~(n < t.lines)
    BY <2>5 DEF Screen!linefeed
  <2>. QED BY <2>3, <2>4, <2>5
<1>. QED BY <1>1, <1>2 DEF Screen!newline

(* linefeed() keeps the size, the column and the modes.                       *)
LEMMA LinefeedKeeps ==
  ASSUME NEW t, Sound(t)
  PROVE  /\ Sized(Screen!linefeed(t), t)
         /\ Screen!linefeed(t).mode = t.mode
         /\ Screen!linefeed(t).tabs = t.tabs
         /\ Screen!linefeed(t).grid.cursor.column = t.grid.cursor.column
<1>1. t \in Terms /\ t.grid \in Grids /\ t.grid.cursor \in Positions
  BY CursorIs DEF Sound, Fits, GridFits
<1>2. ASSUME NEW g
      PROVE  LET u == Screen!mark_fully_damaged([t EXCEPT !.grid = g]) IN
             u.lines = t.lines /\ u.columns = t.columns /\ u.grid = g /\ u.mode = t.mode
             /\ u.tabs = t.tabs
  BY <1>1 DEF Terms, Screen!mark_fully_damaged
<1>3. /\ Sized(Screen!scroll_up(t, 1), t)
      /\ Screen!scroll_up(t, 1).mode = t.mode
      /\ Screen!scroll_up(t, 1).tabs = t.tabs
      /\ Screen!scroll_up(t, 1).grid.cursor = t.grid.cursor
  <2>. DEFINE m == Screen!MinOf(1, t.region.end - t.region.start)
              g == Screen!GridScrollUp(t.grid, t.region.start, t.region.end, m)
  <2>1. t.region.start \in Nat /\ t.region.end \in Nat /\ t.region.start <= t.region.end
        /\ GridFits(t.grid, t.lines, t.columns)
    BY DEF Sound, Fits, Terms
  <2>2. m \in Nat
    BY <2>1 DEF Screen!MinOf
  <2>. HIDE DEF m
  <2>3. g.cursor = t.grid.cursor
    <3>1. \A start \in Nat, end \in Nat, positions \in Nat :
             Screen!GridScrollUp(t.grid, start, end, positions).cursor = t.grid.cursor
      <4>1. GridFits(t.grid, t.lines, t.columns)
        BY <2>1
      <4>. TAKE start \in Nat, end \in Nat, positions \in Nat
      <4>. QED BY <4>1, ScrollKeeps
    <3>. QED BY <2>1, <2>2, <3>1
  <2>4. Screen!scroll_up(t, 1) = Screen!mark_fully_damaged([t EXCEPT !.grid = g])
    BY DEF Screen!scroll_up, Screen!scroll_up_relative, m
  <2>. HIDE DEF g
  <2>. QED BY <2>3, <2>4, <1>2 DEF Sized
<1>. DEFINE d == Screen!damage_cursor(t)
            n == t.grid.cursor.line + 1
            e == [d EXCEPT !.grid.cursor.line = n]
<1>4. /\ d = [t EXCEPT !.damaged = d.damaged] /\ Sound(d)
      /\ d.lines = t.lines /\ d.columns = t.columns /\ d.grid = t.grid /\ d.mode = t.mode
      /\ d.tabs = t.tabs
  BY Damaged, SameFrame
<1>5. CASE n # t.region.end /\ n < t.lines
  <2>. DEFINE c == Point(n, t.grid.cursor.column, t.grid.cursor.wrap)
  <2>1. /\ Fits(t) /\ n \in Nat /\ t.grid.cursor.column \in Nat /\ t.grid.cursor.wrap \in BOOLEAN
        /\ t.grid.cursor.column < t.columns
    BY CursorIs DEF Sound
  <2>2. c \in Positions /\ Held(c, t.lines, t.columns) /\ c.column = t.grid.cursor.column
    BY <2>1, <1>5, Points
  <2>3. e = CursorAt(d, c)
    <3>1. Fits(d) /\ d.grid = t.grid
      BY <1>4 DEF Sound
    <3>. HIDE DEF d, n
    <3>. QED BY <2>1, <3>1, EditedLine
  <2>4. Screen!linefeed(t) = Screen!damage_cursor(CursorAt(d, c))
    BY <1>5, <2>3 DEF Screen!linefeed
  <2>. HIDE DEF c, e
  <2>5. Sound(CursorAt(d, c))
    BY <2>2, Placed
  <2>. HIDE DEF d
  <2>6. /\ Sized(CursorAt(d, c), t) /\ CursorAt(d, c).mode = t.mode /\ CursorAt(d, c).tabs = t.tabs
        /\ CursorAt(d, c).grid.cursor = c
    BY <1>4, AtIs DEF Sized, Sound
  <2>7. /\ Screen!damage_cursor(CursorAt(d, c)).lines = CursorAt(d, c).lines
        /\ Screen!damage_cursor(CursorAt(d, c)).columns = CursorAt(d, c).columns
        /\ Screen!damage_cursor(CursorAt(d, c)).mode = CursorAt(d, c).mode
        /\ Screen!damage_cursor(CursorAt(d, c)).tabs = CursorAt(d, c).tabs
        /\ Screen!damage_cursor(CursorAt(d, c)).grid = CursorAt(d, c).grid
    BY <2>5, SameFrame
  <2>. QED BY <2>2, <2>4, <2>6, <2>7 DEF Sized
<1>6. CASE n = t.region.end
  BY <1>1, <1>3, <1>6 DEF Screen!linefeed
<1>7. CASE n # t.region.end /\ ~(n < t.lines)
  BY <1>7 DEF Screen!linefeed, Sized
<1>. QED BY <1>5, <1>6, <1>7

After(u, t) == Sound(u) /\ Sized(u, t) /\ u.mode = t.mode /\ u.tabs = t.tabs

LEMMA Stays ==
  ASSUME NEW t, Sound(t), NEW c \in Positions, Held(c, t.lines, t.columns),
         c.line = t.grid.cursor.line
  PROVE  After(CursorAt(t, c), t) /\ CursorAt(t, c).grid.cursor = c
BY Moved, AtIs DEF After, Sized, Sound

LEMMA Goes ==
  ASSUME NEW t, Sound(t), NEW c \in Positions, Held(c, t.lines, t.columns)
  PROVE  /\ After(CursorAt(Screen!damage_cursor(t), c), t)
         /\ CursorAt(Screen!damage_cursor(t), c).grid.cursor = c
         /\ After(Screen!damage_cursor(CursorAt(Screen!damage_cursor(t), c)), t)
         /\ Screen!damage_cursor(CursorAt(Screen!damage_cursor(t), c)).grid.cursor = c
<1>. DEFINE d == Screen!damage_cursor(t)
<1>1. Sound(d) /\ Fits(d) /\ Sized(d, t) /\ d.mode = t.mode /\ d.tabs = t.tabs
  BY Damaged, SameFrame DEF Sound, Sized
<1>2. Sound(CursorAt(d, c)) /\ Sound(Screen!damage_cursor(CursorAt(d, c)))
  BY Placed
<1>. HIDE DEF d
<1>3. After(CursorAt(d, c), t) /\ CursorAt(d, c).grid.cursor = c
  BY <1>1, <1>2, AtIs DEF After, Sized
<1>. DEFINE e == CursorAt(d, c)
<1>. HIDE DEF e
<1>4. After(Screen!damage_cursor(e), t) /\ Screen!damage_cursor(e).grid.cursor = c
  <2>1. Sound(e) /\ After(e, t) /\ e.grid.cursor = c /\ Sound(Screen!damage_cursor(e))
    BY <1>2, <1>3 DEF e
  <2>. QED BY <2>1, SameFrame DEF After, Sized
<1>. QED BY <1>3, <1>4 DEF d, e

LEMMA Keeps ==
  ASSUME NEW t, Sound(t)
  PROVE  /\ After(t, t)
         /\ After(Screen!Write(t), t) /\ Screen!Write(t).grid.cursor = t.grid.cursor
         /\ After(Screen!damage_cursor(t), t)
         /\ Screen!damage_cursor(t).grid.cursor = t.grid.cursor
BY Damaged, Written, SameFrame DEF After, Sized

LEMMA Wrapline ==
  ASSUME NEW t, Sound(t)
  PROVE  /\ After(Screen!wrapline(t), t)
         /\ "LINE_WRAP" \in t.mode => Screen!wrapline(t).grid.cursor.column = 0
<1>. DEFINE d == Screen!damage_cursor(t)
            n == t.grid.cursor.line + 1
            c == Point(n, t.grid.cursor.column, t.grid.cursor.wrap)
            down == IF n >= t.region.end THEN Screen!linefeed(t)
                    ELSE [d EXCEPT !.grid.cursor.line = @ + 1]
<1>1. After(down, t)
  <2>1. CASE n >= t.region.end
    BY <2>1, Linefeed, LinefeedKeeps DEF After
  <2>2. CASE ~(n >= t.region.end)
    <3>1. /\ Fits(t) /\ n \in Nat /\ t.grid.cursor.column \in Nat /\ t.grid.cursor.wrap \in BOOLEAN
          /\ t.grid.cursor.column < t.columns /\ t.lines \in Nat /\ t.grid.cursor.line \in Nat
      BY CursorIs DEF Sound
    <3>2. n < t.lines
      BY <2>2, <3>1 DEF Fits, Terms
    <3>3. c \in Positions /\ Held(c, t.lines, t.columns)
      BY <3>1, <3>2, PointHeld
    <3>4. Fits(d) /\ d.grid = t.grid
      BY Damaged, SameFrame DEF Sound
    <3>5. down = [d EXCEPT !.grid.cursor.line = n]
      BY <2>2, <3>4
    <3>6. down = CursorAt(d, c)
      <4>. HIDE DEF d, down, n
      <4>. QED BY <3>1, <3>4, <3>5, EditedLine
    <3>. HIDE DEF down, c
    <3>. QED BY <3>3, <3>6, Goes
  <2>. QED BY <2>1, <2>2
<1>. DEFINE left == [down EXCEPT !.grid.cursor.column = 0, !.grid.cursor.wrap = FALSE]
<1>2. Screen!wrapline(t) = IF "LINE_WRAP" \notin t.mode THEN t ELSE Screen!damage_cursor(left)
  BY DEF Screen!wrapline
<1>. HIDE DEF down
<1>3. After(left, down) /\ left.grid.cursor.column = 0
  <2>. DEFINE p == Point(down.grid.cursor.line, 0, FALSE)
  <2>1. Fits(down) /\ Sound(down)
    BY <1>1 DEF After, Sound
  <2>2. left = CursorAt(down, p)
    BY <2>1, EditedBoth
  <2>3. down.grid.cursor.line \in Nat /\ down.grid.cursor.line < down.lines /\ 0 < down.columns
    BY <2>1, CursorIs
  <2>4. p \in Positions /\ Held(p, down.lines, down.columns) /\ p.line = down.grid.cursor.line
        /\ p.column = 0
    BY <2>3 DEF Point, Positions, Held
  <2>. HIDE DEF p, left
  <2>. QED BY <2>1, <2>2, <2>4, Stays
<1>. HIDE DEF left
<1>4. After(Screen!damage_cursor(left), t) /\ Screen!damage_cursor(left).grid.cursor.column = 0
  <2>1. Sound(left) /\ After(left, t)
    BY <1>1, <1>3 DEF After, Sized
  <2>. QED BY <2>1, <1>3, Keeps DEF After, Sized
<1>. QED BY <1>2, <1>4, Keeps

LEMMA Goto ==
  ASSUME NEW t, Sound(t), NEW line \in Int, NEW column \in Nat
  PROVE  After(Screen!goto(t, line, column), t)
<1>. DEFINE origin == "ORIGIN" \in t.mode
            offset == IF origin THEN t.region.start ELSE 0
            max_y  == IF origin THEN t.region.end - 1 ELSE t.lines - 1
            l == Screen!MaxOf(Screen!MinOf(line + offset, max_y), 0)
            k == Screen!MinOf(column, t.columns - 1)
<1>1. /\ Fits(t) /\ t.region.start \in Nat /\ t.region.end \in Nat /\ t.region.end <= t.lines
      /\ t.lines \in Nat \ {0} /\ t.columns \in Nat \ {0, 1}
  BY CursorIs DEF Sound, Fits, Terms
<1>2. l \in Nat /\ l < t.lines
  <2>1. offset \in Int /\ max_y \in Int /\ max_y < t.lines
    BY <1>1
  <2>. HIDE DEF offset, max_y
  <2>. QED BY <2>1, <1>1 DEF Screen!MinOf, Screen!MaxOf
<1>3. k \in Nat /\ k < t.columns
  BY <1>1 DEF Screen!MinOf
<1>4. Screen!goto(t, line, column)
      = Screen!damage_cursor([Screen!damage_cursor(t) EXCEPT
                 !.grid.cursor = [line |-> l, column |-> k, wrap |-> FALSE]])
  BY DEF Screen!goto
<1>5. [Screen!damage_cursor(t) EXCEPT !.grid.cursor = [line |-> l, column |-> k, wrap |-> FALSE]]
      = CursorAt(Screen!damage_cursor(t), Point(l, k, FALSE))
  BY DEF CursorAt, Point
<1>. HIDE DEF l, k
<1>6. Point(l, k, FALSE) \in Positions /\ Held(Point(l, k, FALSE), t.lines, t.columns)
  BY <1>1, <1>2, <1>3, PointHeld
<1>. QED BY <1>4, <1>5, <1>6, Goes

(* Printing.                                                                 *)
LEMMA Advanced ==
  ASSUME NEW t, Sound(t)
  PROVE  After(Screen!Advance(t), t)
<1>. DEFINE c == t.grid.cursor
<1>1. /\ Fits(t) /\ c.line \in Nat /\ c.line < t.lines /\ c.column \in Nat /\ c.column < t.columns
      /\ c.wrap \in BOOLEAN /\ t.columns \in Nat
  BY CursorIs DEF Sound
<1>2. CASE c.column + 1 < t.columns
  <2>. DEFINE k == c.column + 1
              p == Point(c.line, k, c.wrap)
  <2>1. Screen!Advance(t) = [t EXCEPT !.grid.cursor.column = k]
    BY <1>2 DEF Screen!Advance
  <2>2. k \in Nat /\ k < t.columns
    BY <1>1, <1>2
  <2>. HIDE DEF c, k
  <2>3. [t EXCEPT !.grid.cursor.column = k] = CursorAt(t, p)
    BY <1>1, <2>2, EditedColumn DEF c
  <2>4. p \in Positions /\ Held(p, t.lines, t.columns) /\ p.line = c.line
    BY <1>1, <2>2, PointHeld
  <2>. HIDE DEF p
  <2>5. After(CursorAt(t, p), t)
    BY <2>4, Stays DEF c
  <2>. QED BY <2>1, <2>3, <2>5
<1>3. CASE ~(c.column + 1 < t.columns)
  <2>. DEFINE p == Point(c.line, c.column, TRUE)
  <2>1. Screen!Advance(t) = [t EXCEPT !.grid.cursor.wrap = TRUE]
    BY <1>3 DEF Screen!Advance
  <2>. HIDE DEF c
  <2>2. p \in Positions /\ Held(p, t.lines, t.columns) /\ p.line = c.line
    BY <1>1 DEF Point, Positions, Held
  <2>3. [t EXCEPT !.grid.cursor.wrap = TRUE] = CursorAt(t, p)
    BY <1>1, EditedWrap DEF c
  <2>. HIDE DEF p
  <2>5. After(CursorAt(t, p), t)
    BY <2>2, Stays DEF c
  <2>. QED BY <2>1, <2>3, <2>5
<1>. QED BY <1>2, <1>3

LEMMA Waits ==
  ASSUME NEW t, Sound(t)
  PROVE  After([t EXCEPT !.grid.cursor.wrap = TRUE], t)
<1>. DEFINE c == t.grid.cursor
            p == Point(c.line, c.column, TRUE)
<1>1. /\ Fits(t) /\ c.line \in Nat /\ c.line < t.lines /\ c.column \in Nat /\ c.column < t.columns
  BY CursorIs DEF Sound
<1>2. [t EXCEPT !.grid.cursor.wrap = TRUE] = CursorAt(t, p)
  BY <1>1, EditedWrap
<1>. HIDE DEF c
<1>3. p \in Positions /\ Held(p, t.lines, t.columns) /\ p.line = c.line
  BY <1>1 DEF Point, Positions, Held
<1>. HIDE DEF p
<1>. QED BY <1>2, <1>3, Stays DEF c

(* The cursor moves along its line.                                          *)
LEMMA Along ==
  ASSUME NEW t, Sound(t), NEW k \in Nat, k < t.columns
  PROVE  /\ After([t EXCEPT !.grid.cursor.column = k], t)
         /\ After(Screen!MoveTo(t, k), t)
<1>. DEFINE c == t.grid.cursor
            p == Point(c.line, k, c.wrap)
            q == Point(c.line, k, FALSE)
            d == Screen!damage_cursor(t)
<1>1. /\ Fits(t) /\ c.line \in Nat /\ c.line < t.lines /\ c.wrap \in BOOLEAN
      /\ Fits(d) /\ d.grid = t.grid
  BY CursorIs, Damaged, SameFrame DEF Sound
<1>2. [t EXCEPT !.grid.cursor.column = k] = CursorAt(t, p)
  BY <1>1, EditedColumn
<1>3. Screen!MoveTo(t, k) = CursorAt(d, q)
  <2>1. Screen!MoveTo(t, k) = [d EXCEPT !.grid.cursor.column = k, !.grid.cursor.wrap = FALSE]
    BY DEF Screen!MoveTo
  <2>. HIDE DEF d
  <2>. QED BY <1>1, <2>1, EditedBoth
<1>. HIDE DEF c
<1>4. /\ p \in Positions /\ Held(p, t.lines, t.columns) /\ p.line = c.line
      /\ q \in Positions /\ Held(q, t.lines, t.columns)
  BY <1>1 DEF Point, Positions, Held
<1>. HIDE DEF p, q
<1>. QED BY <1>2, <1>3, <1>4, Stays, Goes DEF c

LEMMA Wide ==
  ASSUME NEW t, Sound(t)
  PROVE  Sound(Screen!WideGlyph(t))
<1>. DEFINE fits == t.grid.cursor.column + 1 < t.columns
            at == IF fits THEN t ELSE Screen!wrapline(Screen!Write(t))
            next == [Screen!Write(at) EXCEPT !.grid.cursor.column = @ + 1]
<1>1. t.columns \in Nat \ {0, 1} /\ t.grid.cursor.column \in Nat
  BY CursorIs DEF Sound
<1>2. CASE ~fits /\ "LINE_WRAP" \notin t.mode
  <2>1. Screen!WideGlyph(t) = [t EXCEPT !.grid.cursor.wrap = TRUE]
    BY <1>2 DEF Screen!WideGlyph
  <2>. QED BY <2>1, Waits DEF After
<1>3. CASE fits \/ "LINE_WRAP" \in t.mode
  <2>1. Sound(at) /\ at.columns = t.columns /\ at.grid.cursor.column + 1 < t.columns
    <3>1. CASE fits
      BY <3>1
    <3>2. CASE ~fits
      <4>1. Sound(Screen!Write(t)) /\ Screen!Write(t).mode = t.mode /\ Sized(Screen!Write(t), t)
        BY Keeps DEF After
      <4>2. /\ After(Screen!wrapline(Screen!Write(t)), Screen!Write(t))
            /\ Screen!wrapline(Screen!Write(t)).grid.cursor.column = 0
        BY <4>1, <1>3, <3>2, Wrapline
      <4>3. at = Screen!wrapline(Screen!Write(t))
        BY <3>2
      <4>. QED BY <4>1, <4>2, <4>3, <1>1 DEF After, Sized
    <3>. QED BY <3>1, <3>2
  <2>2. Screen!WideGlyph(t) = Screen!Advance(next)
    BY <1>3 DEF Screen!WideGlyph
  <2>. HIDE DEF at
  <2>. DEFINE w == Screen!Write(at)
              k == at.grid.cursor.column + 1
  <2>3. /\ Sound(w) /\ w.columns = t.columns /\ w.grid.cursor = at.grid.cursor
        /\ at.grid.cursor.column \in Nat
    BY <2>1, Keeps, CursorIs DEF After, Sized, Sound
  <2>4. next = [w EXCEPT !.grid.cursor.column = k]
    BY <2>3
  <2>5. k \in Nat /\ k < w.columns
    BY <2>1, <2>3
  <2>. HIDE DEF next, w, k
  <2>6. Sound(next)
    BY <2>3, <2>4, <2>5, Along DEF After
  <2>. QED BY <2>2, <2>6, Advanced DEF After
<1>. QED BY <1>2, <1>3

LEMMA Input ==
  ASSUME NEW t, Sound(t), NEW width \in 0 .. 2
  PROVE  Sound(Screen!input(t, width))
<1>. DEFINE at == IF t.grid.cursor.wrap THEN Screen!wrapline(t) ELSE t
<1>1. Sound(at)
  BY Wrapline DEF After
<1>2. Screen!input(t, width)
      \in {Screen!Write(t), Screen!Advance(Screen!Write(at)), Screen!WideGlyph(at)}
  BY DEF Screen!input
<1>. HIDE DEF at
<1>. QED BY <1>1, <1>2, Keeps, Advanced, Wide DEF After

LEMMA Segment ==
  ASSUME NEW t, Sound(t), NEW count \in Nat
  PROVE  Sound(Screen!WriteSegment(t, count)) /\ Sound(Screen!input_str(t, count))
<1>. DEFINE at == IF t.grid.cursor.wrap THEN Screen!wrapline(t) ELSE t
            end == Screen!MinOf(at.grid.cursor.column + count, t.columns)
            full == end = t.columns
            k == Screen!MinOf(end, t.columns - 1)
            w == Screen!Write(at)
            u == [w EXCEPT !.grid.cursor.wrap = full]
<1>1. Sound(at) /\ Sized(at, t)
  BY Wrapline, Keeps DEF After
<1>. HIDE DEF at
<1>2. Sound(w) /\ Fits(w) /\ Sized(w, t) /\ w.grid.cursor = at.grid.cursor
  BY <1>1, Keeps DEF After, Sized, Sound
<1>3. t.columns \in Nat \ {0, 1} /\ at.grid.cursor.column \in Nat
  BY <1>1, CursorIs DEF Sound
<1>4. end \in Nat
  BY <1>3 DEF Screen!MinOf
<1>5. k \in Nat /\ k < t.columns /\ full \in BOOLEAN
  <2>. HIDE DEF end
  <2>. QED BY <1>3, <1>4 DEF Screen!MinOf
<1>6. Screen!WriteSegment(t, count)
      = [w EXCEPT !.grid.cursor.wrap = full, !.grid.cursor.column = k]
  BY DEF Screen!WriteSegment, at
<1>. DEFINE p == Point(w.grid.cursor.line, k, full)
<1>. HIDE DEF w, k, full, end
<1>7. Screen!WriteSegment(t, count) = CursorAt(w, p)
  BY <1>2, <1>5, <1>6, EditedWaiting
<1>8. p \in Positions /\ Held(p, w.lines, w.columns) /\ p.line = w.grid.cursor.line
  <2>1. w.grid.cursor.line \in Nat /\ w.grid.cursor.line < w.lines /\ w.columns = t.columns
    BY <1>2, CursorIs DEF Sized
  <2>. QED BY <1>5, <2>1 DEF Point, Positions, Held
<1>. HIDE DEF p
<1>9. Sound(Screen!WriteSegment(t, count))
  BY <1>2, <1>7, <1>8, Stays DEF After
<1>. QED BY <1>9, Input DEF Screen!input_str

(* Tab stops.                                                                *)
LEMMA TabStop ==
  ASSUME NEW t, Sound(t), NEW column \in Nat
  PROVE  Screen!TabFrom(t, column) \in Nat /\ Screen!TabFrom(t, column) < t.columns
<1>. DEFINE stops == {c \in Screen!Columns(t) : c > column /\ t.tabs[c]}
<1>1. t.columns \in Nat \ {0, 1}
  BY CursorIs DEF Sound
<1>2. stops \subseteq 0 .. t.columns - 1
  BY DEF Screen!Columns
<1>3. Screen!TabFrom(t, column) = IF stops = {} THEN t.columns - 1 ELSE Screen!Min(stops)
  BY DEF Screen!TabFrom
<1>. HIDE DEF stops
<1>4. stops \subseteq Nat
  BY <1>1, <1>2
<1>5. stops # {} => Screen!Min(stops) \in stops
  BY <1>4, LeastOne DEF Screen!Min
<1>6. CASE stops = {}
  BY <1>1, <1>3, <1>6
<1>7. CASE stops # {}
  <2>1. Screen!Min(stops) \in 0 .. t.columns - 1
    BY <1>2, <1>5, <1>7
  <2>. QED BY <1>1, <1>3, <1>7, <2>1
<1>. QED BY <1>6, <1>7

LEMMA TabBefore ==
  ASSUME NEW t, Sound(t)
  PROVE  LET before == {c \in Screen!Columns(t) : c < t.grid.cursor.column /\ t.tabs[c]} IN
         before # {} => Screen!Max(before) \in Nat /\ Screen!Max(before) < t.columns
<1>. DEFINE n == t.columns
            before == {c \in Screen!Columns(t) : c < t.grid.cursor.column /\ t.tabs[c]}
            left == {n - c : c \in before}
<1>1. n \in Nat \ {0, 1}
  BY CursorIs DEF Sound
<1>2. before \subseteq 0 .. n - 1
  BY DEF Screen!Columns
<1>. SUFFICES ASSUME before # {} PROVE Screen!Max(before) \in Nat /\ Screen!Max(before) < n
  OBVIOUS
<1>. HIDE DEF before, n
<1>3. \A c \in before : c \in Nat /\ c < n
  BY <1>1, <1>2
<1>4. left \subseteq Nat /\ left # {}
  BY <1>1, <1>3
<1>5. PICK m \in left : \A i \in left : m <= i
  BY <1>4, LeastOne
<1>6. PICK c \in before : m = n - c
  BY <1>5
<1>7. ASSUME NEW b \in before PROVE c >= b
  <2>1. n - b \in left
    OBVIOUS
  <2>2. m <= n - b /\ b \in Nat /\ c \in Nat
    BY <1>3, <1>5, <2>1
  <2>. QED BY <1>1, <1>6, <2>2
<1>8. Screen!Max(before) \in before
  BY <1>6, <1>7 DEF Screen!Max
<1>. QED BY <1>3, <1>8

LEMMA TabMoves ==
  ASSUME NEW t, Sound(t)
  PROVE  /\ Sound(Screen!put_tab(t))
         /\ Sound(Screen!move_forward_tabs(t))
         /\ Sound(Screen!move_backward_tabs(t))
<1>. DEFINE c == t.grid.cursor.column
            before == {b \in Screen!Columns(t) : b < c /\ t.tabs[b]}
            back == IF before = {} THEN c ELSE Screen!Max(before)
<1>1. c \in Nat /\ c < t.columns
  BY CursorIs DEF Sound
<1>2. Screen!TabFrom(t, c) \in Nat /\ Screen!TabFrom(t, c) < t.columns
  BY <1>1, TabStop
<1>3. back \in Nat /\ back < t.columns
  BY <1>1, TabBefore
<1>4. Sound(Screen!move_forward_tabs(t))
  <2>1. Screen!move_forward_tabs(t)
        = Screen!damage_cursor([t EXCEPT !.grid.cursor.column = Screen!TabFrom(t, c)])
    BY DEF Screen!move_forward_tabs
  <2>2. Sound([t EXCEPT !.grid.cursor.column = Screen!TabFrom(t, c)])
    BY <1>2, Along DEF After
  <2>. QED BY <2>1, <2>2, Damaged
<1>5. Sound(Screen!move_backward_tabs(t))
  <2>1. Screen!move_backward_tabs(t) = Screen!damage_cursor([t EXCEPT !.grid.cursor.column = back])
    BY DEF Screen!move_backward_tabs
  <2>. HIDE DEF back
  <2>2. Sound([t EXCEPT !.grid.cursor.column = back])
    BY <1>3, Along DEF After
  <2>. QED BY <2>1, <2>2, Damaged
<1>6. Sound(Screen!put_tab(t))
  <2>1. CASE t.grid.cursor.wrap
    BY <2>1, Wrapline DEF Screen!put_tab, After
  <2>2. CASE ~t.grid.cursor.wrap
    <3>. DEFINE w == Screen!Write(t)
    <3>1. Sound(w) /\ w.grid = t.grid /\ w.columns = t.columns
      BY Written, SameFrame
    <3>2. Screen!put_tab(t) = [w EXCEPT !.grid.cursor.column = Screen!TabFrom(t, c)]
      BY <2>2, <3>1 DEF Screen!put_tab
    <3>. HIDE DEF w, c
    <3>3. Sound([w EXCEPT !.grid.cursor.column = Screen!TabFrom(t, c)])
      BY <1>2, <3>1, Along DEF After
    <3>. QED BY <3>2, <3>3
  <2>. QED BY <2>1, <2>2
<1>. QED BY <1>4, <1>5, <1>6

(* Cursor motion.                                                            *)
LEMMA MotionKeeps ==
  ASSUME NEW t, Sound(t), NEW n \in Nat \ {0}
  PROVE  /\ Sound(Screen!move_up(t, n)) /\ Sound(Screen!move_down(t, n))
         /\ Sound(Screen!move_forward(t, n)) /\ Sound(Screen!move_backward(t, n))
         /\ Sound(Screen!goto_line(t, n - 1)) /\ Sound(Screen!goto_col(t, n - 1))
         /\ Sound(Screen!move_down_and_cr(t, n)) /\ Sound(Screen!move_up_and_cr(t, n))
<1>. DEFINE l == t.grid.cursor.line
            c == t.grid.cursor.column
<1>1. l \in Nat /\ c \in Nat /\ c < t.columns /\ t.columns \in Nat \ {0, 1}
  BY CursorIs DEF Sound
<1>2. \A x \in Int, y \in Nat : Sound(Screen!goto(t, x, y))
  BY Goto DEF After
<1>3. /\ Screen!move_up(t, n) = Screen!goto(t, l - n, c)
      /\ Screen!move_down(t, n) = Screen!goto(t, l + n, c)
      /\ Screen!goto_line(t, n - 1) = Screen!goto(t, n - 1, c)
      /\ Screen!goto_col(t, n - 1) = Screen!goto(t, l, n - 1)
      /\ Screen!move_down_and_cr(t, n) = Screen!goto(t, l + n, 0)
      /\ Screen!move_up_and_cr(t, n) = Screen!goto(t, l - n, 0)
      /\ Screen!move_forward(t, n) = Screen!MoveTo(t, Screen!MinOf(c + n, t.columns - 1))
      /\ Screen!move_backward(t, n) = Screen!MoveTo(t, Screen!MaxOf(c - n, 0))
  BY DEF Screen!move_up, Screen!move_down, Screen!goto_line, Screen!goto_col,
     Screen!move_down_and_cr, Screen!move_up_and_cr, Screen!move_forward, Screen!move_backward
<1>4. /\ Screen!MinOf(c + n, t.columns - 1) \in Nat
      /\ Screen!MinOf(c + n, t.columns - 1) < t.columns
      /\ Screen!MaxOf(c - n, 0) \in Nat /\ Screen!MaxOf(c - n, 0) < t.columns
  BY <1>1 DEF Screen!MinOf, Screen!MaxOf
<1>5. \A k \in Nat : k < t.columns => Sound(Screen!MoveTo(t, k))
  BY Along DEF After
<1>6. l - n \in Int /\ l + n \in Int /\ n - 1 \in Nat /\ l \in Int
  BY <1>1
<1>. HIDE DEF l, c
<1>. QED BY <1>1, <1>2, <1>3, <1>4, <1>5, <1>6

LEMMA Backs ==
  ASSUME NEW t, Sound(t)
  PROVE  Sound(Screen!backspace(t)) /\ Sound(Screen!reverse_index(t))
<1>. DEFINE l == t.grid.cursor.line
            c == t.grid.cursor.column
            k == Screen!MaxOf(l - 1, 0)
            d == Screen!damage_cursor(t)
            p == Point(k, c, t.grid.cursor.wrap)
<1>1. /\ Fits(t) /\ l \in Nat /\ l < t.lines /\ c \in Nat /\ c < t.columns
      /\ t.columns \in Nat /\ t.lines \in Nat /\ t.grid.cursor.wrap \in BOOLEAN
      /\ Fits(d) /\ d.grid = t.grid
  BY CursorIs, Damaged, SameFrame DEF Sound
<1>2. Sound(Screen!backspace(t))
  <2>1. CASE c > 0
    <3>1. c - 1 \in Nat /\ c - 1 < t.columns
      BY <1>1, <2>1
    <3>2. Screen!backspace(t) = Screen!MoveTo(t, c - 1)
      BY <2>1 DEF Screen!backspace
    <3>. HIDE DEF c
    <3>. QED BY <3>1, <3>2, Along DEF After
  <2>2. CASE ~(c > 0)
    BY <2>2 DEF Screen!backspace
  <2>. QED BY <2>1, <2>2
<1>3. Sound(Screen!reverse_index(t))
  <2>1. CASE l = t.region.start
    BY <2>1, Scrolls DEF Screen!reverse_index
  <2>2. CASE l # t.region.start
    <3>1. k \in Nat /\ k < t.lines
      BY <1>1 DEF Screen!MaxOf
    <3>2. Screen!reverse_index(t) = Screen!damage_cursor([d EXCEPT !.grid.cursor.line = k])
      BY <1>1, <2>2 DEF Screen!reverse_index
    <3>. HIDE DEF l, c, k, d
    <3>3. [d EXCEPT !.grid.cursor.line = k] = CursorAt(d, p)
      BY <1>1, <3>1, EditedLine DEF c
    <3>4. p \in Positions /\ Held(p, t.lines, t.columns)
      BY <1>1, <3>1, PointHeld
    <3>. HIDE DEF p
    <3>. QED BY <3>2, <3>3, <3>4, Goes DEF d, After
  <2>. QED BY <2>1, <2>2
<1>. QED BY <1>2, <1>3

(* Cells and lines.                                                          *)
LEMMA LineEdits ==
  ASSUME NEW t, Sound(t), NEW right, NEW n \in Nat
  PROVE  /\ Sound(Screen!EditLine(t)) /\ Sound(Screen!clear_line(t, right))
         /\ Sound(Screen!insert_blank_lines(t, n)) /\ Sound(Screen!delete_lines(t, n))
<1>1. t.grid.cursor.line \in Nat /\ t.lines \in Nat /\ t.grid.cursor.line < t.lines
  BY CursorIs DEF Sound
<1>2. Sound(Screen!EditLine(t))
  BY Damaged, Written DEF Screen!EditLine
<1>3. Screen!MinOf(t.lines - t.grid.cursor.line, n) \in Nat
  BY <1>1 DEF Screen!MinOf
<1>. QED BY <1>1, <1>2, <1>3, ScrollsUp DEF Screen!clear_line, Screen!insert_blank_lines,
            Screen!delete_lines

LEMMA SavesCursor ==
  ASSUME NEW t, Sound(t)
  PROVE  Sound(Screen!save_cursor_position(t)) /\ Sound(Screen!restore_cursor_position(t))
<1>1. /\ Fits(t) /\ t \in Terms /\ t.grid \in Grids
      /\ t.grid.cursor \in Positions /\ Held(t.grid.cursor, t.lines, t.columns)
      /\ t.grid.saved \in Positions /\ Held(t.grid.saved, t.lines, t.columns)
  BY CursorIs DEF Sound, Fits, GridFits
<1>2. Sound(Screen!restore_cursor_position(t))
  <2>1. Screen!restore_cursor_position(t)
        = Screen!damage_cursor(CursorAt(Screen!damage_cursor(t), t.grid.saved))
    BY DEF Screen!restore_cursor_position, CursorAt
  <2>. QED BY <1>1, <2>1, Goes DEF After
<1>. DEFINE g == [t.grid EXCEPT !.saved = t.grid.cursor]
<1>3. GridFits(g, t.lines, t.columns) /\ g.cursor = t.grid.cursor
  <2>1. g \in Grids
    BY <1>1 DEF Grids
  <2>. QED BY <1>1, <2>1 DEF GridFits, Grids, Fits
<1>4. Screen!save_cursor_position(t) = [t EXCEPT !.grid = g]
  BY <1>1 DEF Screen!save_cursor_position
<1>. HIDE DEF g
<1>5. [t EXCEPT !.grid = g] \in Terms
  BY <1>1, <1>3 DEF Terms, GridFits
<1>6. Fits([t EXCEPT !.grid = g])
  BY <1>1, <1>3, <1>5 DEF Fits, Terms, Screen!Lines
<1>7. Covered([t EXCEPT !.grid = g])
  BY <1>1, <1>3 DEF Sound, Covered, Terms
<1>. QED BY <1>2, <1>4, <1>6, <1>7 DEF Sound

(* Clearing.                                                                 *)
LEMMA Cleared ==
  ASSUME NEW g, NEW lines, NEW columns, GridFits(g, lines, columns)
  PROVE  LET h == Screen!clear_history(g) IN
         GridFits(h, lines, columns) /\ h.cursor = g.cursor /\ h.saved = g.saved
<1>1. g \in Grids /\ g.limit \in Nat
  BY DEF GridFits, Grids
<1>2. Screen!clear_history(g) \in Grids
  <2>1. [g EXCEPT !.history = 0] \in Grids
    BY <1>1 DEF Grids
  <2>2. \A h \in Grids : [h EXCEPT !.offset = 0] \in Grids
    BY DEF Grids
  <2>3. Screen!clear_history(g) = [[g EXCEPT !.history = 0] EXCEPT !.offset = 0]
    BY DEF Screen!clear_history
  <2>. QED BY <2>1, <2>2, <2>3
<1>. QED BY <1>1, <1>2 DEF GridFits, Grids, Screen!clear_history

LEMMA Clears ==
  ASSUME NEW t, Sound(t), NEW n \in Nat
  PROVE  /\ Sound(Screen!ClearCells(t))
         /\ Sound(Screen!ClearSaved(t))
         /\ Sound(Screen!ClearAll(t, n))
         /\ Sound(Screen!clear_buffer(t, n))
<1>1. /\ Fits(t) /\ GridFits(t.grid, t.lines, t.columns) /\ t.lines \in Nat
      /\ t.grid.cursor.line \in Nat /\ t.grid.cursor.line < t.lines /\ t.grid.cursor \in Positions
      /\ t.grid.cursor.column < t.columns
  BY CursorIs DEF Sound, Fits
<1>2. Sound(Screen!ClearCells(t))
  BY <1>1, AllDamaged DEF Screen!ClearCells
<1>3. Sound(Screen!ClearSaved(t))
  <2>. DEFINE g == IF t.grid.history > 0 THEN Screen!clear_history(t.grid) ELSE t.grid
  <2>1. GridFits(g, t.lines, t.columns)
    BY <1>1, Cleared
  <2>2. Screen!ClearSaved(t) = Screen!mark_fully_damaged([t EXCEPT !.grid = g])
    BY DEF Screen!ClearSaved
  <2>. HIDE DEF g
  <2>. QED BY <1>1, <2>1, <2>2, Replaced
<1>4. Sound(Screen!ClearAll(t, n))
  <2>. DEFINE m == Screen!MinOf(n, t.lines)
              g == Screen!GridScrollUp(t.grid, 0, t.lines, m)
  <2>1. m \in Nat
    BY <1>1 DEF Screen!MinOf
  <2>. HIDE DEF m
  <2>2. GridFits(g, t.lines, t.columns)
    BY <1>1, <2>1, Scrolled
  <2>3. Screen!ClearAll(t, n)
        \in {Screen!mark_fully_damaged(t), Screen!mark_fully_damaged([t EXCEPT !.grid = g])}
    BY DEF Screen!ClearAll, m
  <2>. HIDE DEF g
  <2>. QED BY <1>1, <2>2, <2>3, Replaced, AllDamaged
<1>5. Sound(Screen!clear_buffer(t, n))
  <2>. DEFINE start == Screen!MaxOf(t.grid.cursor.line - n, 0)
              s == Screen!GridScrollUp(t.grid, 0, t.lines, start)
              h == Screen!clear_history(s)
              l == t.grid.cursor.line - start
              c == [t.grid.cursor EXCEPT !.line = l]
              g == [h EXCEPT !.cursor = c]
  <2>1. start \in Nat /\ l \in Nat /\ l < t.lines
    BY <1>1 DEF Screen!MaxOf
  <2>. HIDE DEF start
  <2>2. GridFits(s, t.lines, t.columns) /\ s.cursor = t.grid.cursor
    <3>1. GridFits(t.grid, t.lines, t.columns) /\ t.lines \in Nat /\ start \in Nat
      BY <1>1, <2>1
    <3>2. GridFits(s, t.lines, t.columns)
      BY <3>1, Scrolled
    <3>3. s.cursor = t.grid.cursor
      BY <3>1, ScrollKeeps
    <3>. QED BY <3>2, <3>3
  <2>. HIDE DEF s
  <2>3. GridFits(h, t.lines, t.columns) /\ h.cursor = t.grid.cursor
    BY <2>2, Cleared
  <2>. HIDE DEF h
  <2>4. c \in Positions /\ Held(c, t.lines, t.columns)
    <3>. HIDE DEF l
    <3>. QED BY <1>1, <2>1 DEF Positions, Held
  <2>5. GridFits(g, t.lines, t.columns)
    <3>1. h \in Grids
      BY <2>3 DEF GridFits
    <3>. HIDE DEF c
    <3>2. g \in Grids
      BY <2>4, <3>1 DEF Grids
    <3>. QED BY <2>3, <2>4, <3>1, <3>2 DEF GridFits, Grids
  <2>6. Screen!clear_buffer(t, n) = Screen!mark_fully_damaged([t EXCEPT !.grid = g])
    <3>1. [h EXCEPT !.cursor.line = @ - start] = g
      BY <2>3
    <3>2. Screen!clear_buffer(t, n)
          = Screen!mark_fully_damaged([t EXCEPT !.grid = [h EXCEPT !.cursor.line = @ - start]])
      BY DEF Screen!clear_buffer, h, s, start
    <3>. QED BY <3>1, <3>2
  <2>. HIDE DEF g
  <2>. QED BY <1>1, <2>5, <2>6, Replaced
<1>. QED BY <1>2, <1>3, <1>4, <1>5

(* Tab stops, the region and the modes change by themselves.                 *)
LEMMA Retabbed ==
  ASSUME NEW t, Sound(t), NEW tabs \in TabStops, DOMAIN tabs = DOMAIN t.tabs
  PROVE  Sound([t EXCEPT !.tabs = tabs])
<1>1. t \in Terms
  BY DEF Sound, Fits
<1>2. [t EXCEPT !.tabs = tabs] \in Terms
  BY <1>1 DEF Terms
<1>. QED BY <1>1, <1>2 DEF Sound, Fits, Covered, Terms, Screen!Lines

LEMMA Regioned ==
  ASSUME NEW t, Sound(t), NEW start \in Nat, NEW end \in Nat, start <= end, end <= t.lines
  PROVE  Sound([t EXCEPT !.region = [start |-> start, end |-> end]])
<1>1. t \in Terms
  BY DEF Sound, Fits
<1>2. [t EXCEPT !.region = [start |-> start, end |-> end]] \in Terms
  BY <1>1 DEF Terms
<1>. QED BY <1>1, <1>2 DEF Sound, Fits, Covered, Terms, Screen!Lines

LEMMA Moded ==
  ASSUME NEW t, Fits(t), NEW mode \in SUBSET Screen!Modes
  PROVE  /\ Fits([t EXCEPT !.mode = mode])
         /\ Covered(t) /\ ("INSERT" \in t.mode => "INSERT" \in mode)
            => Sound([t EXCEPT !.mode = mode])
<1>1. t \in Terms
  BY DEF Fits
<1>2. [t EXCEPT !.mode = mode] \in Terms
  BY <1>1 DEF Terms
<1>. QED BY <1>1, <1>2 DEF Sound, Fits, Covered, Terms, Screen!Lines

LEMMA TabSets ==
  ASSUME NEW t, Sound(t)
  PROVE  /\ Sound(Screen!set_horizontal_tabstop(t))
         /\ Sound(Screen!clear_tab(t))
         /\ Sound(Screen!clear_all_tabs(t))
<1>. DEFINE c == t.grid.cursor.column
<1>1. t \in Terms /\ t.columns \in Nat /\ DOMAIN t.tabs = 0 .. t.columns - 1
  BY CursorIs DEF Sound, Fits
<1>2. t.tabs \in [0 .. t.columns - 1 -> BOOLEAN]
  <2>1. PICK n \in Nat : t.tabs \in [0 .. n - 1 -> BOOLEAN]
    BY <1>1 DEF Terms, TabStops
  <2>. QED BY <1>1, <2>1
<1>3. \A f \in [0 .. t.columns - 1 -> BOOLEAN] : f \in TabStops /\ DOMAIN f = DOMAIN t.tabs
  BY <1>1 DEF TabStops
<1>4. /\ [t.tabs EXCEPT ![c] = TRUE] \in [0 .. t.columns - 1 -> BOOLEAN]
      /\ [t.tabs EXCEPT ![c] = FALSE] \in [0 .. t.columns - 1 -> BOOLEAN]
      /\ [d \in DOMAIN t.tabs |-> FALSE] \in [0 .. t.columns - 1 -> BOOLEAN]
  BY <1>1, <1>2
<1>5. /\ Screen!set_horizontal_tabstop(t) = [t EXCEPT !.tabs = [t.tabs EXCEPT ![c] = TRUE]]
      /\ Screen!clear_tab(t) = [t EXCEPT !.tabs = [t.tabs EXCEPT ![c] = FALSE]]
      /\ Screen!clear_all_tabs(t) = [t EXCEPT !.tabs = [d \in DOMAIN t.tabs |-> FALSE]]
  BY DEF Screen!set_horizontal_tabstop, Screen!clear_tab, Screen!clear_all_tabs
<1>6. \A f \in [0 .. t.columns - 1 -> BOOLEAN] : Sound([t EXCEPT !.tabs = f])
  BY <1>3, Retabbed
<1>7. /\ Sound([t EXCEPT !.tabs = [t.tabs EXCEPT ![c] = TRUE]])
      /\ Sound([t EXCEPT !.tabs = [t.tabs EXCEPT ![c] = FALSE]])
      /\ Sound([t EXCEPT !.tabs = [d \in DOMAIN t.tabs |-> FALSE]])
  BY <1>4, <1>6
<1>. QED BY <1>5, <1>7

LEMMA RegionSets ==
  ASSUME NEW t, Sound(t), NEW top \in Nat \ {0}, NEW bottom \in Nat
  PROVE  Sound(Screen!set_scrolling_region(t, top, bottom)) /\ Sound(Screen!deccolm(t))
<1>1. t.lines \in Nat \ {0}
  BY CursorIs DEF Sound
<1>2. ASSUME NEW a \in Nat \ {0}, NEW b \in Nat
      PROVE  Sound(Screen!set_scrolling_region(t, a, b))
  <2>. DEFINE start == Screen!MinOf(a - 1, t.lines)
              end == Screen!MinOf(b, t.lines)
              u == [t EXCEPT !.region = [start |-> start, end |-> end]]
  <2>1. CASE a >= b
    BY <2>1 DEF Screen!set_scrolling_region
  <2>2. CASE ~(a >= b)
    <3>1. start \in Nat /\ end \in Nat /\ start <= end /\ end <= t.lines
      BY <1>1, <2>2 DEF Screen!MinOf
    <3>2. Screen!set_scrolling_region(t, a, b) = Screen!goto(u, 0, 0)
      BY <2>2 DEF Screen!set_scrolling_region
    <3>. HIDE DEF start, end
    <3>3. Sound(u)
      BY <3>1, Regioned
    <3>. HIDE DEF u
    <3>. QED BY <3>2, <3>3, Goto DEF After
  <2>. QED BY <2>1, <2>2
<1>3. Sound(Screen!set_scrolling_region(t, 1, t.lines))
  BY <1>1, <1>2
<1>. QED BY <1>2, <1>3, AllDamaged DEF Screen!deccolm, Sound

LEMMA ModeSets ==
  ASSUME NEW t, Sound(t), NEW m \in Screen!Modes
  PROVE  /\ Sound(Screen!set_origin(t))
         /\ Sound(Screen!set_mode(t, m))
         /\ Sound(Screen!unset_mode(t, m))
<1>1. Fits(t) /\ t.mode \subseteq Screen!Modes /\ Covered(t)
  BY DEF Sound, Fits, Terms
<1>2. \A x \in Screen!Modes : Sound([t EXCEPT !.mode = t.mode \cup {x}])
  BY <1>1, Moded
<1>3. "ORIGIN" \in Screen!Modes
  BY DEF Screen!Modes
<1>4. Sound(Screen!set_origin(t))
  <2>. DEFINE u == [t EXCEPT !.mode = t.mode \cup {"ORIGIN"}]
  <2>1. Sound(u) /\ Screen!set_origin(t) = Screen!goto(u, 0, 0)
    BY <1>2, <1>3 DEF Screen!set_origin
  <2>. HIDE DEF u
  <2>. QED BY <2>1, Goto DEF After
<1>5. Sound(Screen!unset_mode(t, m))
  <2>. DEFINE off == [t EXCEPT !.mode = t.mode \ {m}]
  <2>1. Screen!unset_mode(t, m) = IF m = "INSERT" THEN Screen!mark_fully_damaged(off) ELSE off
    BY DEF Screen!unset_mode
  <2>2. Fits(off) /\ (m # "INSERT" => Sound(off))
    BY <1>1, Moded
  <2>. HIDE DEF off
  <2>. QED BY <2>1, <2>2, AllDamaged
<1>. QED BY <1>2, <1>4, <1>5 DEF Screen!set_mode

(* The two screens.                                                          *)
Screened(t, g, h, mode) == [t EXCEPT !.grid = g, !.inactive = h, !.mode = mode]

LEMMA Swapped ==
  ASSUME NEW t, Fits(t), NEW g, GridFits(g, t.lines, t.columns),
         NEW h, GridFits(h, t.lines, t.columns), NEW mode \in SUBSET Screen!Modes
  PROVE  Sound(Screen!mark_fully_damaged(Screened(t, g, h, mode)))
<1>1. t \in Terms /\ g \in Grids /\ h \in Grids
  BY DEF Fits, GridFits
<1>2. Screened(t, g, h, mode) \in Terms
  BY <1>1 DEF Terms, Screened
<1>3. Fits(Screened(t, g, h, mode))
  BY <1>1, <1>2 DEF Fits, Terms, Screen!Lines, Screened
<1>. QED BY <1>3, AllDamaged

(* A grid whose cursors are set to ones that fit.                             *)
LEMMA Recursored ==
  ASSUME NEW g, NEW lines, NEW columns, GridFits(g, lines, columns),
         NEW c \in Positions, Held(c, lines, columns)
  PROVE  GridFits([g EXCEPT !.cursor = c], lines, columns)
         /\ GridFits([g EXCEPT !.saved = c], lines, columns)
<1>1. g \in Grids
  BY DEF GridFits
<1>2. [g EXCEPT !.cursor = c] \in Grids /\ [g EXCEPT !.saved = c] \in Grids
  BY <1>1 DEF Grids
<1>. QED BY <1>1, <1>2 DEF GridFits, Grids

LEMMA SwapAlt ==
  ASSUME NEW t, Sound(t)
  PROVE  Sound(Screen!swap_alt(t))
<1>. DEFINE entering == "ALT_SCREEN" \notin t.mode
            primary == [t.grid EXCEPT !.saved = IF entering THEN t.grid.cursor ELSE @]
            other == [t.inactive EXCEPT !.cursor = IF entering THEN t.grid.cursor ELSE @]
            mode == IF entering THEN t.mode \cup {"ALT_SCREEN"} ELSE t.mode \ {"ALT_SCREEN"}
<1>1. /\ Fits(t)
      /\ GridFits(t.grid, t.lines, t.columns)
      /\ GridFits(t.inactive, t.lines, t.columns)
      /\ t.grid.cursor \in Positions /\ Held(t.grid.cursor, t.lines, t.columns)
      /\ t.grid \in Grids /\ t.inactive \in Grids /\ t.mode \subseteq Screen!Modes
  BY CursorIs DEF Sound, Fits, GridFits, Terms
<1>2. GridFits(primary, t.lines, t.columns) /\ GridFits(other, t.lines, t.columns)
  <2>1. CASE entering
    <3>1. primary = [t.grid EXCEPT !.saved = t.grid.cursor]
          /\ other = [t.inactive EXCEPT !.cursor = t.grid.cursor]
      BY <2>1
    <3>. QED BY <1>1, <3>1, Recursored
  <2>2. CASE ~entering
    <3>1. primary = t.grid /\ other = t.inactive
      BY <1>1, <2>2 DEF Grids
    <3>. QED BY <1>1, <3>1
  <2>. QED BY <2>1, <2>2
<1>3. mode \in SUBSET Screen!Modes
  BY <1>1 DEF Screen!Modes
<1>4. Screen!swap_alt(t)
      = Screen!mark_fully_damaged(Screened(t, other, primary, mode))
  BY DEF Screen!swap_alt, Screened
<1>. HIDE DEF primary, other, mode
<1>. QED BY <1>1, <1>2, <1>3, <1>4, Swapped

LEMMA FreshTabs ==
  ASSUME NEW n \in Nat
  PROVE  /\ Screen!NewTabs(n) \in TabStops /\ DOMAIN Screen!NewTabs(n) = 0 .. n - 1
         /\ \A tabs \in TabStops :
              /\ Screen!ResizeTabs(tabs, n) \in TabStops
              /\ DOMAIN Screen!ResizeTabs(tabs, n) = 0 .. n - 1
<1>1. Screen!NewTabs(n) \in [0 .. n - 1 -> BOOLEAN]
  BY DEF Screen!NewTabs
<1>2. ASSUME NEW tabs \in TabStops
      PROVE  Screen!ResizeTabs(tabs, n) \in [0 .. n - 1 -> BOOLEAN]
  <2>1. PICK m \in Nat : tabs \in [0 .. m - 1 -> BOOLEAN]
    BY DEF TabStops
  <2>. QED BY <2>1 DEF Screen!ResizeTabs
<1>. QED BY <1>1, <1>2 DEF TabStops

LEMMA GridIsReset ==
  ASSUME NEW g, NEW lines \in Nat \ {0}, NEW columns \in Nat \ {0}, GridFits(g, lines, columns)
  PROVE  GridFits(Screen!GridReset(g), lines, columns)
<1>. DEFINE h == Screen!clear_history(g)
<1>1. GridFits(h, lines, columns) /\ h \in Grids
  BY Cleared DEF GridFits
<1>2. Screen!Home \in Positions /\ Held(Screen!Home, lines, columns)
  BY DEF Screen!Home, Positions, Held
<1>3. Screen!GridReset(g) = [h EXCEPT !.cursor = Screen!Home, !.saved = Screen!Home]
  BY DEF Screen!GridReset
<1>. HIDE DEF h
<1>4. [h EXCEPT !.cursor = Screen!Home, !.saved = Screen!Home] \in Grids
  BY <1>1, <1>2 DEF Grids
<1>. QED BY <1>1, <1>2, <1>3, <1>4 DEF GridFits, Grids

LEMMA ResetsBoth ==
  ASSUME NEW t, Sound(t)
  PROVE  Sound(Screen!reset_state(t)) /\ Sound(Screen!reset_client_state(t))
<1>1. /\ Fits(t) /\ t \in Terms
      /\ t.lines \in Nat \ {0} /\ t.columns \in Nat \ {0, 1}
      /\ GridFits(Screen!Primary(t), t.lines, t.columns)
      /\ GridFits(Screen!Alternate(t), t.lines, t.columns)
  BY CursorIs DEF Sound, Fits, Screen!Primary, Screen!Alternate
<1>2. ASSUME NEW g, GridFits(g, t.lines, t.columns), NEW h, GridFits(h, t.lines, t.columns)
      PROVE  Sound(Screen!mark_fully_damaged(
               [t EXCEPT !.grid = g, !.inactive = h, !.region = Screen!WholeScreen(t.lines),
                         !.tabs = Screen!NewTabs(t.columns), !.mode = {"LINE_WRAP"}]))
  <2>. DEFINE u == [t EXCEPT !.grid = g, !.inactive = h, !.region = Screen!WholeScreen(t.lines),
                             !.tabs = Screen!NewTabs(t.columns), !.mode = {"LINE_WRAP"}]
  <2>1. g \in Grids /\ h \in Grids
    BY <1>2 DEF GridFits
  <2>2. /\ Screen!WholeScreen(t.lines) \in [start : Nat, end : Nat]
        /\ {"LINE_WRAP"} \in SUBSET Screen!Modes
        /\ Screen!NewTabs(t.columns) \in TabStops
        /\ DOMAIN Screen!NewTabs(t.columns) = 0 .. t.columns - 1
        /\ Screen!WholeScreen(t.lines).start = 0 /\ Screen!WholeScreen(t.lines).end = t.lines
    BY <1>1, FreshTabs DEF Screen!WholeScreen, Screen!Modes
  <2>3. u \in Terms
    BY <1>1, <2>1, <2>2 DEF Terms
  <2>4. /\ u.lines = t.lines /\ u.columns = t.columns /\ u.grid = g /\ u.inactive = h
        /\ u.region = Screen!WholeScreen(t.lines) /\ u.tabs = Screen!NewTabs(t.columns)
        /\ u.last = t.last /\ u.changed = t.changed
    BY <1>1 DEF Terms
  <2>. HIDE DEF u
  <2>5. Fits(u)
    BY <1>1, <1>2, <2>2, <2>3, <2>4 DEF Fits, Screen!Lines
  <2>. QED BY <2>5, AllDamaged DEF u
<1>3. GridFits(Screen!GridReset(Screen!Primary(t)), t.lines, t.columns)
      /\ GridFits(Screen!GridReset(Screen!Alternate(t)), t.lines, t.columns)
  BY <1>1, GridIsReset
<1>. QED BY <1>1, <1>2, <1>3 DEF Screen!reset_state, Screen!reset_client_state

LEMMA Limited ==
  ASSUME NEW g, NEW lines, NEW columns, GridFits(g, lines, columns), NEW limit \in Nat
  PROVE  GridFits(Screen!update_history(g, limit), lines, columns)
<1>. DEFINE history == Screen!MinOf(g.history, limit)
            offset == Screen!MinOf(g.offset, limit)
<1>1. g \in Grids /\ g.history \in Nat /\ g.offset \in Int
  BY DEF GridFits, Grids
<1>2. history \in Nat /\ offset \in Int /\ history <= limit
  BY <1>1 DEF Screen!MinOf
<1>3. Screen!update_history(g, limit)
      = [g EXCEPT !.history = history, !.offset = offset, !.limit = limit]
  BY DEF Screen!update_history
<1>. HIDE DEF history, offset
<1>4. [g EXCEPT !.history = history, !.offset = offset, !.limit = limit] \in Grids
  BY <1>1, <1>2 DEF Grids
<1>. QED BY <1>1, <1>2, <1>3, <1>4 DEF GridFits, Grids

LEMMA Windows ==
  ASSUME NEW t, Sound(t)
  PROVE  /\ Sound(Screen!Draw(t))
         /\ \A limit \in Nat : Sound(Screen!set_options(t, limit))
         /\ \A delta \in Int : Sound(Screen!scroll_display(t, delta))
<1>1. /\ Fits(t) /\ t \in Terms /\ t.grid \in Grids /\ t.inactive \in Grids
      /\ GridFits(t.grid, t.lines, t.columns) /\ GridFits(t.inactive, t.lines, t.columns)
      /\ t.grid.cursor.line \in Nat /\ t.grid.cursor.line < t.lines
  BY CursorIs DEF Sound, Fits, GridFits
<1>2. Sound(Screen!Draw(t))
  <2>. DEFINE l == t.grid.cursor.line
  <2>1. Screen!Draw(t) = [t EXCEPT !.full = FALSE, !.damaged = {}, !.changed = {}, !.last = l]
    BY DEF Screen!Draw
  <2>. HIDE DEF l
  <2>2. Screen!Draw(t) \in Terms
    BY <1>1, <2>1 DEF Terms, l
  <2>3. /\ Screen!Draw(t).lines = t.lines
        /\ Screen!Draw(t).columns = t.columns
        /\ Screen!Draw(t).grid = t.grid
        /\ Screen!Draw(t).inactive = t.inactive
        /\ Screen!Draw(t).region = t.region
        /\ Screen!Draw(t).tabs = t.tabs
        /\ Screen!Draw(t).last = l /\ Screen!Draw(t).changed = {}
    BY <1>1, <2>1 DEF Terms
  <2>. QED BY <1>1, <2>2, <2>3 DEF Sound, Fits, Covered, Screen!Lines, l
<1>3. ASSUME NEW limit \in Nat
      PROVE  Sound(Screen!set_options(t, limit))
  <2>1. GridFits(Screen!update_history(t.grid, limit), t.lines, t.columns)
        /\ GridFits(Screen!update_history(t.inactive, limit), t.lines, t.columns)
    BY <1>1, Limited
  <2>2. CASE "ALT_SCREEN" \in t.mode
    <3>. DEFINE g == Screen!update_history(t.inactive, limit)
                u == [t EXCEPT !.inactive = g]
    <3>1. Screen!set_options(t, limit) = Screen!mark_fully_damaged(u)
      BY <2>2 DEF Screen!set_options
    <3>2. g \in Grids /\ GridFits(g, t.lines, t.columns)
      BY <2>1 DEF GridFits
    <3>. HIDE DEF g
    <3>3. u \in Terms
      BY <1>1, <3>2 DEF Terms
    <3>4. Fits(u)
      BY <1>1, <3>2, <3>3 DEF Fits, Terms, Screen!Lines
    <3>. QED BY <3>1, <3>4, AllDamaged
  <2>3. CASE "ALT_SCREEN" \notin t.mode
    <3>. DEFINE g == Screen!update_history(t.grid, limit)
    <3>1. Screen!set_options(t, limit) = Screen!mark_fully_damaged([t EXCEPT !.grid = g])
      BY <2>3 DEF Screen!set_options
    <3>. QED BY <1>1, <2>1, <3>1, Replaced
  <2>. QED BY <2>2, <2>3
<1>4. ASSUME NEW delta \in Int
      PROVE  Sound(Screen!scroll_display(t, delta))
  <2>. DEFINE offset == Screen!MinOf(Screen!MaxOf(t.grid.offset + delta, 0), t.grid.history)
              g == [t.grid EXCEPT !.offset = offset]
              u == [t EXCEPT !.grid = g]
  <2>1. offset \in Int
    BY <1>1 DEF Grids, Screen!MinOf, Screen!MaxOf
  <2>2. Screen!scroll_display(t, delta) \in {t, Screen!mark_fully_damaged(u)}
    BY DEF Screen!scroll_display, Screen!GridScrollDisplay
  <2>. HIDE DEF offset
  <2>3. g \in Grids
    BY <1>1, <2>1 DEF Grids
  <2>4. GridFits(g, t.lines, t.columns)
    BY <1>1, <2>3 DEF GridFits, Grids
  <2>. HIDE DEF g
  <2>. QED BY <1>1, <2>2, <2>4, Replaced
<1>. QED BY <1>2, <1>3, <1>4

(* Resizing a grid.                                                          *)
LEMMA GrowsLines ==
  ASSUME NEW g, NEW lines \in Nat \ {0}, NEW columns, GridFits(g, lines, columns),
         NEW target \in Nat, target > lines
  PROVE  GridFits(Screen!grow_lines(g, lines, target), target, columns)
<1>. DEFINE added == target - lines
            from == Screen!MinOf(g.history, added)
            up == Screen!GridScrollUp(g, 0, target, added - from)
            scrolled == IF from = added THEN g ELSE up
            moved == [scrolled EXCEPT !.cursor.line = @ + from, !.saved.line = @ + from,
                                      !.offset = Screen!MaxOf(@ - added, 0)]
<1>1. g \in Grids /\ g.history \in Nat
  BY DEF GridFits, Grids
<1>2. added \in Nat /\ from \in Nat /\ from <= added /\ added - from \in Nat
      /\ target = lines + added
  BY <1>1 DEF Screen!MinOf
<1>. HIDE DEF from, added
<1>3. GridFits(up, lines, columns)
  BY <1>2, Scrolled
<1>4. GridFits(scrolled, lines, columns)
  BY <1>3
<1>5. Screen!grow_lines(g, lines, target) = Screen!decrease_scroll_limit(moved, added)
  BY DEF Screen!grow_lines, added, from
<1>. HIDE DEF scrolled
<1>. DEFINE c == [scrolled.cursor EXCEPT !.line = @ + from]
            s == [scrolled.saved EXCEPT !.line = @ + from]
            o == Screen!MaxOf(scrolled.offset - added, 0)
<1>6. /\ scrolled \in Grids /\ scrolled.cursor \in Positions /\ scrolled.saved \in Positions
      /\ Held(scrolled.cursor, lines, columns) /\ Held(scrolled.saved, lines, columns)
      /\ scrolled.offset \in Int /\ scrolled.history \in Nat /\ scrolled.limit \in Nat
      /\ scrolled.history <= scrolled.limit
  BY <1>4 DEF GridFits, Grids
<1>7. /\ c \in Positions /\ Held(c, target, columns)
      /\ s \in Positions /\ Held(s, target, columns)
  BY <1>2, <1>6 DEF Positions, Held
<1>8. o \in Int
  BY <1>2, <1>6 DEF Screen!MaxOf
<1>9. moved = [scrolled EXCEPT !.cursor = c, !.saved = s, !.offset = o]
  BY <1>6 DEF Grids
<1>. HIDE DEF c, s, o, moved
<1>10. moved \in Grids
  BY <1>6, <1>7, <1>8, <1>9 DEF Grids
<1>11. /\ moved.cursor = c /\ moved.saved = s /\ moved.offset = o
       /\ moved.history = scrolled.history /\ moved.limit = scrolled.limit
  BY <1>6, <1>9 DEF Grids
<1>12. GridFits(moved, target, columns)
  BY <1>6, <1>7, <1>10, <1>11 DEF GridFits
<1>. DEFINE k == Screen!MinOf(added, moved.history)
            less == moved.history - k
            view == Screen!MinOf(moved.offset, less)
<1>13. k \in Nat /\ less \in Nat /\ less <= moved.history /\ view \in Int
  BY <1>2, <1>6, <1>8, <1>11 DEF Screen!MinOf
<1>14. Screen!decrease_scroll_limit(moved, added)
       = IF k = 0 THEN moved ELSE [moved EXCEPT !.history = less, !.offset = view]
  BY DEF Screen!decrease_scroll_limit
<1>. HIDE DEF k, less, view
<1>15. [moved EXCEPT !.history = less, !.offset = view] \in Grids
  BY <1>10, <1>13 DEF Grids
<1>16. GridFits([moved EXCEPT !.history = less, !.offset = view], target, columns)
  BY <1>6, <1>10, <1>11, <1>12, <1>13, <1>15 DEF GridFits, Grids
<1>. QED BY <1>5, <1>12, <1>14, <1>16

LEMMA ShrinksLines ==
  ASSUME NEW g, NEW lines \in Nat \ {0}, NEW columns, GridFits(g, lines, columns),
         NEW target \in Nat \ {0}, target < lines
  PROVE  GridFits(Screen!shrink_lines(g, lines, target), target, columns)
<1>. DEFINE required == Screen!MaxOf(g.cursor.line + 1 - target, 0)
            up == Screen!GridScrollUp(g, 0, lines, required)
            scrolled == IF required = 0 THEN g
                        ELSE [up EXCEPT !.cursor.line = Screen!MinOf(@, target - 1)]
            u == IF required = 0 THEN g ELSE up
            c == IF required = 0 THEN g.cursor
                 ELSE [up.cursor EXCEPT !.line = Screen!MinOf(@, target - 1)]
            s == [u.saved EXCEPT !.line = Screen!MinOf(@, target - 1)]
<1>1. g \in Grids /\ g.cursor \in Positions /\ g.cursor.line \in Nat
      /\ Held(g.cursor, lines, columns)
  BY DEF GridFits, Grids, Positions
<1>2. required \in Nat /\ (required = 0 => g.cursor.line < target)
  BY <1>1 DEF Screen!MaxOf
<1>3. Screen!shrink_lines(g, lines, target)
      = [scrolled EXCEPT !.saved.line = Screen!MinOf(@, target - 1)]
  BY DEF Screen!shrink_lines
<1>. HIDE DEF required
<1>4. GridFits(up, lines, columns)
  BY <1>2, Scrolled
<1>5. GridFits(u, lines, columns)
  BY <1>4
<1>6. scrolled = [u EXCEPT !.cursor = c]
  <2>1. u \in Grids
    BY <1>5 DEF GridFits
  <2>2. CASE required = 0
    <3>1. scrolled = g /\ u = g /\ c = g.cursor
      BY <2>2
    <3>2. [g EXCEPT !.cursor = g.cursor] = g
      BY <1>1 DEF Grids
    <3>. HIDE DEF scrolled, u, c
    <3>. QED BY <3>1, <3>2
  <2>3. CASE required # 0
    BY <2>3
  <2>. QED BY <2>2, <2>3
<1>7. c \in Positions /\ Held(c, target, columns)
  <2>1. CASE required = 0
    BY <1>1, <1>2, <2>1 DEF Held
  <2>2. CASE required # 0
    <3>1. up.cursor \in Positions /\ Held(up.cursor, lines, columns)
      BY <1>4 DEF GridFits, Grids
    <3>2. c = [up.cursor EXCEPT !.line = Screen!MinOf(@, target - 1)]
      BY <2>2
    <3>. HIDE DEF up, c
    <3>3. /\ Screen!MinOf(up.cursor.line, target - 1) \in Nat
          /\ Screen!MinOf(up.cursor.line, target - 1) < target
      BY <3>1 DEF Positions, Screen!MinOf
    <3>. QED BY <3>1, <3>2, <3>3 DEF Positions, Held
  <2>. QED BY <2>1, <2>2
<1>. HIDE DEF u, c, scrolled
<1>8. /\ u \in Grids /\ u.saved \in Positions /\ Held(u.saved, lines, columns)
      /\ u.history <= u.limit
  BY <1>5 DEF GridFits, Grids
<1>9. s \in Positions /\ Held(s, target, columns)
  <2>1. /\ Screen!MinOf(u.saved.line, target - 1) \in Nat
        /\ Screen!MinOf(u.saved.line, target - 1) < target
    BY <1>8 DEF Positions, Screen!MinOf
  <2>. QED BY <1>8, <2>1 DEF Positions, Held
<1>10. scrolled.saved = u.saved /\ scrolled \in Grids
  BY <1>6, <1>7, <1>8 DEF Grids
<1>11. Screen!shrink_lines(g, lines, target) = [scrolled EXCEPT !.saved = s]
  BY <1>3, <1>10
<1>. HIDE DEF s
<1>12. [scrolled EXCEPT !.saved = s] \in Grids
  BY <1>9, <1>10 DEF Grids
<1>13. /\ [scrolled EXCEPT !.saved = s].cursor = c /\ [scrolled EXCEPT !.saved = s].saved = s
       /\ [scrolled EXCEPT !.saved = s].history = u.history
       /\ [scrolled EXCEPT !.saved = s].limit = u.limit
  BY <1>6, <1>8, <1>10 DEF Grids
<1>. QED BY <1>7, <1>8, <1>9, <1>11, <1>12, <1>13 DEF GridFits

(* What reflow finds: a cursor on the new screen and some history.           *)
Flows(r, size) ==
  /\ r.cursor \in Positions /\ Held(r.cursor, size.lines, size.columns)
  /\ r.history \in Nat

LEMMA ResizesColumns ==
  ASSUME NEW g, NEW lines, NEW columns \in Nat, GridFits(g, lines, columns),
         NEW target \in Nat \ {0}, NEW reflow \in BOOLEAN, NEW r, r.cursor \in Positions,
         Held(r.cursor, lines, target), r.history \in Nat
  PROVE  GridFits(Screen!ResizeColumns(g, columns, target, reflow, r), lines, target)
<1>. DEFINE clamp(p) == [p EXCEPT !.column = Screen!MinOf(@, target - 1)]
            history == IF reflow THEN Screen!MinOf(r.history, g.limit) ELSE g.history
            c == IF reflow THEN r.cursor ELSE clamp(g.cursor)
            flowed == IF reflow THEN [g EXCEPT !.cursor = r.cursor,
                                               !.history = Screen!MinOf(r.history, g.limit)]
                      ELSE [g EXCEPT !.cursor.column = Screen!MinOf(@, target - 1)]
            o == Screen!MinOf(flowed.offset, flowed.history)
<1>1. /\ g \in Grids /\ g.cursor \in Positions /\ g.saved \in Positions /\ g.offset \in Int
      /\ g.history \in Nat /\ g.limit \in Nat /\ g.history <= g.limit
      /\ Held(g.cursor, lines, columns) /\ Held(g.saved, lines, columns)
  BY DEF GridFits, Grids
<1>2. ASSUME NEW p \in Positions, Held(p, lines, columns)
      PROVE  clamp(p) \in Positions /\ Held(clamp(p), lines, target)
  <2>1. Screen!MinOf(p.column, target - 1) \in Nat /\ Screen!MinOf(p.column, target - 1) < target
    BY DEF Positions, Screen!MinOf
  <2>. QED BY <1>2, <2>1 DEF Positions, Held
<1>3. c \in Positions /\ Held(c, lines, target)
  BY <1>1, <1>2
<1>4. history \in Nat /\ history <= g.limit
  BY <1>1 DEF Screen!MinOf
<1>5. flowed = [g EXCEPT !.cursor = c, !.history = history]
  <2>1. CASE reflow
    BY <2>1
  <2>2. CASE ~reflow
    <3>1. c = clamp(g.cursor) /\ history = g.history
      BY <2>2
    <3>2. flowed = [g EXCEPT !.cursor = clamp(g.cursor)]
      BY <2>2
    <3>. HIDE DEF c, history, flowed, clamp
    <3>3. [g EXCEPT !.cursor = c, !.history = g.history] = [g EXCEPT !.cursor = c]
      BY <1>1 DEF Grids
    <3>. QED BY <3>1, <3>2, <3>3
  <2>. QED BY <2>1, <2>2
<1>6. Screen!ResizeColumns(g, columns, target, reflow, r)
      = IF columns = target THEN g ELSE [flowed EXCEPT !.saved = clamp(flowed.saved), !.offset = o]
  BY DEF Screen!ResizeColumns
<1>. HIDE DEF c, history, flowed
<1>7. /\ flowed \in Grids /\ flowed.saved = g.saved /\ flowed.offset = g.offset
      /\ flowed.history = history /\ flowed.limit = g.limit /\ flowed.cursor = c
  BY <1>1, <1>3, <1>4, <1>5 DEF Grids
<1>8. o \in Int
  BY <1>1, <1>4, <1>7 DEF Screen!MinOf
<1>9. clamp(flowed.saved) \in Positions /\ Held(clamp(flowed.saved), lines, target)
  BY <1>1, <1>2, <1>7
<1>. DEFINE s == clamp(flowed.saved)
            h == [flowed EXCEPT !.saved = s, !.offset = o]
<1>. HIDE DEF s, o
<1>10. s \in Positions /\ Held(s, lines, target)
  BY <1>9 DEF s
<1>11. h \in Grids
  BY <1>7, <1>8, <1>10 DEF Grids
<1>12. h.saved = s /\ h.cursor = c /\ h.history = history /\ h.limit = g.limit
  BY <1>7 DEF Grids
<1>13. GridFits(h, lines, target)
  BY <1>3, <1>4, <1>10, <1>11, <1>12 DEF GridFits
<1>14. Screen!ResizeColumns(g, columns, target, reflow, r) = IF columns = target THEN g ELSE h
  BY <1>6 DEF s
<1>. QED BY <1>13, <1>14

LEMMA ResizesGrid ==
  ASSUME NEW g, NEW t, t.lines \in Nat \ {0}, t.columns \in Nat, GridFits(g, t.lines, t.columns),
         NEW size, size.lines \in Nat \ {0}, size.columns \in Nat \ {0},
         NEW reflow \in BOOLEAN, NEW r, Flows(r, size)
  PROVE  GridFits(Screen!GridResize(g, t, size, reflow, r), size.lines, size.columns)
<1>. DEFINE tall == IF size.lines > t.lines THEN Screen!grow_lines(g, t.lines, size.lines)
                    ELSE IF size.lines < t.lines THEN Screen!shrink_lines(g, t.lines, size.lines)
                    ELSE g
<1>1. GridFits(tall, size.lines, t.columns)
  BY GrowsLines, ShrinksLines
<1>2. Screen!GridResize(g, t, size, reflow, r)
      = Screen!ResizeColumns(tall, t.columns, size.columns, reflow, r)
  BY DEF Screen!GridResize
<1>. HIDE DEF tall
<1>. QED BY <1>1, <1>2, ResizesColumns DEF Flows

LEMMA Resizes ==
  ASSUME NEW t, Sound(t), NEW size \in [lines : Nat \ {0}, columns : Nat \ {0, 1}],
         NEW r, Flows(r, size)
  PROVE  Sound(Screen!resize(t, size, r))
<1>. DEFINE alt == "ALT_SCREEN" \in t.mode
            g == Screen!GridResize(t.grid, t, size, ~alt, r)
            h == Screen!GridResize(t.inactive, t, size, alt, r)
            tabs == Screen!ResizeTabs(t.tabs, size.columns)
            region == Screen!WholeScreen(size.lines)
            u == [t EXCEPT !.grid = g, !.inactive = h, !.lines = size.lines,
                           !.columns = size.columns, !.tabs = tabs, !.region = region, !.last = 0]
<1>1. /\ Fits(t) /\ t \in Terms /\ t.lines \in Nat \ {0} /\ t.columns \in Nat \ {0, 1}
      /\ GridFits(t.grid, t.lines, t.columns) /\ GridFits(t.inactive, t.lines, t.columns)
      /\ t.tabs \in TabStops
  BY CursorIs DEF Sound, Fits, Terms
<1>2. size.lines \in Nat \ {0} /\ size.columns \in Nat \ {0, 1}
  OBVIOUS
<1>3. alt \in BOOLEAN /\ (~alt) \in BOOLEAN
  OBVIOUS
<1>4. GridFits(g, size.lines, size.columns) /\ GridFits(h, size.lines, size.columns)
  <2>. HIDE DEF alt
  <2>. QED BY <1>1, <1>2, <1>3, ResizesGrid
<1>5. /\ tabs \in TabStops /\ DOMAIN tabs = 0 .. size.columns - 1
      /\ region \in [start : Nat, end : Nat] /\ region.start = 0 /\ region.end = size.lines
  BY <1>1, <1>2, FreshTabs DEF Screen!WholeScreen
<1>6. Screen!resize(t, size, r)
      = IF size = [lines |-> t.lines, columns |-> t.columns] THEN t
        ELSE Screen!mark_fully_damaged(u)
  BY DEF Screen!resize
<1>7. ASSUME size # [lines |-> t.lines, columns |-> t.columns]
      PROVE  Sound(Screen!mark_fully_damaged(u))
  <2>1. g \in Grids /\ h \in Grids
    BY <1>4 DEF GridFits
  <2>. HIDE DEF g, h, tabs, region
  <2>2. u \in Terms
    BY <1>1, <1>2, <1>5, <2>1 DEF Terms
  <2>3. /\ u.lines = size.lines /\ u.columns = size.columns /\ u.grid = g /\ u.inactive = h
        /\ u.region = region /\ u.tabs = tabs /\ u.last = 0 /\ u.changed = t.changed
    BY <1>1 DEF Terms
  <2>. DEFINE v == [u EXCEPT !.changed = {}]
  <2>. HIDE DEF u
  <2>4. v \in Terms
    BY <2>2 DEF Terms
  <2>5. /\ v.lines = size.lines /\ v.columns = size.columns /\ v.grid = g /\ v.inactive = h
        /\ v.region = region /\ v.tabs = tabs /\ v.last = 0 /\ v.changed = {}
    BY <2>2, <2>3 DEF Terms
  <2>6. Screen!mark_fully_damaged(u) = Screen!mark_fully_damaged(v)
    BY <2>2 DEF Terms, Screen!mark_fully_damaged
  <2>. HIDE DEF v
  <2>7. Fits(v)
    BY <1>2, <1>4, <1>5, <2>4, <2>5 DEF Fits
  <2>. QED BY <2>6, <2>7, AllDamaged
<1>. QED BY <1>6, <1>7

LEMMA TermInit ==
  ASSUME TermAssumption, Screen!Init
  PROVE  TermInv
<1>1. PICK size \in Sizes, limit \in Limits :
        term = [lines |-> size.lines, columns |-> size.columns,
                grid |-> Screen!NewGrid(limit), inactive |-> Screen!NewGrid(0),
                region |-> Screen!WholeScreen(size.lines), tabs |-> Screen!NewTabs(size.columns),
                mode |-> {"LINE_WRAP"},
                full |-> TRUE, damaged |-> {}, last |-> 0, changed |-> {}]
  BY DEF Screen!Init
<1>2. size.lines \in Nat \ {0} /\ size.columns \in Nat \ {0, 1} /\ limit \in Nat
  BY DEF TermAssumption
<1>3. \A n \in Nat : GridFits(Screen!NewGrid(n), size.lines, size.columns)
  <2>. SUFFICES ASSUME NEW n \in Nat PROVE GridFits(Screen!NewGrid(n), size.lines, size.columns)
    OBVIOUS
  <2>1. Screen!Home \in Positions /\ Held(Screen!Home, size.lines, size.columns)
    BY <1>2 DEF Screen!Home, Positions, Held
  <2>. QED BY <2>1 DEF Screen!NewGrid, GridFits, Grids
<1>4. GridFits(Screen!NewGrid(limit), size.lines, size.columns)
      /\ GridFits(Screen!NewGrid(0), size.lines, size.columns)
  BY <1>2, <1>3
<1>5. /\ Screen!NewTabs(size.columns) \in TabStops
      /\ DOMAIN Screen!NewTabs(size.columns) = 0 .. size.columns - 1
      /\ Screen!WholeScreen(size.lines) \in [start : Nat, end : Nat]
      /\ {"LINE_WRAP"} \in SUBSET Screen!Modes
      /\ Screen!WholeScreen(size.lines).start = 0
      /\ Screen!WholeScreen(size.lines).end = size.lines
  BY <1>2, FreshTabs DEF Screen!WholeScreen, Screen!Modes
<1>6. /\ term.lines = size.lines /\ term.columns = size.columns
      /\ term.grid = Screen!NewGrid(limit) /\ term.inactive = Screen!NewGrid(0)
      /\ term.region = Screen!WholeScreen(size.lines) /\ term.tabs = Screen!NewTabs(size.columns)
      /\ term.mode = {"LINE_WRAP"} /\ term.full /\ term.last = 0 /\ term.changed = {}
  BY <1>1
<1>7. Screen!NewGrid(limit) \in Grids /\ Screen!NewGrid(0) \in Grids
  BY <1>4 DEF GridFits
<1>8. term \in Terms
  BY <1>1, <1>2, <1>5, <1>7 DEF Terms
<1>. QED BY <1>2, <1>4, <1>5, <1>6, <1>8 DEF TermInv, Sound, Fits, Covered

LEMMA TermPromise ==
  ASSUME TermInv
  PROVE  Screen!ScreenKept
<1>1. /\ Fits(term) /\ Covered(term) /\ term \in Terms
      /\ term.lines \in Nat \ {0} /\ term.columns \in Nat \ {0, 1}
      /\ GridFits(term.grid, term.lines, term.columns)
      /\ GridFits(term.inactive, term.lines, term.columns)
  BY CursorIs DEF TermInv, Sound, Fits
<1>2. \A c \in Positions : Held(c, term.lines, term.columns) => Screen!Inside(term, c)
  BY <1>1 DEF Positions, Held, Screen!Inside, Screen!Lines, Screen!Columns
<1>3. \A g \in {term.grid, term.inactive} :
        Screen!Inside(term, g.cursor) /\ Screen!Inside(term, g.saved)
  BY <1>1, <1>2 DEF GridFits, Grids
<1>4. /\ DOMAIN term.tabs = Screen!Columns(term) /\ term.last \in Screen!Lines(term)
      /\ 0 <= term.region.start /\ term.region.start <= term.region.end
      /\ term.region.end <= term.lines
  BY <1>1 DEF Fits, Terms, Screen!Lines, Screen!Columns
<1>5. Screen!ChangesDamaged
  BY <1>1 DEF Screen!ChangesDamaged, Covered, Screen!damage, Fits
<1>. QED BY <1>3, <1>4, <1>5 DEF Screen!ScreenKept, Screen!CursorsInside

LEMMA TermStep ==
  ASSUME TermAssumption, TermInv, Screen!Next \/ UNCHANGED Screen!termVars
  PROVE  TermInv'
<1>. SUFFICES Sound(term')
  BY DEF TermInv, Sound, Fits, Covered, GridFits, Held, Screen!Lines
<1>. DEFINE t == term
<1>1. Sound(t) /\ \A n \in Counts : n \in Nat \ {0}
  BY DEF TermInv, TermAssumption
<1>2. ASSUME NEW u, Screen!Run(u) PROVE term' = u
  BY <1>2 DEF Screen!Run
<1>3. CASE UNCHANGED Screen!termVars
  BY <1>1, <1>3 DEF Screen!termVars
<1>4. CASE Screen!Prints
  <2>1. PICK n \in Counts \cup {0} :
          \/ n <= 2 /\ Screen!Run(Screen!input(t, n))
          \/ n > 0 /\ Screen!Run(Screen!input_str(t, n))
    BY <1>4 DEF Screen!Prints
  <2>2. n \in Nat
    BY <1>1
  <2>3. CASE n <= 2 /\ Screen!Run(Screen!input(t, n))
    <3>1. n \in 0 .. 2
      BY <2>2, <2>3
    <3>. QED BY <1>1, <1>2, <2>3, <3>1, Input
  <2>4. CASE Screen!Run(Screen!input_str(t, n))
    BY <1>1, <1>2, <2>2, <2>4, Segment
  <2>. QED BY <2>1, <2>3, <2>4
<1>5. CASE Screen!Control
  BY <1>1, <1>2, <1>5, Linefeed, Backs, TabMoves DEF Screen!Control
<1>6. CASE Screen!Motion
  <2>1. PICK n \in Counts :
          \/ Screen!Run(Screen!move_up(t, n)) \/ Screen!Run(Screen!move_down(t, n))
          \/ Screen!Run(Screen!move_forward(t, n)) \/ Screen!Run(Screen!move_backward(t, n))
          \/ Screen!Run(Screen!goto_line(t, n - 1)) \/ Screen!Run(Screen!goto_col(t, n - 1))
          \/ Screen!Run(Screen!move_down_and_cr(t, n)) \/ Screen!Run(Screen!move_up_and_cr(t, n))
    BY <1>6 DEF Screen!Motion
  <2>2. n \in Nat \ {0}
    BY <1>1
  <2>3. /\ Sound(Screen!move_up(t, n)) /\ Sound(Screen!move_down(t, n))
        /\ Sound(Screen!move_forward(t, n)) /\ Sound(Screen!move_backward(t, n))
        /\ Sound(Screen!goto_line(t, n - 1)) /\ Sound(Screen!goto_col(t, n - 1))
        /\ Sound(Screen!move_down_and_cr(t, n)) /\ Sound(Screen!move_up_and_cr(t, n))
    BY <1>1, <2>2, MotionKeeps
  <2>. QED BY <1>2, <2>1, <2>3
<1>7. CASE Screen!Tabs
  BY <1>1, <1>2, <1>7, TabMoves, TabSets DEF Screen!Tabs
<1>8. CASE Screen!Edit
  <2>1. CASE Screen!Run(Screen!EditLine(t)) \/ \E right
        \in BOOLEAN : Screen!Run(Screen!clear_line(t, right))
    BY <1>1, <1>2, <2>1, LineEdits
  <2>2. ASSUME NEW n \in Counts,
               \/ Screen!Run(Screen!insert_blank_lines(t, n))
               \/ Screen!Run(Screen!delete_lines(t, n))
               \/ Screen!Run(Screen!scroll_up(t, n)) \/ Screen!Run(Screen!scroll_down(t, n))
        PROVE  Sound(term')
    <3>1. n \in Nat
      BY <1>1
    <3>2. /\ Sound(Screen!insert_blank_lines(t, n)) /\ Sound(Screen!delete_lines(t, n))
          /\ Sound(Screen!scroll_up(t, n)) /\ Sound(Screen!scroll_down(t, n))
      BY <1>1, <3>1, LineEdits, Scrolls
    <3>. QED BY <1>2, <2>2, <3>2
  <2>. QED BY <1>8, <2>1, <2>2 DEF Screen!Edit
<1>9. CASE Screen!Clear
  <2>1. ASSUME NEW n \in Nat
        PROVE  /\ Sound(Screen!ClearCells(t))
               /\ Sound(Screen!ClearSaved(t))
               /\ Sound(Screen!ClearAll(t, n))
               /\ Sound(Screen!clear_buffer(t, n))
    BY <1>1, Clears
  <2>2. Counts \cup {0} \subseteq Nat
    BY <1>1
  <2>. QED BY <1>2, <1>9, <2>1, <2>2 DEF Screen!Clear
<1>10. CASE Screen!Cursors
  BY <1>1, <1>2, <1>10, SavesCursor DEF Screen!Cursors
<1>11. CASE Screen!Regions
  <2>1. \A top, bottom \in Counts : Sound(Screen!set_scrolling_region(t, top, bottom))
    BY <1>1, RegionSets
  <2>2. Sound(Screen!deccolm(t))
    BY <1>1, RegionSets
  <2>. QED BY <1>2, <1>11, <2>1, <2>2 DEF Screen!Regions
<1>12. CASE Screen!ModeChange
  <2>1. \A m \in Screen!Modes : /\ Sound(Screen!set_origin(t))
                               /\ Sound(Screen!set_mode(t, m))
                               /\ Sound(Screen!unset_mode(t, m))
    BY <1>1, ModeSets
  <2>2. /\ "ORIGIN" \in Screen!Modes
        /\ {"LINE_WRAP", "INSERT", "LINE_FEED_NEW_LINE"} \subseteq Screen!Modes
    BY DEF Screen!Modes
  <2>3. Sound(Screen!swap_alt(t))
    BY <1>1, SwapAlt
  <2>4. Sound(Screen!set_origin(t))
    BY <2>1, <2>2
  <2>. QED BY <1>2, <1>12, <2>1, <2>2, <2>3, <2>4 DEF Screen!ModeChange
<1>13. CASE Screen!Resets
  BY <1>1, <1>2, <1>13, ResetsBoth DEF Screen!Resets
<1>14. CASE Screen!Window
  <2>1. CASE Screen!Run(Screen!Draw(t))
    BY <1>1, <1>2, <2>1, Windows
  <2>2. ASSUME NEW limit \in Limits, Screen!Run(Screen!set_options(t, limit)) PROVE Sound(term')
    <3>1. limit \in Nat
      BY DEF TermAssumption
    <3>. QED BY <1>1, <1>2, <2>2, <3>1, Windows
  <2>3. ASSUME NEW n \in Counts,
               Screen!Run(Screen!scroll_display(t, n)) \/ Screen!Run(Screen!scroll_display(t, -n))
        PROVE  Sound(term')
    <3>1. n \in Int /\ -n \in Int
      BY <1>1
    <3>2. \A d \in Int : Sound(Screen!scroll_display(t, d))
      BY <1>1, Windows
    <3>. QED BY <1>2, <2>3, <3>1, <3>2
  <2>4. ASSUME NEW size \in Sizes, NEW history \in UNION {0 .. limit : limit \in Limits},
               NEW wrap \in BOOLEAN, NEW line \in 0 .. size.lines - 1,
               NEW column \in 0 .. size.columns - 1,
               Screen!Run(Screen!resize(t, size,
                 [cursor |-> [line |-> line, column |-> column, wrap |-> wrap],
                  history |-> history]))
        PROVE  Sound(term')
    <3>. DEFINE c == [line |-> line, column |-> column, wrap |-> wrap]
                r == [cursor |-> c, history |-> history]
    <3>1. size \in [lines : Nat \ {0}, columns : Nat \ {0, 1}]
      BY DEF TermAssumption
    <3>2. size.lines \in Nat /\ size.columns \in Nat
      BY <3>1
    <3>3. history \in Nat
      BY DEF TermAssumption
    <3>4. c \in Positions /\ Held(c, size.lines, size.columns)
      BY <3>2 DEF Positions, Held
    <3>5. Flows(r, size)
      BY <3>3, <3>4 DEF Flows
    <3>6. term' = Screen!resize(t, size, r)
      BY <1>2, <2>4
    <3>. HIDE DEF r
    <3>. QED BY <1>1, <3>1, <3>5, <3>6, Resizes
  <2>. QED BY <1>14, <2>1, <2>2, <2>3, <2>4 DEF Screen!Window
<1>. QED BY <1>3, <1>4, <1>5, <1>6, <1>7, <1>8, <1>9, <1>10, <1>11, <1>12, <1>13, <1>14 DEF
            Screen!Next

(* Whatever controls, resizes, resets and frames come in whatever order, the *)
(* cursors, the tab stops and the scroll region stay inside the screen, and  *)
(* no line written since the last frame is missing from the damage that the  *)
(* next one reads (term/mod.rs, grid/), for any sizes of at least one line   *)
(* and two columns, any scrollback limits and any parameters.                *)
THEOREM TerminalIsKept ==
  PartsSpec => []ScreenKept
<1>. DEFINE Inv == part = "term" => TermInv
<1>1. PartsInit => Inv
  BY AllPartsAssumption, TermInit DEF PartsInit
<1>2. Inv /\ [PartsNext]_partsVars => Inv'
  <2>. SUFFICES ASSUME Inv, [PartsNext]_partsVars, part' = "term"
                PROVE  TermInv'
    OBVIOUS
  <2>1. part = "term" /\ TermInv
    BY DEF PartsNext, partsVars
  <2>2. Screen!Next \/ UNCHANGED Screen!termVars
    BY <2>1 DEF PartsNext, partsVars, restVars, screenVars, Screen!termVars
  <2>. QED BY <2>1, <2>2, AllPartsAssumption, TermStep
<1>3. Inv => ScreenKept
  BY TermPromise DEF ScreenKept
<1>. QED BY <1>1, <1>2, <1>3, PTL DEF PartsSpec
=============================================================================
