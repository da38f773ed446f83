---------------------------- MODULE AnchorsProofs ----------------------------
(***************************************************************************)
(* Proofs about the anchors of a pane, for any heights, history and limits *)
(* and any number of anchors.  They follow what the events on their way    *)
(* will make of the scene: a trace of the screen and of the line of each   *)
(* anchor, from what the scene has now to what the grid has (Told).        *)
(***************************************************************************)
EXTENDS Anchors, SequenceTheorems, WellFoundedInduction, TLAPS

Levels == {"kept", "lines", "screen", "swap"}
Places == {None, Gone} \cup {At(l, b) : l \in Int, b \in BOOLEAN}

(* The events, for any pane.                                               *)
Scrolls ==
  {e \in [event : {"scroll"}, origin : Nat, end : Nat, lines : Int, history : Nat] :
     e.lines # 0 /\ e.origin < e.end}
Swaps == [event : {"swap"}, alternate : BOOLEAN]
Markers == [event : {"marker"}, anchor : Anchors, line : Nat, alternate : BOOLEAN]
Events == Scrolls \cup Swaps \cup Markers \cup {Clear}

(* What the window's thread makes of an event: of the screen of the scene, *)
(* and of the place of the anchor a.                                       *)
Screen(s, e) == IF e.event = "swap" THEN e.alternate ELSE s
Shift(a, p, s, e) ==
  CASE e.event = "scroll" ->
         IF p.kind = "at" THEN Placed(Followed(p.line, e), p.alternate) ELSE p
    [] e.event = "swap" -> IF ~e.alternate /\ s /\ OnScreen(p, TRUE) THEN Gone ELSE p
    [] e.event = "clear" -> IF OnScreen(p, s) THEN Gone ELSE p
    [] e.event = "marker" -> IF e.anchor = a THEN At(e.line, e.alternate) ELSE p

(* The event leaves the anchors of the other screen alone.                 *)
Apart(p, s, e, q) == e.event # "swap" /\ p.kind = "at" /\ p.alternate # s => q = p

(* What the grid has, seen from the last state of a trace: its screen, and *)
(* the line that is marked.                                                *)
ScreenMeets(s, active, dep) ==
  /\ "screen" \notin dep => s = active
  /\ "swap" \notin dep => (active => s)
LineMeets(p, t, dep) ==
  /\ p.kind = "at" => p = t
  /\ "kept" \notin dep /\ t.kind = "at" => p = t

(* The events turn the screen s into that of the grid, by way of scr.      *)
Screens(evs, scr, s, active, dep) ==
  /\ scr \in [0 .. Len(evs) -> BOOLEAN] /\ scr[0] = s
  /\ \A i \in 1 .. Len(evs) : scr[i] = Screen(scr[i - 1], evs[i])
  /\ "swap" \notin dep =>
       \A i \in 1 .. Len(evs) : evs[i].event = "marker" /\ evs[i].alternate => scr[i]
  /\ ScreenMeets(scr[Len(evs)], active, dep)

(* The events turn the place p of the anchor a into t, by way of pos.      *)
Follows(evs, scr, a, pos, p, t, dep) ==
  /\ pos \in [0 .. Len(evs) -> Places] /\ pos[0] = p
  /\ \A i \in 1 .. Len(evs) :
       /\ pos[i] = Shift(a, pos[i - 1], scr[i - 1], evs[i])
       /\ Apart(pos[i - 1], scr[i - 1], evs[i], pos[i])
  /\ \A i \in 0 .. Len(evs) : OnScreen(pos[i], TRUE) => scr[i]
  /\ LineMeets(pos[Len(evs)], t, dep)

(* Each anchor is marked once, and a line whose marker is not parsed yet   *)
(* is not in the text.                                                     *)
Once(evs, marked) ==
  /\ \A i \in 1 .. Len(evs) : evs[i].event = "marker" => marked[evs[i].anchor] # None
  /\ \A i, j \in 1 .. Len(evs) :
       evs[i].event = "marker" /\ evs[j].event = "marker" /\ evs[i].anchor = evs[j].anchor
       => i = j

(* The steps that no event describes put the screen out of step before the *)
(* lines, and lines before what is kept.                                   *)
Graded(dep) ==
  /\ dep \subseteq Levels
  /\ "screen" \in dep \/ "swap" \in dep => "lines" \in dep
  /\ "lines" \in dep => "kept" \in dep

(* What is on its way makes the scene, whose screen is s and whose anchors *)
(* are placed, what the grid is: its screen and marked lines.              *)
Told(evs, s, placed, active, marked, dep) ==
  /\ evs \in Seq(Events) /\ s \in BOOLEAN /\ active \in BOOLEAN
  /\ placed \in [Anchors -> Places] /\ marked \in [Anchors -> Places]
  /\ Graded(dep) /\ Once(evs, marked)
  /\ "swap" \notin dep => \A a \in Anchors : OnScreen(placed[a], TRUE) => s
  /\ \E scr : /\ Screens(evs, scr, s, active, dep)
              /\ "lines" \notin dep =>
                   \A a \in Anchors :
                     \E pos : Follows(evs, scr, a, pos, placed[a], marked[a], dep)

-----------------------------------------------------------------------------
(* Lines.                                                                  *)

(* Where a scroll takes a line, and whether it is still there then.        *)
Moves(l, e) == IF e.lines > 0 /\ e.origin = 0 THEN l < e.end ELSE l \in e.origin .. e.end - 1
Goes(l, e) == IF Moves(l, e) THEN l - e.lines ELSE l
Stays(l, e) ==
  /\ Goes(l, e) >= -e.history
  /\ Moves(l, e) /\ ~(e.lines > 0 /\ e.origin = 0) =>
       IF e.lines > 0 THEN Goes(l, e) >= e.origin ELSE Goes(l, e) < e.end

LEMMA FollowedIs ==
  ASSUME NEW l \in Int, NEW e \in Scrolls
  PROVE  Followed(l, e) = IF Stays(l, e) THEN {Goes(l, e)} ELSE {}
<1>1. /\ e.origin \in Nat /\ e.end \in Nat /\ e.lines \in Int /\ e.lines # 0
      /\ e.history \in Nat /\ e.origin < e.end
  BY DEF Scrolls
<1>2. CASE e.lines > 0 /\ e.origin = 0
  BY <1>1, <1>2 DEF Followed, Stays, Goes, Moves
<1>3. CASE ~(e.lines > 0 /\ e.origin = 0)
  BY <1>1, <1>3 DEF Followed, Stays, Goes, Moves
<1> QED BY <1>2, <1>3

LEMMA PlacedIs ==
  ASSUME NEW l, NEW b
  PROVE  Placed({l}, b) = At(l, b) /\ Placed({}, b) = Gone
BY DEF Placed

LEMMA PlaceKinds ==
  /\ None.kind = "none" /\ Gone.kind = "gone" /\ None # Gone
  /\ \A l, b : At(l, b).kind = "at" /\ At(l, b).line = l /\ At(l, b).alternate = b
  /\ None \in Places /\ Gone \in Places
  /\ \A l \in Int, b \in BOOLEAN : At(l, b) \in Places
  /\ \A p \in Places : p.kind = "at" =>
       /\ p.line \in Int /\ p.alternate \in BOOLEAN /\ p = At(p.line, p.alternate)
<1>1. /\ None.kind = "none" /\ Gone.kind = "gone" /\ None # Gone
      /\ \A l, b : At(l, b).kind = "at" /\ At(l, b).line = l /\ At(l, b).alternate = b
  BY DEF None, Gone, At
<1>2. /\ None \in Places /\ Gone \in Places
      /\ \A l \in Int, b \in BOOLEAN : At(l, b) \in Places
  BY DEF Places
<1>3. ASSUME NEW p \in Places, p.kind = "at"
      PROVE  p.line \in Int /\ p.alternate \in BOOLEAN /\ p = At(p.line, p.alternate)
  <2>1. PICK l \in Int, b \in BOOLEAN : p = At(l, b)
    BY <1>1, <1>3 DEF Places
  <2> QED BY <1>1, <2>1
<1> QED BY <1>1, <1>2, <1>3

(* A scroll moves a place or ends it.                                      *)
LEMMA ScrollShift ==
  ASSUME NEW p \in Places, NEW e \in Scrolls, NEW a, NEW s
  PROVE  Shift(a, p, s, e) =
           IF p.kind # "at" THEN p
           ELSE IF Stays(p.line, e) THEN At(Goes(p.line, e), p.alternate) ELSE Gone
<1>1. e.event = "scroll"
  BY DEF Scrolls
<1>2. CASE p.kind = "at"
  <2>1. Shift(a, p, s, e) = Placed(Followed(p.line, e), p.alternate)
    BY <1>1, <1>2 DEF Shift
  <2>2. p.line \in Int
    BY <1>2, PlaceKinds
  <2> QED BY <1>2, <2>1, <2>2, FollowedIs, PlacedIs
<1>3. CASE p.kind # "at"
  BY <1>1, <1>3 DEF Shift
<1> QED BY <1>2, <1>3

(* Two scrolls that merge do together what they do one after the other, if *)
(* the history grew by no more than the second.                            *)
GrewBy(e, f) ==
  Merges(e, f) => f.history <= e.history + (IF f.origin = 0 /\ f.lines > 0 THEN f.lines ELSE 0)

LEMMA MergedLines ==
  ASSUME NEW l \in Int, NEW e \in Scrolls, NEW f \in Scrolls, Merges(e, f), GrewBy(e, f)
  PROVE  /\ Merged(e, f) \in Scrolls
         /\ Stays(l, Merged(e, f)) <=> Stays(l, e) /\ Stays(Goes(l, e), f)
         /\ Stays(l, Merged(e, f)) => Goes(l, Merged(e, f)) = Goes(Goes(l, e), f)
<1>0. PICK m : m = Merged(e, f)
  OBVIOUS
<1>1. /\ e.origin \in Nat /\ e.end \in Nat /\ e.lines \in Int /\ e.lines # 0
      /\ e.history \in Nat /\ e.origin < e.end
  BY DEF Scrolls
<1>2. /\ f.origin = e.origin /\ f.end = e.end /\ f.lines \in Int /\ f.lines # 0
      /\ f.history \in Nat /\ (e.lines > 0 <=> f.lines > 0)
  BY DEF Scrolls, Merges
<1>3. /\ m.origin = f.origin /\ m.end = f.end /\ m.lines = e.lines + f.lines
      /\ m.history = f.history /\ m.event = "scroll"
  BY <1>0 DEF Merged, Scrolls
<1>4. m \in Scrolls
  BY <1>0, <1>1, <1>2, <1>3 DEF Merged, Scrolls
<1>5. f.history <= e.history + (IF f.origin = 0 /\ f.lines > 0 THEN f.lines ELSE 0)
  BY DEF GrewBy
<1> SUFFICES /\ Stays(l, m) <=> Stays(l, e) /\ Stays(Goes(l, e), f)
             /\ Stays(l, m) => Goes(l, m) = Goes(Goes(l, e), f)
  BY <1>0, <1>4
<1>6. CASE f.lines > 0 /\ f.origin = 0
  <2>1. CASE Moves(l, e)
    BY <1>1, <1>2, <1>3, <1>5, <1>6, <2>1 DEF Stays, Goes, Moves
  <2>2. CASE ~Moves(l, e)
    BY <1>1, <1>2, <1>3, <1>5, <1>6, <2>2 DEF Stays, Goes, Moves
  <2> QED BY <2>1, <2>2
<1>7. CASE f.lines > 0 /\ f.origin # 0
  <2>1. CASE Moves(l, e)
    BY <1>1, <1>2, <1>3, <1>5, <1>7, <2>1 DEF Stays, Goes, Moves
  <2>2. CASE ~Moves(l, e)
    BY <1>1, <1>2, <1>3, <1>5, <1>7, <2>2 DEF Stays, Goes, Moves
  <2> QED BY <2>1, <2>2
<1>8. CASE ~(f.lines > 0)
  <2>1. CASE Moves(l, e)
    BY <1>1, <1>2, <1>3, <1>5, <1>8, <2>1 DEF Stays, Goes, Moves
  <2>2. CASE ~Moves(l, e)
    BY <1>1, <1>2, <1>3, <1>5, <1>8, <2>2 DEF Stays, Goes, Moves
  <2> QED BY <2>1, <2>2
<1> QED BY <1>2, <1>6, <1>7, <1>8

LEMMA MergedShift ==
  ASSUME NEW p \in Places, NEW e \in Scrolls, NEW f \in Scrolls, Merges(e, f), GrewBy(e, f),
         NEW a, NEW s
  PROVE  Shift(a, p, s, Merged(e, f)) = Shift(a, Shift(a, p, s, e), s, f)
<1>1. Merged(e, f) \in Scrolls
  <2>1. 0 \in Int
    OBVIOUS
  <2> QED BY <2>1, MergedLines
<1>2. CASE p.kind # "at"
  BY <1>1, <1>2, ScrollShift
<1>3. CASE p.kind = "at"
  <2>1. p.line \in Int /\ p.alternate \in BOOLEAN
    BY <1>3, PlaceKinds
  <2>2. Goes(p.line, e) \in Int
    BY <2>1 DEF Goes, Scrolls
  <2>3. CASE Stays(p.line, e)
    <3>1. Shift(a, p, s, e) = At(Goes(p.line, e), p.alternate)
      BY <1>3, <2>3, ScrollShift
    <3>2. At(Goes(p.line, e), p.alternate) \in Places
      BY <2>1, <2>2, PlaceKinds
    <3>3. Shift(a, Shift(a, p, s, e), s, f) =
            IF Stays(Goes(p.line, e), f) THEN At(Goes(Goes(p.line, e), f), p.alternate) ELSE Gone
      BY <3>1, <3>2, PlaceKinds, ScrollShift
    <3> QED BY <1>1, <1>3, <2>1, <2>3, <3>3, MergedLines, ScrollShift
  <2>4. CASE ~Stays(p.line, e)
    <3>1. Shift(a, p, s, e) = Gone
      BY <1>3, <2>4, ScrollShift
    <3>2. Shift(a, Gone, s, f) = Gone
      BY PlaceKinds, ScrollShift
    <3> QED BY <1>1, <1>3, <2>1, <2>4, <3>1, <3>2, MergedLines, ScrollShift
  <2> QED BY <2>3, <2>4
<1> QED BY <1>2, <1>3

(* Every event turns a place into a place.                                 *)
LEMMA ShiftPlaces ==
  ASSUME NEW p \in Places, NEW e \in Events, NEW s \in BOOLEAN, NEW a
  PROVE  Shift(a, p, s, e) \in Places
<1>1. CASE e \in Scrolls
  <2>1. Shift(a, p, s, e) =
          IF p.kind # "at" THEN p
          ELSE IF Stays(p.line, e) THEN At(Goes(p.line, e), p.alternate) ELSE Gone
    BY <1>1, ScrollShift
  <2>2. p.kind = "at" => Goes(p.line, e) \in Int /\ p.alternate \in BOOLEAN
    BY <1>1, PlaceKinds DEF Goes, Scrolls
  <2> QED BY <2>1, <2>2, PlaceKinds
<1>2. CASE e \in Swaps
  BY <1>2, PlaceKinds DEF Swaps, Shift
<1>3. CASE e \in Markers
  <2>1. e.event = "marker" /\ e.line \in Int /\ e.alternate \in BOOLEAN
    BY <1>3 DEF Markers
  <2> QED BY <2>1, PlaceKinds DEF Shift
<1>4. CASE e = Clear
  BY <1>4, PlaceKinds DEF Clear, Shift
<1> QED BY <1>1, <1>2, <1>3, <1>4 DEF Events

-----------------------------------------------------------------------------
(* Traces.                                                                 *)

(* What an event that is sent has to make of the screen, of the lines and  *)
(* of the marks, when the grid changes from one screen, marked lines and   *)
(* departures to others.                                                   *)
ScreenAfter(e, active, dep, active2, dep2) ==
  \A x \in BOOLEAN : ScreenMeets(x, active, dep) =>
    /\ ScreenMeets(Screen(x, e), active2, dep2)
    /\ "swap" \notin dep2 /\ e.event = "marker" /\ e.alternate => Screen(x, e)
LineAfter(a, p, e, active, t, dep, active2, t2, dep2) ==
  LineMeets(p, t, dep) /\ (OnScreen(p, TRUE) => active) =>
    /\ LineMeets(Shift(a, p, active, e), t2, dep2)
    /\ Apart(p, active, e, Shift(a, p, active, e))
    /\ OnScreen(Shift(a, p, active, e), TRUE) => active2
OnceAfter(e, marked, marked2) ==
  /\ \A a \in Anchors : marked2[a] = None => marked[a] = None
  /\ e.event = "marker" => marked[e.anchor] = None /\ marked2[e.anchor] # None

LEMMA EventKinds ==
  ASSUME NEW e \in Events
  PROVE  /\ e.event \in {"scroll", "swap", "clear", "marker"}
         /\ e.event = "scroll" => e \in Scrolls
         /\ e.event = "marker" => e.anchor \in Anchors /\ e.alternate \in BOOLEAN
         /\ e.event = "swap" => e.alternate \in BOOLEAN
<1>1. CASE e \in Scrolls
  BY <1>1 DEF Scrolls
<1>2. CASE e \in Swaps
  BY <1>2 DEF Swaps
<1>3. CASE e \in Markers
  BY <1>3 DEF Markers
<1>4. CASE e = Clear
  BY <1>4 DEF Clear
<1> QED BY <1>1, <1>2, <1>3, <1>4 DEF Events

(* An event is sent after the others.                                      *)
LEMMA TellAppend ==
  ASSUME NEW evs, NEW s, NEW placed, NEW active, NEW marked, NEW dep,
         Told(evs, s, placed, active, marked, dep),
         NEW e \in Events, NEW active2 \in BOOLEAN, NEW marked2 \in [Anchors -> Places], NEW dep2,
         Graded(dep2), dep \subseteq dep2 \cup {"screen"},
         ScreenAfter(e, active, dep, active2, dep2), OnceAfter(e, marked, marked2),
         "lines" \notin dep2 =>
           \A a \in Anchors : \A p \in Places :
             LineAfter(a, p, e, active, marked[a], dep, active2, marked2[a], dep2)
  PROVE  Told(Append(evs, e), s, placed, active2, marked2, dep2)
<1> DEFINE n == Len(evs)  more == Append(evs, e)
<1>1. /\ evs \in Seq(Events) /\ n \in Nat /\ more \in Seq(Events) /\ Len(more) = n + 1
      /\ more[n + 1] = e /\ \A i \in 1 .. n : more[i] = evs[i]
  BY DEF Told
<1> HIDE DEF n, more
<1>2. PICK scr : /\ Screens(evs, scr, s, active, dep)
                 /\ "lines" \notin dep =>
                      \A a \in Anchors :
                        \E pos : Follows(evs, scr, a, pos, placed[a], marked[a], dep)
  BY DEF Told
<1> DEFINE scr2 == [i \in 0 .. n + 1 |-> IF i = n + 1 THEN Screen(scr[n], e) ELSE scr[i]]
<1>3. /\ scr \in [0 .. n -> BOOLEAN] /\ scr[0] = s /\ ScreenMeets(scr[n], active, dep)
      /\ \A i \in 1 .. n : scr[i] = Screen(scr[i - 1], evs[i])
      /\ "swap" \notin dep =>
           \A i \in 1 .. n : evs[i].event = "marker" /\ evs[i].alternate => scr[i]
  BY <1>2 DEF Screens, n
<1>4. /\ scr2[n + 1] = Screen(scr[n], e) /\ \A i \in 0 .. n : scr2[i] = scr[i]
      /\ scr[n] \in BOOLEAN /\ scr2 \in [0 .. n + 1 -> BOOLEAN]
  <2>1. scr[n] \in BOOLEAN
    BY <1>1, <1>3
  <2>2. Screen(scr[n], e) \in BOOLEAN
    BY <2>1, EventKinds DEF Screen
  <2> QED BY <1>1, <1>3, <2>1, <2>2
<1>5. Screens(more, scr2, s, active2, dep2)
  <2>1. scr2[0] = s
    BY <1>1, <1>3, <1>4
  <2>2. ASSUME NEW i \in 1 .. n + 1 PROVE scr2[i] = Screen(scr2[i - 1], more[i])
    <3>1. CASE i = n + 1
      BY <1>1, <1>4, <3>1
    <3>2. CASE i # n + 1
      <4>1. i \in 1 .. n /\ i - 1 \in 0 .. n /\ i \in 0 .. n
        BY <1>1, <3>2
      <4> QED BY <1>1, <1>3, <1>4, <4>1
    <3> QED BY <3>1, <3>2
  <2>3. ASSUME "swap" \notin dep2, NEW i \in 1 .. n + 1, more[i].event = "marker",
               more[i].alternate
        PROVE  scr2[i]
    <3>1. CASE i = n + 1
      BY <1>1, <1>3, <1>4, <2>3, <3>1 DEF ScreenAfter
    <3>2. CASE i # n + 1
      <4>1. i \in 1 .. n /\ i \in 0 .. n /\ "swap" \notin dep
        BY <1>1, <2>3, <3>2
      <4> QED BY <1>1, <1>3, <1>4, <2>3, <4>1
    <3> QED BY <3>1, <3>2
  <2>4. ScreenMeets(scr2[n + 1], active2, dep2)
    BY <1>3, <1>4 DEF ScreenAfter
  <2> QED BY <1>1, <1>4, <2>1, <2>2, <2>3, <2>4 DEF Screens
<1> HIDE DEF scr2
<1>6. ASSUME "lines" \notin dep2, NEW a \in Anchors
      PROVE  \E pos : Follows(more, scr2, a, pos, placed[a], marked2[a], dep2)
  <2>1. /\ "lines" \notin dep /\ "screen" \notin dep /\ "screen" \notin dep2
        /\ scr[n] = active /\ scr2[n + 1] = active2
    <3>1. "lines" \notin dep /\ Graded(dep)
      BY <1>6 DEF Told
    <3>2. "screen" \notin dep /\ "screen" \notin dep2
      BY <1>6, <3>1 DEF Graded
    <3> QED BY <1>1, <1>3, <1>5, <3>1, <3>2 DEF ScreenMeets, Screens
  <2>2. PICK pos : Follows(evs, scr, a, pos, placed[a], marked[a], dep)
    BY <1>2, <2>1
  <2> DEFINE q == Shift(a, pos[n], active, e)
             pos2 == [i \in 0 .. n + 1 |-> IF i = n + 1 THEN q ELSE pos[i]]
  <2>3. /\ pos \in [0 .. n -> Places] /\ pos[0] = placed[a] /\ LineMeets(pos[n], marked[a], dep)
        /\ \A i \in 1 .. n : /\ pos[i] = Shift(a, pos[i - 1], scr[i - 1], evs[i])
                             /\ Apart(pos[i - 1], scr[i - 1], evs[i], pos[i])
        /\ \A i \in 0 .. n : OnScreen(pos[i], TRUE) => scr[i]
    BY <2>2 DEF Follows, n
  <2>4. pos[n] \in Places /\ (OnScreen(pos[n], TRUE) => active) /\ active \in BOOLEAN
    <3>1. n \in 0 .. n
      BY <1>1
    <3>2. active \in BOOLEAN
      BY DEF Told
    <3> QED BY <2>1, <2>3, <3>1, <3>2
  <2>5. q \in Places
    BY <2>4, ShiftPlaces
  <2>6. /\ LineMeets(q, marked2[a], dep2) /\ Apart(pos[n], active, e, q)
        /\ OnScreen(q, TRUE) => active2
    BY <1>6, <2>3, <2>4 DEF LineAfter
  <2> HIDE DEF q
  <2>7. /\ pos2[n + 1] = q /\ \A i \in 0 .. n : pos2[i] = pos[i]
        /\ pos2 \in [0 .. n + 1 -> Places]
    BY <1>1, <2>3, <2>5
  <2> HIDE DEF pos2
  <2>8. ASSUME NEW i \in 1 .. n + 1
        PROVE  /\ pos2[i] = Shift(a, pos2[i - 1], scr2[i - 1], more[i])
               /\ Apart(pos2[i - 1], scr2[i - 1], more[i], pos2[i])
    <3>1. CASE i = n + 1
      <4>1. i - 1 = n /\ pos2[n] = pos[n] /\ scr2[n] = active /\ more[i] = e /\ pos2[i] = q
        BY <1>1, <1>4, <2>1, <2>7, <3>1
      <4> QED BY <2>6, <4>1 DEF q
    <3>2. CASE i # n + 1
      <4>1. i \in 1 .. n /\ i - 1 \in 0 .. n /\ i \in 0 .. n
        BY <1>1, <3>2
      <4>2. pos2[i] = pos[i] /\ pos2[i - 1] = pos[i - 1] /\ scr2[i - 1] = scr[i - 1]
            /\ more[i] = evs[i]
        BY <1>1, <1>4, <2>7, <4>1
      <4> QED BY <2>3, <4>1, <4>2
    <3> QED BY <3>1, <3>2
  <2>9. ASSUME NEW i \in 0 .. n + 1, OnScreen(pos2[i], TRUE) PROVE scr2[i]
    <3>1. CASE i = n + 1
      BY <2>1, <2>6, <2>7, <2>9, <3>1
    <3>2. CASE i # n + 1
      <4>1. i \in 0 .. n
        BY <1>1, <3>2
      <4> QED BY <1>4, <2>3, <2>7, <2>9, <4>1
    <3> QED BY <3>1, <3>2
  <2>10. pos2[0] = placed[a] /\ LineMeets(pos2[n + 1], marked2[a], dep2)
    BY <1>1, <2>3, <2>6, <2>7
  <2>11. Follows(more, scr2, a, pos2, placed[a], marked2[a], dep2)
    BY <1>1, <2>7, <2>8, <2>9, <2>10 DEF Follows
  <2> QED BY <2>11
<1>7. Once(more, marked2)
  <2>1. \A i \in 1 .. n + 1 : i = n + 1 \/ i \in 1 .. n
    BY <1>1
  <2>2. \A i \in 1 .. n : more[i].event = "marker" =>
          more[i].anchor \in Anchors /\ marked[more[i].anchor] # None
          /\ marked2[more[i].anchor] # None
    <3> SUFFICES ASSUME NEW i \in 1 .. n, evs[i].event = "marker"
                 PROVE  /\ evs[i].anchor \in Anchors /\ marked[evs[i].anchor] # None
                        /\ marked2[evs[i].anchor] # None
      BY <1>1
    <3>1. evs[i] \in Events /\ evs[i].anchor \in Anchors
      BY <1>1, EventKinds DEF n
    <3> QED BY <3>1 DEF Told, Once, OnceAfter, n
  <2>3. \A i, j \in 1 .. n : more[i].event = "marker" /\ more[j].event = "marker"
          /\ more[i].anchor = more[j].anchor => i = j
    BY <1>1 DEF Told, Once, n
  <2>4. e.event = "marker" => marked[e.anchor] = None /\ marked2[e.anchor] # None
    BY DEF OnceAfter
  <2> QED BY <1>1, <2>1, <2>2, <2>3, <2>4 DEF Once
<1>8. /\ more \in Seq(Events) /\ s \in BOOLEAN /\ placed \in [Anchors -> Places]
      /\ "swap" \notin dep2 => \A a \in Anchors : OnScreen(placed[a], TRUE) => s
  BY <1>1 DEF Told
<1>9. Told(more, s, placed, active2, marked2, dep2)
  BY <1>5, <1>6, <1>7, <1>8 DEF Told
<1> QED BY <1>9 DEF more

(* Nothing is sent, but the grid, what is marked or the departures change. *)
LineStays(p, active, t, dep, active2, t2, dep2) ==
  LineMeets(p, t, dep) /\ (OnScreen(p, TRUE) => active) => LineMeets(p, t2, dep2)

LEMMA TellSame ==
  ASSUME NEW evs, NEW s, NEW placed, NEW active, NEW marked, NEW dep,
         Told(evs, s, placed, active, marked, dep),
         NEW active2 \in BOOLEAN, NEW marked2 \in [Anchors -> Places], NEW dep2,
         Graded(dep2), dep \subseteq dep2,
         \A x \in BOOLEAN : ScreenMeets(x, active, dep) => ScreenMeets(x, active2, dep2),
         \A a \in Anchors : marked2[a] = None => marked[a] = None,
         "lines" \notin dep2 =>
           \A a \in Anchors : \A p \in Places :
             LineStays(p, active, marked[a], dep, active2, marked2[a], dep2)
  PROVE  Told(evs, s, placed, active2, marked2, dep2)
<1> DEFINE n == Len(evs)
<1>1. evs \in Seq(Events) /\ n \in Nat /\ n \in 0 .. n
  BY DEF Told
<1> HIDE DEF n
<1>2. PICK scr : /\ Screens(evs, scr, s, active, dep)
                 /\ "lines" \notin dep =>
                      \A a \in Anchors :
                        \E pos : Follows(evs, scr, a, pos, placed[a], marked[a], dep)
  BY DEF Told
<1>3. scr[n] \in BOOLEAN /\ ScreenMeets(scr[n], active, dep)
  BY <1>1, <1>2 DEF Screens, n
<1>4. Screens(evs, scr, s, active2, dep2)
  <2>1. ScreenMeets(scr[n], active2, dep2)
    BY <1>3
  <2>2. "swap" \notin dep2 => "swap" \notin dep
    OBVIOUS
  <2> QED BY <1>2, <2>1, <2>2 DEF Screens, n
<1>5. ASSUME "lines" \notin dep2, NEW a \in Anchors
      PROVE  \E pos : Follows(evs, scr, a, pos, placed[a], marked2[a], dep2)
  <2>1. "lines" \notin dep /\ Graded(dep)
    BY <1>5 DEF Told
  <2>2. PICK pos : Follows(evs, scr, a, pos, placed[a], marked[a], dep)
    BY <1>2, <2>1
  <2>3. pos[n] \in Places /\ (OnScreen(pos[n], TRUE) => active)
    <3>1. scr[n] = active
      BY <1>3, <2>1 DEF Graded, ScreenMeets
    <3> QED BY <1>1, <2>2, <3>1 DEF Follows, n
  <2>4. LineMeets(pos[n], marked2[a], dep2)
    BY <1>5, <2>2, <2>3 DEF LineStays, Follows, n
  <2>5. Follows(evs, scr, a, pos, placed[a], marked2[a], dep2)
    BY <2>2, <2>4 DEF Follows, n
  <2> QED BY <2>5
<1>6. Once(evs, marked2)
  <2>1. \A i \in 1 .. n : evs[i] \in Events
    BY <1>1 DEF n
  <2>2. \A i \in 1 .. n : evs[i].event = "marker" => evs[i].anchor \in Anchors
    BY <2>1, EventKinds
  <2> QED BY <2>2 DEF Told, Once, n
<1>7. /\ s \in BOOLEAN /\ placed \in [Anchors -> Places]
      /\ "swap" \notin dep2 => \A a \in Anchors : OnScreen(placed[a], TRUE) => s
  BY DEF Told
<1> QED BY <1>1, <1>4, <1>5, <1>6, <1>7 DEF Told

(* Two scrolls on their way become one.                                    *)
LEMMA TellMerge ==
  ASSUME NEW before \in Seq(Events), NEW e \in Scrolls, NEW f \in Scrolls,
         NEW s, NEW placed, NEW active, NEW marked, NEW dep,
         Told(Append(Append(before, e), f), s, placed, active, marked, dep),
         Merges(e, f), "lines" \notin dep => GrewBy(e, f)
  PROVE  Told(Append(before, Merged(e, f)), s, placed, active, marked, dep)
<1> DEFINE n == Len(before)  old == Append(Append(before, e), f)
           new == Append(before, Merged(e, f))
<1>0. e \in Events /\ f \in Events /\ e.event = "scroll" /\ f.event = "scroll"
  BY DEF Events, Scrolls
<1>1. /\ n \in Nat /\ old \in Seq(Events) /\ Len(old) = n + 2
      /\ old[n + 1] = e /\ old[n + 2] = f /\ \A i \in 1 .. n : old[i] = before[i]
  BY <1>0
<1>2. Merged(e, f) \in Scrolls /\ Merged(e, f) \in Events /\ Merged(e, f).event = "scroll"
  <2>1. Merged(e, f) = [f EXCEPT !.lines = e.lines + f.lines]
    BY DEF Merged
  <2>2. e.lines + f.lines \in Int /\ e.lines + f.lines # 0
    BY DEF Merges, Scrolls
  <2>3. Merged(e, f) \in Scrolls
    BY <2>1, <2>2 DEF Scrolls
  <2> QED BY <2>3 DEF Events, Scrolls
<1>3. /\ new \in Seq(Events) /\ Len(new) = n + 1 /\ new[n + 1] = Merged(e, f)
      /\ \A i \in 1 .. n : new[i] = before[i]
  BY <1>2
<1>4. Told(old, s, placed, active, marked, dep)
  OBVIOUS
<1> HIDE DEF n, old, new
<1>5. PICK scr : /\ Screens(old, scr, s, active, dep)
                 /\ "lines" \notin dep =>
                      \A a \in Anchors :
                        \E pos : Follows(old, scr, a, pos, placed[a], marked[a], dep)
  BY <1>4 DEF Told
<1> DEFINE scr2 == [i \in 0 .. n + 1 |-> scr[i]]
<1>6. /\ scr \in [0 .. n + 2 -> BOOLEAN] /\ scr[0] = s /\ ScreenMeets(scr[n + 2], active, dep)
      /\ \A i \in 1 .. n + 2 : scr[i] = Screen(scr[i - 1], old[i])
      /\ "swap" \notin dep =>
           \A i \in 1 .. n + 2 : old[i].event = "marker" /\ old[i].alternate => scr[i]
  BY <1>1, <1>5 DEF Screens
<1>7. /\ scr2 \in [0 .. n + 1 -> BOOLEAN] /\ \A i \in 0 .. n + 1 : scr2[i] = scr[i]
      /\ scr[n + 1] = scr[n] /\ scr[n + 2] = scr[n] /\ n \in 0 .. n
  <2>1. n + 1 \in 1 .. n + 2 /\ n + 2 \in 1 .. n + 2 /\ (n + 1) - 1 = n /\ (n + 2) - 1 = n + 1
        /\ n \in 0 .. n /\ 0 .. n + 1 \subseteq 0 .. n + 2
    BY <1>1
  <2>2. scr[n + 1] = Screen(scr[n], e) /\ scr[n + 2] = Screen(scr[n + 1], f)
    BY <1>1, <1>6, <2>1
  <2>3. scr[n + 1] = scr[n] /\ scr[n + 2] = scr[n]
    BY <1>0, <2>2 DEF Screen
  <2>4. \A i \in 0 .. n + 1 : scr[i] \in BOOLEAN
    BY <1>6, <2>1
  <2> QED BY <2>1, <2>3, <2>4
<1> HIDE DEF scr2
<1>8. \A i \in 1 .. n + 1 : i = n + 1 \/ (i \in 1 .. n /\ i \in 0 .. n + 1 /\ i - 1 \in 0 .. n + 1
                                          /\ i \in 1 .. n + 2)
  BY <1>1
<1>9. Screens(new, scr2, s, active, dep)
  <2>1. scr2[0] = s /\ scr2[n + 1] = scr[n + 2]
    BY <1>1, <1>6, <1>7
  <2>2. ASSUME NEW i \in 1 .. n + 1
        PROVE  /\ scr2[i] = Screen(scr2[i - 1], new[i])
               /\ "swap" \notin dep /\ new[i].event = "marker" /\ new[i].alternate => scr2[i]
    <3>1. CASE i = n + 1
      <4>1. scr2[i] = scr[n] /\ scr2[i - 1] = scr[n] /\ new[i] = Merged(e, f)
        BY <1>1, <1>3, <1>7, <3>1
      <4> QED BY <1>2, <4>1 DEF Screen
    <3>2. CASE i # n + 1
      <4>1. /\ i \in 1 .. n /\ i \in 1 .. n + 2 /\ new[i] = old[i]
            /\ scr2[i] = scr[i] /\ scr2[i - 1] = scr[i - 1]
        BY <1>1, <1>3, <1>7, <1>8, <3>2
      <4> QED BY <1>6, <4>1
    <3> QED BY <3>1, <3>2
  <2> QED BY <1>3, <1>6, <1>7, <2>1, <2>2 DEF Screens
<1>10. ASSUME "lines" \notin dep, NEW a \in Anchors
       PROVE  \E pos : Follows(new, scr2, a, pos, placed[a], marked[a], dep)
  <2>1. PICK pos : Follows(old, scr, a, pos, placed[a], marked[a], dep)
    BY <1>5, <1>10
  <2> DEFINE pos2 == [i \in 0 .. n + 1 |-> IF i = n + 1 THEN pos[n + 2] ELSE pos[i]]
  <2>2. /\ pos \in [0 .. n + 2 -> Places] /\ pos[0] = placed[a]
        /\ LineMeets(pos[n + 2], marked[a], dep)
        /\ \A i \in 1 .. n + 2 : /\ pos[i] = Shift(a, pos[i - 1], scr[i - 1], old[i])
                                 /\ Apart(pos[i - 1], scr[i - 1], old[i], pos[i])
        /\ \A i \in 0 .. n + 2 : OnScreen(pos[i], TRUE) => scr[i]
    BY <1>1, <2>1 DEF Follows
  <2>3. /\ pos2[n + 1] = pos[n + 2] /\ \A i \in 0 .. n : pos2[i] = pos[i]
        /\ pos2 \in [0 .. n + 1 -> Places]
    <3>1. pos[n + 2] \in Places /\ \A i \in 0 .. n : pos[i] \in Places
      BY <1>1, <2>2
    <3> QED BY <1>1, <3>1
  <2> HIDE DEF pos2
  <2>4. /\ pos[n] \in Places /\ n + 1 \in 1 .. n + 2 /\ n + 2 \in 1 .. n + 2
        /\ (n + 1) - 1 = n /\ (n + 2) - 1 = n + 1 /\ n + 2 \in 0 .. n + 2
    BY <1>1, <2>2
  <2>5. /\ pos[n + 1] = Shift(a, pos[n], scr[n], e) /\ Apart(pos[n], scr[n], e, pos[n + 1])
        /\ pos[n + 2] = Shift(a, pos[n + 1], scr[n], f)
        /\ Apart(pos[n + 1], scr[n], f, pos[n + 2])
    BY <1>1, <1>7, <2>2, <2>4
  <2>6. /\ pos[n + 2] = Shift(a, pos[n], scr[n], Merged(e, f))
        /\ Apart(pos[n], scr[n], Merged(e, f), pos[n + 2])
    <3>1. pos[n + 2] = Shift(a, pos[n], scr[n], Merged(e, f))
      BY <1>10, <2>4, <2>5, MergedShift
    <3> QED BY <1>0, <1>2, <2>5, <3>1 DEF Apart
  <2>7. ASSUME NEW i \in 1 .. n + 1
        PROVE  /\ pos2[i] = Shift(a, pos2[i - 1], scr2[i - 1], new[i])
               /\ Apart(pos2[i - 1], scr2[i - 1], new[i], pos2[i])
    <3>1. CASE i = n + 1
      <4>1. /\ pos2[i] = pos[n + 2] /\ pos2[i - 1] = pos[n] /\ scr2[i - 1] = scr[n]
            /\ new[i] = Merged(e, f)
        BY <1>1, <1>3, <1>7, <2>3, <3>1
      <4> QED BY <2>6, <4>1
    <3>2. CASE i # n + 1
      <4>1. /\ i \in 1 .. n /\ i \in 1 .. n + 2 /\ new[i] = old[i] /\ scr2[i - 1] = scr[i - 1]
            /\ i \in 0 .. n /\ i - 1 \in 0 .. n
        BY <1>1, <1>3, <1>7, <1>8, <3>2
      <4>2. pos2[i] = pos[i] /\ pos2[i - 1] = pos[i - 1]
        BY <2>3, <4>1
      <4> QED BY <2>2, <4>1, <4>2
    <3> QED BY <3>1, <3>2
  <2>8. ASSUME NEW i \in 0 .. n + 1, OnScreen(pos2[i], TRUE) PROVE scr2[i]
    <3>1. CASE i = n + 1
      BY <1>7, <2>2, <2>3, <2>4, <2>8, <3>1
    <3>2. CASE i # n + 1
      <4>1. i \in 0 .. n /\ i \in 0 .. n + 2
        BY <1>1, <3>2
      <4> QED BY <1>7, <2>2, <2>3, <2>8, <4>1
    <3> QED BY <3>1, <3>2
  <2>9. pos2[0] = placed[a] /\ LineMeets(pos2[n + 1], marked[a], dep)
    BY <1>1, <2>2, <2>3
  <2>10. Follows(new, scr2, a, pos2, placed[a], marked[a], dep)
    BY <1>3, <2>3, <2>7, <2>8, <2>9 DEF Follows
  <2> QED BY <2>10
<1>11. Once(new, marked)
  <2>1. \A i \in 1 .. n + 1 : new[i].event = "marker" => i \in 1 .. n + 2 /\ new[i] = old[i]
    BY <1>1, <1>2, <1>3, <1>8
  <2> QED BY <1>1, <1>3, <1>4, <2>1 DEF Told, Once
<1>12. Told(new, s, placed, active, marked, dep)
  BY <1>3, <1>4, <1>9, <1>10, <1>11 DEF Told
<1> QED BY <1>12 DEF new

-----------------------------------------------------------------------------
(* Induction over the events of a trace, from a set of numbers.            *)
Below == {p \in Nat \X Nat : p[1] < p[2]}

LEMMA Induction ==
  ASSUME NEW S, 0 \in S, \A n \in Nat : n \in S => n + 1 \in S
  PROVE  \A n \in Nat : n \in S
<1> SUFFICES ASSUME Nat \ S # {} PROVE FALSE
  OBVIOUS
<1>1. IsWellFoundedOn(Below, Nat)
  BY NatLessThanWellFounded DEF OpToRel, Below
<1>2. PICK x \in Nat \ S : \A y \in Nat \ S : <<y, x>> \notin Below
  BY <1>1, WFMin
<1>3. x # 0 /\ x - 1 \in Nat /\ x - 1 < x /\ (x - 1) + 1 = x
  BY <1>2
<1> QED BY <1>2, <1>3 DEF Below

(* As long as no swap is on its way the screen stays, and what is on the   *)
(* other one.                                                              *)
LEMMA CalmScreen ==
  ASSUME NEW evs \in Seq(Events), NEW scr, NEW s, NEW active, NEW dep,
         Screens(evs, scr, s, active, dep), NEW m \in 0 .. Len(evs), NEW k \in m .. Len(evs),
         \A i \in m + 1 .. k : evs[i].event # "swap"
  PROVE  \A i \in m .. k : scr[i] = scr[m]
<1> DEFINE S == {d \in Nat : m + d <= k => scr[m + d] = scr[m]}
<1>1. m \in Nat /\ k \in Nat /\ k <= Len(evs) /\ Len(evs) \in Nat
  OBVIOUS
<1>2. 0 \in S
  BY <1>1
<1>3. ASSUME NEW d \in Nat, d \in S, m + (d + 1) <= k
      PROVE  scr[m + (d + 1)] = scr[m]
  <2>1. /\ m + (d + 1) \in 1 .. Len(evs) /\ m + (d + 1) \in m + 1 .. k
        /\ (m + (d + 1)) - 1 = m + d /\ m + d <= k
    BY <1>1, <1>3
  <2>2. scr[m + (d + 1)] = Screen(scr[m + d], evs[m + (d + 1)])
    BY <2>1 DEF Screens
  <2> QED BY <1>3, <2>1, <2>2 DEF Screen
<1>4. \A d \in Nat : d \in S => d + 1 \in S
  BY <1>3
<1>5. \A d \in Nat : d \in S
  <2> HIDE DEF S
  <2> QED BY <1>2, <1>4, Induction
<1>6. ASSUME NEW i \in m .. k PROVE scr[i] = scr[m]
  <2>1. i - m \in Nat /\ m + (i - m) = i /\ i <= k
    BY <1>1
  <2>2. i - m \in S
    BY <1>5, <2>1
  <2> QED BY <2>1, <2>2
<1> QED BY <1>6

LEMMA CalmLines ==
  ASSUME NEW evs \in Seq(Events), NEW scr, NEW s, NEW active, NEW dep,
         Screens(evs, scr, s, active, dep), NEW m \in 0 .. Len(evs), NEW k \in m .. Len(evs),
         \A i \in m + 1 .. k : evs[i].event # "swap",
         NEW a, NEW pos, NEW p, NEW t, Follows(evs, scr, a, pos, p, t, dep),
         pos[m].kind = "at", pos[m].alternate # scr[m]
  PROVE  pos[k] = pos[m]
<1> DEFINE S == {d \in Nat : m + d <= k => pos[m + d] = pos[m]}
<1>1. m \in Nat /\ k \in Nat /\ k <= Len(evs) /\ Len(evs) \in Nat /\ m <= k
  OBVIOUS
<1>2. 0 \in S
  BY <1>1
<1>3. ASSUME NEW d \in Nat, d \in S, m + (d + 1) <= k
      PROVE  pos[m + (d + 1)] = pos[m]
  <2>1. /\ m + (d + 1) \in 1 .. Len(evs) /\ m + (d + 1) \in m + 1 .. k
        /\ (m + (d + 1)) - 1 = m + d /\ m + d <= k /\ m + d \in m .. k
    BY <1>1, <1>3
  <2>2. Apart(pos[m + d], scr[m + d], evs[m + (d + 1)], pos[m + (d + 1)])
    BY <2>1 DEF Follows
  <2>3. scr[m + d] = scr[m]
    BY <2>1, CalmScreen
  <2> QED BY <1>3, <2>1, <2>2, <2>3 DEF Apart
<1>4. ASSUME NEW d \in Nat, d \in S PROVE d + 1 \in S
  BY <1>3, <1>4
<1>5. \A d \in Nat : d \in S
  <2> HIDE DEF S
  <2> QED BY <1>2, <1>4, Induction
<1>6. k - m \in Nat /\ m + (k - m) = k /\ k - m \in S
  <2>1. k - m \in Nat /\ m + (k - m) = k
    BY <1>1
  <2> QED BY <1>5, <2>1
<1> QED BY <1>1, <1>6

(* A batch that overflows becomes a clear: the anchors of the scene's      *)
(* screen are given up, and what is on the other one stays where it is.    *)
LEMMA TellCut ==
  ASSUME NEW b \in Seq(Events), NEW q \in Seq(Events), NEW r \in Seq(Scrolls),
         NEW s, NEW placed, NEW active, NEW marked, NEW dep,
         Told(b \o (q \o r), s, placed, active, marked, dep),
         NEW dep2, Graded(dep2), dep \subseteq dep2, "kept" \in dep2,
         (\E i \in 1 .. Len(q) : q[i].event = "swap") => Levels \subseteq dep2
  PROVE  Told(b \o (<<Clear>> \o r), s, placed, active, marked, dep2)
<1> DEFINE m == Len(b)  l == Len(q)  h == Len(r)
           old == b \o (q \o r)  new == b \o (<<Clear>> \o r)
<1>1. r \in Seq(Events) /\ Clear \in Events /\ \A j \in 1 .. h : r[j].event = "scroll"
  <2>1. Scrolls \subseteq Events /\ Clear \in Events /\ \A e \in Scrolls : e.event = "scroll"
    BY DEF Events, Scrolls
  <2>2. \A j \in 1 .. Len(r) : r[j] \in Scrolls
    OBVIOUS
  <2> QED BY <2>1, <2>2
<1>2. /\ m \in Nat /\ l \in Nat /\ h \in Nat
      /\ old \in Seq(Events) /\ Len(old) = m + l + h
      /\ \A i \in 1 .. m : old[i] = b[i]
      /\ \A j \in 1 .. l : old[m + j] = q[j]
      /\ \A j \in 1 .. h : old[m + l + j] = r[j]
  <2>1. (q \o r) \in Seq(Events) /\ Len(q \o r) = l + h
    BY <1>1
  <2>2. /\ \A j \in 1 .. l : (q \o r)[j] = q[j]
        /\ \A j \in 1 .. h : (q \o r)[l + j] = r[j]
    BY <1>1
  <2>3. \A j \in 1 .. l + h : old[m + j] = (q \o r)[j]
    BY <2>1
  <2>4. \A j \in 1 .. l : j \in 1 .. l + h
    BY <1>1
  <2>5. \A j \in 1 .. h : l + j \in 1 .. l + h /\ m + (l + j) = m + l + j
    BY <1>1
  <2>6. Len(old) = m + l + h /\ old \in Seq(Events) /\ \A i \in 1 .. m : old[i] = b[i]
    BY <2>1
  <2>7. \A j \in 1 .. h : old[m + l + j] = r[j]
    BY <2>2, <2>3, <2>5
  <2> QED BY <2>2, <2>3, <2>4, <2>6, <2>7
<1>3. /\ new \in Seq(Events) /\ Len(new) = m + 1 + h
      /\ \A i \in 1 .. m : new[i] = b[i]
      /\ new[m + 1] = Clear
      /\ \A j \in 1 .. h : new[m + 1 + j] = r[j]
  <2> DEFINE cr == <<Clear>> \o r
  <2>1. /\ cr \in Seq(Events) /\ Len(cr) = 1 + h /\ cr[1] = Clear
        /\ \A j \in 1 .. h : cr[1 + j] = r[j]
    BY <1>1
  <2> HIDE DEF cr
  <2>2. \A j \in 1 .. 1 + h : (b \o cr)[m + j] = cr[j]
    BY <2>1
  <2>3. \A j \in 1 .. h : 1 + j \in 1 .. 1 + h /\ m + (1 + j) = m + 1 + j
    BY <1>1
  <2>4. /\ (b \o cr) \in Seq(Events) /\ Len(b \o cr) = m + 1 + h
        /\ \A i \in 1 .. m : (b \o cr)[i] = b[i]
    <3>1. Len(b \o cr) = m + Len(cr) /\ Len(cr) = 1 + h /\ (b \o cr) \in Seq(Events)
      BY <2>1, ConcatProperties
    <3>2. m + (1 + h) = m + 1 + h
      BY <1>2
    <3>3. \A i \in 1 .. m : (b \o cr)[i] = b[i]
      BY <2>1
    <3> QED BY <3>1, <3>2, <3>3
  <2>5. \A j \in 1 .. h : (b \o cr)[m + 1 + j] = r[j]
    BY <2>1, <2>2, <2>3
  <2>6. 1 \in 1 .. 1 + h
    BY <1>1
  <2>7. (b \o cr)[m + 1] = Clear
    BY <2>1, <2>2, <2>6
  <2>8. new = b \o cr
    BY DEF cr
  <2> QED BY <2>4, <2>5, <2>7, <2>8
<1>4. Told(old, s, placed, active, marked, dep)
  OBVIOUS
<1>5. Told(new, s, placed, active, marked, dep2)
  <2> HIDE DEF m, l, h, old, new
  <2> DEFINE k == m + l
  <2>1. PICK scr : /\ Screens(old, scr, s, active, dep)
                   /\ "lines" \notin dep =>
                        \A a \in Anchors :
                          \E pos : Follows(old, scr, a, pos, placed[a], marked[a], dep)
    BY <1>4 DEF Told
  <2> DEFINE scr2 == [i \in 0 .. m + 1 + h |-> IF i <= m THEN scr[i] ELSE scr[m]]
  <2>2. /\ scr \in [0 .. m + l + h -> BOOLEAN] /\ scr[0] = s
        /\ ScreenMeets(scr[m + l + h], active, dep)
        /\ \A i \in 1 .. m + l + h : scr[i] = Screen(scr[i - 1], old[i])
        /\ "swap" \notin dep =>
             \A i \in 1 .. m + l + h : old[i].event = "marker" /\ old[i].alternate => scr[i]
    BY <1>2, <2>1 DEF Screens
  <2>3. \A i \in 0 .. m + 1 + h :
          \/ i = 0 /\ i <= m
          \/ i \in 1 .. m /\ i <= m /\ i - 1 <= m /\ i \in 1 .. m + l + h
             /\ i - 1 \in 0 .. m + 1 + h
          \/ i = m + 1 /\ ~(i <= m) /\ i - 1 = m
          \/ ~(i <= m) /\ ~(i - 1 <= m) /\ i - (m + 1) \in 1 .. h /\ i = m + 1 + (i - (m + 1))
             /\ i - 1 \in 0 .. m + 1 + h
    BY <1>2
  <2>4. /\ scr2 \in [0 .. m + 1 + h -> BOOLEAN]
        /\ \A i \in 0 .. m + 1 + h : scr2[i] = IF i <= m THEN scr[i] ELSE scr[m]
    <3>1. \A i \in 0 .. m + 1 + h : (i <= m => i \in 0 .. m + l + h) /\ m \in 0 .. m + l + h
      BY <1>2
    <3> QED BY <2>2, <3>1
  <2> HIDE DEF scr2
  <2>5. ASSUME NEW i \in 1 .. m + 1 + h PROVE scr2[i] = Screen(scr2[i - 1], new[i])
    <3>1. i \in 0 .. m + 1 + h /\ i - 1 \in 0 .. m + 1 + h /\ i # 0
      BY <1>2
    <3>2. CASE i \in 1 .. m
      <4>1. new[i] = old[i] /\ scr2[i] = scr[i] /\ scr2[i - 1] = scr[i - 1]
            /\ i \in 1 .. m + l + h
        BY <1>2, <1>3, <2>4, <3>1, <3>2
      <4> QED BY <2>2, <4>1
    <3>3. CASE i = m + 1
      <4>1. scr2[i] = scr[m] /\ scr2[i - 1] = scr[m] /\ new[i] = Clear
        BY <1>2, <1>3, <2>4, <3>1, <3>3
      <4> QED BY <4>1 DEF Screen, Clear
    <3>4. CASE i \notin 1 .. m /\ i # m + 1
      <4>1. ~(i <= m) /\ ~(i - 1 <= m) /\ i - (m + 1) \in 1 .. h /\ i = m + 1 + (i - (m + 1))
        BY <1>2, <3>1, <3>4
      <4>2. new[i].event = "scroll"
        BY <1>1, <1>3, <4>1 DEF h
      <4>3. scr2[i] = scr[m] /\ scr2[i - 1] = scr[m]
        BY <2>4, <3>1, <4>1
      <4> QED BY <4>2, <4>3 DEF Screen
    <3> QED BY <3>2, <3>3, <3>4
  <2>6. scr2[0] = s /\ scr2[m + 1 + h] = scr[m]
    BY <1>2, <2>2, <2>4
  <2>7. ASSUME \A i \in 1 .. l : q[i].event # "swap"
        PROVE  \A i \in m .. m + l + h : scr[i] = scr[m]
    <3>1. ASSUME NEW i \in m + 1 .. m + l + h PROVE old[i].event # "swap"
      <4>1. CASE i <= m + l
        <5>1. i - m \in 1 .. l /\ m + (i - m) = i
          BY <1>2, <4>1
        <5> QED BY <1>2, <2>7, <5>1
      <4>2. CASE ~(i <= m + l)
        <5>1. i - (m + l) \in 1 .. h /\ m + l + (i - (m + l)) = i
          BY <1>2, <4>2
        <5>2. old[i] = r[i - (m + l)] /\ r[i - (m + l)].event = "scroll"
          BY <1>1, <1>2, <5>1 DEF h
        <5> QED BY <5>2
      <4> QED BY <4>1, <4>2
    <3>2. m \in 0 .. Len(old) /\ m + l + h \in m .. Len(old) /\ Len(old) = m + l + h
      BY <1>2
    <3> QED BY <1>2, <2>1, <3>1, <3>2, CalmScreen
  <2>8. ASSUME NEW i \in 1 .. m + 1 + h, new[i].event = "marker"
        PROVE  i \in 1 .. m /\ i \in 1 .. m + l + h /\ new[i] = old[i]
    <3>1. CASE i \in 1 .. m
      BY <1>2, <1>3, <3>1
    <3>2. CASE i = m + 1
      BY <1>3, <2>8, <3>2 DEF Clear
    <3>3. CASE i \notin 1 .. m /\ i # m + 1
      <4>1. i - (m + 1) \in 1 .. h /\ i = m + 1 + (i - (m + 1))
        BY <1>2, <3>3
      <4>2. new[i].event = "scroll"
        BY <1>1, <1>3, <4>1 DEF h
      <4> QED BY <2>8, <4>2
    <3> QED BY <3>1, <3>2, <3>3
  <2>9. Screens(new, scr2, s, active, dep2)
    <3>1. ASSUME "swap" \notin dep2, NEW i \in 1 .. m + 1 + h, new[i].event = "marker",
                 new[i].alternate
          PROVE  scr2[i]
      <4>1. i \in 1 .. m /\ i \in 1 .. m + l + h /\ new[i] = old[i] /\ i <= m
            /\ i \in 0 .. m + 1 + h
        BY <1>2, <2>8, <3>1
      <4>2. scr[i]
        BY <2>2, <3>1, <4>1
      <4> QED BY <2>4, <4>1, <4>2
    <3>2. ScreenMeets(scr[m], active, dep2)
      <4>1. CASE \A i \in 1 .. l : q[i].event # "swap"
        <5>1. scr[m] = scr[m + l + h]
          <6>1. m + l + h \in m .. m + l + h
            BY <1>2
          <6> QED BY <2>7, <4>1, <6>1
        <5> QED BY <2>2, <5>1 DEF ScreenMeets
      <4>2. CASE \E i \in 1 .. l : q[i].event = "swap"
        BY <4>2 DEF l, Levels, ScreenMeets
      <4> QED BY <4>1, <4>2
    <3> QED BY <1>3, <2>4, <2>5, <2>6, <3>1, <3>2 DEF Screens
  <2>10. Once(new, marked)
    <3>1. Once(old, marked)
      BY <1>4 DEF Told
    <3> QED BY <1>2, <1>3, <2>8, <3>1 DEF Once
  <2>11. ASSUME "lines" \notin dep2, NEW a \in Anchors
         PROVE  \E pos : Follows(new, scr2, a, pos, placed[a], marked[a], dep2)
    <3>1. \A i \in 1 .. l : q[i].event # "swap"
      BY <2>11 DEF l, Levels
    <3>2. PICK pos : Follows(old, scr, a, pos, placed[a], marked[a], dep)
      BY <2>1, <2>11
    <3>3. /\ pos \in [0 .. m + l + h -> Places] /\ pos[0] = placed[a]
          /\ LineMeets(pos[m + l + h], marked[a], dep)
          /\ \A i \in 1 .. m + l + h : /\ pos[i] = Shift(a, pos[i - 1], scr[i - 1], old[i])
                                       /\ Apart(pos[i - 1], scr[i - 1], old[i], pos[i])
          /\ \A i \in 0 .. m + l + h : OnScreen(pos[i], TRUE) => scr[i]
      BY <1>2, <3>2 DEF Follows
    <3>4. pos[m] \in Places /\ scr[m] \in BOOLEAN /\ m \in 0 .. m + l + h
      BY <1>2, <2>2, <3>3
    <3> DEFINE Other == pos[m].kind = "at" /\ pos[m].alternate # scr[m]
               c == Shift(a, pos[m], scr[m], Clear)
               pos2 == [i \in 0 .. m + 1 + h |->
                          IF i <= m THEN pos[i] ELSE IF Other THEN pos[l + (i - 1)] ELSE c]
    <3>5. /\ Other => c = pos[m] /\ c.kind = "at"
          /\ ~Other => c \in Places /\ c.kind # "at"
          /\ Apart(pos[m], scr[m], Clear, c)
      <4>1. c = IF OnScreen(pos[m], scr[m]) THEN Gone ELSE pos[m]
        BY DEF Shift, Clear
      <4>2. CASE Other
        BY <4>1, <4>2 DEF OnScreen, Apart
      <4>3. CASE ~Other
        BY <3>4, <4>1, <4>3, PlaceKinds DEF OnScreen, Apart
      <4> QED BY <4>2, <4>3
    <3>6. ASSUME Other, NEW j \in 0 .. h PROVE pos[m + l] = pos[m] /\ scr[m + l + j] = scr[m]
      <4>1. /\ m \in 0 .. Len(old) /\ m + l \in m .. Len(old) /\ m + l + j \in m .. m + l + h
        BY <1>2
      <4>2. \A i \in m + 1 .. m + l : old[i].event # "swap"
        <5> SUFFICES ASSUME NEW i \in m + 1 .. m + l PROVE old[i].event # "swap"
          OBVIOUS
        <5>1. i - m \in 1 .. l /\ m + (i - m) = i
          BY <1>2
        <5> QED BY <1>2, <3>1, <5>1
      <4>3. scr[m + l + j] = scr[m]
        BY <2>7, <3>1, <4>1
      <4>4. pos[m + l] = pos[m]
        <5>1. pos[m].kind = "at" /\ pos[m].alternate # scr[m]
          BY <3>6
        <5>2. old \in Seq(Events) /\ m \in 0 .. Len(old) /\ m + l \in m .. Len(old)
          BY <1>2, <4>1
        <5>3. Screens(old, scr, s, active, dep)
          BY <2>1
        <5> HIDE DEF Other
        <5> QED BY <3>2, <4>2, <5>1, <5>2, <5>3, CalmLines
      <4> QED BY <4>3, <4>4
    <3> HIDE DEF c, Other
    <3>7. /\ \A i \in 0 .. m + 1 + h :
               pos2[i] = IF i <= m THEN pos[i] ELSE IF Other THEN pos[l + (i - 1)] ELSE c
          /\ pos2 \in [0 .. m + 1 + h -> Places]
      <4>1. \A i \in 0 .. m + 1 + h :
              /\ i <= m => i \in 0 .. m + l + h
              /\ ~(i <= m) => l + (i - 1) \in 0 .. m + l + h
        BY <1>2
      <4> QED BY <3>3, <3>5, <4>1
    <3> HIDE DEF pos2
    <3>8. ASSUME NEW i \in 1 .. m + 1 + h
          PROVE  /\ pos2[i] = Shift(a, pos2[i - 1], scr2[i - 1], new[i])
                 /\ Apart(pos2[i - 1], scr2[i - 1], new[i], pos2[i])
      <4>1. i \in 0 .. m + 1 + h /\ i - 1 \in 0 .. m + 1 + h
        BY <1>2
      <4>2. CASE i \in 1 .. m
        <5>1. i \in 1 .. m + l + h /\ i <= m /\ i - 1 <= m
          BY <1>2, <4>2
        <5>2. new[i] = old[i] /\ scr2[i - 1] = scr[i - 1]
          BY <1>2, <1>3, <2>4, <4>1, <4>2, <5>1
        <5>3. pos2[i] = pos[i] /\ pos2[i - 1] = pos[i - 1]
          BY <3>7, <4>1, <5>1
        <5> QED BY <3>3, <5>1, <5>2, <5>3
      <4>3. CASE i = m + 1
        <5>1. ~(i <= m) /\ i - 1 = m /\ l + (i - 1) = m + l
          BY <1>2, <4>3
        <5>2. new[i] = Clear /\ scr2[i - 1] = scr[m] /\ pos2[i - 1] = pos[m]
          BY <1>2, <1>3, <2>4, <3>7, <4>1, <4>3, <5>1
        <5>3. pos2[i] = c
          <6>1. CASE Other
            <7>1. pos[m + l] = pos[m]
              BY <1>2, <3>6, <6>1
            <7> QED BY <3>5, <3>7, <4>1, <5>1, <6>1, <7>1
          <6>2. CASE ~Other
            BY <3>7, <4>1, <5>1, <6>2
          <6> QED BY <6>1, <6>2
        <5> QED BY <3>5, <5>2, <5>3 DEF c
      <4>4. CASE i \notin 1 .. m /\ i # m + 1
        <5>0. PICK j \in 1 .. h : j = i - (m + 1)
          BY <1>2, <4>4
        <5>1. /\ ~(i <= m) /\ ~(i - 1 <= m) /\ j \in 1 .. h /\ i = m + 1 + j
              /\ l + (i - 1) = m + l + j /\ l + ((i - 1) - 1) = m + l + j - 1
              /\ m + l + j \in 1 .. m + l + h /\ j - 1 \in 0 .. h
              /\ m + l + (j - 1) = m + l + j - 1
          BY <1>2, <4>4, <5>0
        <5>2. new[i] = r[j] /\ old[m + l + j] = r[j] /\ r[j].event = "scroll"
          BY <1>1, <1>2, <1>3, <5>1 DEF h
        <5>3. scr2[i - 1] = scr[m]
          BY <2>4, <4>1, <5>1
        <5>4. CASE Other
          <6>1. pos2[i] = pos[m + l + j] /\ pos2[i - 1] = pos[m + l + j - 1]
            BY <3>7, <4>1, <5>1, <5>4
          <6>2. scr[m + l + j - 1] = scr[m]
            BY <3>6, <5>1, <5>4
          <6>3. PICK u \in 1 .. m + l + h : u = m + l + j
            BY <5>1
          <6>4. pos[u] = Shift(a, pos[u - 1], scr[u - 1], old[u])
                /\ Apart(pos[u - 1], scr[u - 1], old[u], pos[u])
            BY <3>3
          <6>5. /\ new[i] = old[u] /\ pos2[i] = pos[u] /\ u - 1 = m + l + j - 1
                /\ pos2[i - 1] = pos[m + l + j - 1] /\ scr[m + l + j - 1] = scr[m]
            <7>1. new[i] = old[u] /\ pos2[i] = pos[u]
              BY ONLY <5>2, <6>1, <6>3, Zenon
            <7>2. u - 1 = m + l + j - 1
              BY <1>2, <4>4, <5>0, <6>3
            <7> QED BY ONLY <6>1, <6>2, <7>1, <7>2, Zenon
          <6>6. pos2[i - 1] = pos[u - 1] /\ scr2[i - 1] = scr[u - 1]
            BY <5>3, <6>5
          <6> QED BY ONLY <6>4, <6>5, <6>6
        <5>5. CASE ~Other
          <6>1. pos2[i] = c /\ pos2[i - 1] = c
            BY <3>7, <4>1, <5>1, <5>5
          <6>2. c \in Places /\ c.kind # "at"
            BY <3>5, <5>5
          <6> QED BY <5>2, <6>1, <6>2 DEF Shift, Apart
        <5> QED BY <5>4, <5>5
      <4> QED BY <4>2, <4>3, <4>4
    <3>9. ASSUME NEW i \in 0 .. m + 1 + h, OnScreen(pos2[i], TRUE) PROVE scr2[i]
      <4>1. CASE i <= m
        <5>1. i \in 0 .. m + l + h
          BY <1>2, <4>1
        <5> QED BY <2>4, <3>3, <3>7, <3>9, <4>1, <5>1
      <4>2. CASE ~(i <= m)
        <5>1. CASE Other
          <6>1. /\ i - (m + 1) \in 0 .. h /\ m + l + (i - (m + 1)) = l + (i - 1)
                /\ l + (i - 1) \in 0 .. m + l + h
            <7>1. i \in Nat /\ m < i /\ i <= m + 1 + h
              BY <1>2, <4>2
            <7>2. i - (m + 1) \in 0 .. h
              BY <1>2, <7>1
            <7>3. l + (i - 1) \in 0 .. m + l + h
              BY <1>2, <7>1
            <7> QED BY <1>2, <7>1, <7>2, <7>3
          <6>2. scr[l + (i - 1)] = scr[m]
            BY <3>6, <5>1, <6>1
          <6> QED BY <2>4, <3>3, <3>7, <3>9, <4>2, <5>1, <6>1, <6>2
        <5>2. CASE ~Other
          BY <3>5, <3>7, <3>9, <4>2, <5>2 DEF OnScreen
        <5> QED BY <5>1, <5>2
      <4> QED BY <4>1, <4>2
    <3>10. pos2[0] = placed[a] /\ LineMeets(pos2[m + 1 + h], marked[a], dep2)
      <4>1. pos2[0] = placed[a]
        BY <1>2, <3>3, <3>7
      <4>2. m + 1 + h \in 0 .. m + 1 + h /\ ~(m + 1 + h <= m) /\ l + ((m + 1 + h) - 1) = m + l + h
        BY <1>2
      <4>3. pos2[m + 1 + h] = IF Other THEN pos[m + l + h] ELSE c
        BY <3>7, <4>2
      <4> QED BY <3>3, <3>5, <4>1, <4>3 DEF LineMeets
    <3>11. Follows(new, scr2, a, pos2, placed[a], marked[a], dep2)
      BY <1>3, <3>7, <3>8, <3>9, <3>10 DEF Follows
    <3> QED BY <3>11
  <2>12. /\ s \in BOOLEAN /\ active \in BOOLEAN
         /\ placed \in [Anchors -> Places] /\ marked \in [Anchors -> Places]
         /\ "swap" \notin dep2 => \A a \in Anchors : OnScreen(placed[a], TRUE) => s
    BY <1>4 DEF Told
  <2> QED BY <1>3, <2>9, <2>10, <2>11, <2>12 DEF Told
<1> QED BY <1>5

-----------------------------------------------------------------------------
(* The window's thread handles the first event, or refuses the marker it   *)
(* is: the scene moves on by one step of the trace.                        *)
HandledAnchor(a, e, s, p, t, p2, t2) ==
  \/ p2 = Shift(a, p, s, e) /\ t2 = t
  \/ e.event = "marker" /\ e.anchor = a /\ p2 = Gone /\ t2 = Gone

LEMMA ShiftScreen ==
  ASSUME NEW p \in Places, NEW e \in Events, NEW s \in BOOLEAN, NEW a,
         OnScreen(p, TRUE) => s, OnScreen(Shift(a, p, s, e), TRUE)
  PROVE  Screen(s, e) \/ (e.event = "marker" /\ e.alternate)
<1>1. CASE e.event = "scroll"
  <2>1. e \in Scrolls
    BY <1>1, EventKinds
  <2>2. OnScreen(p, TRUE)
    BY <2>1, ScrollShift, PlaceKinds DEF OnScreen
  <2> QED BY <1>1, <2>2 DEF Screen
<1>2. CASE e.event = "swap"
  BY <1>2, PlaceKinds DEF Shift, Screen, OnScreen
<1>3. CASE e.event = "clear"
  BY <1>3, PlaceKinds DEF Shift, Screen, OnScreen
<1>4. CASE e.event = "marker"
  BY <1>4, PlaceKinds DEF Shift, Screen, OnScreen
<1> QED BY <1>1, <1>2, <1>3, <1>4, EventKinds

LEMMA TellTail ==
  ASSUME NEW evs, NEW s, NEW placed, NEW active, NEW marked, NEW dep,
         Told(evs, s, placed, active, marked, dep), evs # <<>>,
         NEW placed2 \in [Anchors -> Places], NEW marked2 \in [Anchors -> Places],
         \A a \in Anchors :
           HandledAnchor(a, Head(evs), s, placed[a], marked[a], placed2[a], marked2[a])
  PROVE  Told(Tail(evs), Screen(s, Head(evs)), placed2, active, marked2, dep)
<1> DEFINE n == Len(evs) - 1  e == Head(evs)  rest == Tail(evs)  s2 == Screen(s, e)
<1>1. /\ evs \in Seq(Events) /\ s \in BOOLEAN /\ active \in BOOLEAN
      /\ placed \in [Anchors -> Places] /\ marked \in [Anchors -> Places]
      /\ Graded(dep) /\ Once(evs, marked)
      /\ "swap" \notin dep => \A a \in Anchors : OnScreen(placed[a], TRUE) => s
  BY DEF Told
<1>2. /\ n \in Nat /\ Len(evs) = n + 1 /\ rest \in Seq(Events) /\ Len(rest) = n
      /\ e \in Events /\ evs[1] = e /\ \A i \in 1 .. n : rest[i] = evs[i + 1]
  <2>1. /\ Tail(evs) \in Seq(Events) /\ Len(Tail(evs)) = Len(evs) - 1
        /\ \A i \in 1 .. Len(Tail(evs)) : Tail(evs)[i] = evs[i + 1]
    BY <1>1, HeadTailProperties
  <2>2. Len(evs) \in Nat /\ Len(evs) # 0 /\ Head(evs) \in Events /\ evs[1] = Head(evs)
    BY <1>1, HeadTailProperties, EmptySeq
  <2> QED BY <2>1, <2>2
<1>3. \A i \in 1 .. n + 1 : evs[i] \in Events
  BY <1>1, <1>2
<1>4. s2 \in BOOLEAN
  BY <1>1, <1>2, EventKinds DEF Screen
<1>5. \A a \in Anchors : HandledAnchor(a, e, s, placed[a], marked[a], placed2[a], marked2[a])
  OBVIOUS
<1>6. PICK scr : /\ Screens(evs, scr, s, active, dep)
                 /\ "lines" \notin dep =>
                      \A a \in Anchors :
                        \E pos : Follows(evs, scr, a, pos, placed[a], marked[a], dep)
  BY DEF Told
<1>7. Told(rest, s2, placed2, active, marked2, dep)
  <2> HIDE DEF n, e, rest, s2
  <2> DEFINE scr2 == [i \in 0 .. n |-> scr[i + 1]]
  <2>1. /\ scr \in [0 .. n + 1 -> BOOLEAN] /\ scr[0] = s /\ ScreenMeets(scr[n + 1], active, dep)
        /\ \A i \in 1 .. n + 1 : scr[i] = Screen(scr[i - 1], evs[i])
        /\ "swap" \notin dep =>
             \A i \in 1 .. n + 1 : evs[i].event = "marker" /\ evs[i].alternate => scr[i]
    BY <1>2, <1>6 DEF Screens
  <2>2. scr[1] = s2 /\ 1 \in 1 .. n + 1
    <3>1. 1 \in 1 .. n + 1 /\ 1 - 1 = 0
      BY <1>2
    <3> QED BY <1>2, <2>1, <3>1 DEF s2
  <2>3. scr2 \in [0 .. n -> BOOLEAN] /\ \A i \in 0 .. n : scr2[i] = scr[i + 1]
    <3>1. \A i \in 0 .. n : i + 1 \in 0 .. n + 1
      BY <1>2
    <3> QED BY <2>1, <3>1
  <2> HIDE DEF scr2
  <2>4. \A i \in 1 .. n : /\ i + 1 \in 1 .. n + 1 /\ i \in 0 .. n /\ i - 1 \in 0 .. n
                          /\ (i + 1) - 1 = i /\ (i - 1) + 1 = i
    BY <1>2
  <2>5. Screens(rest, scr2, s2, active, dep)
    <3>1. scr2[0] = s2 /\ scr2[n] = scr[n + 1]
      BY <1>2, <2>2, <2>3
    <3>2. ASSUME NEW i \in 1 .. n PROVE scr2[i] = Screen(scr2[i - 1], rest[i])
      <4>1. scr2[i] = scr[i + 1] /\ scr2[i - 1] = scr[i] /\ rest[i] = evs[i + 1]
        BY <1>2, <2>3, <2>4
      <4>2. scr[i + 1] = Screen(scr[i], evs[i + 1])
        BY <2>1, <2>4
      <4> QED BY <4>1, <4>2
    <3>3. ASSUME "swap" \notin dep, NEW i \in 1 .. n, rest[i].event = "marker", rest[i].alternate
          PROVE  scr2[i]
      <4>1. scr2[i] = scr[i + 1] /\ rest[i] = evs[i + 1] /\ i + 1 \in 1 .. n + 1
        BY <1>2, <2>3, <2>4
      <4> QED BY <2>1, <3>3, <4>1
    <3> QED BY <1>2, <2>1, <2>3, <3>1, <3>2, <3>3 DEF Screens
  <2>6. Once(rest, marked2) /\ \A i \in 1 .. n : rest[i].event = "marker" /\ e.event = "marker"
                                                 => rest[i].anchor # e.anchor
    <3>1. \A i \in 1 .. n : rest[i].event = "marker" =>
            /\ marked[rest[i].anchor] # None /\ rest[i].anchor \in Anchors
            /\ (e.event = "marker" => rest[i].anchor # e.anchor)
      <4> SUFFICES ASSUME NEW i \in 1 .. n, evs[i + 1].event = "marker"
                   PROVE  /\ marked[evs[i + 1].anchor] # None /\ evs[i + 1].anchor \in Anchors
                          /\ (e.event = "marker" => evs[i + 1].anchor # e.anchor)
        BY <1>2
      <4>1. i + 1 \in 1 .. n + 1 /\ 1 \in 1 .. n + 1 /\ i + 1 # 1
        BY <1>2
      <4> QED BY <1>1, <1>2, <1>3, <4>1, EventKinds DEF Once
    <3>2. \A i, j \in 1 .. n : rest[i].event = "marker" /\ rest[j].event = "marker"
            /\ rest[i].anchor = rest[j].anchor => i = j
      <4> SUFFICES ASSUME NEW i \in 1 .. n, NEW j \in 1 .. n, evs[i + 1].event = "marker",
                          evs[j + 1].event = "marker", evs[i + 1].anchor = evs[j + 1].anchor
                   PROVE  i = j
        BY <1>2
      <4>1. i + 1 \in 1 .. n + 1 /\ j + 1 \in 1 .. n + 1
        BY <1>2
      <4>2. i + 1 = j + 1
        BY <1>1, <1>2, <4>1 DEF Once
      <4> QED BY <4>2
    <3>3. \A a \in Anchors : marked[a] # None => marked2[a] # None
      BY <1>5, PlaceKinds DEF HandledAnchor
    <3> QED BY <1>2, <3>1, <3>2, <3>3 DEF Once
  <2>7. ASSUME "swap" \notin dep, NEW a \in Anchors, OnScreen(placed2[a], TRUE)
        PROVE  s2
    <3>1. CASE placed2[a] = Shift(a, placed[a], s, e)
      <4>1. s2 \/ (e.event = "marker" /\ e.alternate)
        <5>1. /\ placed[a] \in Places /\ e \in Events /\ s \in BOOLEAN
              /\ (OnScreen(placed[a], TRUE) => s) /\ OnScreen(Shift(a, placed[a], s, e), TRUE)
          BY <1>1, <1>2, <2>7, <3>1
        <5>2. Screen(s, e) \/ (e.event = "marker" /\ e.alternate)
          BY ONLY <5>1, ShiftScreen
        <5> QED BY <5>2 DEF s2
      <4> QED BY <1>2, <2>1, <2>2, <2>7, <4>1
    <3>2. CASE placed2[a] = Gone
      BY <2>7, <3>2, PlaceKinds DEF OnScreen
    <3> QED BY <1>5, <3>1, <3>2 DEF HandledAnchor
  <2>8. ASSUME "lines" \notin dep, NEW a \in Anchors
        PROVE  \E pos : Follows(rest, scr2, a, pos, placed2[a], marked2[a], dep)
    <3>1. CASE placed2[a] = Shift(a, placed[a], s, e) /\ marked2[a] = marked[a]
      <4>1. PICK pos : Follows(evs, scr, a, pos, placed[a], marked[a], dep)
        BY <1>6, <2>8
      <4>2. /\ pos \in [0 .. n + 1 -> Places] /\ pos[0] = placed[a]
            /\ LineMeets(pos[n + 1], marked[a], dep)
            /\ \A i \in 1 .. n + 1 : /\ pos[i] = Shift(a, pos[i - 1], scr[i - 1], evs[i])
                                     /\ Apart(pos[i - 1], scr[i - 1], evs[i], pos[i])
            /\ \A i \in 0 .. n + 1 : OnScreen(pos[i], TRUE) => scr[i]
        BY <1>2, <4>1 DEF Follows
      <4>3. pos[1] = placed2[a]
        <5>1. 1 - 1 = 0
          OBVIOUS
        <5>2. pos[1] = Shift(a, pos[0], scr[0], evs[1])
          BY <2>2, <4>2, <5>1
        <5> QED BY <1>2, <2>1, <3>1, <4>2, <5>2
      <4> DEFINE pos2 == [i \in 0 .. n |-> pos[i + 1]]
      <4>4. pos2 \in [0 .. n -> Places] /\ \A i \in 0 .. n : pos2[i] = pos[i + 1]
        <5>1. \A i \in 0 .. n : i + 1 \in 0 .. n + 1
          BY <1>2
        <5> QED BY <4>2, <5>1
      <4> HIDE DEF pos2
      <4>5. ASSUME NEW i \in 1 .. n
            PROVE  /\ pos2[i] = Shift(a, pos2[i - 1], scr2[i - 1], rest[i])
                   /\ Apart(pos2[i - 1], scr2[i - 1], rest[i], pos2[i])
        <5>1. /\ pos2[i] = pos[i + 1] /\ pos2[i - 1] = pos[i] /\ scr2[i - 1] = scr[i]
              /\ rest[i] = evs[i + 1]
          BY <1>2, <2>3, <2>4, <4>4
        <5>2. /\ pos[i + 1] = Shift(a, pos[i], scr[i], evs[i + 1])
              /\ Apart(pos[i], scr[i], evs[i + 1], pos[i + 1])
          BY <2>4, <4>2
        <5> QED BY <5>1, <5>2
      <4>6. ASSUME NEW i \in 0 .. n, OnScreen(pos2[i], TRUE) PROVE scr2[i]
        <5>1. i + 1 \in 0 .. n + 1
          BY <1>2
        <5> QED BY <2>3, <4>2, <4>4, <4>6, <5>1
      <4>7. pos2[0] = placed2[a] /\ LineMeets(pos2[n], marked2[a], dep)
        <5>1. 0 \in 0 .. n /\ n \in 0 .. n /\ 0 + 1 = 1
          BY <1>2
        <5> QED BY <3>1, <4>2, <4>3, <4>4, <5>1
      <4>8. Follows(rest, scr2, a, pos2, placed2[a], marked2[a], dep)
        BY <1>2, <4>4, <4>5, <4>6, <4>7 DEF Follows
      <4> QED BY <4>8
    <3>2. CASE e.event = "marker" /\ e.anchor = a /\ placed2[a] = Gone /\ marked2[a] = Gone
      <4> DEFINE pos2 == [i \in 0 .. n |-> Gone]
      <4>1. pos2 \in [0 .. n -> Places] /\ \A i \in 0 .. n : pos2[i] = Gone
        BY PlaceKinds
      <4> HIDE DEF pos2
      <4>2. ASSUME NEW i \in 1 .. n
            PROVE  /\ pos2[i] = Shift(a, pos2[i - 1], scr2[i - 1], rest[i])
                   /\ Apart(pos2[i - 1], scr2[i - 1], rest[i], pos2[i])
        <5>1. rest[i] \in Events /\ ~(rest[i].event = "marker" /\ rest[i].anchor = a)
          BY <1>2, <2>6, <3>2
        <5>2. Gone.kind # "at"
          BY PlaceKinds
        <5>3. Shift(a, Gone, scr2[i - 1], rest[i]) = Gone
          BY <5>1, <5>2, EventKinds DEF Shift
        <5>4. pos2[i] = Gone /\ pos2[i - 1] = Gone
          BY <2>4, <4>1
        <5> QED BY <5>2, <5>3, <5>4 DEF Apart
      <4>3. \A i \in 0 .. n : ~OnScreen(pos2[i], TRUE)
        BY <4>1, PlaceKinds DEF OnScreen
      <4>4. pos2[0] = placed2[a] /\ LineMeets(pos2[n], marked2[a], dep)
        <5>1. 0 \in 0 .. n /\ n \in 0 .. n
          BY <1>2
        <5> QED BY <3>2, <4>1, <5>1, PlaceKinds DEF LineMeets
      <4>5. Follows(rest, scr2, a, pos2, placed2[a], marked2[a], dep)
        BY <1>2, <4>1, <4>2, <4>3, <4>4 DEF Follows
      <4> QED BY <4>5
    <3> QED BY <1>5, <3>1, <3>2 DEF HandledAnchor
  <2> QED BY <1>1, <1>2, <1>4, <2>5, <2>6, <2>7, <2>8 DEF Told
<1> QED BY <1>7

(* Nothing is on its way.                                                  *)
LEMMA TellNothing ==
  ASSUME NEW s \in BOOLEAN, NEW active \in BOOLEAN, NEW placed \in [Anchors -> Places],
         NEW marked \in [Anchors -> Places], NEW dep, Graded(dep)
  PROVE  Told(<<>>, s, placed, active, marked, dep) <=>
           /\ ScreenMeets(s, active, dep)
           /\ "swap" \notin dep => \A a \in Anchors : OnScreen(placed[a], TRUE) => s
           /\ "lines" \notin dep => \A a \in Anchors : LineMeets(placed[a], marked[a], dep)
<1>1. Len(<<>>) = 0 /\ 1 .. 0 = {} /\ 0 .. 0 = {0} /\ <<>> \in Seq(Events)
  OBVIOUS
<1>2. Once(<<>>, marked)
  BY <1>1 DEF Once
<1>3. ASSUME Told(<<>>, s, placed, active, marked, dep)
      PROVE  /\ ScreenMeets(s, active, dep)
             /\ "swap" \notin dep => \A a \in Anchors : OnScreen(placed[a], TRUE) => s
             /\ "lines" \notin dep => \A a \in Anchors : LineMeets(placed[a], marked[a], dep)
  <2>1. PICK scr : /\ Screens(<<>>, scr, s, active, dep)
                   /\ "lines" \notin dep =>
                        \A a \in Anchors :
                          \E pos : Follows(<<>>, scr, a, pos, placed[a], marked[a], dep)
    BY <1>3 DEF Told
  <2>2. ScreenMeets(s, active, dep)
    BY <1>1, <2>1 DEF Screens
  <2>3. "swap" \notin dep => \A a \in Anchors : OnScreen(placed[a], TRUE) => s
    BY <1>3 DEF Told
  <2>4. "lines" \notin dep => \A a \in Anchors : LineMeets(placed[a], marked[a], dep)
    BY <1>1, <2>1 DEF Follows
  <2> QED BY <2>2, <2>3, <2>4
<1>4. ASSUME ScreenMeets(s, active, dep),
             "swap" \notin dep => \A a \in Anchors : OnScreen(placed[a], TRUE) => s,
             "lines" \notin dep => \A a \in Anchors : LineMeets(placed[a], marked[a], dep)
      PROVE  Told(<<>>, s, placed, active, marked, dep)
  <2> DEFINE scr == [i \in 0 .. 0 |-> s]
  <2>1. Screens(<<>>, scr, s, active, dep)
    BY <1>1, <1>4 DEF Screens
  <2>2. ASSUME "lines" \notin dep, NEW a \in Anchors
        PROVE  \E pos : Follows(<<>>, scr, a, pos, placed[a], marked[a], dep)
    <3> DEFINE pos == [i \in 0 .. 0 |-> placed[a]]
    <3>1. "swap" \notin dep
      BY <2>2 DEF Graded
    <3>2. Follows(<<>>, scr, a, pos, placed[a], marked[a], dep)
      BY <1>1, <1>4, <2>2, <3>1 DEF Follows
    <3> QED BY <3>2
  <2> HIDE DEF scr
  <2> QED BY <1>1, <1>2, <1>4, <2>1, <2>2 DEF Told
<1> QED BY <1>3, <1>4

(* The anchors are moved while events are on their way, which puts their   *)
(* lines out of step: only their screens are still known.                  *)
LEMMA TellMoved ==
  ASSUME NEW evs, NEW s, NEW placed, NEW active, NEW marked, NEW dep,
         Told(evs, s, placed, active, marked, dep),
         NEW placed2 \in [Anchors -> Places], NEW marked2 \in [Anchors -> Places], NEW dep2,
         Graded(dep2), dep \subseteq dep2, "lines" \in dep2,
         \A a \in Anchors : /\ OnScreen(placed2[a], TRUE) => OnScreen(placed[a], TRUE)
                            /\ marked2[a] = None => marked[a] = None
  PROVE  Told(evs, s, placed2, active, marked2, dep2)
<1>1. PICK scr : Screens(evs, scr, s, active, dep)
  BY DEF Told
<1>2. Screens(evs, scr, s, active, dep2)
  BY <1>1 DEF Screens, ScreenMeets
<1>3. Once(evs, marked2)
  <2>1. \A i \in 1 .. Len(evs) : evs[i] \in Events
    BY DEF Told
  <2>2. \A i \in 1 .. Len(evs) : evs[i].event = "marker" => evs[i].anchor \in Anchors
    BY <2>1, EventKinds
  <2> QED BY <2>2 DEF Told, Once
<1>4. "swap" \notin dep2 => \A a \in Anchors : OnScreen(placed2[a], TRUE) => s
  BY DEF Told
<1>5. evs \in Seq(Events) /\ s \in BOOLEAN /\ active \in BOOLEAN
  BY DEF Told
<1> QED BY <1>2, <1>3, <1>4, <1>5 DEF Told

-----------------------------------------------------------------------------
(* The invariant.                                                          *)

(* The events of a pane of this size.                                      *)
PaneEvents ==
  {e \in Events : /\ e.event = "scroll" => e.end <= MaxRows /\ e.history <= HistMax
                  /\ e.event = "marker" => e.line < MaxRows}

(* What the window's thread will have to handle: the scroll that is held   *)
(* back for others to join it comes last.                                  *)
Coming == IF pending = NoScroll THEN queue ELSE Append(queue, pending)

Types ==
  /\ pane \in Panes
  /\ rows \in Rows /\ hist \in 0 .. HistMax /\ alt \in BOOLEAN
  /\ parsing \in BOOLEAN /\ altScene \in BOOLEAN
  /\ pending = NoScroll \/ pending \in PaneEvents \cap Scrolls
  /\ queue \in Seq(PaneEvents) /\ batch \in Seq(PaneEvents)
  /\ anchors \in [Anchors -> Positions] /\ text \in [Anchors -> Positions]

(* No scroll is held back between chunks, and queues keep their bounds.    *)
Lengths ==
  /\ ~parsing => pending = NoScroll
  /\ Len(queue) <= Limit + 1 /\ Len(batch) <= Limit + 1
  /\ ~windows /\ pending # NoScroll => Len(queue) <= Limit

(* The history of the active screen is no longer than the last scroll      *)
(* knows, and than the one before would know if the two were merged.       *)
Size == IF alt THEN 0 ELSE hist
Remembers(q, size, dep) ==
  "lines" \notin dep /\ q # <<>> /\ q[Len(q)].event = "scroll" => size <= q[Len(q)].history
Joins(q, p, dep) ==
  "lines" \notin dep /\ p # NoScroll /\ q # <<>> => GrewBy(q[Len(q)], p)

Reported == Told(batch \o Coming, altScene, anchors, alt, text, departed)
Histories == Remembers(Coming, Size, departed) /\ Joins(queue, pending, departed)

IInv == Types /\ Lengths /\ Reported /\ Histories

-----------------------------------------------------------------------------
(* What is known of a pane.                                                *)
LEMMA PaneFacts ==
  ASSUME pane \in Panes
  PROVE  /\ windows \in BOOLEAN /\ Rows \subseteq Nat \ {0} /\ HistMax \in Nat
         /\ Limit \in Nat \ {0} /\ MaxRows \in Rows /\ \A r \in Rows : r <= MaxRows
         /\ MaxRows \in Nat \ {0} /\ Positions \subseteq Places
<1>1. pane \in Pane /\ \E most \in pane.rows : \A r \in pane.rows : r <= most
  BY AnchorsAssumption
<1>2. /\ windows \in BOOLEAN /\ Rows \subseteq Nat \ {0} /\ HistMax \in Nat
      /\ Limit \in Nat \ {0}
  BY <1>1 DEF Pane, windows, Rows, HistMax, Limit
<1>3. MaxRows \in Rows /\ \A r \in Rows : r <= MaxRows
  BY <1>1 DEF MaxRows, Rows
<1>4. MaxRows \in Nat \ {0}
  BY <1>2, <1>3
<1>5. Lines \subseteq Int
  BY <1>2, <1>4 DEF Lines
<1>6. Positions \subseteq Places
  BY <1>5 DEF Positions, Places
<1> QED BY <1>2, <1>3, <1>4, <1>6

LEMMA TypeFacts ==
  ASSUME Types
  PROVE  /\ queue \in Seq(Events) /\ batch \in Seq(Events)
         /\ pending # NoScroll => pending \in Scrolls /\ pending \in Events
         /\ anchors \in [Anchors -> Places] /\ text \in [Anchors -> Places]
<1>1. PaneEvents \subseteq Events
  BY DEF PaneEvents
<1>2. queue \in Seq(Events) /\ batch \in Seq(Events)
  BY <1>1 DEF Types
<1>3. pending # NoScroll => pending \in Scrolls /\ pending \in Events
  BY <1>1 DEF Types
<1>4. anchors \in [Anchors -> Places] /\ text \in [Anchors -> Places]
  BY PaneFacts DEF Types
<1> QED BY <1>2, <1>3, <1>4

LEMMA Glue ==
  ASSUME NEW S, NEW b \in Seq(S), NEW q \in Seq(S), NEW e \in S
  PROVE  /\ b \o Append(q, e) = Append(b \o q, e)
         /\ q \o <<e>> = Append(q, e) /\ q \o <<>> = q /\ <<>> \o q = q
         /\ <<e>> \o <<>> = <<e>> /\ b \o q \in Seq(S)
<1>1. /\ Append(q, e) = q \o <<e>> /\ Append(b \o q, e) = (b \o q) \o <<e>>
      /\ <<e>> \in Seq(S) /\ b \o q \in Seq(S)
  BY AppendIsConcat
<1>2. b \o (q \o <<e>>) = (b \o q) \o <<e>>
  BY <1>1, ConcatAssociative
<1>3. q \o <<>> = q /\ <<>> \o q = q /\ <<e>> \o <<>> = <<e>>
  BY <1>1, ConcatEmptySeq
<1> QED BY <1>1, <1>2, <1>3

-----------------------------------------------------------------------------
(* Sending.                                                                *)

(* What is left of a queue when an event arrives.                          *)
KeptOf(q) == IF windows /\ Len(q) >= Limit THEN <<Clear>> ELSE q

LEMMA DropsGrade ==
  ASSUME NEW q, NEW dep, Graded(dep)
  PROVE  /\ Graded(dep \cup Dropped(q))
         /\ Dropped(q) # {} => "kept" \in Dropped(q)
BY DEF Graded, Dropped, Levels

(* What the queue becomes tells the same, but for what it drops.           *)
LEMMA KeptTells ==
  ASSUME Types, NEW q \in Seq(Events), NEW r \in Seq(Scrolls), NEW active, NEW marked, NEW dep,
         Told(batch \o (q \o r), altScene, anchors, active, marked, dep)
  PROVE  Told(batch \o (KeptOf(q) \o r), altScene, anchors, active, marked, dep \cup Dropped(q))
<1>1. Graded(dep) /\ Graded(dep \cup Dropped(q))
  BY DropsGrade DEF Told
<1>2. CASE windows /\ Len(q) >= Limit
  <2>1. KeptOf(q) = <<Clear>>
    BY <1>2 DEF KeptOf
  <2>2. "kept" \in dep \cup Dropped(q)
    BY <1>2, PaneFacts DEF Dropped, Types
  <2>3. (\E i \in 1 .. Len(q) : q[i].event = "swap") => Levels \subseteq dep \cup Dropped(q)
    <3>1. \A i \in 1 .. Len(q) : i \in DOMAIN q
      OBVIOUS
    <3> QED BY <1>2, <3>1, PaneFacts DEF Dropped, Levels, Types
  <2>4. batch \in Seq(Events)
    BY TypeFacts
  <2>5. Told(batch \o (<<Clear>> \o r), altScene, anchors, active, marked, dep \cup Dropped(q))
    BY <1>1, <2>2, <2>3, <2>4, TellCut
  <2> QED BY <2>1, <2>5
<1>3. CASE ~(windows /\ Len(q) >= Limit)
  <2>1. KeptOf(q) = q
    BY <1>3 DEF KeptOf
  <2>2. Dropped(q) = {}
    <3>1. Limit \in Nat /\ Len(q) \in Nat
      BY PaneFacts DEF Types
    <3> QED BY <1>3, <3>1 DEF Dropped
  <2>3. dep \cup Dropped(q) = dep
    BY <2>2
  <2> QED BY <2>1, <2>3
<1> QED BY <1>2, <1>3

(* An event other than a scroll joins no other.                            *)
LEMMA SentIs ==
  ASSUME NEW q, NEW e \in Events, e.event # "scroll"
  PROVE  Sent(q, e) = Append(KeptOf(q), e)
BY DEF Sent, Push, KeptOf

LEMMA KeptAlone ==
  ASSUME Types, NEW q \in Seq(Events), NEW active, NEW marked, NEW dep,
         Told(batch \o q, altScene, anchors, active, marked, dep)
  PROVE  Told(batch \o KeptOf(q), altScene, anchors, active, marked, dep \cup Dropped(q))
<1>1. KeptOf(q) \in Seq(Events) /\ <<>> \in Seq(Scrolls)
  <2>1. Clear \in Events
    BY DEF Events
  <2> QED BY <2>1 DEF KeptOf
<1>2. q \o <<>> = q /\ KeptOf(q) \o <<>> = KeptOf(q)
  BY <1>1, ConcatEmptySeq
<1> QED BY <1>1, <1>2, KeptTells

LEMMA SentGlue ==
  ASSUME Types, NEW q \in Seq(Events), NEW e \in Events, e.event # "scroll"
  PROVE  batch \o Sent(q, e) = Append(batch \o KeptOf(q), e)
<1>1. batch \in Seq(Events) /\ KeptOf(q) \in Seq(Events)
  <2>1. Clear \in Events
    BY DEF Events
  <2>2. KeptOf(q) \in Seq(Events)
    BY <2>1 DEF KeptOf
  <2> QED BY <2>2, TypeFacts
<1>2. Sent(q, e) = Append(KeptOf(q), e)
  BY SentIs
<1>3. batch \o Append(KeptOf(q), e) = Append(batch \o KeptOf(q), e)
  BY <1>1, Glue
<1> QED BY <1>2, <1>3

LEMMA SendTells ==
  ASSUME Types, NEW q \in Seq(Events), NEW active, NEW marked, NEW dep,
         Told(batch \o q, altScene, anchors, active, marked, dep),
         NEW e \in Events, e.event # "scroll",
         NEW active2 \in BOOLEAN, NEW marked2 \in [Anchors -> Places], NEW dep2,
         Graded(dep2), dep \cup Dropped(q) \subseteq dep2 \cup {"screen"},
         ScreenAfter(e, active, dep \cup Dropped(q), active2, dep2), OnceAfter(e, marked, marked2),
         "lines" \notin dep2 =>
           \A a \in Anchors : \A p \in Places :
             LineAfter(a, p, e, active, marked[a], dep \cup Dropped(q), active2, marked2[a], dep2)
  PROVE  Told(batch \o Sent(q, e), altScene, anchors, active2, marked2, dep2)
<1> DEFINE mid == dep \cup Dropped(q)
<1>1. Told(batch \o KeptOf(q), altScene, anchors, active, marked, mid)
  BY KeptAlone
<1>2. /\ mid \subseteq dep2 \cup {"screen"} /\ ScreenAfter(e, active, mid, active2, dep2)
      /\ "lines" \notin dep2 =>
           \A a \in Anchors : \A p \in Places :
             LineAfter(a, p, e, active, marked[a], mid, active2, marked2[a], dep2)
  OBVIOUS
<1> HIDE DEF mid
<1>3. Told(Append(batch \o KeptOf(q), e), altScene, anchors, active2, marked2, dep2)
  BY <1>1, <1>2, TellAppend
<1> QED BY <1>3, SentGlue

(* The scroll that was held back is sent.                                  *)
LEMMA FlushIs ==
  ASSUME Types, pending # NoScroll
  PROVE  LET k == KeptOf(queue)
         IN  Flushed = IF windows /\ k # <<>> /\ Merges(k[Len(k)], pending)
                       THEN [k EXCEPT ![Len(k)] = Merged(k[Len(k)], pending)]
                       ELSE Append(k, pending)
<1>1. pending.event = "scroll"
  BY TypeFacts DEF Scrolls
<1> QED BY <1>1 DEF Flushed, Sent, Push, KeptOf

LEMMA LastReplaced ==
  ASSUME NEW k \in Seq(Events), k # <<>>, NEW e \in Events
  PROVE  \E before \in Seq(Events) : /\ k = Append(before, k[Len(k)]) /\ k[Len(k)] \in Events
                                /\ [k EXCEPT ![Len(k)] = e] = Append(before, e)
<1>1. PICK n \in Nat : Len(k) = n + 1
  <2>1. Len(k) \in Nat /\ Len(k) # 0
    BY EmptySeq
  <2>2. Len(k) - 1 \in Nat /\ Len(k) = (Len(k) - 1) + 1
    BY <2>1
  <2> QED BY <2>2
<1> DEFINE before == [i \in 1 .. n |-> k[i]]  other == [k EXCEPT ![Len(k)] = e]
<1>2. k[n + 1] \in Events /\ \A i \in 1 .. n : k[i] \in Events
  <2>1. \A i \in 1 .. n + 1 : k[i] \in Events
    BY <1>1
  <2>2. n + 1 \in 1 .. n + 1 /\ \A i \in 1 .. n : i \in 1 .. n + 1
    OBVIOUS
  <2> QED BY <2>1, <2>2
<1>3. before \in Seq(Events) /\ Len(before) = n /\ \A i \in 1 .. n : before[i] = k[i]
  <2>1. before \in [1 .. n -> Events]
    BY <1>2
  <2>2. before \in Seq(Events)
    BY <2>1
  <2>3. Len(before) = n
    BY <2>1, <2>2, LenProperties
  <2> QED BY <2>2, <2>3
<1>4. /\ other \in Seq(Events) /\ Len(other) = n + 1 /\ other[n + 1] = e
      /\ \A i \in 1 .. n : other[i] = k[i]
  <2>1. other \in Seq(Events) /\ Len(other) = Len(k)
    BY ExceptSeq
  <2>2. n + 1 \in DOMAIN k /\ \A i \in 1 .. n : i \in DOMAIN k /\ i # n + 1
    BY <1>1
  <2> QED BY <1>1, <2>1, <2>2
<1> HIDE DEF before, other
<1>5. k = Append(before, k[n + 1])
  <2>1. Len(Append(before, k[n + 1])) = n + 1 /\ Append(before, k[n + 1]) \in Seq(Events)
    BY <1>2, <1>3
  <2>2. \A i \in 1 .. n + 1 : Append(before, k[n + 1])[i] = k[i]
    BY <1>2, <1>3
  <2> QED BY <1>1, <2>1, <2>2, SeqEqual
<1>6. other = Append(before, e)
  <2>1. Len(Append(before, e)) = n + 1 /\ Append(before, e) \in Seq(Events)
    BY <1>3
  <2>2. \A i \in 1 .. n + 1 : Append(before, e)[i] = other[i]
    BY <1>3, <1>4
  <2> QED BY <1>4, <2>1, <2>2, SeqEqual
<1> QED BY <1>1, <1>2, <1>3, <1>5, <1>6 DEF other

FlushTold ==
  /\ Told(batch \o Flushed, altScene, anchors, alt, text, departed \cup FlushDrops)
  /\ Graded(departed \cup FlushDrops)
  /\ Flushed \in Seq(PaneEvents) /\ Flushed \in Seq(Events)
  /\ Remembers(Flushed, Size, departed \cup FlushDrops)
  /\ Len(Flushed) <= Limit + 1

LEMMA FlushTells == ASSUME IInv PROVE FlushTold
<1>1. /\ queue \in Seq(Events) /\ batch \in Seq(Events) /\ Types /\ Reported
      /\ queue \in Seq(PaneEvents) /\ PaneEvents \subseteq Events
      /\ Limit \in Nat \ {0} /\ Len(queue) <= Limit + 1 /\ windows \in BOOLEAN
  BY TypeFacts, PaneFacts DEF IInv, Types, PaneEvents, Lengths
<1>2. CASE pending = NoScroll
  <2>1. Flushed = queue /\ Coming = queue /\ departed \cup FlushDrops = departed
    BY <1>2 DEF Flushed, Coming, FlushDrops
  <2>2. Graded(departed)
    BY DEF IInv, Reported, Told
  <2> QED BY <1>1, <2>1, <2>2 DEF FlushTold, IInv, Reported, Histories
<1>3. CASE pending # NoScroll
  <2> DEFINE k == KeptOf(queue)  dep2 == departed \cup Dropped(queue)
  <2>1. FlushDrops = Dropped(queue) /\ Coming = Append(queue, pending)
    BY <1>3 DEF FlushDrops, Coming
  <2>2. pending \in Scrolls /\ pending \in Events /\ pending \in PaneEvents
    BY <1>1, <1>3, TypeFacts DEF Types
  <2>3. k \in Seq(Events) /\ k \in Seq(PaneEvents) /\ Len(k) \in Nat
        /\ (Len(k) <= Limit) /\ (k # <<>> => k[Len(k)] \in Events)
    <3>1. Clear \in Events /\ Clear \in PaneEvents
      BY DEF Events, PaneEvents, Clear
    <3>2. k = <<Clear>> \/ k = queue
      BY DEF KeptOf
    <3>3. k \in Seq(Events) /\ k \in Seq(PaneEvents)
      <4>1. <<Clear>> \in Seq(Events) /\ <<Clear>> \in Seq(PaneEvents)
        BY <3>1
      <4> HIDE DEF k
      <4> QED BY <1>1, <3>2, <4>1
    <3>4. Len(k) <= Limit
      <4>1. CASE windows /\ Len(queue) >= Limit
        <5>1. k = <<Clear>>
          BY <4>1 DEF KeptOf
        <5> QED BY <1>1, <5>1
      <4>2. CASE windows /\ ~(Len(queue) >= Limit)
        <5>1. k = queue
          BY <4>2 DEF KeptOf
        <5> QED BY <1>1, <4>2, <5>1
      <4>3. CASE ~windows
        <5>1. k = queue
          BY <4>3 DEF KeptOf
        <5> QED BY <1>3, <4>3, <5>1 DEF IInv, Lengths
      <4> QED BY <4>1, <4>2, <4>3
    <3>5. k # <<>> => Len(k) \in 1 .. Len(k)
      BY <3>3, EmptySeq
    <3> QED BY <3>3, <3>4, <3>5
  <2>4. Told(batch \o Append(k, pending), altScene, anchors, alt, text, dep2)
    <3>1. queue \o <<pending>> = Append(queue, pending) /\ k \o <<pending>> = Append(k, pending)
      BY <1>1, <2>2, <2>3, Glue
    <3>2. <<pending>> \in Seq(Scrolls)
      BY <2>2
    <3>3. Told(batch \o (queue \o <<pending>>), altScene, anchors, alt, text, departed)
      BY <2>1, <3>1 DEF IInv, Reported
    <3> HIDE DEF k
    <3>4. Told(batch \o (KeptOf(queue) \o <<pending>>), altScene, anchors, alt, text, dep2)
      BY <1>1, <3>2, <3>3, KeptTells
    <3> QED BY <3>1, <3>4 DEF k
  <2>5. Graded(dep2)
    BY <2>4 DEF Told
  <2>6. Remembers(Coming, Size, departed) /\ Joins(queue, pending, departed)
    BY DEF IInv, Histories
  <2>7. "lines" \notin dep2 => Size <= pending.history
    <3>1. /\ Append(queue, pending) # <<>>
          /\ Append(queue, pending)[Len(Append(queue, pending))] = pending
      <4>1. Len(Append(queue, pending)) = Len(queue) + 1 /\ Len(queue) \in Nat
            /\ Append(queue, pending)[Len(queue) + 1] = pending
        BY <1>1, <2>2
      <4>2. Append(queue, pending) # <<>>
        BY <1>1, <2>2, AppendProperties
      <4> QED BY <4>1, <4>2
    <3>2. pending.event = "scroll"
      BY <2>2 DEF Scrolls
    <3> QED BY <2>1, <2>6, <3>1, <3>2 DEF Remembers
  <2> HIDE DEF k
  <2>8. CASE windows /\ k # <<>> /\ Merges(k[Len(k)], pending)
    <3> DEFINE e == k[Len(k)]  m == Merged(e, pending)
    <3>1. e \in Events /\ e.event = "scroll" /\ e \in Scrolls
      <4>1. e \in Events
        BY <2>3, <2>8
      <4>2. e.event = "scroll"
        BY <2>8 DEF Merges
      <4> QED BY <4>1, <4>2, EventKinds
    <3>2. m \in PaneEvents /\ m \in Events /\ m.event = "scroll" /\ m.history = pending.history
      <4>1. m = [pending EXCEPT !.lines = e.lines + pending.lines]
        BY DEF Merged
      <4>2. e.lines + pending.lines \in Int /\ e.lines + pending.lines # 0
        BY <2>2, <2>8, <3>1 DEF Merges, Scrolls
      <4>3. m \in Scrolls /\ m.event = "scroll"
        BY <2>2, <4>1, <4>2 DEF Scrolls
      <4>4. m.end = pending.end /\ m.history = pending.history
        BY <2>2, <4>1 DEF Scrolls
      <4>5. m \in Events
        BY <4>3 DEF Events
      <4> QED BY <2>2, <4>3, <4>4, <4>5 DEF PaneEvents, Scrolls
    <3>3. "lines" \notin dep2 => GrewBy(e, pending)
      <4>1. CASE k = queue
        BY <1>3, <2>6, <2>8, <4>1 DEF Joins
      <4>2. CASE k # queue
        <5>1. k = <<Clear>>
          BY <4>2 DEF k, KeptOf
        <5>2. e = Clear
          BY <5>1
        <5> QED BY <3>1, <5>2 DEF Clear
      <4> QED BY <4>1, <4>2
    <3> HIDE DEF e, m
    <3>4. Flushed = [k EXCEPT ![Len(k)] = m]
      BY <1>1, <1>3, <2>8, FlushIs DEF k, e, m
    <3>5. PICK before \in Seq(Events) : /\ k = Append(before, e)
                                        /\ [k EXCEPT ![Len(k)] = m] = Append(before, m)
      <4>1. \E before \in Seq(Events) :
              /\ k = Append(before, k[Len(k)]) /\ k[Len(k)] \in Events
              /\ [k EXCEPT ![Len(k)] = m] = Append(before, m)
        <5>1. k \in Seq(Events) /\ k # <<>> /\ m \in Events
          BY <2>3, <2>8, <3>2
        <5> QED BY ONLY <5>1, LastReplaced, Zenon
      <4> QED BY <4>1 DEF e
    <3>6. batch \o Append(k, pending) = Append(Append(batch \o before, e), pending)
          /\ batch \o Append(before, m) = Append(batch \o before, m)
          /\ batch \o before \in Seq(Events)
      <4>1. batch \o Append(k, pending) = Append(batch \o k, pending)
        BY <1>1, <2>2, <2>3, Glue
      <4>2. batch \o Append(before, e) = Append(batch \o before, e)
            /\ batch \o before \in Seq(Events)
        BY <1>1, <3>1, <3>5, Glue
      <4>3. batch \o Append(before, m) = Append(batch \o before, m)
        BY <1>1, <3>2, <3>5, Glue
      <4> QED BY <3>5, <4>1, <4>2, <4>3
    <3>7. Told(batch \o Flushed, altScene, anchors, alt, text, dep2)
      <4>1. Told(Append(Append(batch \o before, e), pending), altScene, anchors, alt, text, dep2)
        BY <2>4, <3>6
      <4>2. Merges(e, pending)
        BY <2>8 DEF e
      <4> HIDE DEF dep2
      <4>3. Told(Append(batch \o before, Merged(e, pending)), altScene, anchors, alt, text, dep2)
        BY <2>2, <3>1, <3>3, <3>6, <4>1, <4>2, TellMerge
      <4> QED BY <3>4, <3>5, <3>6, <4>3 DEF m
    <3>8. /\ Flushed \in Seq(PaneEvents) /\ Len(Flushed) = Len(k)
          /\ Flushed[Len(Flushed)] = m
      <4>1. Len(k) \in 1 .. Len(k)
        BY <2>3, <2>8, EmptySeq
      <4> QED BY <2>3, <3>2, <3>4, <4>1
    <3>9. Remembers(Flushed, Size, dep2)
      BY <2>7, <3>2, <3>8 DEF Remembers
    <3> QED BY <1>1, <2>1, <2>3, <2>5, <3>7, <3>8, <3>9 DEF FlushTold
  <2>9. CASE ~(windows /\ k # <<>> /\ Merges(k[Len(k)], pending))
    <3>1. Flushed = Append(k, pending)
      BY <1>1, <1>3, <2>9, FlushIs DEF k
    <3>2. /\ Flushed \in Seq(PaneEvents) /\ Len(Flushed) = Len(k) + 1
          /\ Flushed[Len(Flushed)] = pending
      BY <2>2, <2>3, <3>1
    <3>3. Remembers(Flushed, Size, dep2)
      BY <2>7, <3>2 DEF Remembers
    <3> QED BY <1>1, <2>1, <2>3, <2>4, <2>5, <3>1, <3>2, <3>3 DEF FlushTold
  <2> QED BY <2>8, <2>9
<1> QED BY <1>2, <1>3

(* With a scroll that was flushed, a queue that does not merge grows by no *)
(* more than it.                                                           *)
LEMMA FlushGrows ==
  ASSUME IInv, ~windows
  PROVE  /\ pending # NoScroll => Flushed = Append(queue, pending)
         /\ Len(Flushed) <= Len(queue) + 1
BY TypeFacts DEF IInv, Flushed, Sent

-----------------------------------------------------------------------------
(* The initial states.                                                     *)
LEMMA InitHolds == ASSUME Init PROVE IInv
<1>1. /\ pane \in Panes /\ rows \in Rows /\ hist = 0 /\ alt = FALSE /\ parsing = FALSE
      /\ pending = NoScroll /\ queue = <<>> /\ batch = <<>> /\ altScene = FALSE
      /\ anchors = [a \in Anchors |-> None] /\ text = [a \in Anchors |-> None]
      /\ departed = {}
  BY DEF Init
<1>2. Types
  <2>1. anchors \in [Anchors -> Positions] /\ text \in [Anchors -> Positions]
    BY <1>1 DEF Positions
  <2>2. <<>> \in Seq(PaneEvents)
    OBVIOUS
  <2>3. hist \in 0 .. HistMax
    BY <1>1, PaneFacts
  <2>4. alt \in BOOLEAN /\ parsing \in BOOLEAN /\ altScene \in BOOLEAN
    BY <1>1
  <2>5. queue \in Seq(PaneEvents) /\ batch \in Seq(PaneEvents)
    BY <1>1, <2>2
  <2> QED BY <1>1, <2>1, <2>3, <2>4, <2>5 DEF Types
<1>3. Lengths
  <2>1. Len(<<>>) = 0
    OBVIOUS
  <2> QED BY <1>1, <2>1, PaneFacts DEF Lengths
<1>4. Histories
  BY <1>1 DEF Histories, Remembers, Joins, Coming
<1>5. Reported
  <2>1. batch \o Coming = <<>>
    BY <1>1 DEF Coming
  <2>2. Graded(departed) /\ ScreenMeets(altScene, alt, departed)
    BY <1>1 DEF Graded, ScreenMeets
  <2>3. \A a \in Anchors : anchors[a].kind # "at" /\ text[a].kind # "at"
    BY <1>1, PlaceKinds
  <2>4. \A a \in Anchors : LineMeets(anchors[a], text[a], departed) /\ ~OnScreen(anchors[a], TRUE)
    BY <2>3 DEF LineMeets, OnScreen
  <2>5. altScene \in BOOLEAN /\ alt \in BOOLEAN
    BY <1>1
  <2>6. anchors \in [Anchors -> Places] /\ text \in [Anchors -> Places]
    BY <1>2, TypeFacts
  <2>7. Told(<<>>, altScene, anchors, alt, text, departed)
    BY <2>2, <2>4, <2>5, <2>6, TellNothing
  <2> QED BY <2>1, <2>7 DEF Reported
<1> QED BY <1>2, <1>3, <1>4, <1>5 DEF IInv

LEMMA SamePane ==
  ASSUME UNCHANGED pane
  PROVE  /\ PaneEvents' = PaneEvents /\ Positions' = Positions /\ Rows' = Rows
         /\ HistMax' = HistMax /\ Limit' = Limit /\ windows' = windows
BY DEF PaneEvents, Positions, Rows, HistMax, Limit, windows, Lines, MaxRows

(* A step with the terminal's lock changes the grid and not the scene.    *)
GridTypes ==
  /\ rows' \in Rows /\ hist' \in 0 .. HistMax /\ alt' \in BOOLEAN /\ parsing' = parsing
  /\ text' \in [Anchors -> Positions] /\ UNCHANGED <<batch, scene>>

(* A sequence of sends: what is flushed, then an event that is no scroll.  *)
LEMMA SendKeeps ==
  ASSUME IInv, GridTypes, NEW e \in PaneEvents, e.event # "scroll",
         windows \/ Len(queue) < Limit, queue' = Sent(Flushed, e), pending' = NoScroll,
         NEW mid, mid = departed \cup SendDrops,
         departed' \in {mid, mid \ {"screen"}},
         ScreenAfter(e, alt, mid, alt', departed'), OnceAfter(e, text, text'),
         "lines" \notin departed' =>
           \A a \in Anchors : \A p \in Places :
             LineAfter(a, p, e, alt, text[a], mid, alt', text'[a], departed')
  PROVE  IInv'
<1>1. FlushTold
  BY FlushTells
<1> DEFINE dep == departed \cup FlushDrops
<1>2. mid = dep \cup Dropped(Flushed) /\ Graded(dep) /\ Graded(mid) /\ Graded(departed')
  <2>1. mid = dep \cup Dropped(Flushed)
    BY DEF SendDrops
  <2>2. Graded(mid)
    BY <1>1, <2>1, DropsGrade DEF FlushTold
  <2>3. Graded(mid \ {"screen"})
    BY <2>2 DEF Graded, Levels
  <2> QED BY <1>1, <2>1, <2>2, <2>3 DEF FlushTold
<1>3. e \in Events /\ UNCHANGED <<altScene, anchors, pane, batch>> /\ text' \in [Anchors -> Places]
  BY PaneFacts DEF PaneEvents, GridTypes, scene, IInv, Types
<1>4. Told(batch \o Sent(Flushed, e), altScene, anchors, alt', text', departed')
  <2>1. Told(batch \o Flushed, altScene, anchors, alt, text, dep) /\ Flushed \in Seq(Events)
    BY <1>1 DEF FlushTold
  <2>2. Types /\ alt' \in BOOLEAN /\ e.event # "scroll"
    BY DEF IInv, GridTypes
  <2> HIDE DEF dep
  <2>3. Told(batch \o KeptOf(Flushed), altScene, anchors, alt, text, mid)
    BY <1>2, <2>1, <2>2, KeptAlone
  <2>4. ASSUME NEW active2 \in BOOLEAN, NEW marked2 \in [Anchors -> Places], NEW dep2,
               Graded(dep2), mid \subseteq dep2 \cup {"screen"},
               ScreenAfter(e, alt, mid, active2, dep2), OnceAfter(e, text, marked2),
               "lines" \notin dep2 =>
                 \A a \in Anchors : \A p \in Places :
                   LineAfter(a, p, e, alt, text[a], mid, active2, marked2[a], dep2)
        PROVE  Told(Append(batch \o KeptOf(Flushed), e), altScene, anchors, active2, marked2, dep2)
    <3>1. e \in Events
      BY <1>3
    <3> QED BY ONLY <2>3, <2>4, <3>1, TellAppend
  <2>5. mid \subseteq departed' \cup {"screen"}
    OBVIOUS
  <2>6. Told(Append(batch \o KeptOf(Flushed), e), altScene, anchors, alt', text', departed')
    BY <1>2, <1>3, <2>2, <2>4, <2>5
  <2>7. batch \o Sent(Flushed, e) = Append(batch \o KeptOf(Flushed), e)
    BY <1>3, <2>1, <2>2, SentGlue
  <2> QED BY <2>6, <2>7
<1>5. Reported'
  BY <1>3, <1>4 DEF Reported, Coming
<1>6. Sent(Flushed, e) = Append(KeptOf(Flushed), e)
  BY <1>3, SentIs
<1>7. /\ KeptOf(Flushed) \in Seq(PaneEvents) /\ Len(KeptOf(Flushed)) \in Nat
      /\ windows => Len(KeptOf(Flushed)) <= Limit
      /\ ~windows => Len(KeptOf(Flushed)) <= Len(queue) + 1
  <2>1. Flushed \in Seq(PaneEvents) /\ <<Clear>> \in Seq(PaneEvents) /\ Len(<<Clear>>) = 1
    <3>1. Clear \in PaneEvents
      BY DEF PaneEvents, Events, Clear
    <3> QED BY <1>1, <3>1 DEF FlushTold
  <2>2. Limit \in Nat \ {0} /\ windows \in BOOLEAN
    BY PaneFacts DEF IInv, Types
  <2>3. CASE windows /\ Len(Flushed) >= Limit
    <3>1. KeptOf(Flushed) = <<Clear>>
      BY <2>3 DEF KeptOf
    <3> QED BY <2>1, <2>2, <2>3, <3>1
  <2>4. CASE ~(windows /\ Len(Flushed) >= Limit)
    <3>1. KeptOf(Flushed) = Flushed
      BY <2>4 DEF KeptOf
    <3>2. ~windows => Len(Flushed) <= Len(queue) + 1
      BY FlushGrows
    <3>3. Len(Flushed) \in Nat
      BY <2>1
    <3> QED BY <2>1, <2>2, <2>4, <3>1, <3>2, <3>3
  <2> QED BY <2>3, <2>4
<1>8. /\ queue' \in Seq(PaneEvents) /\ Len(queue') = Len(KeptOf(Flushed)) + 1
      /\ queue' # <<>> /\ queue'[Len(queue')] = e
  <2>1. /\ Append(KeptOf(Flushed), e) \in Seq(PaneEvents)
        /\ Len(Append(KeptOf(Flushed), e)) = Len(KeptOf(Flushed)) + 1
        /\ Append(KeptOf(Flushed), e) # <<>>
    BY <1>7, AppendProperties
  <2>2. Append(KeptOf(Flushed), e)[Len(KeptOf(Flushed)) + 1] = e
    BY <1>7
  <2> QED BY <1>6, <2>1, <2>2
<1>9. Types'
  BY <1>3, <1>8, SamePane DEF IInv, Types, GridTypes
<1>10. Lengths'
  <2>1. Len(queue') <= Limit + 1
    <3>1. Limit \in Nat /\ windows \in BOOLEAN /\ Len(queue) \in Nat
      BY PaneFacts DEF IInv, Types
    <3> QED BY <1>7, <1>8, <3>1
  <2> QED BY <1>3, <2>1, SamePane DEF IInv, Lengths
<1>11. Histories'
  BY <1>8 DEF Histories, Remembers, Joins, Coming
<1> QED BY <1>5, <1>9, <1>10, <1>11 DEF IInv

-----------------------------------------------------------------------------
(* The terminal sends.                                                     *)
LEMMA GrownIn ==
  ASSUME Types, NEW l \in Nat
  PROVE  Grown(l) \in 0 .. HistMax /\ Grown(l) <= hist + l /\ 0 \in 0 .. HistMax
<1>1. HistMax \in Nat /\ hist \in 0 .. HistMax
  BY PaneFacts DEF Types
<1> QED BY <1>1 DEF Grown, Least

LEMMA ErasedIs ==
  ASSUME Types, NEW b
  PROVE  /\ Erased(b) \in [Anchors -> Positions]
         /\ \A a \in Anchors : /\ Erased(b)[a] = IF OnScreen(text[a], b) THEN Gone ELSE text[a]
                               /\ Erased(b)[a] = None => text[a] = None
<1>1. text \in [Anchors -> Positions] /\ Gone \in Positions
  BY DEF Types, Positions
<1> QED BY <1>1, PlaceKinds DEF Erased

(* What is on the screen is erased and the scene told so.                  *)
LEMMA ClearKeeps ==
  ASSUME IInv, hist' \in 0 .. HistMax, UNCHANGED <<rows, alt, parsing, batch, scene>>,
         windows \/ Len(queue) < Limit, text' = Erased(alt), queue' = Sent(Flushed, Clear),
         pending' = NoScroll, Depart(SendDrops)
  PROVE  IInv'
<1> DEFINE mid == departed \cup SendDrops
<1>1. Clear \in PaneEvents /\ Clear.event = "clear"
  BY DEF PaneEvents, Events, Clear
<1>2. Types
  BY DEF IInv
<1>3. GridTypes
  BY <1>2, ErasedIs DEF GridTypes, Types
<1>4. ScreenAfter(Clear, alt, mid, alt', departed')
  BY <1>1 DEF ScreenAfter, Screen, Depart
<1>5. OnceAfter(Clear, text, text')
  BY <1>1, <1>2, ErasedIs DEF OnceAfter
<1>6. ASSUME NEW a \in Anchors, NEW p \in Places
      PROVE  LineAfter(a, p, Clear, alt, text[a], mid, alt', text'[a], departed')
  <2>1. text'[a] = IF OnScreen(text[a], alt) THEN Gone ELSE text[a]
    BY <1>2, ErasedIs
  <2>2. Shift(a, p, alt, Clear) = IF OnScreen(p, alt) THEN Gone ELSE p
    BY <1>1 DEF Shift
  <2> QED BY <2>1, <2>2, PlaceKinds DEF LineAfter, LineMeets, Apart, OnScreen, Depart
<1>7. departed' = mid
  BY DEF Depart
<1> HIDE DEF mid
<1>8. mid = departed \cup SendDrops
  BY DEF mid
<1> QED BY <1>1, <1>3, <1>4, <1>5, <1>6, <1>7, <1>8, SendKeeps

LEMMA MarkerKeeps ==
  ASSUME IInv, NEW a \in Anchors, NEW line \in 0 .. MaxRows - 1, VividMarker(a, line)
  PROVE  IInv'
<1> DEFINE mid == departed \cup SendDrops  e == Marker(a, line, alt)
<1>1. /\ windows \/ Len(queue) < Limit
      /\ UNCHANGED <<parsing, batch, scene>> /\ UNCHANGED <<rows, hist, alt>>
      /\ text[a] = None /\ text' = [text EXCEPT ![a] = At(line, alt)]
      /\ queue' = Sent(Flushed, e) /\ pending' = NoScroll /\ departed' = mid
  BY DEF VividMarker, Parsing, Room, Depart
<1>2. Types /\ MaxRows \in Nat /\ HistMax \in Nat /\ alt \in BOOLEAN
  BY PaneFacts DEF IInv, Types
<1>3. e \in PaneEvents /\ e.event = "marker" /\ e.anchor = a /\ e.line = line /\ e.alternate = alt
  BY <1>2 DEF PaneEvents, Events, Markers, Marker
<1>4. GridTypes
  <2>1. At(line, alt) \in Positions
    <3>1. line \in Lines
      BY <1>2 DEF Lines
    <3> QED BY <1>2, <3>1 DEF Positions
  <2> QED BY <1>1, <1>2, <2>1 DEF GridTypes, Types
<1>5. ScreenAfter(e, alt, mid, alt', departed')
  BY <1>1, <1>3 DEF ScreenAfter, Screen, ScreenMeets
<1>6. /\ text'[a] = At(line, alt) /\ \A b \in Anchors : b # a => text'[b] = text[b]
      /\ At(line, alt) # None
  BY <1>1, <1>2, PlaceKinds DEF Types
<1>7. OnceAfter(e, text, text')
  BY <1>1, <1>3, <1>6 DEF OnceAfter
<1>8. ASSUME NEW b \in Anchors, NEW p \in Places
      PROVE  LineAfter(b, p, e, alt, text[b], mid, alt', text'[b], departed')
  <2>1. CASE b = a
    <3>1. Shift(b, p, alt, e) = At(line, alt)
      BY <1>3, <2>1 DEF Shift
    <3> QED BY <1>1, <1>6, <2>1, <3>1, PlaceKinds DEF LineAfter, LineMeets, Apart, OnScreen
  <2>2. CASE b # a
    <3>1. Shift(b, p, alt, e) = p
      BY <1>3, <2>2 DEF Shift
    <3> QED BY <1>1, <1>6, <2>2, <3>1 DEF LineAfter, LineMeets, Apart
  <2> QED BY <2>1, <2>2
<1> HIDE DEF mid, e
<1>9. mid = departed \cup SendDrops
  BY DEF mid
<1>10. e.event # "scroll"
  BY <1>3
<1> QED BY <1>1, <1>3, <1>4, <1>5, <1>7, <1>8, <1>9, <1>10, SendKeeps

LEMMA SwapKeeps == ASSUME IInv, SwapAlt PROVE IInv'
<1> DEFINE mid == departed \cup SendDrops  e == Swap(~alt)
<1>1. /\ windows \/ Len(queue) < Limit
      /\ UNCHANGED <<parsing, batch, scene>> /\ UNCHANGED <<rows, hist>> /\ alt' = ~alt
      /\ text' = Erased(TRUE)
      /\ queue' = Sent(Flushed, e) /\ pending' = NoScroll /\ departed' = mid \ {"screen"}
  BY DEF SwapAlt, Parsing, Room
<1>2. Types /\ alt \in BOOLEAN
  BY DEF IInv, Types
<1>3. e \in PaneEvents /\ e.event = "swap" /\ e.alternate = ~alt
  BY <1>2 DEF PaneEvents, Events, Swaps, Swap
<1>4. GridTypes
  BY <1>1, <1>2, ErasedIs DEF GridTypes, Types
<1>5. ScreenAfter(e, alt, mid, alt', departed')
  BY <1>1, <1>3 DEF ScreenAfter, Screen, ScreenMeets
<1>6. OnceAfter(e, text, text')
  BY <1>1, <1>2, <1>3, ErasedIs DEF OnceAfter
<1>7. ASSUME NEW a \in Anchors, NEW p \in Places
      PROVE  LineAfter(a, p, e, alt, text[a], mid, alt', text'[a], departed')
  <2>1. text'[a] = IF OnScreen(text[a], TRUE) THEN Gone ELSE text[a]
    BY <1>1, <1>2, ErasedIs
  <2>2. Shift(a, p, alt, e) = IF alt /\ OnScreen(p, TRUE) THEN Gone ELSE p
    BY <1>2, <1>3 DEF Shift
  <2> QED BY <1>1, <1>3, <2>1, <2>2, PlaceKinds DEF LineAfter, LineMeets, Apart, OnScreen
<1> HIDE DEF mid, e
<1>8. mid = departed \cup SendDrops
  BY DEF mid
<1>9. e.event # "scroll"
  BY <1>3
<1> QED BY <1>1, <1>3, <1>4, <1>5, <1>6, <1>7, <1>8, <1>9, SendKeeps

LEMMA ClearsKeep ==
  ASSUME IInv,
         (\E positions \in 0 .. MaxRows : ClearAll(positions)) \/ ClearBuffer
         \/ (windows /\ ClearSaved)
  PROVE  IInv'
<1>1. Types /\ hist \in 0 .. HistMax /\ MaxRows \in Nat
  BY PaneFacts DEF IInv, Types
<1>2. 0 \in 0 .. HistMax
  BY <1>1, GrownIn
<1>3. ASSUME NEW positions \in 0 .. MaxRows, ClearAll(positions) PROVE IInv'
  <2>1. Grown(positions) \in 0 .. HistMax
    BY <1>1, GrownIn
  <2> QED BY <1>1, <1>3, <2>1, ClearKeeps DEF ClearAll, Parsing, Room
<1>4. CASE ClearBuffer
  BY <1>1, <1>2, <1>4, ClearKeeps DEF ClearBuffer, Locked, Room
<1>5. CASE windows /\ ClearSaved
  BY <1>1, <1>2, <1>5, ClearKeeps DEF ClearSaved, Parsing, Room
<1> QED BY <1>3, <1>4, <1>5

-----------------------------------------------------------------------------
(* Nothing is sent.                                                        *)
LEMMA ComingIs ==
  ASSUME Types
  PROVE  /\ Coming \in Seq(Events)
         /\ Coming # <<>> => Coming[Len(Coming)] \in Events
         /\ Coming # <<>> /\ Coming[Len(Coming)].event = "scroll" =>
              Coming[Len(Coming)].history \in Nat
<1>1. Coming \in Seq(Events)
  BY TypeFacts DEF Coming
<1> HIDE DEF Coming
<1>2. Coming # <<>> => Coming[Len(Coming)] \in Events
  <2>1. Coming # <<>> => Len(Coming) \in 1 .. Len(Coming)
    BY <1>1, EmptySeq
  <2> QED BY <1>1, <2>1
<1>3. \A e \in Scrolls : e.history \in Nat
  BY DEF Scrolls
<1> QED BY <1>1, <1>2, <1>3, EventKinds

LEMMA QuietKeeps ==
  ASSUME IInv, hist' \in 0 .. HistMax, alt' \in BOOLEAN, parsing' \in BOOLEAN,
         Size' <= Size, UNCHANGED <<rows, queue, pending, batch, scene>>,
         ~parsing' => pending = NoScroll,
         text' \in [Anchors -> Positions], \A a \in Anchors : text'[a] = None => text[a] = None,
         departed \subseteq departed', Graded(departed'), "lines" \notin departed' => text' = text,
         \A x \in BOOLEAN : ScreenMeets(x, alt, departed) => ScreenMeets(x, alt', departed'),
         "lines" \notin departed' => alt' = alt
  PROVE  IInv'
<1>1. Types /\ Types' /\ hist \in Nat /\ hist' \in Nat
  <2>1. pane' = pane /\ altScene' = altScene /\ anchors' = anchors
    BY DEF scene
  <2>2. HistMax \in Nat
    BY PaneFacts DEF IInv, Types
  <2> QED BY <2>1, <2>2, SamePane DEF IInv, Types
<1>2. Lengths'
  <2>1. pane' = pane
    BY DEF scene
  <2> QED BY <2>1, SamePane DEF IInv, Lengths
<1>3. Histories'
  <2>1. Coming' = Coming
    BY DEF Coming
  <2>2. Size \in Nat /\ Size' \in Nat
    BY <1>1 DEF Size
  <2>3. Remembers(Coming, Size, departed) /\ Joins(queue, pending, departed)
    BY DEF IInv, Histories
  <2>4. ASSUME "lines" \notin departed', Coming # <<>>, Coming[Len(Coming)].event = "scroll"
        PROVE  Size' <= Coming[Len(Coming)].history
    <3>1. Coming[Len(Coming)].history \in Nat
      BY <1>1, <2>4, ComingIs
    <3>2. Size <= Coming[Len(Coming)].history
      BY <2>3, <2>4 DEF Remembers
    <3> QED BY <2>2, <3>1, <3>2
  <2>5. Remembers(Coming', Size', departed')
    BY <2>1, <2>4 DEF Remembers
  <2>6. Joins(queue', pending', departed')
    BY <2>3 DEF Joins
  <2> QED BY <2>5, <2>6 DEF Histories
<1>4. Reported'
  <2>1. Told(batch \o Coming, altScene, anchors, alt, text, departed)
    BY DEF IInv, Reported
  <2>2. text' \in [Anchors -> Places]
    BY <1>1, PaneFacts DEF Types
  <2>3. "lines" \notin departed' =>
          \A a \in Anchors : \A p \in Places :
            LineStays(p, alt, text[a], departed, alt', text'[a], departed')
    <3>1. ASSUME "lines" \notin departed' PROVE "kept" \notin departed' => "kept" \notin departed
      OBVIOUS
    <3> QED BY <3>1 DEF LineStays, LineMeets
  <2>4. /\ alt' \in BOOLEAN /\ Graded(departed') /\ departed \subseteq departed'
        /\ \A x \in BOOLEAN : ScreenMeets(x, alt, departed) => ScreenMeets(x, alt', departed')
        /\ \A a \in Anchors : text'[a] = None => text[a] = None
    OBVIOUS
  <2>5. Told(batch \o Coming, altScene, anchors, alt', text', departed')
    BY ONLY <2>1, <2>2, <2>3, <2>4, TellSame, Zenon
  <2>6. Coming' = Coming /\ batch' = batch /\ altScene' = altScene /\ anchors' = anchors
    BY DEF Coming, scene
  <2> QED BY <2>5, <2>6 DEF Reported
<1> QED BY <1>1, <1>2, <1>3, <1>4 DEF IInv

LEMMA BeginKeeps == ASSUME IInv, BeginChunk PROVE IInv'
<1>1. /\ parsing' \in BOOLEAN /\ parsing' /\ UNCHANGED <<grid, pending, queue, batch, scene>>
      /\ departed' = departed
  BY DEF BeginChunk
<1>2. /\ hist' \in 0 .. HistMax /\ alt' \in BOOLEAN /\ text' \in [Anchors -> Positions]
      /\ rows' = rows /\ alt' = alt /\ text' = text /\ hist' = hist /\ hist \in Int
  <2>1. HistMax \in Nat
    BY PaneFacts DEF IInv, Types
  <2> QED BY <1>1, <2>1 DEF grid, IInv, Types
<1>3. Size' <= Size
  BY <1>2 DEF Size
<1>4. Graded(departed)
  BY DEF IInv, Reported, Told
<1> QED BY <1>1, <1>2, <1>3, <1>4, QuietKeeps

(* What RIS and an erased history leave, no event describes.               *)
LEMMA ResetKeeps == ASSUME IInv, ResetState \/ (~windows /\ ClearSaved) PROVE IInv'
<1>1. /\ Types /\ hist \in Nat /\ 0 \in 0 .. HistMax /\ Graded(departed) /\ alt \in BOOLEAN
      /\ text \in [Anchors -> Positions] /\ Gone \in Positions /\ None \in Positions
      /\ hist \in 0 .. HistMax
  <2>1. Types /\ Graded(departed)
    BY DEF IInv, Reported, Told
  <2>2. HistMax \in Nat
    BY <2>1, PaneFacts DEF Types
  <2> QED BY <2>1, <2>2 DEF Types, Positions
<1>2. CASE ResetState
  <2>1. /\ hist' = 0 /\ alt' = FALSE /\ parsing' = parsing /\ parsing
        /\ UNCHANGED <<rows, queue, pending, batch, scene>>
        /\ text' = [a \in Anchors |-> IF text[a] = None THEN None ELSE Gone]
        /\ departed' = departed \cup (IF alt THEN {"kept", "lines", "screen"}
                                      ELSE IF text' # text THEN {"kept", "lines"} ELSE {})
    BY <1>2 DEF ResetState, Parsing, Depart
  <2>2. text' \in [Anchors -> Positions] /\ \A a \in Anchors : text'[a] = None => text[a] = None
    BY <1>1, <2>1, PlaceKinds
  <2>3. Graded(departed') /\ departed \subseteq departed'
    BY <1>1, <2>1 DEF Graded, Levels
  <2>4. "lines" \notin departed' => text' = text /\ alt' = alt
    BY <1>1, <2>1
  <2>5. ASSUME NEW x \in BOOLEAN, ScreenMeets(x, alt, departed)
        PROVE  ScreenMeets(x, alt', departed')
    BY <1>1, <2>1, <2>3, <2>5 DEF ScreenMeets
  <2>6. Size' <= Size
    BY <1>1, <2>1 DEF Size
  <2> QED BY <1>1, <2>1, <2>2, <2>3, <2>4, <2>5, <2>6, QuietKeeps
<1>3. CASE ~windows /\ ClearSaved
  <2>1. /\ hist' = (IF alt THEN hist ELSE 0) /\ alt' = alt /\ parsing' = parsing /\ parsing
        /\ UNCHANGED <<rows, queue, pending, batch, scene>>
        /\ text' = [a \in Anchors |->
                      IF ~alt /\ OnScreen(text[a], FALSE) /\ text[a].line < 0
                      THEN Gone ELSE text[a]]
        /\ departed' = departed \cup (IF text' # text THEN {"kept", "lines"} ELSE {})
    BY <1>3 DEF ClearSaved, Parsing, Depart
  <2>2. text' \in [Anchors -> Positions] /\ \A a \in Anchors : text'[a] = None => text[a] = None
    BY <1>1, <2>1, PlaceKinds
  <2>3. Graded(departed') /\ departed \subseteq departed'
    BY <1>1, <2>1 DEF Graded, Levels
  <2>4. "lines" \notin departed' => text' = text /\ alt' = alt
    BY <1>1, <2>1
  <2>5. ASSUME NEW x \in BOOLEAN, ScreenMeets(x, alt, departed)
        PROVE  ScreenMeets(x, alt', departed')
    BY <1>1, <2>1, <2>3, <2>5 DEF ScreenMeets
  <2>6. Size' <= Size /\ hist' \in 0 .. HistMax
    BY <1>1, <2>1 DEF Size
  <2> QED BY <1>1, <2>1, <2>2, <2>3, <2>4, <2>5, <2>6, QuietKeeps
<1> QED BY <1>2, <1>3

LEMMA EndKeeps == ASSUME IInv, EndChunk PROVE IInv'
<1>1. /\ parsing' = FALSE /\ queue' = Flushed /\ pending' = NoScroll
      /\ departed' = departed \cup FlushDrops /\ UNCHANGED <<grid, batch, scene>>
  BY DEF EndChunk, Depart
<1>2. FlushTold
  BY FlushTells
<1>3. /\ UNCHANGED <<rows, hist, alt, text>> /\ UNCHANGED <<altScene, anchors, pane>>
  BY <1>1 DEF grid, scene
<1>4. Types'
  BY <1>1, <1>2, <1>3, SamePane DEF IInv, Types, FlushTold
<1>5. Lengths'
  BY <1>1, <1>2, <1>3, SamePane DEF IInv, Lengths, FlushTold
<1>6. Coming' = Flushed /\ Size' = Size
  BY <1>1, <1>3 DEF Coming, Size
<1>7. Reported'
  BY <1>1, <1>2, <1>3, <1>6 DEF Reported, FlushTold
<1>8. Histories'
  BY <1>1, <1>2, <1>6 DEF Histories, FlushTold, Joins
<1> QED BY <1>4, <1>5, <1>7, <1>8 DEF IInv

-----------------------------------------------------------------------------
(* reset_client_state(): the scene leaves the alternate screen, and what   *)
(* is on the primary one goes.                                             *)
LEMMA EmptiedTells ==
  ASSUME Types, NEW q \in Seq(Events), NEW marked \in [Anchors -> Places], NEW dep,
         Told(batch \o q, altScene, anchors, FALSE, marked, dep),
         NEW marked2 \in [Anchors -> Places],
         \A a \in Anchors : marked2[a].kind # "at" /\ (marked2[a] = None => marked[a] = None)
  PROVE  /\ Told(batch \o Sent(q, Clear), altScene, anchors, FALSE, marked2, dep \cup Dropped(q))
         /\ Graded(dep \cup Dropped(q))
<1> DEFINE dep2 == dep \cup Dropped(q)
<1>1. Clear \in Events /\ Clear.event = "clear" /\ Clear.event # "scroll"
  BY DEF Events, Clear
<1>2. /\ Graded(dep2) /\ dep \cup Dropped(q) \subseteq dep2 \cup {"screen"}
      /\ dep2 = dep \cup Dropped(q)
  BY DropsGrade DEF Told
<1> HIDE DEF dep2
<1>3. ScreenAfter(Clear, FALSE, dep2, FALSE, dep2)
  BY <1>1 DEF ScreenAfter, Screen
<1>4. OnceAfter(Clear, marked, marked2)
  BY <1>1 DEF OnceAfter
<1>5. ASSUME NEW a \in Anchors, NEW p \in Places
      PROVE  LineAfter(a, p, Clear, FALSE, marked[a], dep2, FALSE, marked2[a], dep2)
  <2> SUFFICES ASSUME OnScreen(p, TRUE) => FALSE
               PROVE  /\ LineMeets(Shift(a, p, FALSE, Clear), marked2[a], dep2)
                      /\ Apart(p, FALSE, Clear, Shift(a, p, FALSE, Clear))
                      /\ OnScreen(Shift(a, p, FALSE, Clear), TRUE) => FALSE
    BY DEF LineAfter
  <2>1. Shift(a, p, FALSE, Clear) = IF OnScreen(p, FALSE) THEN Gone ELSE p
    BY <1>1 DEF Shift
  <2>2. p.kind = "at" => OnScreen(p, FALSE) /\ p.alternate = FALSE
    BY PlaceKinds DEF OnScreen
  <2>3. Shift(a, p, FALSE, Clear).kind # "at"
    BY <2>1, <2>2, PlaceKinds
  <2> QED BY <2>2, <2>3 DEF LineMeets, Apart, OnScreen
<1>6. FALSE \in BOOLEAN
  OBVIOUS
<1>7. /\ ScreenAfter(Clear, FALSE, dep \cup Dropped(q), FALSE, dep2)
      /\ "lines" \notin dep2 =>
           \A a \in Anchors : \A p \in Places :
             LineAfter(a, p, Clear, FALSE, marked[a], dep \cup Dropped(q), FALSE, marked2[a], dep2)
  BY <1>2, <1>3, <1>5
<1>8. Told(batch \o Sent(q, Clear), altScene, anchors, FALSE, marked2, dep2)
  <2>1. /\ Types /\ q \in Seq(Events) /\ marked2 \in [Anchors -> Places]
        /\ Told(batch \o q, altScene, anchors, FALSE, marked, dep)
    OBVIOUS
  <2> QED BY ONLY <1>1, <1>2, <1>4, <1>6, <1>7, <2>1, SendTells, Zenon
<1> QED BY <1>2, <1>8

LEMMA SentLength ==
  ASSUME Types, NEW q \in Seq(PaneEvents), NEW e \in PaneEvents, e.event # "scroll"
  PROVE  /\ Sent(q, e) \in Seq(PaneEvents) /\ Sent(q, e) # <<>>
         /\ Sent(q, e)[Len(Sent(q, e))] = e
         /\ windows => Len(Sent(q, e)) <= Limit + 1
         /\ ~windows => Len(Sent(q, e)) = Len(q) + 1
<1>1. e \in Events /\ Clear \in PaneEvents
  BY DEF PaneEvents, Events, Clear
<1>2. Limit \in Nat \ {0} /\ windows \in BOOLEAN /\ Len(q) \in Nat
  BY PaneFacts DEF Types
<1>3. Sent(q, e) = Append(KeptOf(q), e)
  BY <1>1, SentIs
<1>4. /\ KeptOf(q) \in Seq(PaneEvents) /\ Len(KeptOf(q)) \in Nat
      /\ windows => Len(KeptOf(q)) <= Limit
      /\ ~windows => Len(KeptOf(q)) = Len(q)
  <2>1. CASE windows /\ Len(q) >= Limit
    <3>1. KeptOf(q) = <<Clear>> /\ <<Clear>> \in Seq(PaneEvents) /\ Len(<<Clear>>) = 1
      BY <1>1, <2>1 DEF KeptOf
    <3> QED BY <1>2, <2>1, <3>1
  <2>2. CASE ~(windows /\ Len(q) >= Limit)
    <3>1. KeptOf(q) = q
      BY <2>2 DEF KeptOf
    <3> QED BY <1>2, <2>2, <3>1
  <2> QED BY <2>1, <2>2
<1>5. /\ Append(KeptOf(q), e) \in Seq(PaneEvents)
      /\ Len(Append(KeptOf(q), e)) = Len(KeptOf(q)) + 1
      /\ Append(KeptOf(q), e) # <<>>
  BY <1>4, AppendProperties
<1>6. Append(KeptOf(q), e)[Len(KeptOf(q)) + 1] = e
  BY <1>4
<1> QED BY <1>2, <1>3, <1>4, <1>5, <1>6

LEMMA ResetClientKeeps == ASSUME IInv, ResetClientState PROVE IInv'
<1> DEFINE e == Swap(FALSE)  swapped == IF alt THEN Sent(queue, e) ELSE queue
           dep == IF alt THEN departed \cup Dropped(queue) ELSE departed
           marked == IF alt THEN Erased(TRUE) ELSE text
<1>1. /\ ~parsing /\ (windows \/ Len(queue) < Limit)
      /\ UNCHANGED <<parsing, batch, scene>> /\ UNCHANGED <<rows, hist, pending>>
      /\ alt' = FALSE /\ text' = [a \in Anchors |-> IF text[a] = None THEN None ELSE Gone]
      /\ queue' = Sent(swapped, Clear) /\ departed' = dep \cup Dropped(swapped)
  BY DEF ResetClientState, Locked, Room, Depart
<1>2. /\ Types /\ pending = NoScroll /\ Coming = queue /\ alt \in BOOLEAN
      /\ queue \in Seq(Events) /\ queue \in Seq(PaneEvents) /\ text \in [Anchors -> Places]
      /\ Positions \subseteq Places /\ text \in [Anchors -> Positions]
      /\ Told(batch \o queue, altScene, anchors, alt, text, departed)
  BY <1>1, TypeFacts, PaneFacts DEF IInv, Lengths, Types, Coming, Reported
<1>3. /\ e \in PaneEvents /\ e \in Events /\ e.event = "swap" /\ e.event # "scroll"
      /\ e.alternate = FALSE
      /\ Clear \in PaneEvents /\ Clear.event # "scroll" /\ Clear.event = "clear"
  BY DEF PaneEvents, Events, Swaps, Swap, Clear
<1>4. marked \in [Anchors -> Places] /\ \A a \in Anchors : marked[a] = None => text[a] = None
  BY <1>2, ErasedIs
<1>5. Told(batch \o swapped, altScene, anchors, FALSE, marked, dep)
  <2>1. CASE ~alt
    BY <1>2, <2>1
  <2>2. CASE alt
    <3>1. Graded(dep) /\ departed \cup Dropped(queue) \subseteq dep \cup {"screen"}
      BY <1>2, <2>2, DropsGrade DEF Told
    <3>2. ScreenAfter(e, alt, departed \cup Dropped(queue), FALSE, dep)
      BY <1>3 DEF ScreenAfter, Screen, ScreenMeets
    <3>3. OnceAfter(e, text, marked)
      BY <1>3, <1>4 DEF OnceAfter
    <3>4. ASSUME NEW a \in Anchors, NEW p \in Places
          PROVE  LineAfter(a, p, e, alt, text[a], departed \cup Dropped(queue), FALSE, marked[a],
                           dep)
      <4>1. marked[a] = IF OnScreen(text[a], TRUE) THEN Gone ELSE text[a]
        BY <1>2, <2>2, ErasedIs
      <4>2. Shift(a, p, alt, e) = IF OnScreen(p, TRUE) THEN Gone ELSE p
        BY <1>3, <2>2 DEF Shift
      <4> QED BY <1>3, <2>2, <4>1, <4>2, PlaceKinds DEF LineAfter, LineMeets, Apart, OnScreen
    <3>5. Told(batch \o Sent(queue, e), altScene, anchors, FALSE, marked, dep)
      <4>1. FALSE \in BOOLEAN
        OBVIOUS
      <4> HIDE DEF e, dep, marked
      <4> QED BY ONLY <1>2, <1>3, <1>4, <3>1, <3>2, <3>3, <3>4, <4>1, SendTells, Zenon
    <3> QED BY <2>2, <3>5
  <2> QED BY <1>2, <2>1, <2>2
<1>6. /\ swapped \in Seq(PaneEvents) /\ swapped \in Seq(Events)
      /\ ~windows => Len(swapped) <= Len(queue) + 1
  <2>1. PaneEvents \subseteq Events
    BY DEF PaneEvents
  <2>2. Sent(queue, e) \in Seq(PaneEvents) /\ (~windows => Len(Sent(queue, e)) = Len(queue) + 1)
    BY <1>2, <1>3, SentLength
  <2>3. Len(queue) \in Nat
    BY <1>2
  <2>4. swapped = Sent(queue, e) \/ swapped = queue
    OBVIOUS
  <2> HIDE DEF swapped, e
  <2>5. swapped \in Seq(PaneEvents) /\ (~windows => Len(swapped) <= Len(queue) + 1)
    <3>1. CASE swapped = queue
      BY <1>2, <2>3, <3>1
    <3>2. CASE swapped = Sent(queue, e)
      BY <2>2, <2>3, <3>2
    <3> QED BY <2>4, <3>1, <3>2
  <2>6. swapped \in Seq(Events)
    BY <2>1, <2>5
  <2> QED BY <2>5, <2>6
<1> HIDE DEF e, swapped, dep, marked
<1>7. /\ Told(batch \o Sent(swapped, Clear), altScene, anchors, FALSE, text',
              dep \cup Dropped(swapped))
      /\ text' \in [Anchors -> Positions]
  <2>1. text' \in [Anchors -> Positions]
    BY <1>1 DEF Positions
  <2>2. text' \in [Anchors -> Places]
    BY <1>2, <2>1
  <2>3. \A a \in Anchors : text'[a].kind # "at" /\ (text'[a] = None => marked[a] = None)
    <3>1. \A a \in Anchors : text[a] = None => marked[a] = None
      BY <1>2, ErasedIs, PlaceKinds DEF marked, OnScreen
    <3> QED BY <1>1, <3>1, PlaceKinds
  <2>4. Told(batch \o Sent(swapped, Clear), altScene, anchors, FALSE, text',
             dep \cup Dropped(swapped))
    BY ONLY <1>2, <1>4, <1>5, <1>6, <2>2, <2>3, EmptiedTells, Zenon
  <2> QED BY <2>1, <2>4
<1>8. /\ altScene' = altScene /\ anchors' = anchors /\ pane' = pane /\ batch' = batch
      /\ Coming' = queue'
  BY <1>1, <1>2 DEF scene, Coming
<1>9. Reported'
  BY <1>1, <1>7, <1>8 DEF Reported
<1>10. /\ queue' \in Seq(PaneEvents) /\ queue' # <<>> /\ queue'[Len(queue')] = Clear
       /\ windows => Len(queue') <= Limit + 1
       /\ ~windows => Len(queue') = Len(swapped) + 1
  BY <1>1, <1>2, <1>3, <1>6, SentLength
<1>11. Types'
  BY <1>1, <1>2, <1>7, <1>8, <1>10, SamePane DEF Types
<1>12. Lengths'
  <2>1. Len(queue') <= Limit + 1
    <3>1. Limit \in Nat /\ windows \in BOOLEAN /\ Len(queue) \in Nat /\ Len(swapped) \in Nat
      BY <1>2, <1>6, PaneFacts DEF Types
    <3> QED BY <1>1, <1>6, <1>10, <3>1
  <2> QED BY <1>1, <1>2, <1>8, <2>1, SamePane DEF IInv, Lengths
<1>13. Histories'
  BY <1>1, <1>2, <1>3, <1>8, <1>10 DEF Histories, Remembers, Joins
<1> QED BY <1>9, <1>11, <1>12, <1>13 DEF IInv

-----------------------------------------------------------------------------
(* The grid scrolls.                                                       *)
LEMMA ScrolledIs ==
  ASSUME NEW l \in Int, NEW origin \in Nat, NEW end \in Nat, NEW lines \in Int, NEW size \in Nat,
         lines # 0, origin < end
  PROVE  LET e == Scroll(origin, end, lines, size)
         IN  Scrolled(l, origin, end, lines, -size) = IF Stays(l, e) THEN {Goes(l, e)} ELSE {}
<1> DEFINE e == Scroll(origin, end, lines, size)
<1>1. e.origin = origin /\ e.end = end /\ e.lines = lines /\ e.history = size
  BY DEF Scroll
<1> HIDE DEF e
<1>2. CASE lines > 0 /\ origin = 0 /\ l < end
  <2>1. Moves(l, e) /\ Goes(l, e) = l - lines
    BY <1>1, <1>2 DEF Goes, Moves
  <2>2. Scrolled(l, origin, end, lines, -size) = {x \in {l - lines} : x >= -size}
    BY <1>2 DEF Scrolled
  <2>3. Stays(l, e) <=> l - lines >= -size
    BY <1>1, <1>2, <2>1 DEF Stays
  <2> QED BY <2>1, <2>2, <2>3 DEF e
<1>3. CASE ~(lines > 0 /\ origin = 0) /\ l \in origin .. end - 1
  <2>1. Moves(l, e) /\ Goes(l, e) = l - lines
    BY <1>1, <1>3 DEF Goes, Moves
  <2>2. Scrolled(l, origin, end, lines, -size) =
          {x \in {l - lines} \cap (origin .. end - 1) : x >= -size}
    BY <1>3 DEF Scrolled
  <2>3. Stays(l, e) <=> l - lines \in origin .. end - 1 /\ l - lines >= -size
    BY <1>1, <1>3, <2>1 DEF Stays
  <2> QED BY <2>1, <2>2, <2>3 DEF e
<1>4. CASE ~(lines > 0 /\ origin = 0 /\ l < end) /\ l \notin origin .. end - 1
  <2>1. ~Moves(l, e) /\ Goes(l, e) = l
    BY <1>1, <1>4 DEF Goes, Moves
  <2>2. Scrolled(l, origin, end, lines, -size) = {x \in {l} : x >= -size}
    BY <1>4 DEF Scrolled
  <2>3. Stays(l, e) <=> l >= -size
    BY <1>1, <2>1 DEF Stays
  <2> QED BY <2>1, <2>2, <2>3 DEF e
<1>5. lines > 0 /\ origin = 0 /\ l \in origin .. end - 1 => l < end
  OBVIOUS
<1> QED BY <1>2, <1>3, <1>4, <1>5 DEF e

LEMMA ScrollTells ==
  ASSUME Types, NEW e \in Scrolls, NEW evs, NEW dep,
         Told(evs, altScene, anchors, alt, text, dep),
         NEW dep2, Graded(dep2), dep \subseteq dep2,
         "lines" \notin dep2 /\ alt => \A a \in Anchors : ~OnScreen(text[a], FALSE),
         NEW text2 \in [Anchors -> Places],
         \A a \in Anchors : text2[a] = IF OnScreen(text[a], alt) THEN Shift(a, text[a], alt, e)
                                       ELSE text[a]
  PROVE  Told(Append(evs, e), altScene, anchors, alt, text2, dep2)
<1>1. e \in Events /\ e.event = "scroll" /\ alt \in BOOLEAN /\ text \in [Anchors -> Places]
  BY TypeFacts DEF Events, Scrolls, Types
<1>2. ScreenAfter(e, alt, dep, alt, dep2)
  BY <1>1 DEF ScreenAfter, Screen, ScreenMeets
<1>3. ASSUME NEW a \in Anchors, NEW p \in Places
      PROVE  /\ Shift(a, p, alt, e).kind = "at" =>
                  p.kind = "at" /\ Shift(a, p, alt, e).alternate = p.alternate
             /\ p.kind # "at" => Shift(a, p, alt, e) = p
             /\ p.kind = "at" => Shift(a, p, alt, e) # None
  BY <1>3, ScrollShift, PlaceKinds
<1>4. OnceAfter(e, text, text2)
  <2>1. \A a \in Anchors : text2[a] = None => text[a] = None
    BY <1>1, <1>3 DEF OnScreen
  <2> QED BY <1>1, <2>1 DEF OnceAfter
<1>5. ASSUME "lines" \notin dep2, NEW a \in Anchors, NEW p \in Places
      PROVE  LineAfter(a, p, e, alt, text[a], dep, alt, text2[a], dep2)
  <2> SUFFICES ASSUME LineMeets(p, text[a], dep), OnScreen(p, TRUE) => alt
               PROVE  /\ LineMeets(Shift(a, p, alt, e), text2[a], dep2)
                      /\ Apart(p, alt, e, Shift(a, p, alt, e))
                      /\ OnScreen(Shift(a, p, alt, e), TRUE) => alt
    BY DEF LineAfter
  <2>1. CASE p.kind = "at"
    <3>1. p = text[a] /\ p.alternate \in BOOLEAN
      BY <2>1, PlaceKinds DEF LineMeets
    <3>2. OnScreen(p, alt) /\ p.alternate = alt
      BY <1>1, <1>5, <2>1, <3>1 DEF OnScreen
    <3>3. text2[a] = Shift(a, p, alt, e)
      BY <3>1, <3>2
    <3> QED BY <1>3, <3>2, <3>3 DEF LineMeets, Apart, OnScreen
  <2>2. CASE p.kind # "at"
    <3>1. Shift(a, p, alt, e) = p
      BY <1>3, <2>2
    <3>2. text2[a].kind = "at" => text[a].kind = "at"
      <4>1. text[a] \in Places
        BY <1>1
      <4> QED BY <1>3, <4>1
    <3> QED BY <2>2, <3>1, <3>2 DEF LineMeets, Apart, OnScreen
  <2> QED BY <2>1, <2>2
<1>6. dep \subseteq dep2 \cup {"screen"}
  OBVIOUS
<1>7. Told(evs, altScene, anchors, alt, text, dep) /\ Graded(dep2) /\ text2 \in [Anchors -> Places]
  OBVIOUS
<1> QED BY ONLY <1>1, <1>2, <1>4, <1>5, <1>6, <1>7, TellAppend, Zenon

(* What a step of the grid that scrolls is.                                *)
ScrollStep(e, text2, what) ==
  /\ e \in Scrolls /\ e \in PaneEvents /\ e.event = "scroll"
  /\ text2 \in [Anchors -> Positions] /\ text2 \in [Anchors -> Places]
  /\ hist' \in 0 .. HistMax /\ Size' = e.history
  /\ e.history <= Size + (IF e.origin = 0 /\ e.lines > 0 THEN e.lines ELSE 0)
  /\ Size \in Nat
  /\ what \in {{}, {"kept", "lines"}}
  /\ what = {} /\ alt => \A a \in Anchors : ~OnScreen(text[a], FALSE)
  /\ \A a \in Anchors : text2[a] = IF OnScreen(text[a], alt) THEN Shift(a, text[a], alt, e)
                                   ELSE text[a]

LEMMA ScrollStepIs ==
  ASSUME Types, NEW start \in 0 .. MaxRows - 1, NEW origin \in 0 .. MaxRows - 1,
         NEW end \in 1 .. MaxRows, NEW lines \in -MaxRows .. MaxRows,
         GridScroll(start, end, origin, lines)
  PROVE  \E e, what :
           /\ ScrollStep(e, text', what)
           /\ IF pending # NoScroll /\ Merges(pending, e)
              THEN pending' = Merged(pending, e) /\ queue' = queue /\ departed' = departed \cup what
              ELSE /\ pending' = e /\ queue' = Flushed
                   /\ departed' = departed \cup (what \cup FlushDrops)
<1> DEFINE grown == IF ~alt /\ origin = 0 /\ lines > 0 THEN Grown(lines) ELSE hist
           size == IF alt THEN 0 ELSE grown
           e == Scroll(origin, end, lines, size)
           what == IF alt /\ \E a \in Anchors : OnScreen(text[a], FALSE)
                   THEN {"kept", "lines"} ELSE {}
<1>1. /\ MaxRows \in Nat /\ HistMax \in Nat /\ hist \in 0 .. HistMax /\ rows <= MaxRows
      /\ rows \in Nat /\ alt \in BOOLEAN /\ text \in [Anchors -> Positions]
      /\ Positions \subseteq Places /\ text \in [Anchors -> Places]
  BY PaneFacts DEF Types
<1>2. /\ origin \in Nat /\ end \in Nat /\ lines \in Int /\ lines # 0 /\ origin < end
      /\ end <= MaxRows /\ hist' = grown /\ alt' = alt
      /\ text' = [a \in Anchors |->
                    IF OnScreen(text[a], alt)
                    THEN Placed(Scrolled(text[a].line, origin, end, lines, -size), alt)
                    ELSE text[a]]
      /\ IF pending # NoScroll /\ Merges(pending, e)
         THEN pending' = Merged(pending, e) /\ queue' = queue /\ departed' = departed \cup what
         ELSE /\ pending' = e /\ queue' = Flushed
              /\ departed' = departed \cup (what \cup FlushDrops)
  <2>1. /\ lines # 0 /\ hist' = grown /\ alt' = alt
        /\ start < end /\ end <= rows /\ origin \in start .. end - 1
    BY DEF GridScroll
  <2>2. /\ origin \in Nat /\ end \in Nat /\ lines \in Int /\ lines # 0 /\ origin < end
        /\ end <= MaxRows
    BY <1>1, <2>1
  <2>3. text' = [a \in Anchors |->
                   IF OnScreen(text[a], alt)
                   THEN Placed(Scrolled(text[a].line, origin, end, lines, -size), alt)
                   ELSE text[a]]
    BY DEF GridScroll
  <2>4. CASE pending # NoScroll /\ Merges(pending, e)
    <3>1. pending' = Merged(pending, e) /\ queue' = queue /\ departed' = departed \cup what
      BY <2>4 DEF GridScroll, Depart
    <3> QED BY <2>1, <2>2, <2>3, <2>4, <3>1
  <2>5. CASE ~(pending # NoScroll /\ Merges(pending, e))
    <3>1. pending' = e /\ queue' = Flushed /\ departed' = departed \cup (what \cup FlushDrops)
      BY <2>5 DEF GridScroll, Depart
    <3> HIDE DEF e, what
    <3> QED BY <2>1, <2>2, <2>3, <2>5, <3>1
  <2> QED BY <2>4, <2>5
<1>3. /\ grown \in 0 .. HistMax /\ size \in 0 .. HistMax /\ Size' = size /\ Size \in Nat
      /\ size <= Size + (IF origin = 0 /\ lines > 0 THEN lines ELSE 0)
  <2>1. lines > 0 => Grown(lines) \in 0 .. HistMax /\ Grown(lines) <= hist + lines
    BY <1>2, GrownIn
  <2>2. grown \in 0 .. HistMax /\ hist \in Nat
    BY <1>1, <2>1
  <2>3. size \in 0 .. HistMax
    BY <1>1, <2>2
  <2>4. Size' = size /\ Size \in Nat
    BY <1>1, <1>2 DEF Size
  <2>5. size <= Size + (IF origin = 0 /\ lines > 0 THEN lines ELSE 0)
    <3>1. CASE alt
      BY <1>2, <3>1 DEF Size
    <3>2. CASE ~alt /\ origin = 0 /\ lines > 0
      BY <2>1, <2>2, <3>2 DEF Size
    <3>3. CASE ~alt /\ ~(origin = 0 /\ lines > 0)
      BY <2>2, <3>3 DEF Size
    <3> QED BY <3>1, <3>2, <3>3
  <2> QED BY <2>2, <2>3, <2>4, <2>5
<1>4. /\ e.event = "scroll" /\ e.origin = origin /\ e.end = end /\ e.lines = lines
      /\ e.history = size
  BY DEF Scroll
<1>5. e \in Scrolls /\ e \in PaneEvents
  <2>1. size \in Nat
    BY <1>1, <1>3
  <2> HIDE DEF size
  <2>2. e \in Scrolls
    BY <1>2, <1>4, <2>1 DEF Scrolls, Scroll
  <2> QED BY <1>1, <1>2, <1>3, <1>4, <2>2 DEF PaneEvents, Events
<1>6. ASSUME NEW a \in Anchors
      PROVE  /\ text'[a] = IF OnScreen(text[a], alt) THEN Shift(a, text[a], alt, e) ELSE text[a]
             /\ text'[a] \in Positions
  <2>1. CASE ~OnScreen(text[a], alt)
    BY <1>1, <1>2, <2>1
  <2>2. CASE OnScreen(text[a], alt)
    <3> DEFINE l == text[a].line
    <3>1. /\ text'[a] = Placed(Scrolled(l, origin, end, lines, -size), alt)
          /\ text[a].kind = "at" /\ text[a].alternate = alt /\ text[a] \in Places
          /\ text[a] \in Positions /\ size \in Nat
      BY <1>1, <1>2, <1>3, <2>2 DEF OnScreen
    <3>2. l \in Int /\ l <= MaxRows - 1
      <4>1. PICK x \in Lines, b \in BOOLEAN : text[a] = At(x, b)
        BY <3>1, PlaceKinds DEF Positions
      <4>2. l = x
        BY <4>1, PlaceKinds
      <4> QED BY <1>1, <4>2 DEF Lines
    <3> HIDE DEF l, size
    <3>3. Scrolled(l, origin, end, lines, -size) = IF Stays(l, e) THEN {Goes(l, e)} ELSE {}
      BY <1>2, <3>1, <3>2, ScrolledIs
    <3>4. text'[a] = IF Stays(l, e) THEN At(Goes(l, e), alt) ELSE Gone
      BY <3>1, <3>3, PlacedIs
    <3>5. text'[a] = Shift(a, text[a], alt, e)
      BY <1>5, <3>1, <3>4, ScrollShift DEF l
    <3>6. Stays(l, e) => Goes(l, e) \in Lines
      <4>1. Goes(l, e) \in Int
        BY <1>2, <1>4, <3>2 DEF Goes
      <4>2. Stays(l, e) => Goes(l, e) >= -size /\ size <= HistMax
        BY <1>1, <1>3, <1>4 DEF Stays
      <4>3. Stays(l, e) => Goes(l, e) <= MaxRows - 1
        <5>1. CASE lines > 0
          BY <1>1, <1>2, <1>4, <3>2, <5>1 DEF Goes
        <5>2. CASE ~(lines > 0)
          BY <1>1, <1>2, <1>4, <3>2, <5>2 DEF Stays, Goes
        <5> QED BY <5>1, <5>2
      <4>4. Stays(l, e) => Goes(l, e) >= -(HistMax + MaxRows)
        BY <1>1, <3>1, <4>1, <4>2
      <4> QED BY <1>1, <4>1, <4>3, <4>4 DEF Lines
    <3>7. text'[a] \in Positions
      BY <1>1, <3>4, <3>6 DEF Positions
    <3> QED BY <2>2, <3>5, <3>7
  <2> QED BY <2>1, <2>2
<1>7. text' \in [Anchors -> Positions] /\ text' \in [Anchors -> Places]
  <2>1. \A a \in Anchors : text'[a] \in Positions
    BY <1>6
  <2>2. text' = [a \in Anchors |-> text'[a]]
    BY <1>2
  <2> QED BY <1>1, <2>1, <2>2
<1>8. /\ what \in {{}, {"kept", "lines"}}
      /\ what = {} /\ alt => \A a \in Anchors : ~OnScreen(text[a], FALSE)
  OBVIOUS
<1> HIDE DEF e, what, size, grown
<1>9. ScrollStep(e, text', what)
  BY <1>2, <1>3, <1>4, <1>5, <1>6, <1>7, <1>8 DEF ScrollStep
<1> QED BY <1>2, <1>9
LEMMA JoinedAppend ==
  ASSUME NEW b \in Seq(Events), NEW q \in Seq(Events), NEW e \in Events
  PROVE  b \o Append(q, e) = Append(b \o q, e) /\ b \o q \in Seq(Events)
BY Glue

LEMMA LastOf ==
  ASSUME NEW S, NEW q \in Seq(S), NEW e \in S
  PROVE  /\ Append(q, e) \in Seq(S) /\ Append(q, e) # <<>>
         /\ Append(q, e)[Len(Append(q, e))] = e /\ Len(Append(q, e)) = Len(q) + 1
<1>1. Append(q, e) \in Seq(S) /\ Append(q, e) # <<>> /\ Len(Append(q, e)) = Len(q) + 1
  BY AppendProperties
<1>2. Append(q, e)[Len(q) + 1] = e
  OBVIOUS
<1> QED BY <1>1, <1>2

LEMMA ScrollKeeps ==
  ASSUME IInv, NEW start \in 0 .. MaxRows - 1, NEW origin \in 0 .. MaxRows - 1,
         NEW end \in 1 .. MaxRows, NEW lines \in -MaxRows .. MaxRows,
         GridScroll(start, end, origin, lines)
  PROVE  IInv'
<1>1. /\ Types /\ parsing /\ parsing' = parsing /\ (windows \/ Len(queue) < Limit)
      /\ rows' = rows /\ alt' = alt /\ batch' = batch /\ altScene' = altScene
      /\ anchors' = anchors /\ pane' = pane
  BY DEF IInv, GridScroll, Parsing, Room, scene
<1>2. PICK e, what :
        /\ ScrollStep(e, text', what)
        /\ IF pending # NoScroll /\ Merges(pending, e)
           THEN pending' = Merged(pending, e) /\ queue' = queue /\ departed' = departed \cup what
           ELSE /\ pending' = e /\ queue' = Flushed
                /\ departed' = departed \cup (what \cup FlushDrops)
  BY <1>1, ScrollStepIs
<1>3. /\ e \in Scrolls /\ e \in PaneEvents /\ e \in Events /\ e.event = "scroll"
      /\ e.history \in Nat /\ e # NoScroll /\ what \in {{}, {"kept", "lines"}}
      /\ hist' \in 0 .. HistMax /\ Size' = e.history /\ Size \in Nat
      /\ e.history <= Size + (IF e.origin = 0 /\ e.lines > 0 THEN e.lines ELSE 0)
      /\ text' \in [Anchors -> Positions]
  BY <1>2 DEF ScrollStep, Scrolls, PaneEvents, NoScroll
<1>4. /\ FlushTold /\ queue \in Seq(PaneEvents) /\ queue \in Seq(Events) /\ batch \in Seq(Events)
      /\ Graded(departed) /\ Limit \in Nat /\ windows \in BOOLEAN /\ Len(queue) \in Nat
  <2>1. FlushTold
    BY FlushTells
  <2> QED BY <1>1, <2>1, TypeFacts, PaneFacts DEF IInv, Reported, Told, Types
<1>5. ASSUME NEW dep, Graded(dep) PROVE Graded(dep \cup what)
  BY <1>3, <1>5 DEF Graded, Levels
<1>6. ASSUME NEW evs, NEW dep, Told(evs, altScene, anchors, alt, text, dep)
      PROVE  Told(Append(evs, e), altScene, anchors, alt, text', dep \cup what)
  <2> DEFINE dep2 == dep \cup what
  <2>1. Graded(dep2) /\ dep \subseteq dep2
    BY <1>5, <1>6 DEF Told
  <2>2. "lines" \notin dep2 /\ alt => \A a \in Anchors : ~OnScreen(text[a], FALSE)
    BY <1>2 DEF ScrollStep
  <2>3. /\ text' \in [Anchors -> Places]
        /\ \A a \in Anchors : text'[a] = IF OnScreen(text[a], alt) THEN Shift(a, text[a], alt, e)
                                         ELSE text[a]
    BY <1>2 DEF ScrollStep
  <2> HIDE DEF dep2
  <2>4. Told(Append(evs, e), altScene, anchors, alt, text', dep2)
    BY ONLY <1>1, <1>3, <1>6, <2>1, <2>2, <2>3, ScrollTells, Zenon
  <2> QED BY <2>4 DEF dep2
<1>7. CASE pending # NoScroll /\ Merges(pending, e)
  <2> DEFINE m == Merged(pending, e)  dep2 == departed \cup what
  <2>1. pending' = m /\ queue' = queue /\ departed' = dep2 /\ Coming = Append(queue, pending)
    BY <1>2, <1>7 DEF Coming
  <2>2. /\ pending \in Scrolls /\ pending \in Events /\ pending \in PaneEvents
        /\ pending.history \in Nat /\ pending.lines \in Int /\ e.lines \in Int
        /\ pending.origin = e.origin /\ pending.end = e.end
        /\ (pending.lines > 0 <=> e.lines > 0) /\ pending.lines # 0 /\ e.lines # 0
    BY <1>1, <1>3, <1>7, TypeFacts DEF Types, Scrolls, Merges
  <2>3. /\ m \in Scrolls /\ m \in PaneEvents /\ m \in Events /\ m.event = "scroll"
        /\ m.history = e.history /\ m.origin = e.origin /\ m.end = e.end
        /\ m.lines = pending.lines + e.lines /\ m # NoScroll
    <3>1. m = [e EXCEPT !.lines = pending.lines + e.lines]
      BY DEF Merged
    <3>2. pending.lines + e.lines \in Int /\ pending.lines + e.lines # 0
      BY <2>2
    <3>3. m \in Scrolls /\ m.event = "scroll"
      BY <1>3, <3>1, <3>2 DEF Scrolls
    <3>4. /\ m.history = e.history /\ m.origin = e.origin /\ m.end = e.end
          /\ m.lines = pending.lines + e.lines
      BY <1>3, <3>1 DEF Scrolls
    <3>5. m \in Events /\ m # NoScroll
      BY <3>3 DEF Events, NoScroll
    <3> QED BY <1>3, <3>3, <3>4, <3>5 DEF PaneEvents
  <2> HIDE DEF m
  <2>4. "lines" \notin departed => Size <= pending.history
    <3>1. Remembers(Coming, Size, departed)
      BY DEF IInv, Histories
    <3>2. pending.event = "scroll"
      BY <2>2 DEF Scrolls
    <3>3. Coming # <<>> /\ Coming[Len(Coming)] = pending
      BY <1>4, <2>1, <2>2, LastOf
    <3> QED BY <3>1, <3>2, <3>3 DEF Remembers
  <2>5. "lines" \notin departed => GrewBy(pending, e)
    BY <1>3, <2>2, <2>4 DEF GrewBy
  <2>6. Coming' = Append(queue, m)
    BY <2>1, <2>3 DEF Coming
  <2>7. Reported'
    <3>1. /\ batch \o Append(queue, pending) = Append(batch \o queue, pending)
          /\ batch \o Append(queue, m) = Append(batch \o queue, m)
          /\ batch \o queue \in Seq(Events)
      BY <1>4, <2>2, <2>3, JoinedAppend
    <3>2. Told(Append(batch \o queue, pending), altScene, anchors, alt, text, departed)
      BY <2>1, <3>1 DEF IInv, Reported
    <3>3. Told(Append(Append(batch \o queue, pending), e), altScene, anchors, alt, text', dep2)
      BY <1>6, <3>2
    <3> HIDE DEF dep2
    <3>4. "lines" \notin dep2 => GrewBy(pending, e)
      BY <2>5 DEF dep2
    <3>5. Merges(pending, e)
      BY <1>7
    <3>6. Told(Append(batch \o queue, Merged(pending, e)), altScene, anchors, alt, text', dep2)
      BY ONLY <1>3, <2>2, <3>1, <3>3, <3>4, <3>5, TellMerge, Zenon
    <3> QED BY <1>1, <2>1, <2>6, <3>1, <3>6 DEF Reported, m
  <2>8. Remembers(Coming', Size', departed')
    <3>1. Coming'[Len(Coming')] = m
      BY <1>4, <2>3, <2>6, LastOf
    <3> QED BY <1>3, <2>3, <3>1 DEF Remembers
  <2>9. Joins(queue', pending', departed')
    <3> SUFFICES ASSUME "lines" \notin departed, queue # <<>>, Merges(queue[Len(queue)], m)
                 PROVE  m.history <= queue[Len(queue)].history
                                     + (IF m.origin = 0 /\ m.lines > 0 THEN m.lines ELSE 0)
      BY <2>1 DEF Joins, GrewBy
    <3> DEFINE l == queue[Len(queue)]
    <3>1. l \in Events
      <4>1. Len(queue) \in 1 .. Len(queue)
        BY <1>4, EmptySeq
      <4> QED BY <1>4, <4>1
    <3> HIDE DEF l
    <3>2. /\ l.event = "scroll" /\ l.origin = m.origin /\ l.end = m.end
          /\ (l.lines > 0) = (m.lines > 0)
      BY DEF l, Merges
    <3>3. l \in Scrolls
      BY <3>1, <3>2, EventKinds
    <3>4. l.history \in Nat /\ l.lines \in Int
      BY <3>3 DEF Scrolls
    <3>5. m.lines > 0 <=> pending.lines > 0
      BY <2>2, <2>3
    <3>6. Merges(l, pending)
      BY <2>2, <2>3, <3>2, <3>5 DEF Merges
    <3>7. Joins(queue, pending, departed)
      BY DEF IInv, Histories
    <3>8. pending.history <= l.history
                             + (IF pending.origin = 0 /\ pending.lines > 0
                                THEN pending.lines ELSE 0)
      BY <1>7, <3>6, <3>7 DEF Joins, GrewBy, l
    <3>9. Size <= pending.history
      BY <2>4
    <3>10. m.history <= l.history + (IF m.origin = 0 /\ m.lines > 0 THEN m.lines ELSE 0)
      <4>1. CASE e.origin = 0 /\ e.lines > 0
        <5>1. m.origin = 0 /\ m.lines > 0 /\ pending.origin = 0 /\ pending.lines > 0
          BY <2>2, <2>3, <3>5, <4>1
        <5>2. pending.history <= l.history + pending.lines /\ e.history <= Size + e.lines
          BY <1>3, <3>8, <4>1, <5>1
        <5>3. \A h, k, n, z, x, y \in Int : k <= n + x /\ h <= z + y /\ z <= k => h <= n + (x + y)
          OBVIOUS
        <5>4. /\ e.history \in Int /\ pending.history \in Int /\ l.history \in Int /\ Size \in Int
              /\ pending.lines \in Int /\ e.lines \in Int
          BY <1>3, <2>2, <3>4
        <5>5. e.history <= l.history + (pending.lines + e.lines)
          BY ONLY <3>9, <5>2, <5>3, <5>4
        <5> QED BY <2>3, <5>1, <5>5
      <4>2. CASE ~(e.origin = 0 /\ e.lines > 0)
        BY <1>3, <2>2, <2>3, <3>4, <3>5, <3>8, <3>9, <4>2
      <4> QED BY <4>1, <4>2
    <3> QED BY <3>10 DEF l
  <2>10. Types' /\ Lengths'
    <3>1. Types'
      BY <1>1, <1>3, <2>1, <2>3, SamePane DEF Types
    <3>2. Lengths'
      BY <1>1, <1>7, <2>1, SamePane DEF IInv, Lengths
    <3> QED BY <3>1, <3>2
  <2> QED BY <2>7, <2>8, <2>9, <2>10 DEF IInv, Histories
<1>8. CASE ~(pending # NoScroll /\ Merges(pending, e))
  <2> DEFINE dep == departed \cup FlushDrops
  <2>1. pending' = e /\ queue' = Flushed /\ departed' = dep \cup what
    BY <1>2, <1>8
  <2>2. /\ Told(batch \o Flushed, altScene, anchors, alt, text, dep)
        /\ Flushed \in Seq(PaneEvents) /\ Flushed \in Seq(Events)
        /\ Remembers(Flushed, Size, dep) /\ Len(Flushed) <= Limit + 1
    BY <1>4 DEF FlushTold
  <2>3. Coming' = Append(Flushed, e)
    BY <1>3, <2>1 DEF Coming
  <2>4. Reported'
    <3>1. batch \o Append(Flushed, e) = Append(batch \o Flushed, e)
      BY <1>3, <1>4, <2>2, JoinedAppend
    <3> HIDE DEF dep
    <3>2. Told(Append(batch \o Flushed, e), altScene, anchors, alt, text', dep \cup what)
      BY <1>6, <2>2
    <3> QED BY <1>1, <2>1, <2>3, <3>1, <3>2 DEF Reported
  <2>5. Remembers(Coming', Size', departed')
    <3>1. Coming'[Len(Coming')] = e
      BY <1>3, <2>2, <2>3, LastOf
    <3> QED BY <1>3, <3>1 DEF Remembers
  <2>6. Joins(queue', pending', departed')
    <3> SUFFICES ASSUME "lines" \notin dep, Flushed # <<>>, Merges(Flushed[Len(Flushed)], e)
                 PROVE  e.history <= Flushed[Len(Flushed)].history
                                     + (IF e.origin = 0 /\ e.lines > 0 THEN e.lines ELSE 0)
      BY <2>1 DEF Joins, GrewBy
    <3> DEFINE l == Flushed[Len(Flushed)]
    <3>1. l \in Events
      <4>1. Len(Flushed) \in 1 .. Len(Flushed)
        BY <2>2, EmptySeq
      <4> QED BY <2>2, <4>1
    <3> HIDE DEF l
    <3>2. l.event = "scroll"
      BY DEF l, Merges
    <3>3. l.history \in Nat
      BY <3>1, <3>2, EventKinds DEF Scrolls
    <3>4. Size <= l.history
      BY <2>2, <3>2 DEF Remembers, l
    <3>5. e.lines \in Int
      BY <1>3 DEF Scrolls
    <3>6. e.history <= l.history + (IF e.origin = 0 /\ e.lines > 0 THEN e.lines ELSE 0)
      <4>1. CASE e.origin = 0 /\ e.lines > 0
        BY <1>3, <3>3, <3>4, <3>5, <4>1
      <4>2. CASE ~(e.origin = 0 /\ e.lines > 0)
        BY <1>3, <3>3, <3>4, <4>2
      <4> QED BY <4>1, <4>2
    <3> QED BY <3>6 DEF l
  <2>7. Types'
    BY <1>1, <1>3, <2>1, <2>2, SamePane DEF Types
  <2>8. Lengths'
    <3>1. ~windows => Len(Flushed) <= Limit
      <4>1. ~windows => Len(Flushed) <= Len(queue) + 1
        BY FlushGrows
      <4>2. Len(Flushed) \in Nat
        BY <2>2
      <4> QED BY <1>1, <1>4, <4>1, <4>2
    <3> QED BY <1>1, <2>1, <2>2, <3>1, SamePane DEF IInv, Lengths
  <2> QED BY <2>4, <2>5, <2>6, <2>7, <2>8 DEF IInv, Histories
<1> QED BY <1>7, <1>8

-----------------------------------------------------------------------------
(* The window's thread.                                                    *)

(* A queue is its head and its tail, alone or with more after it.          *)
LEMMA Parted ==
  ASSUME NEW S, NEW b \in Seq(S), b # <<>>, NEW q \in Seq(S)
  PROVE  /\ <<Head(b)>> \o Tail(b) = b
         /\ b \o q \in Seq(S) /\ b \o q # <<>> /\ Head(b \o q) = Head(b) /\ Head(b) \in S
         /\ Tail(b \o q) = Tail(b) \o q /\ Tail(b) \in Seq(S) /\ Len(Tail(b)) = Len(b) - 1
         /\ Tail(b) # <<>> => Tail(b)[Len(Tail(b))] = b[Len(b)]
<1>1. PICK n \in Nat : Len(b) = n + 1
  <2>1. Len(b) \in Nat /\ Len(b) # 0
    BY EmptySeq
  <2>2. Len(b) - 1 \in Nat /\ Len(b) = (Len(b) - 1) + 1
    BY <2>1
  <2> QED BY <2>2
<1>2. PICK k \in Nat : Len(q) = k
  OBVIOUS
<1>3. /\ Head(b) \in S /\ Tail(b) \in Seq(S) /\ Len(Tail(b)) = n /\ Head(b) = b[1]
      /\ \A i \in 1 .. n : Tail(b)[i] = b[i + 1]
  BY <1>1, HeadTailProperties
<1>4. /\ b \o q \in Seq(S) /\ Len(b \o q) = n + 1 + k
      /\ \A i \in 1 .. n + 1 + k : (b \o q)[i] = IF i <= n + 1 THEN b[i] ELSE q[i - (n + 1)]
  <2>1. /\ b \o q \in Seq(S) /\ Len(b \o q) = Len(b) + Len(q)
        /\ \A i \in 1 .. Len(b) + Len(q) :
             (b \o q)[i] = IF i <= Len(b) THEN b[i] ELSE q[i - Len(b)]
    BY ConcatProperties
  <2> QED BY <1>1, <1>2, <2>1
<1>5. b \o q # <<>>
  BY <1>4, EmptySeq
<1>6. Head(b \o q) = Head(b)
  <2>1. Head(b \o q) = (b \o q)[1]
    BY <1>4, <1>5
  <2> QED BY <1>3, <1>4, <2>1
<1>7. Tail(b \o q) = Tail(b) \o q
  <2>1. /\ Tail(b \o q) \in Seq(S) /\ Len(Tail(b \o q)) = n + k
        /\ \A i \in 1 .. n + k : Tail(b \o q)[i] = (b \o q)[i + 1]
    <3> DEFINE c == b \o q
    <3>1. c \in Seq(S) /\ c # <<>> /\ Len(c) = n + 1 + k
      BY <1>4, <1>5
    <3> HIDE DEF c
    <3>2. /\ Tail(c) \in Seq(S) /\ Len(Tail(c)) = Len(c) - 1
          /\ \A i \in 1 .. Len(Tail(c)) : Tail(c)[i] = c[i + 1]
      BY <3>1, HeadTailProperties
    <3>3. Len(Tail(c)) = n + k
      BY <3>1, <3>2
    <3> QED BY <3>2, <3>3 DEF c
  <2>2. /\ Tail(b) \o q \in Seq(S) /\ Len(Tail(b) \o q) = n + k
        /\ \A i \in 1 .. n + k : (Tail(b) \o q)[i] = IF i <= n THEN Tail(b)[i] ELSE q[i - n]
    BY <1>2, <1>3, ConcatProperties
  <2>3. ASSUME NEW i \in 1 .. n + k PROVE Tail(b \o q)[i] = (Tail(b) \o q)[i]
    <3>1. i + 1 \in 1 .. n + 1 + k /\ (i + 1) - (n + 1) = i - n /\ (i + 1 <= n + 1 <=> i <= n)
      OBVIOUS
    <3>2. i <= n => i \in 1 .. n
      OBVIOUS
    <3>3. (b \o q)[i + 1] = IF i <= n THEN b[i + 1] ELSE q[i - n]
      BY <1>4, <3>1
    <3> QED BY <1>3, <2>1, <2>2, <3>2, <3>3
  <2> QED BY <2>1, <2>2, <2>3, SeqEqual
<1>8. <<Head(b)>> \o Tail(b) = b
  <2>1. <<Head(b)>> \in Seq(S) /\ Len(<<Head(b)>>) = 1 /\ <<Head(b)>>[1] = b[1]
    BY <1>3
  <2>2. /\ <<Head(b)>> \o Tail(b) \in Seq(S) /\ Len(<<Head(b)>> \o Tail(b)) = n + 1
        /\ \A i \in 1 .. n + 1 :
             (<<Head(b)>> \o Tail(b))[i] = IF i <= 1 THEN <<Head(b)>>[i] ELSE Tail(b)[i - 1]
    BY <1>3, <2>1, ConcatProperties
  <2>3. ASSUME NEW i \in 1 .. n + 1 PROVE (<<Head(b)>> \o Tail(b))[i] = b[i]
    <3>1. CASE i = 1
      BY <2>1, <2>2, <3>1
    <3>2. CASE i # 1
      <4>1. i - 1 \in 1 .. n /\ (i - 1) + 1 = i
        BY <3>2
      <4> QED BY <1>3, <2>2, <4>1
    <3> QED BY <3>1, <3>2
  <2> QED BY <1>1, <2>2, <2>3, SeqEqual
<1>9. Tail(b) # <<>> => Tail(b)[n] = b[n + 1]
  <2>1. Tail(b) # <<>> => n \in 1 .. n
    BY <1>3, EmptySeq
  <2> QED BY <1>3, <2>1
<1> QED BY <1>1, <1>3, <1>4, <1>5, <1>6, <1>7, <1>8, <1>9

LEMMA TakeKeeps == ASSUME IInv, TakeEvents PROVE IInv'
<1>1. /\ ~parsing /\ batch = <<>> /\ queue # <<>>
      /\ IF windows THEN batch' = queue /\ queue' = <<>>
         ELSE batch' = <<Head(queue)>> /\ queue' = Tail(queue)
      /\ UNCHANGED <<rows, hist, alt, text, parsing, pending, altScene, anchors, pane, departed>>
  BY DEF TakeEvents, grid, scene
<1>2. /\ Types /\ pending = NoScroll /\ Coming = queue /\ Coming' = queue' /\ Size' = Size
      /\ queue \in Seq(PaneEvents) /\ queue \in Seq(Events) /\ Len(queue) \in Nat
      /\ Limit \in Nat \ {0} /\ windows \in BOOLEAN /\ Len(queue) <= Limit + 1
      /\ Remembers(queue, Size, departed)
  BY <1>1, TypeFacts, PaneFacts DEF IInv, Lengths, Types, Coming, Histories, Size
<1>3. /\ <<Head(queue)>> \o Tail(queue) = queue /\ Head(queue) \in PaneEvents
      /\ Tail(queue) \in Seq(PaneEvents) /\ Len(Tail(queue)) = Len(queue) - 1
      /\ Tail(queue) # <<>> => Tail(queue)[Len(Tail(queue))] = queue[Len(queue)]
  BY <1>1, <1>2, Parted
<1>4. queue \o <<>> = queue /\ <<>> \o queue = queue /\ <<>> \in Seq(PaneEvents) /\ Len(<<>>) = 0
  BY <1>2, ConcatEmptySeq
<1>5. batch' \o queue' = queue /\ batch \o queue = queue
  BY <1>1, <1>3, <1>4
<1>6. Reported'
  BY <1>1, <1>2, <1>5 DEF IInv, Reported
<1>7. Types'
  <2>1. <<Head(queue)>> \in Seq(PaneEvents)
    BY <1>3
  <2>2. batch' \in Seq(PaneEvents) /\ queue' \in Seq(PaneEvents)
    BY <1>1, <1>2, <1>3, <1>4, <2>1
  <2> QED BY <1>1, <1>2, <2>2, SamePane DEF Types
<1>8. Lengths'
  <2>1. Len(<<Head(queue)>>) = 1
    OBVIOUS
  <2>2. Len(batch') <= Limit + 1 /\ Len(queue') <= Limit + 1
    BY <1>1, <1>2, <1>3, <1>4, <2>1
  <2> QED BY <1>1, <1>2, <2>2, SamePane DEF IInv, Lengths
<1>9. Histories'
  <2>1. Remembers(queue', Size, departed)
    BY <1>1, <1>2, <1>3 DEF Remembers
  <2> QED BY <1>1, <1>2, <2>1 DEF Histories, Joins
<1> QED BY <1>6, <1>7, <1>8, <1>9 DEF IInv

LEMMA HandleKeeps ==
  ASSUME IInv, ~parsing, batch # <<>>, batch' = Tail(batch),
         UNCHANGED <<rows, hist, alt, parsing, pending, queue, pane, departed>>,
         altScene' = Screen(altScene, Head(batch)),
         anchors' \in [Anchors -> Positions], text' \in [Anchors -> Positions],
         \A a \in Anchors :
           HandledAnchor(a, Head(batch), altScene, anchors[a], text[a], anchors'[a], text'[a])
  PROVE  IInv'
<1>1. /\ Types /\ pending = NoScroll /\ Coming = queue /\ Coming' = queue /\ Size' = Size
      /\ queue \in Seq(Events) /\ batch \in Seq(Events) /\ batch \in Seq(PaneEvents)
      /\ PaneEvents \subseteq Events /\ altScene \in BOOLEAN /\ Positions \subseteq Places
      /\ Told(batch \o queue, altScene, anchors, alt, text, departed)
  BY TypeFacts, PaneFacts DEF IInv, Lengths, Types, Coming, Size, PaneEvents, Reported
<1>2. /\ batch \o queue # <<>> /\ Head(batch \o queue) = Head(batch)
      /\ Tail(batch \o queue) = Tail(batch) \o queue
  BY <1>1, Parted
<1>3. /\ Head(batch) \in PaneEvents /\ Tail(batch) \in Seq(PaneEvents)
      /\ Len(Tail(batch)) = Len(batch) - 1 /\ Len(batch) \in Nat
  BY <1>1, HeadTailProperties
<1>4. altScene' \in BOOLEAN
  BY <1>1, <1>3, EventKinds DEF Screen
<1>5. Types'
  BY <1>1, <1>3, <1>4, SamePane DEF Types
<1>6. Lengths'
  <2>1. Limit \in Nat
    BY <1>1, PaneFacts DEF Types
  <2> QED BY <1>1, <1>3, <2>1, SamePane DEF IInv, Lengths
<1>7. Histories'
  BY <1>1 DEF IInv, Histories
<1>8. Reported'
  <2>1. anchors' \in [Anchors -> Places] /\ text' \in [Anchors -> Places]
    BY <1>1
  <2>2. \A a \in Anchors : HandledAnchor(a, Head(batch \o queue), altScene, anchors[a], text[a],
                                         anchors'[a], text'[a])
    BY <1>2
  <2>3. Told(Tail(batch \o queue), Screen(altScene, Head(batch \o queue)), anchors', alt, text',
             departed)
    BY ONLY <1>1, <1>2, <2>1, <2>2, TellTail, Zenon
  <2>4. /\ batch' \o Coming' = Tail(batch \o queue)
        /\ altScene' = Screen(altScene, Head(batch \o queue))
    BY <1>1, <1>2
  <2> QED BY <2>3, <2>4 DEF Reported
<1> QED BY <1>5, <1>6, <1>7, <1>8 DEF IInv

(* Where a handled scroll puts an anchor is a line of the pane.            *)
LEMMA ShiftIn ==
  ASSUME Types, NEW p \in Positions, NEW e \in PaneEvents, NEW s \in BOOLEAN, NEW a
  PROVE  Shift(a, p, s, e) \in Positions
<1>1. /\ MaxRows \in Nat \ {0} /\ HistMax \in Nat /\ Positions \subseteq Places /\ e \in Events
      /\ None \in Positions /\ Gone \in Positions
  BY PaneFacts DEF Types, PaneEvents, Positions
<1>2. CASE e.event = "scroll"
  <2>1. e \in Scrolls /\ e.end <= MaxRows /\ e.history <= HistMax
    BY <1>1, <1>2, EventKinds DEF PaneEvents
  <2>2. /\ e.origin \in Nat /\ e.end \in Nat /\ e.lines \in Int /\ e.history \in Nat
    BY <2>1 DEF Scrolls
  <2>3. CASE p.kind # "at"
    BY <1>1, <2>1, <2>3, ScrollShift
  <2>4. CASE p.kind = "at"
    <3>1. PICK l \in Lines, b \in BOOLEAN : p = At(l, b)
      BY <2>4, PlaceKinds DEF Positions
    <3>2. p.line = l /\ p.alternate = b /\ l \in Int /\ l <= MaxRows - 1
      BY <1>1, <3>1, PlaceKinds DEF Lines
    <3>3. Shift(a, p, s, e) = IF Stays(l, e) THEN At(Goes(l, e), b) ELSE Gone
      BY <1>1, <2>1, <2>4, <3>2, ScrollShift
    <3>4. Stays(l, e) => Goes(l, e) \in Lines
      <4>1. Goes(l, e) \in Int
        BY <2>2, <3>2 DEF Goes
      <4>2. Stays(l, e) => Goes(l, e) >= -e.history
        BY DEF Stays
      <4>3. Stays(l, e) => Goes(l, e) <= MaxRows - 1
        <5>1. CASE e.lines > 0
          BY <1>1, <2>2, <3>2, <5>1 DEF Goes
        <5>2. CASE ~(e.lines > 0)
          BY <1>1, <2>1, <2>2, <3>2, <5>2 DEF Stays, Goes
        <5> QED BY <5>1, <5>2
      <4>4. Stays(l, e) => Goes(l, e) >= -(HistMax + MaxRows)
        BY <1>1, <2>1, <2>2, <4>1, <4>2
      <4> QED BY <1>1, <4>1, <4>3, <4>4 DEF Lines
    <3> QED BY <1>1, <3>3, <3>4 DEF Positions
  <2> QED BY <2>3, <2>4
<1>3. CASE e.event = "marker"
  <2>1. e \in Markers /\ e.line < MaxRows
    BY <1>1, <1>3 DEF PaneEvents, Events, Scrolls, Swaps, Clear
  <2>2. e.line \in Lines /\ e.alternate \in BOOLEAN
    BY <1>1, <2>1 DEF Markers, Lines
  <2>3. At(e.line, e.alternate) \in Positions
    BY <2>2 DEF Positions
  <2> QED BY <1>3, <2>3 DEF Shift
<1>4. CASE e.event \in {"swap", "clear"}
  BY <1>1, <1>4 DEF Shift
<1> QED BY <1>1, <1>2, <1>3, <1>4, EventKinds

LEMMA HandlersKeep ==
  ASSUME IInv,
         HandleGridScroll \/ HandleScreenSwap \/ HandleClear \/ HandleMarker \/ RefuseMarker
  PROVE  IInv'
<1> DEFINE e == Head(batch)
<1>1. /\ ~parsing /\ batch # <<>> /\ batch' = Tail(batch)
      /\ UNCHANGED <<rows, hist, alt, parsing, pending, queue, pane, departed>>
  BY DEF HandleGridScroll, HandleScreenSwap, HandleClear, HandleMarker, RefuseMarker, Handles,
         SceneSwaps, grid
<1>2. /\ Types /\ e \in PaneEvents /\ e \in Events /\ altScene \in BOOLEAN
      /\ anchors \in [Anchors -> Positions] /\ text \in [Anchors -> Positions]
      /\ Gone \in Positions
  <2>1. batch \in Seq(PaneEvents)
    BY DEF IInv, Types
  <2>2. e \in PaneEvents
    BY <1>1, <2>1, HeadTailProperties
  <2> QED BY <2>2 DEF IInv, Types, PaneEvents, Positions
<1>3. \A a \in Anchors : Shift(a, anchors[a], altScene, e) \in Positions
  BY <1>2, ShiftIn
<1>4. CASE HandleGridScroll \/ HandleScreenSwap \/ HandleClear \/ HandleMarker
  <2>1. text' = text
    BY <1>4 DEF HandleGridScroll, HandleScreenSwap, HandleClear, HandleMarker, Handles, grid
  <2>2. /\ altScene' = Screen(altScene, e)
        /\ anchors' = [a \in Anchors |-> Shift(a, anchors[a], altScene, e)]
    <3>1. CASE HandleGridScroll
      <4>1. /\ e.event = "scroll" /\ altScene' = altScene
            /\ anchors' = [a \in Anchors |->
                             IF anchors[a].kind = "at"
                             THEN Placed(Followed(anchors[a].line, e), anchors[a].alternate)
                             ELSE anchors[a]]
        BY <3>1 DEF HandleGridScroll, Handles
      <4> HIDE DEF e
      <4> QED BY <4>1 DEF Screen, Shift
    <3>2. CASE HandleScreenSwap
      <4>1. /\ e.event = "swap" /\ altScene' = e.alternate
            /\ anchors' = IF e.alternate \/ ~altScene THEN anchors ELSE Without(TRUE)
        BY <3>2 DEF HandleScreenSwap, Handles, SceneSwaps
      <4>2. \A a \in Anchors : Shift(a, anchors[a], altScene, e) =
              IF ~e.alternate /\ altScene /\ OnScreen(anchors[a], TRUE) THEN Gone ELSE anchors[a]
        BY <4>1 DEF Shift
      <4>3. altScene' = Screen(altScene, e)
        BY <4>1 DEF Screen
      <4> HIDE DEF e
      <4>4. CASE e.alternate \/ ~altScene
        BY <1>2, <4>1, <4>2, <4>3, <4>4
      <4>5. CASE ~(e.alternate \/ ~altScene)
        BY <1>2, <4>1, <4>2, <4>3, <4>5 DEF Without
      <4> QED BY <4>4, <4>5
    <3>3. CASE HandleClear
      <4>1. e.event = "clear" /\ altScene' = altScene /\ anchors' = Without(altScene)
        BY <3>3 DEF HandleClear, Handles
      <4> HIDE DEF e
      <4> QED BY <4>1 DEF Screen, Shift, Without
    <3>4. CASE HandleMarker
      <4>1. /\ e.event = "marker" /\ altScene' = altScene
            /\ anchors' = [anchors EXCEPT ![e.anchor] = At(e.line, e.alternate)]
        BY <3>4 DEF HandleMarker, Handles
      <4>2. \A a \in Anchors : Shift(a, anchors[a], altScene, e) =
              IF e.anchor = a THEN At(e.line, e.alternate) ELSE anchors[a]
        BY <4>1 DEF Shift
      <4> HIDE DEF e
      <4> QED BY <1>2, <4>1, <4>2 DEF Screen
    <3> QED BY <1>4, <3>1, <3>2, <3>3, <3>4
  <2>3. anchors' \in [Anchors -> Positions] /\ text' \in [Anchors -> Positions]
    BY <1>2, <1>3, <2>1, <2>2
  <2>4. \A a \in Anchors : HandledAnchor(a, e, altScene, anchors[a], text[a], anchors'[a], text'[a])
    BY <2>1, <2>2 DEF HandledAnchor
  <2> QED BY <1>1, <2>2, <2>3, <2>4, HandleKeeps
<1>5. CASE RefuseMarker
  <2>1. /\ e.event = "marker" /\ altScene' = altScene
        /\ text' = [text EXCEPT ![e.anchor] = Gone]
        /\ anchors' = [anchors EXCEPT ![e.anchor] = Gone]
    BY <1>5 DEF RefuseMarker
  <2>2. \A a \in Anchors : Shift(a, anchors[a], altScene, e) =
          IF e.anchor = a THEN At(e.line, e.alternate) ELSE anchors[a]
    BY <2>1 DEF Shift
  <2>3. e.anchor \in Anchors
    BY <1>2, <2>1, EventKinds
  <2> HIDE DEF e
  <2>4. anchors' \in [Anchors -> Positions] /\ text' \in [Anchors -> Positions]
    BY <1>2, <2>1
  <2>5. ASSUME NEW a \in Anchors
        PROVE  HandledAnchor(a, e, altScene, anchors[a], text[a], anchors'[a], text'[a])
    BY <1>2, <2>1, <2>2, <2>3 DEF HandledAnchor
  <2>6. altScene' = Screen(altScene, e)
    BY <2>1 DEF Screen
  <2> QED BY <1>1, <2>4, <2>5, <2>6, HandleKeeps DEF e
<1> QED BY <1>4, <1>5

-----------------------------------------------------------------------------
(* The pane is resized: anchors and text are carried to the same lines.    *)
Carries(t, t2) ==
  /\ t.kind # "at" => t2 = t
  /\ t.kind = "at" => t2 # None
  /\ t2.kind = "at" => t.kind = "at" /\ t2.alternate = t.alternate
  /\ t2 \in Positions

LEMMA ResizeCarries ==
  ASSUME Types, NEW to \in Rows, NEW upPrimary \in 0 .. MaxRows, NEW upAlternate \in 0 .. MaxRows,
         Resize(to, upPrimary, upAlternate)
  PROVE  /\ hist' \in 0 .. HistMax
         /\ \E carry \in [Positions -> Positions] :
              /\ \A t \in Positions : Carries(t, carry[t])
              /\ anchors' = [a \in Anchors |-> carry[anchors[a]]]
              /\ text' = [a \in Anchors |-> carry[text[a]]]
<1> DEFINE grows == to - rows
           down  == IF grows > 0 THEN Least(hist, grows) ELSE 0
           kept  == Grown(upPrimary) - down
           Carry(t) ==
             IF t.kind # "at" THEN t
             ELSE Placed(IF t.alternate
                         THEN {l \in Resized(t.line, to, upAlternate, 0, 0) :
                                 t.line \in 0 .. rows - 1}
                         ELSE {l \in Resized(t.line, to, upPrimary, down, -kept) :
                                 t.line \in -hist .. rows - 1},
                         t.alternate)
           carry == [t \in Positions |-> Carry(t)]
<1>1. /\ MaxRows \in Nat /\ HistMax \in Nat /\ hist \in 0 .. HistMax /\ to \in Nat /\ rows \in Nat
      /\ to <= MaxRows /\ Positions \subseteq Places /\ Gone \in Positions
      /\ anchors \in [Anchors -> Positions] /\ text \in [Anchors -> Positions]
  BY PaneFacts DEF Types, Positions
<1>2. down \in Nat /\ down <= hist
  BY <1>1 DEF Least
<1>3. kept \in 0 .. HistMax
  <2>1. Grown(upPrimary) \in 0 .. HistMax
    BY GrownIn
  <2>2. Grown(upPrimary) >= hist
    BY <1>1 DEF Grown, Least
  <2> QED BY <1>1, <1>2, <2>1, <2>2
<1>4. hist' = kept
  BY DEF Resize
<1>5. anchors' = [a \in Anchors |-> Carry(anchors[a])] /\ text' = [a \in Anchors |-> Carry(text[a])]
  BY DEF Resize
<1>6. ASSUME NEW t \in Positions PROVE Carries(t, Carry(t))
  <2>1. CASE t.kind # "at"
    BY <2>1 DEF Carries
  <2>2. CASE t.kind = "at"
    <3>1. t.line \in Int /\ t.alternate \in BOOLEAN
      BY <1>1, <2>2, PlaceKinds
    <3>2. \E s \in SUBSET Lines :
            /\ Carry(t) = Placed(s, t.alternate)
            /\ s = {} \/ \E l \in Lines : s = {l}
      <4>1. ASSUME NEW up \in Nat, NEW d \in Nat, NEW top \in Int, top >= -HistMax,
                   NEW s \in SUBSET Resized(t.line, to, up, d, top)
            PROVE  s \in SUBSET Lines /\ (s = {} \/ \E l \in Lines : s = {l})
        <5> DEFINE x == t.line - up + d
        <5>1. x \in Int
          BY <3>1
        <5>2. Resized(t.line, to, up, d, top) = {l \in {x} : l < to /\ l >= top}
          BY DEF Resized
        <5> HIDE DEF x
        <5>3. x < to /\ x >= top => x \in Lines
          BY <1>1, <4>1, <5>1 DEF Lines
        <5>4. s = {} \/ (s = {x} /\ x < to /\ x >= top)
          BY <5>2
        <5> QED BY <5>3, <5>4
      <4>2. /\ upAlternate \in Nat /\ upPrimary \in Nat /\ 0 \in Nat /\ 0 \in Int /\ 0 >= -HistMax
            /\ -kept \in Int /\ -kept >= -HistMax
        BY <1>1, <1>3
      <4>3. CASE t.alternate
        <5> DEFINE s == {l \in Resized(t.line, to, upAlternate, 0, 0) : t.line \in 0 .. rows - 1}
        <5>1. s \in SUBSET Lines /\ (s = {} \/ \E l \in Lines : s = {l})
          <6>1. s \in SUBSET Resized(t.line, to, upAlternate, 0, 0)
            OBVIOUS
          <6> HIDE DEF s
          <6> QED BY <4>1, <4>2, <6>1
        <5>2. Carry(t) = Placed(s, t.alternate)
          BY <2>2, <4>3
        <5> QED BY <5>1, <5>2
      <4>4. CASE ~t.alternate
        <5> DEFINE s == {l \in Resized(t.line, to, upPrimary, down, -kept) :
                           t.line \in -hist .. rows - 1}
        <5>1. s \in SUBSET Lines /\ (s = {} \/ \E l \in Lines : s = {l})
          <6>1. s \in SUBSET Resized(t.line, to, upPrimary, down, -kept)
            OBVIOUS
          <6> HIDE DEF s, down, kept
          <6> QED BY <1>2, <4>1, <4>2, <6>1
        <5>2. Carry(t) = Placed(s, t.alternate)
          BY <2>2, <4>4
        <5> QED BY <5>1, <5>2
      <4> QED BY <4>3, <4>4
    <3> HIDE DEF Carry
    <3>3. Carry(t) = Gone \/ \E l \in Lines : Carry(t) = At(l, t.alternate)
      BY <3>2, PlacedIs
    <3>4. \A l \in Lines : At(l, t.alternate) \in Positions
      BY <3>1 DEF Positions
    <3> QED BY <1>1, <2>2, <3>3, <3>4, PlaceKinds DEF Carries
  <2> QED BY <2>1, <2>2
<1> HIDE DEF Carry, kept
<1>7. carry \in [Positions -> Positions] /\ \A t \in Positions : carry[t] = Carry(t)
  BY <1>6 DEF Carries
<1> HIDE DEF carry
<1>8. /\ \A t \in Positions : Carries(t, carry[t])
      /\ anchors' = [a \in Anchors |-> carry[anchors[a]]]
      /\ text' = [a \in Anchors |-> carry[text[a]]]
  BY <1>1, <1>5, <1>6, <1>7
<1> QED BY <1>3, <1>4, <1>7, <1>8

LEMMA ResizeKeeps ==
  ASSUME IInv, NEW to \in Rows, NEW p \in 0 .. MaxRows, NEW q \in 0 .. MaxRows, Resize(to, p, q)
  PROVE  IInv'
<1>1. /\ ~parsing /\ rows' = to
      /\ UNCHANGED <<alt, parsing, pending, queue, batch, altScene, pane>>
      /\ departed' = departed \cup (IF Settled THEN {} ELSE {"kept", "lines"})
  BY DEF Resize, Depart
<1>2. /\ Types /\ pending = NoScroll /\ Coming = queue /\ Coming' = queue
      /\ altScene \in BOOLEAN /\ alt \in BOOLEAN
      /\ anchors \in [Anchors -> Positions] /\ text \in [Anchors -> Positions]
      /\ anchors \in [Anchors -> Places] /\ text \in [Anchors -> Places]
      /\ Told(batch \o queue, altScene, anchors, alt, text, departed) /\ Graded(departed)
      /\ Positions \subseteq Places
  BY <1>1, TypeFacts, PaneFacts DEF IInv, Lengths, Types, Coming, Reported, Told
<1>3. hist' \in 0 .. HistMax
  BY <1>2, ResizeCarries
<1>4. PICK carry \in [Positions -> Positions] :
        /\ \A t \in Positions : Carries(t, carry[t])
        /\ anchors' = [a \in Anchors |-> carry[anchors[a]]]
        /\ text' = [a \in Anchors |-> carry[text[a]]]
  BY <1>2, ResizeCarries
<1>5. /\ anchors' \in [Anchors -> Positions] /\ text' \in [Anchors -> Positions]
      /\ anchors' \in [Anchors -> Places] /\ text' \in [Anchors -> Places]
      /\ \A a \in Anchors : /\ Carries(anchors[a], anchors'[a]) /\ Carries(text[a], text'[a])
                            /\ anchors[a] = text[a] => anchors'[a] = text'[a]
  BY <1>2, <1>4
<1>6. /\ \A a \in Anchors : OnScreen(anchors'[a], TRUE) => OnScreen(anchors[a], TRUE)
      /\ \A a \in Anchors : text'[a] = None => text[a] = None
  BY <1>5 DEF Carries, OnScreen
<1>7. Types'
  BY <1>1, <1>2, <1>3, <1>5, SamePane DEF Types
<1>8. Lengths'
  BY <1>1, SamePane DEF IInv, Lengths
<1>9. CASE Settled
  <2>1. queue = <<>> /\ batch = <<>> /\ departed' = departed /\ batch \o queue = <<>>
    BY <1>1, <1>9 DEF Settled
  <2>2. /\ ScreenMeets(altScene, alt, departed)
        /\ "swap" \notin departed => \A a \in Anchors : OnScreen(anchors[a], TRUE) => altScene
        /\ "lines" \notin departed => \A a \in Anchors : LineMeets(anchors[a], text[a], departed)
    <3>1. Told(<<>>, altScene, anchors, alt, text, departed)
      BY <1>2, <2>1
    <3> QED BY ONLY <1>2, <3>1, TellNothing, Zenon
  <2>3. "swap" \notin departed => \A a \in Anchors : OnScreen(anchors'[a], TRUE) => altScene
    BY <1>6, <2>2
  <2>4. ASSUME "lines" \notin departed, NEW a \in Anchors
        PROVE  LineMeets(anchors'[a], text'[a], departed)
    <3>1. LineMeets(anchors[a], text[a], departed)
      BY <2>2, <2>4
    <3> QED BY <1>5, <3>1 DEF LineMeets, Carries
  <2>5. Told(<<>>, altScene, anchors', alt, text', departed)
    BY <1>2, <1>5, <2>2, <2>3, <2>4, TellNothing
  <2>6. Reported'
    BY <1>1, <1>2, <2>1, <2>5 DEF Reported
  <2>7. Histories'
    BY <1>1, <1>2, <2>1 DEF Histories, Remembers, Joins
  <2> QED BY <1>7, <1>8, <2>6, <2>7 DEF IInv
<1>10. CASE ~Settled
  <2>1. /\ departed' = departed \cup {"kept", "lines"} /\ Graded(departed')
        /\ departed \subseteq departed' /\ "lines" \in departed'
    BY <1>1, <1>2, <1>10 DEF Graded, Levels
  <2>2. Told(batch \o queue, altScene, anchors', alt, text', departed')
    <3>1. ASSUME NEW moved \in [Anchors -> Places], NEW carried \in [Anchors -> Places],
                 NEW later, Graded(later), departed \subseteq later, "lines" \in later,
                 \A a \in Anchors : /\ OnScreen(moved[a], TRUE) => OnScreen(anchors[a], TRUE)
                                    /\ carried[a] = None => text[a] = None
          PROVE  Told(batch \o queue, altScene, moved, alt, carried, later)
      <4>1. Told(batch \o queue, altScene, anchors, alt, text, departed)
        BY <1>2
      <4> QED BY ONLY <3>1, <4>1, TellMoved
    <3>2. /\ anchors' \in [Anchors -> Places] /\ text' \in [Anchors -> Places]
          /\ Graded(departed') /\ departed \subseteq departed' /\ "lines" \in departed'
          /\ \A a \in Anchors : /\ OnScreen(anchors'[a], TRUE) => OnScreen(anchors[a], TRUE)
                                /\ text'[a] = None => text[a] = None
      BY <1>5, <1>6, <2>1
    <3> QED BY ONLY <3>1, <3>2
  <2>3. Reported'
    BY <1>1, <1>2, <2>2 DEF Reported
  <2>4. Histories'
    BY <2>1 DEF Histories, Remembers, Joins
  <2> QED BY <1>7, <1>8, <2>3, <2>4 DEF IInv
<1> QED BY <1>9, <1>10

-----------------------------------------------------------------------------
LEMMA StutterKeeps == ASSUME IInv, UNCHANGED vars PROVE IInv'
<1>1. UNCHANGED <<rows, hist, alt, text, parsing, pending, queue, batch, altScene, anchors, pane,
                  departed>>
  BY DEF vars, grid, scene
<1>2. Types'
  BY <1>1, SamePane DEF IInv, Types
<1>3. Lengths'
  BY <1>1, SamePane DEF IInv, Lengths
<1>4. Coming' = Coming /\ Size' = Size
  BY <1>1 DEF Coming, Size
<1>5. Reported' /\ Histories'
  BY <1>1, <1>4 DEF IInv, Reported, Histories
<1> QED BY <1>2, <1>3, <1>5 DEF IInv

LEMMA NextKeeps == ASSUME IInv, [Next]_vars PROVE IInv'
<1>1. CASE BeginChunk
  BY <1>1, BeginKeeps
<1>2. CASE EndChunk
  BY <1>2, EndKeeps
<1>3. ASSUME NEW start \in 0 .. MaxRows - 1, NEW origin \in 0 .. MaxRows - 1,
             NEW end \in 1 .. MaxRows, NEW lines \in -MaxRows .. MaxRows,
             GridScroll(start, end, origin, lines)
      PROVE  IInv'
  BY <1>3, ScrollKeeps
<1>4. ASSUME NEW a \in Anchors, NEW line \in 0 .. MaxRows - 1, VividMarker(a, line)
      PROVE  IInv'
  BY <1>4, MarkerKeeps
<1>5. CASE SwapAlt
  BY <1>5, SwapKeeps
<1>6. CASE (\E positions \in 0 .. MaxRows : ClearAll(positions)) \/ ClearBuffer
  BY <1>6, ClearsKeep
<1>7. CASE ClearSaved
  BY <1>7, ClearsKeep, ResetKeeps
<1>8. CASE ResetState
  BY <1>8, ResetKeeps
<1>9. CASE ResetClientState
  BY <1>9, ResetClientKeeps
<1>10. ASSUME NEW to \in Rows, NEW p \in 0 .. MaxRows, NEW q \in 0 .. MaxRows, Resize(to, p, q)
       PROVE  IInv'
  BY <1>10, ResizeKeeps
<1>11. CASE TakeEvents
  BY <1>11, TakeKeeps
<1>12. CASE HandleGridScroll \/ HandleScreenSwap \/ HandleClear \/ HandleMarker \/ RefuseMarker
  BY <1>12, HandlersKeep
<1>13. CASE UNCHANGED vars
  BY <1>13, StutterKeeps
<1> QED
  BY <1>1, <1>2, <1>3, <1>4, <1>5, <1>6, <1>7, <1>8, <1>9, <1>10, <1>11, <1>12, <1>13 DEF Next

(* What is on its way to the window's thread always makes the scene what   *)
(* the grid is, but for what has departed (queue_grid_scroll(),            *)
(* push_vivid_event(), scroll_anchors()).                                  *)
THEOREM Invariance == Spec => []IInv
<1>1. Init => IInv
  BY InitHolds
<1>2. IInv /\ [Next]_vars => IInv'
  BY NextKeeps
<1> QED BY <1>1, <1>2, PTL DEF Spec

(* When every event has been handled, each anchor is at the line it marks, *)
(* on the screen that line is on, and gone when the line is, whatever      *)
(* scrolls were merged and batches cut on the way (scroll_anchors(),       *)
(* queue_grid_scroll(), push_vivid_event()).                               *)
THEOREM AnchorsFollowText == Spec => []AnchorsKept
<1>1. IInv => AnchorsKept
  <2> SUFFICES ASSUME IInv PROVE AnchorsKept
    OBVIOUS
  <2>1. /\ Types /\ Lengths
        /\ Told(batch \o Coming, altScene, anchors, alt, text, departed) /\ Graded(departed)
        /\ "swap" \notin departed => \A a \in Anchors : OnScreen(anchors[a], TRUE) => altScene
        /\ altScene \in BOOLEAN /\ alt \in BOOLEAN
        /\ anchors \in [Anchors -> Places] /\ text \in [Anchors -> Places]
    BY DEF IInv, Reported, Told
  <2>2. TypeOK
    <3>1. pending = NoScroll \/ (pending.event = "scroll" /\ pending.origin < pending.end)
      BY <2>1 DEF Types, Scrolls
    <3>2. Len(queue) <= Limit + 2 /\ Len(batch) <= Limit + 2
      <4>1. Limit \in Nat /\ Len(queue) \in Nat /\ Len(batch) \in Nat
        BY <2>1, PaneFacts DEF Types
      <4> QED BY <2>1, <4>1 DEF Lengths
    <3>3. departed \subseteq {"kept", "lines", "screen", "swap"}
      BY <2>1 DEF Graded, Levels
    <3> QED BY <2>1, <3>1, <3>2, <3>3 DEF TypeOK, Types
  <2>3. ASSUME Settled
        PROVE  /\ "screen" \notin departed => altScene = alt
               /\ "lines" \notin departed =>
                    \A a \in Anchors : LineMeets(anchors[a], text[a], departed)
    <3>1. batch \o Coming = <<>>
      BY <2>3 DEF Settled, Coming
    <3>2. Told(<<>>, altScene, anchors, alt, text, departed)
      BY <2>1, <3>1
    <3>3. /\ ScreenMeets(altScene, alt, departed)
          /\ "lines" \notin departed =>
               \A a \in Anchors : LineMeets(anchors[a], text[a], departed)
      BY ONLY <2>1, <3>2, TellNothing, Zenon
    <3> QED BY <3>3 DEF ScreenMeets
  <2>4. Aligned
    BY <2>3 DEF Aligned, LineMeets
  <2>5. Kept
    <3>1. "kept" \notin departed => "lines" \notin departed
      BY <2>1 DEF Graded
    <3> QED BY <2>3, <3>1 DEF Kept, LineMeets
  <2>6. ScreenAgrees
    BY <2>1, <2>3 DEF ScreenAgrees
  <2> QED BY <2>2, <2>4, <2>5, <2>6 DEF AnchorsKept, AnchorsFollow
<1> QED BY <1>1, Invariance, PTL
===============================================================================
