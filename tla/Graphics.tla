------------------------------ MODULE Graphics ------------------------------
(***************************************************************************)
(* Kitty graphics.  The PTY reader parses commands that transmit, place    *)
(* and delete images.  A compressed image is stored without pixels and its *)
(* decode queued; after each batch of input the reader takes the decodes,  *)
(* runs them with the terminal unlocked, and installs the results.         *)
(* Meanwhile the UI thread may resize or clear the terminal.  A panic of   *)
(* the reader, in a parse or in a decode, quarantines the pane for good:   *)
(* the decodes taken are lost and nothing is read any more.                *)
(*                                                                         *)
(* An image counts one unit against the quota and covers one row of a      *)
(* one-column screen; pixels are present or not, opaque or not.            *)
(***************************************************************************)
EXTENDS Integers, FiniteSetsExt, SequencesExt

CONSTANTS
    Commands,      \* control data: [action, id, number, placement, unicode, quiet, more] records
    Deletes,       \* delete commands: [delete, upper, id, number, placement] records
    MAX_IMAGES, MAX_PLACEMENTS, MAX_JOBS, MAX_REPLIES,
    ScreenLines, History,    \* lines of the screen; of a full scrollback
    MaxSteps       \* bound: commands and screen operations

VARIABLES
    screens, active,     \* ImageStore of the primary (1) and the alternate screen (2)
    sink, command,       \* the APC being received
    loader,              \* the transmission in progress: none or one
    jobs, handed,        \* decodes queued; taken by the reader and not finished
    last_job, last_uid,  \* counters
    replies,             \* [n, seq] in order: n numbers them, seq = 0 if ready
    answered, asked,     \* numbers of the last reply written and the last one queued
    steps,
    faulted              \* the reader has panicked: the pane is quarantined

vars == <<screens, active, sink, command, loader, jobs, handed, last_job, last_uid, replies,
          answered, asked, steps, faulted>>

NoLoad == <<>>
NoCommand == <<>>
EmptyStore == [images |-> <<>>, ids |-> <<>>, placements |-> <<>>, last_key |-> 0, clock |-> 0,
               stored |-> 0, virtual_count |-> 0]

Without(f, S) == [x \in DOMAIN f \ S |-> f[x]]
With(f, x, y) == [z \in DOMAIN f \cup {x} |-> IF z = x THEN y ELSE f[z]]

(***************************************************************************)
(* ImageStore.                                                             *)
(***************************************************************************)
Bit(b) == IF b THEN 1 ELSE 0
Virtual(ps) == Len(SelectSeq(ps, LAMBDA p : p.is_virtual))
end_row(p) == p.row + 1

key_by_number(st, number) ==
    LET ks == {k \in DOMAIN st.images : st.images[k].number = number}
    IN  IF ks = {} THEN {} ELSE {Max(ks)}

key_by_id(st, id) == IF id \in DOMAIN st.ids THEN {st.ids[id]} ELSE {}

free_id(st) == Min({i \in 1..(Cardinality(DOMAIN st.ids) + 1) : i \notin DOMAIN st.ids})

(* remove_image, for each of keys; the placements are only searched for an *)
(* image that counts some.                                                 *)
remove_image(st, keys) ==
    LET ks    == keys \cap DOMAIN st.images
        shown == {k \in ks : st.images[k].refs > 0}
        kept  == SelectSeq(st.placements, LAMBDA p : p.image \notin shown)
    IN  [st EXCEPT !.images = Without(@, ks),
                   !.ids = Without(@, {i \in DOMAIN st.ids : st.ids[i] \in ks}),
                   !.placements = kept,
                   !.virtual_count = @ - (Virtual(st.placements) - Virtual(kept)),
                   !.stored = @ - Cardinality(ks)]

Freed(image, how) ==
    /\ image.refs = 0
    /\ CASE how = "Unaddressable"        -> image.id = 0
         [] how = "MatchedUnaddressable" -> image.matched /\ image.id = 0
         [] how = "Matched"              -> image.matched
         [] how = "Unreferenced"         -> TRUE

reap(st, how) ==
    LET doomed == {k \in DOMAIN st.images : Freed(st.images[k], how)}
    IN  remove_image([st EXCEPT !.images = [k \in DOMAIN @ |-> [@[k] EXCEPT !.matched = FALSE]]],
                     doomed)

(* remove_where: Kill selects by what Move made of a placement. *)
remove_where(st, Move(_), Kill(_), how) ==
    LET orphan(p) == p.image \notin DOMAIN st.images
        moved == [i \in DOMAIN st.placements |->
                     IF orphan(st.placements[i]) THEN st.placements[i] ELSE Move(st.placements[i])]
        hit   == {i \in DOMAIN moved : ~orphan(moved[i]) /\ Kill(moved[i])}
        hits(k) == Cardinality({i \in hit : moved[i].image = k})
    IN  reap([st EXCEPT
                !.placements = SelectSeq(moved, LAMBDA p : ~orphan(p) /\ ~Kill(p)),
                !.virtual_count = @ - Cardinality({i \in hit : moved[i].is_virtual}),
                !.images = [k \in DOMAIN @ |->
                               [@[k] EXCEPT !.refs = @ - hits(k), !.matched = @ \/ hits(k) > 0]]],
             how)

Still(p) == p

insert(st, start, pixels, opaque) ==
    LET swept == reap(st, "Unaddressable")
        key   == swept.last_key + 1
        image == [uid |-> last_uid + 1, id |-> start.id, number |-> start.number, refs |-> 0,
                  pixels |-> pixels, opaque |-> opaque, used |-> swept.clock + 1, matched |-> FALSE]
    IN  [swept EXCEPT !.last_key = key, !.clock = @ + 1, !.stored = @ + 1,
                      !.images = With(@, key, image),
                      !.ids = IF start.id = 0 THEN @ ELSE With(@, start.id, key)]

(* enforce_quota: what is not shown goes, then the least recently used. *)
enforce_quota(st, keep) ==
    LET over   == st.stored > MAX_IMAGES
        idle   == {k \in DOMAIN st.images : st.images[k].refs = 0 /\ k # keep}
        rest   == remove_image(st, idle)
        others == DOMAIN rest.images \ {keep}
        older(k) == Cardinality({j \in others : rest.images[j].used < rest.images[k].used})
    IN  IF over THEN remove_image(rest, {k \in others : older(k) < rest.stored - MAX_IMAGES})
        ELSE st

(* put: a placement id used on this image moves its placement; an opaque   *)
(* image retires what it covers and nothing can address.                   *)
put(st, key, c, row) ==
    LET image    == st.images[key]
        id       == IF image.id = 0 THEN 0 ELSE c.placement
        same     == {i \in DOMAIN st.placements :
                        id # 0 /\ st.placements[i].image = key /\ st.placements[i].id = id}
        existing == same # {}
        at       == IF existing THEN Min(same) ELSE 0
        p        == [key |-> IF existing THEN st.placements[at].key ELSE st.last_key + 1,
                     image |-> key, id |-> id, is_virtual |-> c.unicode,
                     row |-> IF c.unicode THEN 0 ELSE row]
        was      == IF existing THEN Bit(st.placements[at].is_virtual) ELSE 0
        placed   == [st EXCEPT
                       !.clock = @ + 1,
                       !.last_key = IF existing THEN @ ELSE @ + 1,
                       !.virtual_count = @ - was + Bit(c.unicode),
                       !.placements = IF existing THEN [@ EXCEPT ![at] = p] ELSE Append(@, p),
                       !.images[key].used = st.clock + 1,
                       !.images[key].refs = IF existing THEN @ ELSE @ + 1]
        Covered(q) == /\ q.key # p.key /\ ~q.is_virtual /\ q.id = 0 /\ q.row = p.row
                      /\ q.image = key \/ placed.images[q.image].id = 0
        cleaned  == IF image.opaque /\ ~c.unicode
                    THEN remove_where(placed, Still, Covered, "Unaddressable") ELSE placed
        oldest   == cleaned.placements[1].key
    IN  IF Len(cleaned.placements) > MAX_PLACEMENTS
        THEN remove_where(cleaned, Still, LAMBDA q : q.key = oldest, "Unaddressable")
        ELSE cleaned

(* delete: the selectors by name, by number, by range of ids, of all that  *)
(* is visible, and by position (the row of the cursor).                    *)
delete(st, d, row) ==
    LET how    == IF d.upper THEN "Matched" ELSE "MatchedUnaddressable"
        keys   == IF d.delete = "i" THEN key_by_id(st, d.id) ELSE key_by_number(st, d.number)
        in_range(k) == k \in DOMAIN st.images /\ st.images[k].id = d.id
        spared == {k \in DOMAIN st.images : st.images[k].refs = 0 /\ in_range(k)}
    IN  CASE d.delete = "a" ->
                remove_where(st, Still, LAMBDA p : ~p.is_virtual /\ end_row(p) > 0, how)
          [] d.delete \in {"i", "n"} ->
                IF keys = {} THEN st
                ELSE LET key == CHOOSE k \in keys : TRUE
                     IN  IF st.images[key].refs = 0 /\ d.placement = 0
                         THEN IF d.upper THEN remove_image(st, keys) ELSE st
                         ELSE remove_where(st, Still,
                                LAMBDA p : p.image = key /\ (d.placement = 0 \/ p.id = d.placement), how)
          [] d.delete = "r" ->
                remove_where(IF d.upper THEN remove_image(st, spared) ELSE st,
                             Still, LAMBDA p : in_range(p.image), how)
          [] d.delete = "c" ->
                remove_where(st, Still, LAMBDA p : ~p.is_virtual /\ p.row = row, how)

clear(st, history) ==
    remove_where(st, Still, LAMBDA p : ~p.is_virtual /\ (history \/ end_row(p) > 0), "Unreferenced")

clear_history(st) ==
    remove_where(st, Still, LAMBDA p : ~p.is_virtual /\ end_row(p) <= 0, "Unreferenced")

(* scroll of lines top..end-1: the whole screen carries everything along   *)
(* and expires what leaves the scrollback; a region what lies inside it.   *)
scroll(st, top, end, lines, history_top) ==
    LET full == top = 0 /\ end = ScreenLines
        delta == -lines
        fixed(p) == p.is_virtual \/ (IF full THEN delta > 0 /\ end_row(p) <= 0
                                     ELSE p.row < top \/ p.row >= end)
        Move(p) == IF fixed(p) THEN p ELSE [p EXCEPT !.row = @ + delta]
        unfixed == {st.placements[i].key : i \in {j \in DOMAIN st.placements : ~fixed(st.placements[j])}}
        Kill(p) == /\ p.key \in unfixed
                   /\ IF full THEN end_row(p) <= history_top \/ p.row >= ScreenLines
                      ELSE p.row < top \/ p.row >= end
    IN  IF Len(st.placements) = st.virtual_count THEN st
        ELSE remove_where(st, Move, Kill, "Unaddressable")

(***************************************************************************)
(* Replies.                                                                *)
(***************************************************************************)
reply_wanted(c) == c.quiet < 2 /\ (c.id # 0 \/ c.number # 0)
Speaks(c, ok) == reply_wanted(c) /\ ~(ok /\ c.quiet = 1)

(* rs with one more reply, ready if seq = 0. *)
WithReply(rs, wanted, seq) ==
    IF wanted /\ Len(rs) < MAX_REPLIES THEN Append(rs, [n |-> asked + 1, seq |-> seq]) ELSE rs

ReadyPrefix(rs) ==
    LET pending == {i \in DOMAIN rs : rs[i].seq # 0}
    IN  IF pending = {} THEN Len(rs) ELSE Min(pending) - 1

(* flush_graphics_replies. *)
Flush(rs) ==
    LET k == ReadyPrefix(rs)
    IN  /\ replies' = SubSeq(rs, k + 1, Len(rs))
        /\ answered' = IF k = 0 THEN answered ELSE rs[k].n
        /\ asked' = IF rs # <<>> /\ Last(rs).n > asked THEN Last(rs).n ELSE asked

(***************************************************************************)
(* Commands, parsed by the PTY reader between two batches of decodes.      *)
(***************************************************************************)
Step == steps < MaxSteps /\ steps' = steps + 1
Parsing == handed = <<>> /\ ~faulted
Store == screens[active]

continues(c) ==
    /\ loader # NoLoad
    /\ IF loader[1].start.action = "f" THEN c.action = "f" ELSE c.action \in {"t", "T", "q"}

(* control_complete and begin_load: a retransmitted id is replaced at once *)
(* and a number is given an id.                                            *)
ControlComplete(c) ==
    /\ Parsing /\ Step
    /\ sink = "idle"
    /\ command' = c
    /\ sink' = IF c.action \in {"t", "T", "q", "f"} THEN "feeding" ELSE "plain"
    /\ LET begins == c.action \in {"t", "T", "q", "f"} /\ ~continues(c)
           both   == c.action # "f" /\ c.id # 0 /\ c.number # 0
           named  == begins /\ ~both /\ c.action \in {"t", "T"}
       IN  /\ screens' = IF named /\ c.id # 0
                         THEN [screens EXCEPT ![active] = remove_image(@, key_by_id(@, c.id))]
                         ELSE screens
           /\ loader' = IF ~begins THEN loader
                        ELSE << [start |-> IF named /\ c.id = 0 /\ c.number # 0
                                           THEN [c EXCEPT !.id = free_id(Store)] ELSE c,
                                 rejected |-> both \/ c.action = "f"] >>
    /\ UNCHANGED <<active, jobs, handed, last_job, last_uid, replies, answered, asked>>

(* load_complete with data that turns out as: "bad", "clear" or "opaque"   *)
(* pixels, decoded now if too many wait, or compressed ("job"), whose       *)
(* opacity nobody knows yet.                                               *)
load_complete(start, data, row) ==
    LET query == start.action = "q"
        defer == data = "job"
        seq   == last_job + 1
        added == insert(Store, start, ~defer, data = "opaque")
        key   == added.last_key
        shown == IF start.action = "T" THEN put(added, key, start, row) ELSE added
        job   == [seq |-> seq, command |-> start, screen |-> active,
                  key |-> IF query THEN 0 ELSE key, uid |-> IF query THEN 0 ELSE last_uid + 1]
    IN  /\ defer => Len(jobs) < MAX_JOBS
        /\ Flush(WithReply(replies,
                           (query => start.id # 0)
                           /\ IF defer THEN reply_wanted(start) ELSE Speaks(start, data # "bad"),
                           IF defer THEN seq ELSE 0))
        /\ IF defer /\ (query => start.id # 0)
           THEN jobs' = Append(jobs, job) /\ last_job' = seq
           ELSE UNCHANGED <<jobs, last_job>>
        /\ IF query \/ data = "bad" THEN UNCHANGED <<screens, last_uid>>
           ELSE /\ screens' = [screens EXCEPT ![active] = enforce_quota(shown, key)]
                /\ last_uid' = last_uid + 1

(* apc_end of a transmission's chunk. *)
ChunkEnds(data, row) ==
    /\ Parsing
    /\ sink = "feeding"
    /\ sink' = "idle" /\ command' = NoCommand
    /\ LET start == [loader[1].start EXCEPT !.quiet = IF command.quiet # 0 THEN command.quiet ELSE @]
       IN  \/ /\ loader = NoLoad \/ command.more
              /\ loader' = IF loader = NoLoad THEN loader ELSE [loader EXCEPT ![1].start = start]
              /\ UNCHANGED <<screens, jobs, last_job, last_uid, replies, answered, asked>>
           \/ /\ loader # NoLoad /\ ~command.more
              /\ loader[1].rejected => data = "bad"
              /\ loader' = NoLoad
              /\ load_complete(start, data, row)
    /\ UNCHANGED <<active, handed, steps>>

(* apc_end of a put or a delete. *)
PlaceEnds(row) ==
    /\ Parsing
    /\ sink = "plain" /\ command.action = "p"
    /\ sink' = "idle" /\ command' = NoCommand
    /\ LET c    == command
           keys == IF c.id # 0 THEN key_by_id(Store, c.id) ELSE key_by_number(Store, c.number)
           key  == CHOOSE k \in keys : TRUE
           fine == ~(c.id # 0 /\ c.number # 0) /\ keys # {}
       IN  /\ Flush(WithReply(replies,
                              (c.id # 0 \/ c.number # 0)
                              /\ Speaks(IF fine THEN [c EXCEPT !.id = Store.images[key].id] ELSE c, fine), 0))
           /\ screens' = IF fine /\ (c.id # 0 \/ c.number # 0)
                         THEN [screens EXCEPT ![active] = put(@, key, c, row)] ELSE screens
    /\ UNCHANGED <<active, loader, jobs, handed, last_job, last_uid, steps>>

DeleteEnds(d, row) ==
    /\ Parsing /\ Step
    /\ sink = "idle"
    /\ loader' = NoLoad
    /\ screens' = [screens EXCEPT ![active] = delete(@, d, row)]
    /\ Flush(replies)
    /\ UNCHANGED <<active, sink, command, jobs, handed, last_job, last_uid>>

(* CAN or SUB. *)
Cancelled ==
    /\ Parsing
    /\ sink # "idle"
    /\ loader' = IF sink = "feeding" THEN NoLoad ELSE loader
    /\ sink' = "idle" /\ command' = NoCommand
    /\ Flush(replies)
    /\ UNCHANGED <<screens, active, jobs, handed, last_job, last_uid, steps>>

(***************************************************************************)
(* The rest of the terminal, on the PTY reader.                            *)
(***************************************************************************)
jobVars == <<jobs, handed, last_job, last_uid, replies, answered, asked>>

Scrolls(top, end, lines) ==
    /\ Parsing /\ Step /\ sink = "idle"
    /\ screens' = [screens EXCEPT ![active] =
                      scroll(@, top, end, lines, IF active = 1 THEN -History ELSE 0)]
    /\ UNCHANGED <<active, sink, command, loader, jobVars>>

ClearScreen(history) ==
    /\ Parsing /\ Step /\ sink = "idle"
    /\ screens' = [screens EXCEPT ![active] = clear(@, history)]
    /\ UNCHANGED <<active, sink, command, loader, jobVars>>

ClearHistory ==
    /\ Parsing /\ Step /\ sink = "idle"
    /\ screens' = [screens EXCEPT ![active] = clear_history(@)]
    /\ UNCHANGED <<active, sink, command, loader, jobVars>>

set_alternate ==
    /\ Parsing /\ Step /\ sink = "idle"
    /\ loader' = NoLoad
    /\ screens' = [screens EXCEPT ![2] = clear(@, TRUE)]
    /\ active' = 3 - active
    /\ UNCHANGED <<sink, command, jobVars>>

reset_mut ==
    /\ Parsing /\ Step
    /\ screens' = <<EmptyStore, EmptyStore>> /\ active' = 1
    /\ sink' = "idle" /\ command' = NoCommand /\ loader' = NoLoad
    /\ jobs' = <<>>
    /\ UNCHANGED <<handed, last_job, last_uid, replies, answered, asked>>

reset ==
    /\ Parsing /\ Step
    /\ screens' = <<EmptyStore, EmptyStore>> /\ active' = 1
    /\ sink' = "idle" /\ command' = NoCommand /\ loader' = NoLoad
    /\ jobs' = <<>> /\ replies' = <<>>
    /\ UNCHANGED <<handed, last_job, last_uid, answered, asked>>

(***************************************************************************)
(* The UI thread, whenever the terminal is unlocked.                       *)
(***************************************************************************)

(* A resize moves each placement with its first cell, or loses it. *)
Resize(row, lost) ==
    /\ Step
    /\ LET Move(p) == IF p.is_virtual THEN p ELSE [p EXCEPT !.row = row]
           Kill(p) == ~p.is_virtual /\ p.key \in lost
       IN  screens' = [s \in 1..2 |-> remove_where(screens[s], Move, Kill, "Unaddressable")]
    /\ UNCHANGED <<active, sink, command, loader, jobVars>>

(* Clear the screen and its scrollback around the prompt. *)
ClearAround ==
    /\ Step
    /\ screens' = [screens EXCEPT ![active] = clear(@, TRUE)]
    /\ UNCHANGED <<active, sink, command, loader, jobVars>>

(***************************************************************************)
(* Decodes.                                                                *)
(***************************************************************************)
take_jobs ==
    /\ Parsing /\ jobs # <<>>
    /\ handed' = jobs /\ jobs' = <<>>
    /\ UNCHANGED <<screens, active, sink, command, loader, last_job, last_uid, replies, answered,
                   asked, steps>>

(* finish_jobs, one result: pixels, clear or opaque, land on the image the *)
(* decode was started for, if that is still there; bad data removes it.    *)
(* Its reply becomes ready in place, or is dropped if it turns out silent. *)
FinishJob(data) ==
    /\ handed # <<>>
    /\ handed' = Tail(handed)
    /\ LET job  == Head(handed)
           ok   == data # "bad"
           st   == screens[job.screen]
           live == job.key \in DOMAIN st.images /\ st.images[job.key].uid = job.uid
           slot == {i \in DOMAIN replies : replies[i].seq = job.seq}
           at   == CHOOSE i \in slot : TRUE
           rs   == IF slot = {} THEN replies
                   ELSE IF Speaks(job.command, ok) THEN [replies EXCEPT ![at].seq = 0]
                   ELSE RemoveAt(replies, at)
       IN  /\ screens' = IF ~live THEN screens
                         ELSE IF ok THEN [screens EXCEPT
                                            ![job.screen].images[job.key].pixels = TRUE,
                                            ![job.screen].images[job.key].opaque = data = "opaque"]
                         ELSE [screens EXCEPT ![job.screen] = remove_image(@, {job.key})]
           /\ IF Tail(handed) = <<>> THEN Flush(rs) ELSE replies' = rs /\ UNCHANGED <<answered, asked>>
    /\ UNCHANGED <<active, sink, command, loader, jobs, last_job, last_uid, steps>>

(* A panic while the reader parses or decodes, caught around pty_read:     *)
(* what it had taken is dropped, the images are not.  The parser's state,  *)
(* which goes as well, is not read again: the pane is quarantined.  With   *)
(* no decode owed a panic takes nothing from the images.                   *)
ReaderPanics ==
    /\ jobs # <<>> \/ handed # <<>>
    /\ ~faulted /\ faulted' = TRUE
    /\ handed' = <<>>
    /\ UNCHANGED <<screens, active, sink, command, loader, jobs, last_job, last_uid, replies,
                   answered, asked, steps>>

Init ==
    /\ screens = <<EmptyStore, EmptyStore>> /\ active = 1
    /\ sink = "idle" /\ command = NoCommand /\ loader = NoLoad
    /\ jobs = <<>> /\ handed = <<>> /\ last_job = 0 /\ last_uid = 0
    /\ replies = <<>> /\ answered = 0 /\ asked = 0 /\ steps = 0
    /\ faulted = FALSE

Rows == 0..(ScreenLines - 1)
PlacementKeys == UNION {{screens[s].placements[i].key : i \in DOMAIN screens[s].placements} : s \in 1..2}

Operation ==
    \/ \E c \in Commands : ControlComplete(c)
    \/ \E data \in {"bad", "clear", "opaque", "job"}, row \in Rows : ChunkEnds(data, row)
    \/ \E row \in Rows : PlaceEnds(row) \/ \E d \in Deletes : DeleteEnds(d, row)
    \/ Cancelled \/ reset \/ set_alternate \/ ClearHistory \/ ClearAround
    \/ \E history \in BOOLEAN : ClearScreen(history)
    \/ \E top \in Rows, lines \in {1, -1} : \E end \in (top + 1)..ScreenLines : Scrolls(top, end, lines)
    \/ \E row \in Rows, lost \in SUBSET PlacementKeys : Resize(row, lost)
    \/ take_jobs \/ \E data \in {"bad", "clear", "opaque"} : FinishJob(data)

Next == (Operation /\ UNCHANGED faulted) \/ ReaderPanics

Spec == Init /\ [][Next]_vars
-----------------------------------------------------------------------------
ImagesOf(st) == {st.images[k] : k \in DOMAIN st.images}

(* The books of each store agree: an image counts its placements, every    *)
(* placement shows an image that exists, an id names the image that        *)
(* carries it, and the counts of bytes and of virtual placements are exact *)
(* (remove_where and reap).                                                *)
BooksBalance ==
    \A s \in 1..2 :
        LET st == screens[s]
        IN  /\ \A i \in DOMAIN st.placements : st.placements[i].image \in DOMAIN st.images
            /\ \A k \in DOMAIN st.images :
                  /\ st.images[k].refs = Len(SelectSeq(st.placements, LAMBDA p : p.image = k))
                  /\ st.images[k].id # 0 => st.ids[st.images[k].id] = k
            /\ \A i \in DOMAIN st.ids : st.images[st.ids[i]].id = i
            /\ st.virtual_count = Virtual(st.placements)
            /\ st.stored = Cardinality(DOMAIN st.images) /\ st.stored <= MAX_IMAGES

(* Until the pane is quarantined no image waits for pixels nobody decodes   *)
(* and no reply for a decode nobody runs; what is held back goes out in the *)
(* order it was queued.  A panic leaves both waiting, and a quarantined     *)
(* pane ignores the reset that would forget them.                          *)
NothingWaitsInVain ==
    LET running == {(jobs \o handed)[i] : i \in 1..(Len(jobs) + Len(handed))}
    IN  ~faulted =>
        /\ \A s \in 1..2 : \A image \in ImagesOf(screens[s]) :
              image.pixels \/ \E j \in running : j.uid = image.uid /\ j.screen = s
        /\ \A i \in DOMAIN replies :
              /\ replies[i].n > (IF i = 1 THEN answered ELSE replies[i - 1].n)
              /\ replies[i].seq # 0 => \E j \in running : j.seq = replies[i].seq
        /\ replies # <<>> => \E j \in running : \E i \in DOMAIN replies : j.seq = replies[i].seq

(* Kitty graphics stay whole whatever arrives while images decode, and      *)
(* wait for nothing as long as the reader has not panicked.                *)
ImagesKept == BooksBalance /\ NothingWaitsInVain
=============================================================================
