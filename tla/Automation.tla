----------------------------- MODULE Automation -----------------------------
(***************************************************************************)
(* The automation server: each IPC connection has a reader thread, which   *)
(* admits requests and posts them to the event loop, and a writer thread,  *)
(* which drains a bounded queue of answers.  The event loop answers a      *)
(* request at once, or holds it until something happens: a PTY write       *)
(* completes, a condition of the window is met, a paced gesture has played *)
(* out, a screenshot is read back and encoded on another thread, the host  *)
(* application replies.  A held request ends early when its deadline       *)
(* passes, its window closes, the terminal client faults or its client     *)
(* goes away.                                                              *)
(*                                                                         *)
(* Deadlines are flags (due, late) that time may raise; the one automation *)
(* timer of a window is a flag, because it is always set to the nearest    *)
(* deadline.  Every condition of `wait` that compares a sequence number    *)
(* with the one at registration (text, output, screen, frame, prompt,      *)
(* track, trace) is the kind "seq".  Sizes, payloads and encodings are     *)
(* left out; subscriptions are in EventHub.                                *)
(***************************************************************************)
EXTENDS Naturals, FiniteSets, SequencesExt

CONSTANTS
    Conns,          \* client connections
    Wins,           \* terminal windows
    Ids,            \* request IDs clients choose from
    None,           \* no token, no gesture, no screenshot
    Loads,          \* what the clients ask and what else happens: records
                    \* [asks : Conns -> Seq(Kinds), ids : Conns -> SUBSET Ids, ops : SUBSET Ops]
    OutCap,         \* OUTPUT_QUEUE_FRAMES
    MaxInFlight,    \* MAX_IN_FLIGHT_REQUESTS
    MaxConnections, \* MAX_CONNECTIONS
    Points,         \* points of a paced gesture
    MaxSeq          \* bound on sequence numbers, finished commands and resizes

Kinds == {"ping", "host", "write", "seq", "finish", "exit", "resize", "gesture",
          "path", "shot", "reset", "restart", "close"}
Ops   == {"hello", "drop", "fault", "exit", "hold", "activity", "commands", "resized"}

VARIABLES
    load,      \* the member of Loads this behaviour follows
    asked,     \* how many requests of its script each client has sent
    reader,    \* each connection's reader: "new", "hello", "open", "left", "refused"
    ep,        \* ConnectionInner: [alive, inFlight, out], out counting the frames queued
    inbox,     \* events posted by each reader and not handled yet
    win,       \* WindowContext and its AutomationWindowState
    gesture,   \* Processor.paced_gestures
    timer,     \* windows whose Topic::Automation timer is scheduled
    tick,      \* windows with an AutomationTick in the event queue
    host,      \* Processor.host_requests and what the host has taken from it
    encoders,  \* screenshot encoder threads
    encoded,   \* windows with a ScreenshotComplete in the event queue, counted
    records,   \* windows in Processor.exit_records
    pressed,   \* windows whose application holds a mouse button down
    token,     \* AutomationHub.next_write_token
    replaced   \* history: screenshot requests whose place a later one took

connVars == <<asked, reader>>
loopVars == <<host, encoders, encoded, records>>
vars == <<load, connVars, ep, inbox, win, gesture, timer, tick, loopVars, pressed, token, replaced>>

Request == [conn : Conns, id : Ids]
Waiter  == [conn : Conns, id : Ids, kind : Kinds, after : Nat, token : Nat \cup {None},
            complete : BOOLEAN, due : BOOLEAN,
            met : BOOLEAN, misled : BOOLEAN]     \* history: its condition came true; unseen
Write   == [conn : Conns, id : Ids, token : Nat, due : BOOLEAN]
Gesture == [conn : Conns, id : Ids, next : 0..Points, due : BOOLEAN, late : BOOLEAN]
Window  == [open : BOOLEAN, hold : BOOLEAN, exiting : BOOLEAN, exited : BOOLEAN,
            health : {"healthy", "quarantined", "recovering"},
            link : {"up", "left", "cut"},
            seq : 0..MaxSeq, finished : 0..MaxSeq, tokens : SUBSET Nat,
            resizes : 0..MaxSeq, pending : 0..MaxSeq, fits : BOOLEAN,
            waiters : Seq(Waiter), writes : Seq(Write), shot : Request \cup {None},
            busy : BOOLEAN, polling : BOOLEAN]

(***************************************************************************)
(* The connection (polling/ipc.rs).                                        *)
(***************************************************************************)

(* IpcConnection::close. *)
closed(e, c) == [e EXCEPT ![c].alive = FALSE]

(* queue_json: a full queue is reported to the caller, a closed connection *)
(* takes nothing.                                                          *)
queue_json(e, c) ==
    IF e[c].alive /\ e[c].out < OutCap THEN [e EXCEPT ![c].out = @ + 1] ELSE e

(* finish_request, for a reply or an error: the ID becomes free before the *)
(* answer is queued, and a client that does not read is cut off.           *)
finish_request(e, r) ==
    LET c == r.conn
        freed == [e EXCEPT ![c].inFlight = @ \ {r.id}]
    IN  IF ~e[c].alive THEN e
        ELSE IF e[c].out >= OutCap THEN closed(freed, c)
        ELSE queue_json(freed, c)

finish_all(e, requests) == FoldLeft(finish_request, e, requests)

Serving == {c \in Conns : reader[c] \in {"hello", "open"}}

(* IpcListener::process_message and spawn_connection. *)
Connect(c) ==
    /\ reader[c] = "new"
    /\ reader' = [reader EXCEPT ![c] = IF Cardinality(Serving) >= MaxConnections
                                       THEN "refused" ELSE "hello"]
    /\ UNCHANGED <<load, asked, ep, inbox, win, gesture, timer, tick, loopVars, pressed, token>>

Post(c, kind, id) == inbox' = [inbox EXCEPT ![c] = Append(@, [kind |-> kind, id |-> id])]

(* run_connection reads the first frame: a good hello is admitted and      *)
(* answered by the event loop, anything else is answered and the reader    *)
(* leaves.                                                                 *)
Hello(c, id, good) ==
    /\ reader[c] = "hello"
    /\ id \in load.ids[c]
    /\ IF good
       THEN /\ ep' = [ep EXCEPT ![c].inFlight = @ \cup {id}]
            /\ Post(c, "ping", id)
            /\ reader' = [reader EXCEPT ![c] = "open"]
       ELSE /\ "drop" \in load.ops
            /\ ep' = closed(finish_request(ep, [conn |-> c, id |-> id]), c)
            /\ Post(c, "disconnect", id)
            /\ reader' = [reader EXCEPT ![c] = "left"]
    /\ UNCHANGED <<load, asked, win, gesture, timer, tick, loopVars, pressed, token>>

(* insert_request_id and the rest of the reader's loop: a duplicate ID and *)
(* a request over the limit are answered by the reader itself.             *)
Ask(c, id) ==
    /\ reader[c] = "open"
    /\ asked[c] < Len(load.asks[c])
    /\ id \in load.ids[c]
    /\ asked' = [asked EXCEPT ![c] = @ + 1]
    /\ IF id \in ep[c].inFlight \/ Cardinality(ep[c].inFlight) >= MaxInFlight
       THEN ep' = queue_json(ep, c) /\ UNCHANGED inbox
       ELSE /\ ep' = [ep EXCEPT ![c].inFlight = @ \cup {id}]
            /\ Post(c, load.asks[c][asked[c] + 1], id)
    /\ UNCHANGED <<load, reader, win, gesture, timer, tick, loopVars, pressed, token>>

(* The client hangs up, or the transport is shut: the reader returns and   *)
(* its supervisor retires the connection.                                  *)
ReaderLeaves(c) ==
    /\ reader[c] \in {"hello", "open"}
    /\ "drop" \in load.ops \/ ~ep[c].alive
    /\ reader' = [reader EXCEPT ![c] = "left"]
    /\ ep' = closed(ep, c)
    /\ Post(c, "disconnect", CHOOSE id \in Ids : TRUE)
    /\ UNCHANGED <<load, asked, win, gesture, timer, tick, loopVars, pressed, token>>

(* The writer thread. *)
WriterSends(c) ==
    /\ ep[c].out > 0
    /\ ep' = [ep EXCEPT ![c].out = @ - 1]
    /\ UNCHANGED <<load, connVars, inbox, win, gesture, timer, tick, loopVars, pressed, token>>

WriterFails(c) ==
    /\ "drop" \in load.ops
    /\ ep[c].out > 0
    /\ ep' = [closed(ep, c) EXCEPT ![c].out = 0]
    /\ UNCHANGED <<load, connVars, inbox, win, gesture, timer, tick, loopVars, pressed, token>>

(***************************************************************************)
(* Held requests and the window's one timer (event.rs).                    *)
(***************************************************************************)

schedule_automation_timer_mut(w, wn, g) ==
    timer' = IF wn.open /\ (wn.waiters # <<>> \/ wn.writes # <<>>) THEN timer \cup {w} ELSE timer \ {w}

(* schedule_automation_timer: is there a deadline left to wait for? *)
schedule_automation_timer(w, wn, g) ==
    timer' = IF wn.open /\ (wn.waiters # <<>> \/ wn.writes # <<>> \/ g # None)
             THEN timer \cup {w} ELSE timer \ {w}

(* The condition of a waiter. *)
Satisfied(wn, x) ==
    CASE x.kind = "seq"    -> wn.seq > x.after
      [] x.kind = "finish" -> wn.finished > x.after
      [] x.kind = "exit"   -> wn.exited
      [] x.kind = "resize" -> wn.resizes > x.after /\ x.complete /\ wn.fits
      [] x.kind = "path"   -> x.complete /\ wn.seq > x.after
      [] OTHER             -> x.complete

(* evaluate_waiters: waiters of dead connections are forgotten, overdue    *)
(* and satisfied ones are answered, the others stay in their order.        *)
evaluate_waiters(e, wn) ==
    LET step(acc, x) ==
            IF ~acc.ep[x.conn].alive THEN acc
            ELSE IF x.due \/ Satisfied(wn, x)
            THEN [acc EXCEPT !.ep = finish_request(@, x)]
            ELSE [acc EXCEPT !.waiters = Append(@, x)]
        done == FoldLeft(step, [ep |-> e, waiters |-> <<>>], wn.waiters)
    IN  [ep |-> done.ep, win |-> [wn EXCEPT !.waiters = done.waiters]]

(* The end of most handlers: evaluate, then set the timer again. *)
Settle(w, e, wn, g) ==
    LET s == evaluate_waiters(e, wn)
    IN  /\ ep' = s.ep
        /\ win' = [win EXCEPT ![w] = s.win]
        /\ gesture' = [gesture EXCEPT ![w] = g]
        /\ schedule_automation_timer(w, s.win, g)

fail_automation_requests_mut(e, wn) ==
    [ep  |-> finish_all(e, wn.writes \o wn.waiters),
     win |-> [wn EXCEPT !.writes = <<>>, !.waiters = <<>>, !.shot = None, !.busy = FALSE]]

(* fail_automation_requests. *)
fail_automation_requests(e, wn) ==
    [ep  |-> LET shot == IF wn.shot = None THEN <<>> ELSE <<wn.shot>>
             IN  finish_all(e, wn.writes \o wn.waiters \o shot),
     win |-> [wn EXCEPT !.writes = <<>>, !.waiters = <<>>, !.shot = None, !.busy = FALSE]]

NewWaiter(r, kind, after, t) ==
    [conn |-> r.conn, id |-> r.id, kind |-> kind, after |-> after, token |-> t,
     complete |-> (t = None /\ kind # "resize"), due |-> FALSE, met |-> FALSE, misled |-> FALSE]

(***************************************************************************)
(* handle_ipc_request.  The event loop takes the oldest event of a reader. *)
(***************************************************************************)
Taken(c) == inbox' = [inbox EXCEPT ![c] = Tail(@)]
Next_(c) == Head(inbox[c])
Requested(c, kinds) == inbox[c] # <<>> /\ Next_(c).kind \in kinds
Req(c) == [conn |-> c, id |-> Next_(c).id]

(* Methods answered at once, requests that name no window, and requests    *)
(* the window refuses.                                                     *)
Answer(c) == Taken(c) /\ ep' = finish_request(ep, Req(c))

HandleSimple(c) ==
    /\ Requested(c, {"ping"})
    /\ Answer(c)
    /\ UNCHANGED <<load, connVars, win, gesture, timer, tick, loopVars, pressed, token>>

(* A method the embedding host claimed is queued for it. *)
HandleHost(c) ==
    /\ Requested(c, {"host"})
    /\ Taken(c)
    /\ host' = Append(host, Req(c))
    /\ UNCHANGED <<load, connVars, ep, win, gesture, timer, tick, encoders, encoded, records, pressed, token>>

HostAnswers ==
    /\ host # <<>>
    /\ ep' = finish_request(ep, Head(host))
    /\ host' = Tail(host)
    /\ UNCHANGED <<load, connVars, inbox, win, gesture, timer, tick, encoders, encoded, records, pressed, token>>

(* Requests this window refuses: it is gone, quarantined, busy, or its PTY *)
(* worker was shut down.  A worker that left after its child still owns    *)
(* the channel, because nobody has joined it: what is sent to it is        *)
(* accepted and never done (link is "left").                               *)
Refused(wn, kind, w) ==
    \/ ~wn.open /\ ~(kind = "exit" /\ w \in records)
    \/ kind = "write" /\ (wn.health # "healthy" \/ wn.link = "cut")
    \/ kind = "path" /\ wn.link = "cut"
    \/ kind = "resize" /\ \E i \in DOMAIN wn.waiters : wn.waiters[i].kind = "resize"
    \/ kind = "gesture" /\ gesture[w] # None
    \/ kind = "shot" /\ wn.busy
    \/ kind = "reset" /\ (wn.health = "quarantined" \/ wn.link # "up")

HandleRefused(c, w) ==
    /\ inbox[c] # <<>>
    /\ Next_(c).kind \notin {"ping", "host", "disconnect"}
    /\ Refused(win[w], Next_(c).kind, w)
    /\ Answer(c)
    /\ UNCHANGED <<load, connVars, win, gesture, timer, tick, loopVars, pressed, token>>

(* A message with a completion token, sent to the PTY worker. *)
Queued(wn, t) == IF wn.link = "up" THEN wn.tokens \cup {t} ELSE wn.tokens

(* queue_ipc_input. *)
HandleWrite(c, w) ==
    /\ Requested(c, {"write"}) /\ ~Refused(win[w], "write", w)
    /\ Taken(c)
    /\ token' = token + 1
    /\ LET p == [conn |-> c, id |-> Next_(c).id, token |-> token', due |-> FALSE]
           wn == [win[w] EXCEPT !.writes = Append(@, p), !.tokens = Queued(win[w], token')]
       IN  /\ win' = [win EXCEPT ![w] = wn]
           /\ schedule_automation_timer(w, wn, gesture[w])
    /\ UNCHANGED <<load, connVars, ep, gesture, tick, loopVars, pressed>>

(* The wait methods: what each of them remembers of the window at          *)
(* registration, to recognise what comes after.                            *)
WaitsFrom(wn, kind) ==
    CASE kind = "finish" -> wn.finished
      [] kind = "resize" -> wn.resizes
      [] OTHER -> wn.seq

(* register_wait_for_target, for the waits, for `resize` and, with a token *)
(* for its bytes, for queue_gesture_input.  An exit wait on a window that  *)
(* is gone is answered from exit_records.                                  *)
HandleWait(c, w) ==
    /\ Requested(c, {"seq", "finish", "exit", "resize", "path"})
    /\ ~Refused(win[w], Next_(c).kind, w)
    /\ Taken(c)
    /\ LET kind  == Next_(c).kind
           wn    == win[w]
           after == WaitsFrom(wn, kind)
           fresh == IF kind = "path" THEN token + 1 ELSE None
       IN  IF ~wn.open
           THEN ep' = finish_request(ep, Req(c)) /\ UNCHANGED <<win, gesture, timer, token>>
           ELSE /\ token' = IF kind = "path" THEN token + 1 ELSE token
                /\ Settle(w, ep,
                          [wn EXCEPT !.waiters = Append(@, NewWaiter(Req(c), kind, after, fresh)),
                                     !.tokens = IF fresh = None THEN @ ELSE Queued(wn, fresh)],
                          gesture[w])
    /\ UNCHANGED <<load, connVars, tick, loopVars, pressed>>

(* request_screenshot; begin_screenshot may fail.  screenshot_busy says     *)
(* that nothing is pending, which is not so when the encoder of a          *)
(* screenshot given up on has cleared it: the pending one is overwritten.  *)
HandleShot(c, w, began) ==
    /\ Requested(c, {"shot"}) /\ ~Refused(win[w], "shot", w)
    /\ Taken(c)
    /\ IF began
       THEN /\ win' = [win EXCEPT ![w].shot = Req(c), ![w].busy = TRUE, ![w].polling = TRUE]
            /\ replaced' = replaced \cup ({win[w].shot} \ {None})
            /\ UNCHANGED ep
       ELSE ep' = finish_request(ep, Req(c)) /\ UNCHANGED <<win, replaced>>
    /\ UNCHANGED <<load, connVars, gesture, timer, tick, loopVars, pressed, token>>

(* reset_terminal: accepted at once, completed by the PTY worker later. *)
HandleReset(c, w) ==
    /\ Requested(c, {"reset"}) /\ ~Refused(win[w], "reset", w)
    /\ Answer(c)
    /\ win' = [win EXCEPT ![w].health = "recovering"]
    /\ UNCHANGED <<load, connVars, gesture, timer, tick, loopVars, pressed, token>>

(* restart_terminal: a new PTY, a new shell, and the old waiters. *)
HandleRestart(c, w) ==
    /\ Requested(c, {"restart"}) /\ ~Refused(win[w], "restart", w)
    /\ Answer(c)
    /\ win' = [win EXCEPT ![w].health = "healthy", ![w].link = "up", ![w].exited = FALSE,
                          ![w].finished = 0]
    /\ pressed' = pressed \ {w}
    /\ UNCHANGED <<load, connVars, gesture, timer, tick, loopVars, token>>

(* close_window: the window leaves when its Exit event is handled. *)
HandleClose(c, w) ==
    /\ Requested(c, {"close"}) /\ ~Refused(win[w], "close", w)
    /\ Answer(c)
    /\ win' = [win EXCEPT ![w].hold = FALSE, ![w].exiting = TRUE]
    /\ UNCHANGED <<load, connVars, gesture, timer, tick, loopVars, pressed, token>>

(***************************************************************************)
(* Paced gestures.  Each step of one goes through advance_paced_gesture.   *)
(***************************************************************************)

(* What advancing the gesture g of window w makes of the window, with the  *)
(* endpoints, the gesture and the button: ok says that the mouse action    *)
(* could be encoded, bytes that the last one wrote something.              *)
Advanced(w, g, e, wn, ok, bytes) ==
    LET ended(down) == [ep |-> finish_request(e, g), win |-> wn, ges |-> None, down |-> down,
                        used |-> FALSE]
        isDown == w \in pressed
        final  == g.next = Points
        waiter == NewWaiter(g, "gesture", 0, IF bytes THEN token + 1 ELSE None)
    IN  CASE g.late -> ended(FALSE)
          [] ~g.late /\ ~g.due -> [ep |-> e, win |-> wn, ges |-> g, down |-> isDown, used |-> FALSE]
          [] ~g.late /\ g.due /\ ~wn.open -> ended(isDown)
          [] ~g.late /\ g.due /\ wn.open /\ ~ok -> ended(FALSE)
          [] ~g.late /\ g.due /\ wn.open /\ ok /\ wn.link = "cut" /\ (~final \/ bytes) -> ended(FALSE)
          [] OTHER ->
             IF final
             THEN [ep |-> e, ges |-> None, down |-> FALSE, used |-> bytes,
                   win |-> [wn EXCEPT !.waiters = Append(@, waiter),
                                      !.tokens = IF bytes THEN Queued(wn, token + 1) ELSE @]]
             ELSE [ep |-> e, win |-> wn, down |-> TRUE, used |-> FALSE,
                   ges |-> [g EXCEPT !.next = @ + 1, !.due = FALSE]]

Button(w, down) == pressed' = IF down THEN pressed \cup {w} ELSE pressed \ {w}

(* start_paced_gesture: the first step is due at once. *)
HandleGesture(c, w, ok) ==
    /\ Requested(c, {"gesture"}) /\ ~Refused(win[w], "gesture", w)
    /\ Taken(c)
    /\ LET g == [conn |-> c, id |-> Next_(c).id, next |-> 0, due |-> TRUE, late |-> FALSE]
           s == Advanced(w, g, ep, win[w], ok, FALSE)
       IN  /\ ep' = s.ep
           /\ gesture' = [gesture EXCEPT ![w] = s.ges]
           /\ schedule_automation_timer(w, s.win, s.ges)
           /\ Button(w, s.down)
    /\ UNCHANGED <<load, connVars, win, tick, loopVars, token>>

(***************************************************************************)
(* The timer and its tick.                                                 *)
(***************************************************************************)
OverdueIn(w) ==
    \/ gesture[w] # None /\ (gesture[w].due \/ gesture[w].late)
    \/ \E i \in DOMAIN win[w].writes : win[w].writes[i].due
    \/ \E i \in DOMAIN win[w].waiters : win[w].waiters[i].due

(* A deadline passes. *)
TimePasses(w) ==
    /\ \/ /\ gesture[w] # None /\ ~gesture[w].due
          /\ gesture' = [gesture EXCEPT ![w].due = TRUE] /\ UNCHANGED win
       \/ /\ gesture[w] # None /\ ~gesture[w].late
          /\ gesture' = [gesture EXCEPT ![w].late = TRUE] /\ UNCHANGED win
       \/ \E i \in DOMAIN win[w].writes :
             /\ ~win[w].writes[i].due
             /\ win' = [win EXCEPT ![w].writes[i].due = TRUE] /\ UNCHANGED gesture
       \/ \E i \in DOMAIN win[w].waiters :
             /\ ~win[w].waiters[i].due
             /\ win' = [win EXCEPT ![w].waiters[i].due = TRUE] /\ UNCHANGED gesture
    /\ UNCHANGED <<load, connVars, ep, inbox, timer, tick, loopVars, pressed, token>>

(* Scheduler::update posts the tick of an expired timer. *)
TimerFires(w) ==
    /\ w \in timer /\ OverdueIn(w)
    /\ timer' = timer \ {w}
    /\ tick' = tick \cup {w}
    /\ UNCHANGED <<load, connVars, ep, inbox, win, gesture, loopVars, pressed, token>>

ExpireWrites_mut(e, wn) == [ep |-> e, win |-> wn]

(* The writes the tick gives up on. *)
ExpireWrites(e, wn) ==
    [ep  |-> finish_all(e, SelectSeq(wn.writes, LAMBDA p : p.due)),
     win |-> [wn EXCEPT !.writes = SelectSeq(@, LAMBDA p : ~p.due)]]

(* automation_tick. *)
Tick(w, ok, bytes) ==
    /\ w \in tick
    /\ tick' = tick \ {w}
    /\ LET g == gesture[w]
           a == IF g = None
                THEN [ep |-> ep, win |-> win[w], ges |-> None, down |-> (w \in pressed), used |-> FALSE]
                ELSE Advanced(w, g, ep, win[w], ok, bytes)
           x == ExpireWrites(a.ep, a.win)
       IN  /\ Button(w, a.down)
           /\ token' = IF a.used THEN token + 1 ELSE token
           /\ IF win[w].open
              THEN Settle(w, x.ep, x.win, a.ges)
              ELSE /\ ep' = a.ep
                   /\ gesture' = [gesture EXCEPT ![w] = a.ges]
                   /\ UNCHANGED <<win, timer>>
    /\ UNCHANGED <<load, connVars, inbox, loopVars>>

(***************************************************************************)
(* What happens to the window.                                             *)
(***************************************************************************)

(* PtyOutput, screen changes, presented frames, prompts, tracks. *)
Activity(w) ==
    /\ "activity" \in load.ops
    /\ win[w].open /\ win[w].seq < MaxSeq
    /\ Settle(w, ep, [win[w] EXCEPT !.seq = @ + 1], gesture[w])
    /\ UNCHANGED <<load, connVars, inbox, tick, loopVars, pressed, token>>

CommandFinishes_mut(w) ==
    /\ "commands" \in load.ops
    /\ win[w].open /\ win[w].link = "up" /\ win[w].finished < MaxSeq
    /\ LET seen(x) == [x EXCEPT !.met = @ \/ x.kind = "finish"]
       IN  win' = [win EXCEPT ![w].finished = @ + 1,
                              ![w].waiters = [i \in DOMAIN @ |-> seen(@[i])]]
    /\ UNCHANGED <<load, connVars, ep, inbox, gesture, timer, tick, loopVars, pressed, token>>

(* CommandExecutionState::apply of a `D` marker, and the evaluation after. *)
CommandFinishes(w) ==
    /\ "commands" \in load.ops
    /\ win[w].open /\ win[w].link = "up" /\ win[w].finished < MaxSeq
    /\ LET seen(x) == [x EXCEPT !.met = @ \/ x.kind = "finish"]
           wn == [win[w] EXCEPT !.finished = @ + 1,
                                !.waiters = [i \in DOMAIN @ |-> seen(@[i])]]
           s  == evaluate_waiters(ep, wn)
       IN  ep' = s.ep /\ win' = [win EXCEPT ![w] = s.win]
    /\ UNCHANGED <<load, connVars, inbox, gesture, timer, tick, loopVars, pressed, token>>

(* PtyWriteComplete and PtyResizeComplete: the PTY worker is done with t. *)
PtyCompletes(w, t) ==
    /\ win[w].open /\ t \in win[w].tokens
    /\ LET wn    == win[w]
           done  == SelectSeq(wn.writes, LAMBDA p : p.token = t)
           mark(x) == [x EXCEPT !.complete = @ \/ x.token = t]
       IN  Settle(w, finish_all(ep, done),
                  [wn EXCEPT !.tokens = @ \ {t},
                             !.writes = SelectSeq(@, LAMBDA p : p.token # t),
                             !.waiters = [i \in DOMAIN @ |-> mark(@[i])]],
                  gesture[w])
    /\ UNCHANGED <<load, connVars, inbox, tick, loopVars, pressed, token>>

(* ClientResetComplete: input still queued in the worker was discarded     *)
(* with its completion (State::reset_client_state).                        *)
ResetCompletes(w) ==
    /\ win[w].open /\ win[w].health = "recovering" /\ win[w].link = "up"
    /\ \E kept \in SUBSET win[w].tokens :
          LET s == evaluate_waiters(ep, [win[w] EXCEPT !.health = "healthy", !.tokens = kept])
          IN  ep' = s.ep /\ win' = [win EXCEPT ![w] = s.win]
    /\ UNCHANGED <<load, connVars, inbox, gesture, timer, tick, loopVars, pressed, token>>

(* on_window_event for Resized: the confirmation is applied later. *)
Resized(w, fits) ==
    /\ "resized" \in load.ops
    /\ win[w].open /\ win[w].resizes + win[w].pending < MaxSeq
    /\ Settle(w, ep, [win[w] EXCEPT !.pending = @ + 1, !.fits = fits], gesture[w])
    /\ UNCHANGED <<load, connVars, inbox, tick, loopVars, pressed, token>>

FirstIndex(s, Test(_)) ==
    LET hits == {i \in DOMAIN s : Test(s[i])} IN IF hits = {} THEN 0 ELSE Min(hits)

(* Vec::swap_remove. *)
SwapRemove(s, i) == Front([s EXCEPT ![i] = Last(s)])

(* apply_automation_confirmations: a resize whose size is confirmed is     *)
(* sent on to the PTY.  The waiter is found, then found again by its       *)
(* request ID alone, which another client's waiter may have too: that one  *)
(* is told, or answered, instead.                                          *)
apply_automation_confirmations(e, wn0) ==
    LET wn    == [wn0 EXCEPT !.resizes = @ + wn0.pending, !.pending = 0]
        asks(x) == x.kind = "resize" /\ x.token = None /\ wn.resizes > x.after /\ wn.fits
        i     == FirstIndex(wn.waiters, asks)
        j     == FirstIndex(wn.waiters, LAMBDA x : x.id = wn.waiters[i].id)
        sent  == [wn EXCEPT !.tokens = Queued(wn, token + 1),
                            !.waiters[i].met = TRUE, !.waiters[i].misled = (j # i),
                            !.waiters[j].token = IF wn.waiters[j].kind = "resize" THEN token + 1 ELSE @]
    IN  IF wn0.pending = 0 \/ i = 0 THEN [ep |-> e, win |-> wn, used |-> FALSE]
        ELSE IF wn.link # "cut" THEN [ep |-> e, win |-> sent, used |-> TRUE]
        ELSE [ep |-> finish_request(e, wn.waiters[j]), used |-> TRUE,
              win |-> [wn EXCEPT !.waiters = SwapRemove(@, j)]]

(* on_about_to_wait. *)
AboutToWait(w) ==
    /\ win[w].open
    /\ LET s == apply_automation_confirmations(ep, win[w])
       IN  /\ token' = IF s.used THEN token + 1 ELSE token
           /\ Settle(w, s.ep, s.win, gesture[w])
    /\ UNCHANGED <<load, connVars, inbox, tick, loopVars, pressed>>

(* poll_screenshot: not ready yet is a stutter. *)
PollShot(w, ok) ==
    /\ win[w].polling /\ win[w].shot # None
    /\ IF ok
       THEN /\ encoders' = encoders \cup {[win |-> w, req |-> win[w].shot]}
            /\ win' = [win EXCEPT ![w].shot = None, ![w].polling = FALSE]
            /\ UNCHANGED ep
       ELSE /\ ep' = finish_request(ep, win[w].shot)
            /\ win' = [win EXCEPT ![w].shot = None, ![w].polling = FALSE, ![w].busy = FALSE]
            /\ UNCHANGED encoders
    /\ UNCHANGED <<load, connVars, inbox, gesture, timer, tick, host, encoded, records, pressed, token>>

(* The encoder thread answers, then posts ScreenshotComplete. *)
EncoderEnds(j) ==
    /\ j \in encoders
    /\ encoders' = encoders \ {j}
    /\ ep' = finish_request(ep, j.req)
    /\ encoded' = [encoded EXCEPT ![j.win] = @ + 1]
    /\ UNCHANGED <<load, connVars, inbox, win, gesture, timer, tick, host, records, pressed, token>>

(* complete_screenshot. *)
ShotComplete(w) ==
    /\ encoded[w] > 0
    /\ encoded' = [encoded EXCEPT ![w] = @ - 1]
    /\ win' = [win EXCEPT ![w].busy = @ /\ ~win[w].open]
    /\ UNCHANGED <<load, connVars, ep, inbox, gesture, timer, tick, host, encoders, records, pressed, token>>

(* A parser or PTY fault quarantines the terminal client. *)
Fault(w) ==
    /\ "fault" \in load.ops
    /\ win[w].open /\ win[w].link = "up"
    /\ LET s == fail_automation_requests(ep, [win[w] EXCEPT !.health = "quarantined", !.link = "cut",
                                                            !.tokens = {}])
       IN  ep' = s.ep /\ win' = [win EXCEPT ![w] = s.win]
    /\ UNCHANGED <<load, connVars, inbox, gesture, timer, tick, loopVars, pressed, token>>

(* TerminalEvent::ChildExit. *)
ChildExit(w) ==
    /\ "exit" \in load.ops
    /\ win[w].open /\ win[w].link = "up" /\ ~win[w].exited
    /\ Settle(w, ep, [win[w] EXCEPT !.exited = TRUE], gesture[w])
    /\ UNCHANGED <<load, connVars, inbox, tick, loopVars, pressed, token>>

(* The PTY worker leaves after its child and posts Exit; completions it    *)
(* posted before are still on their way.                                   *)
PtyLeaves(w) ==
    /\ win[w].open /\ win[w].link = "up" /\ win[w].exited
    /\ \E kept \in SUBSET win[w].tokens :
          win' = [win EXCEPT ![w].link = "left", ![w].exiting = TRUE, ![w].tokens = kept]
    /\ UNCHANGED <<load, connVars, ep, inbox, gesture, timer, tick, loopVars, pressed, token>>

(* TerminalEvent::Exit: the window goes, unless it is held open. *)
ExitWindow(w) ==
    /\ win[w].open /\ win[w].exiting
    /\ IF win[w].hold
       THEN win' = [win EXCEPT ![w].exiting = FALSE] /\ UNCHANGED <<ep, timer, records>>
       ELSE /\ LET s == fail_automation_requests(ep, win[w])
               IN  /\ ep' = s.ep
                   /\ win' = [win EXCEPT ![w] = [s.win EXCEPT !.open = FALSE, !.exiting = FALSE,
                                                             !.polling = FALSE, !.link = "cut"]]
            /\ records' = IF win[w].exited THEN records \cup {w} ELSE records
            /\ timer' = timer \ {w}
    /\ UNCHANGED <<load, connVars, inbox, gesture, tick, host, encoders, encoded, pressed, token>>

Disconnect_mut(c) ==
    /\ Requested(c, {"disconnect"})
    /\ Taken(c)
    /\ LET left(s)  == SelectSeq(s, LAMBDA x : x.conn # c)
           drops(w) == gesture[w] # None /\ gesture[w].conn = c
       IN  /\ win' = [w \in Wins |-> [win[w] EXCEPT !.writes = left(@), !.waiters = left(@)]]
           /\ gesture' = [w \in Wins |-> IF drops(w) THEN None ELSE gesture[w]]
           /\ timer' = {w \in Wins : /\ win[w].open
                                     /\ \/ win'[w].waiters # <<>>
                                        \/ win'[w].writes # <<>>
                                        \/ gesture'[w] # None}
    /\ UNCHANGED <<load, connVars, ep, tick, loopVars, pressed, token>>

(* handle_ipc_disconnect: everything the client was waiting for is dropped *)
(* and a button its gesture holds is released.                             *)
Disconnect(c) ==
    /\ Requested(c, {"disconnect"})
    /\ Taken(c)
    /\ LET mine(x)  == x.conn = c
           left(s)  == SelectSeq(s, LAMBDA x : ~mine(x))
           drops(w) == gesture[w] # None /\ gesture[w].conn = c
           shot(w)  == win[w].shot # None /\ win[w].shot.conn = c
           wn(w)    == [win[w] EXCEPT !.writes = left(@), !.waiters = left(@),
                                      !.shot = IF shot(w) THEN None ELSE @,
                                      !.busy = @ /\ ~shot(w),
                                      !.polling = @ /\ ~shot(w)]
       IN  /\ win' = [w \in Wins |-> IF win[w].open THEN wn(w) ELSE win[w]]
           /\ gesture' = [w \in Wins |-> IF drops(w) THEN None ELSE gesture[w]]
           /\ pressed' = {w \in pressed : ~drops(w)}
           /\ timer' = {w \in Wins : /\ win[w].open
                                     /\ \/ win'[w].waiters # <<>>
                                        \/ win'[w].writes # <<>>
                                        \/ gesture'[w] # None}
    /\ UNCHANGED <<load, connVars, ep, tick, loopVars, token>>

-----------------------------------------------------------------------------
Init ==
    /\ load \in Loads
    /\ asked = [c \in Conns |-> 0]
    /\ reader = [c \in Conns |-> IF "hello" \in load.ops THEN "new" ELSE "open"]
    /\ ep = [c \in Conns |-> [alive |-> TRUE, inFlight |-> {}, out |-> 0]]
    /\ inbox = [c \in Conns |-> <<>>]
    /\ win = [w \in Wins |->
                [open |-> TRUE, hold |-> "hold" \in load.ops, exiting |-> FALSE, exited |-> FALSE,
                 health |-> "healthy", link |-> "up", seq |-> 0, finished |-> 0, tokens |-> {},
                 resizes |-> 0, pending |-> 0, fits |-> FALSE, waiters |-> <<>>, writes |-> <<>>,
                 shot |-> None, busy |-> FALSE, polling |-> FALSE]]
    /\ gesture = [w \in Wins |-> None]
    /\ timer = {} /\ tick = {} /\ host = <<>> /\ encoders = {}
    /\ encoded = [w \in Wins |-> 0]
    /\ records = {} /\ pressed = {} /\ token = 0 /\ replaced = {}

Reader(c) ==
    \/ Connect(c) \/ ReaderLeaves(c)
    \/ \E id \in Ids : Ask(c, id) \/ \E good \in BOOLEAN : Hello(c, id, good)

Handle(c) ==
    \/ HandleSimple(c) \/ HandleHost(c) \/ Disconnect(c)
    \/ \E w \in Wins :
          \/ HandleRefused(c, w) \/ HandleWrite(c, w) \/ HandleWait(c, w)
          \/ HandleReset(c, w) \/ HandleRestart(c, w) \/ HandleClose(c, w)
          \/ \E ok \in BOOLEAN : HandleGesture(c, w, ok)

Ticks(w)  == \E ok, bytes \in BOOLEAN : Tick(w, ok, bytes)
Encoder   == \E j \in encoders : EncoderEnds(j)
Polls(w)  == \E ok \in BOOLEAN : PollShot(w, ok)

Happens(w) ==
    \/ Activity(w) \/ CommandFinishes(w) \/ ResetCompletes(w) \/ Fault(w)
    \/ ChildExit(w) \/ PtyLeaves(w) \/ ExitWindow(w) \/ AboutToWait(w)
    \/ \E t \in win[w].tokens : PtyCompletes(w, t)
    \/ \E fits \in BOOLEAN : Resized(w, fits)

Shots(c) == \E w \in Wins, ok \in BOOLEAN : HandleShot(c, w, ok)

Otherwise ==
    \/ \E c \in Conns : Reader(c) \/ WriterSends(c) \/ WriterFails(c) \/ Handle(c)
    \/ \E w \in Wins : \/ TimePasses(w) \/ TimerFires(w) \/ Ticks(w)
                        \/ Polls(w) \/ ShotComplete(w) \/ Happens(w)
    \/ Encoder \/ HostAnswers

Next == (\E c \in Conns : Shots(c)) \/ (Otherwise /\ UNCHANGED replaced)

(* The fairness of the scheduler, the event loop, the encoders, the host   *)
(* and the clock, stated on states: what only one of their steps takes     *)
(* away does not stay for ever (an event in the queue, an expired timer, a *)
(* readback, an encoder, a host request, a deadline ahead).  With finitely *)
(* many requests this is weak fairness of each step, and TLC needs not     *)
(* evaluate ENABLED.                                                       *)
Ahead(w) ==
    \/ gesture[w] # None /\ ~gesture[w].late
    \/ \E i \in DOMAIN win[w].writes : ~win[w].writes[i].due
    \/ \E i \in DOMAIN win[w].waiters : ~win[w].waiters[i].due

Handled(c)   == inbox[c] = <<>>
WindowMoves(w) ==
    <<w \notin tick, ~(w \in timer /\ OverdueIn(w)), ~(win[w].polling /\ win[w].shot # None),
      ~Ahead(w)>>
EncodersEnd  == encoders = {}
HostServed   == host = <<>>

Fairness ==
    /\ \A c \in Conns : []<>Handled(c)
    /\ \A w \in Wins, i \in 1 .. 4 : []<>(WindowMoves(w)[i])
    /\ []<>EncodersEnd /\ []<>HostServed

Spec == Init /\ [][Next]_vars /\ Fairness
-----------------------------------------------------------------------------
TypeOK ==
    /\ reader \in [Conns -> {"new", "hello", "open", "left", "refused"}]
    /\ \A c \in Conns : /\ ep[c].alive \in BOOLEAN /\ ep[c].inFlight \subseteq Ids
                        /\ ep[c].out \in 0..OutCap
    /\ win \in [Wins -> Window]
    /\ gesture \in [Wins -> Gesture \cup {None}]
    /\ timer \subseteq Wins /\ tick \subseteq Wins /\ pressed \subseteq Wins

(* Where the event loop keeps request id of connection c. *)
Is(x, c, id) == x.conn = c /\ x.id = id
Places(c, id) ==
    {<<"inbox", i>> : i \in {i \in DOMAIN inbox[c] : /\ inbox[c][i].id = id
                                                     /\ inbox[c][i].kind # "disconnect"}}
    \cup {<<"host", i>> : i \in {i \in DOMAIN host : Is(host[i], c, id)}}
    \cup {<<"encoder", j>> : j \in {j \in encoders : Is(j.req, c, id)}}
    \cup UNION {
        {<<w, "waiter", i>> : i \in {i \in DOMAIN win[w].waiters : Is(win[w].waiters[i], c, id)}}
        \cup {<<w, "write", i>> : i \in {i \in DOMAIN win[w].writes : Is(win[w].writes[i], c, id)}}
        \cup {<<w, "gesture">> : g \in {g \in {gesture[w]} \ {None} : Is(g, c, id)}}
        \cup {<<w, "shot">> : r \in {r \in {win[w].shot} \ {None} : Is(r, c, id)}} : w \in Wins}

(* A request of a live connection is in flight exactly as long as the      *)
(* program still holds it, and it is held in one place: none is forgotten, *)
(* none is answered twice, whatever handler, timer, fault, close or other  *)
(* thread ends it (event.rs handle_ipc_request to evaluate_waiters).  One  *)
(* request is an exception, and only a fault makes it:                     *)
(* fail_automation_requests clears screenshot_busy while an encoder still  *)
(* runs, the encoder's ScreenshotComplete then clears it for the next      *)
(* screenshot, still pending, and the one after takes its place.  The      *)
(* request replaced stays in flight and nothing holds it                   *)
(* (window_context.rs request_screenshot, complete_screenshot).            *)
InFlightHeld ==
    /\ \A c \in Conns, id \in Ids :
          ep[c].alive =>
            Cardinality(Places(c, id)) =
                IF id \in ep[c].inFlight /\ [conn |-> c, id |-> id] \notin replaced THEN 1 ELSE 0
    /\ replaced # {} => "fault" \in load.ops

(* While a window holds a write, a waiter or a gesture, its timer is set   *)
(* or its tick is on the way: whatever else happens in the window, the     *)
(* deadline of the request is still going to be looked at                  *)
(* (schedule_automation_timer keeps exactly one timer for all of them).    *)
HeldIsTimed ==
    \A w \in Wins :
        win[w].open /\ (win[w].waiters # <<>> \/ win[w].writes # <<>> \/ gesture[w] # None)
        => w \in timer \cup tick

(* Both: what is held is held once, and somebody will look at it.           *)
RequestsHeld == TypeOK /\ InFlightHeld /\ HeldIsTimed

(* What PacedGesture.deadline is for: "Without one, a gesture whose tick   *)
(* is cancelled has nothing to expire it" (event.rs).                      *)
GestureIsTicked == \A w \in Wins : gesture[w] # None => w \in timer \cup tick

(* A wait whose condition came true while it was waiting moves on: a       *)
(* finished command ends it, a confirmed size is on its way to the PTY     *)
(* (apply_automation_confirmations, WaitKind::CommandFinish).  Except for  *)
(* a resize that shares its request number with an older wait of another   *)
(* client: its confirmation is noted there, and it waits on for the next   *)
(* one or its deadline.                                                    *)
MetWaitsMove ==
    \A w \in Wins : \A i \in DOMAIN win[w].waiters :
        LET x == win[w].waiters[i]
        IN  x.met => x.kind = "resize" /\ (x.token # None \/ x.misled)

(* A gesture that ended by deadline, error, disconnect or success has let  *)
(* go of the button: an application that is still there never keeps a      *)
(* button down that no gesture is going to release                         *)
(* (release_paced_gesture).                                                *)
ButtonReleased ==
    \A w \in pressed : win[w].open /\ win[w].link = "up" => gesture[w] # None

(* Every admitted request is answered, or its connection ends, whatever    *)
(* becomes of the window, the shell or the screenshot, unless it is a      *)
(* screenshot whose place a later one took (see InFlightHeld).             *)
Asking(c, id) ==
    id \in ep[c].inFlight /\ ep[c].alive /\ [conn |-> c, id |-> id] \notin replaced
RequestsEnd == \A c \in Conns, id \in Ids : Asking(c, id) ~> ~Asking(c, id)
=============================================================================
