------------------------------ MODULE PtyLoop -------------------------------
(***************************************************************************)
(* The PTY worker.  The UI thread sends it messages and wakes its poller;  *)
(* each turn of its loop drains the messages, handles what the poll        *)
(* reported (the child's exit, output to parse, room for input) and        *)
(* registers interest in writing while input is pending.  A fault, in the  *)
(* parser or of the PTY, quarantines the pane: the PTY is deregistered and *)
(* client traffic is dropped.                                              *)
(*                                                                         *)
(* Input is a numbered message of some bytes; output is counted.  The      *)
(* reader is the PTY itself (see Gather for the read-ahead).  fed and      *)
(* told are not variables of the program: what the PTY took, and what the  *)
(* UI thread was told.                                                     *)
(***************************************************************************)
EXTENDS Naturals, Sequences, FiniteSets

CONSTANTS
    Sends,        \* the messages of the UI thread, in order: [kind, bytes] records
    MaxParsed     \* bounds the output of the child

VARIABLES
    drain_on_exit,  \* EventLoop's field, which does not change
    sent,         \* messages sent so far
    wakeups,      \* "sending": a message is sent and its wake-up is not;
                  \* "notified": Poller::notify was called and not consumed
    channel,      \* messages not received: indices into Sends
    write_list, writing,    \* State: indices; <<index, written>> or <<>>
    interest,     \* interest.writable
    registered, quarantined,
    turn,         \* where the loop is: "poll", or the events left to handle
    tty,          \* the other side: [wrote, parsed, exited]
    fed,          \* <<index, byte>> the PTY took
    posted        \* what the UI thread was told

vars == <<drain_on_exit, sent, wakeups, channel, write_list, writing, interest, registered, quarantined, turn,
          tty, fed, posted>>
uiVars == <<drain_on_exit, sent>>
stateVars == <<write_list, writing>>

Post(e) == posted' = Append(posted, e)
Event(kind, n) == [kind |-> kind, n |-> n]
Pending == writing # <<>> \/ write_list # <<>>

(***************************************************************************)
(* EventLoopSender::send: the message, then the wake-up.                   *)
(***************************************************************************)
Send ==
    /\ sent < Len(Sends) /\ "sending" \notin wakeups /\ turn # "gone"
    /\ sent' = sent + 1
    /\ channel' = Append(channel, sent')
    /\ wakeups' = wakeups \cup {"sending"}
    /\ UNCHANGED <<drain_on_exit, stateVars, interest, registered, quarantined, turn, tty, fed, posted>>

Notify ==
    /\ "sending" \in wakeups
    /\ wakeups' = {"notified"}
    /\ UNCHANGED <<uiVars, channel, stateVars, interest, registered, quarantined, turn, tty, fed, posted>>

(***************************************************************************)
(* The child and the PTY.                                                  *)
(***************************************************************************)
ChildWrites ==
    /\ ~tty.exited /\ tty.wrote < MaxParsed
    /\ tty' = [tty EXCEPT !.wrote = @ + 1]
    /\ UNCHANGED <<uiVars, wakeups, channel, stateVars, interest, registered, quarantined, turn, fed, posted>>

ChildExits ==
    /\ ~tty.exited
    /\ tty' = [tty EXCEPT !.exited = TRUE]
    /\ UNCHANGED <<uiVars, wakeups, channel, stateVars, interest, registered, quarantined, turn, fed, posted>>

(***************************************************************************)
(* One turn of the loop.                                                   *)
(***************************************************************************)

(* What a poll may report, level-triggered. *)
Ready ==
    IF ~registered THEN {}
    ELSE {e \in {"child", "read", "write"} :
            CASE e = "child" -> tty.exited
              [] e = "read"  -> tty.wrote > tty.parsed
              [] OTHER       -> interest}

(* poll.wait returns events or a wake-up, or the deadline of a             *)
(* synchronized update passes, which changes nothing here.                 *)
PollReturns ==
    /\ turn = "poll"
    /\ Ready # {} \/ "notified" \in wakeups
    /\ wakeups' = wakeups \ {"notified"}
    /\ turn' = IF Ready = {} /\ channel = <<>> THEN "poll" ELSE "drain"
    /\ UNCHANGED <<uiVars, channel, stateVars, interest, registered, quarantined, tty, fed, posted>>

(* drain_recv_channel, one message at a time. *)
Receive ==
    /\ turn = "drain" /\ channel # <<>>
    /\ channel' = Tail(channel)
    /\ LET i == Head(channel)
           m == Sends[i]
       IN  \/ /\ m.kind = "input"
              /\ write_list' = IF quarantined THEN write_list ELSE Append(write_list, i)
              /\ UNCHANGED <<writing, turn, posted>>
           \/ /\ m.kind = "resize"
              /\ Post(Event("resized", i))
              /\ UNCHANGED <<stateVars, turn>>
           \/ /\ m.kind = "reset"
              /\ IF quarantined THEN UNCHANGED <<stateVars, posted>>
                 ELSE write_list' = <<>> /\ writing' = <<>> /\ Post(Event("reset", i))
              /\ UNCHANGED turn
           \/ /\ m.kind = "shutdown"
              /\ turn' = "gone"
              /\ UNCHANGED <<stateVars, posted>>
    /\ UNCHANGED <<uiVars, wakeups, interest, registered, quarantined, tty, fed>>

(* The channel is empty: a quarantined loop polls again at once. *)
Drained ==
    /\ turn = "drain" /\ channel = <<>>
    /\ turn' = IF quarantined THEN "poll" ELSE "events"
    /\ UNCHANGED <<uiVars, wakeups, channel, stateVars, interest, registered, quarantined, tty, fed, posted>>

(* A fault: told to the UI thread, and the PTY is deregistered.  One met   *)
(* while handling an event leaves the turn by its end.                     *)
Quarantine(cleared, next) ==
    /\ Post(Event("fault", 0))
    /\ quarantined' = TRUE
    /\ registered' = FALSE
    /\ turn' = next
    /\ IF cleared THEN write_list' = <<>> /\ writing' = <<>> ELSE UNCHANGED stateVars

(* pty_read: output is parsed, all of it or up to the locked limit; or the *)
(* parser panics; or the read fails.                                       *)
HandleRead ==
    /\ turn = "events" /\ "read" \in Ready
    /\ \/ /\ \E n \in (tty.parsed + 1)..tty.wrote : tty' = [tty EXCEPT !.parsed = n]
          /\ turn' = "write"
          /\ UNCHANGED <<stateVars, registered, quarantined, posted>>
       \/ \E panicked \in BOOLEAN : Quarantine(panicked, "faulted") /\ UNCHANGED tty
    /\ UNCHANGED <<uiVars, wakeups, channel, interest, fed>>

(* The poll reported no output, or neither. *)
SkipRead ==
    /\ turn = "events"
    /\ turn' = "write"
    /\ UNCHANGED <<uiVars, wakeups, channel, stateVars, interest, registered, quarantined, tty, fed, posted>>

(* pty_write: the PTY takes some bytes, all, or none, or fails. *)
Current == IF writing # <<>> THEN writing ELSE <<Head(write_list), 0>>
Rest == IF writing # <<>> THEN write_list ELSE Tail(write_list)

WriteSome ==
    /\ turn = "write" /\ interest /\ Pending
    /\ LET i == Current[1]
           n == Current[2] + 1
       IN  /\ fed' = Append(fed, <<i, n>>)
           /\ IF n = Sends[i].bytes
              THEN /\ Post(Event("written", i))
                   /\ writing' = IF Rest = <<>> THEN <<>> ELSE <<Head(Rest), 0>>
                   /\ write_list' = IF Rest = <<>> THEN <<>> ELSE Tail(Rest)
              ELSE /\ writing' = <<i, n>> /\ write_list' = Rest
                   /\ UNCHANGED posted
    /\ UNCHANGED <<uiVars, wakeups, channel, interest, registered, quarantined, turn, tty>>

WriteFails ==
    /\ turn = "write" /\ interest /\ Pending
    /\ \E panicked \in BOOLEAN : Quarantine(panicked, "faulted")
    /\ UNCHANGED <<uiVars, wakeups, channel, interest, tty, fed>>

TurnEnds_mut ==
    /\ turn = "write"
    /\ interest' = (writing # <<>>)
    /\ turn' = "poll"
    /\ UNCHANGED <<uiVars, wakeups, channel, stateVars, registered, quarantined, posted, tty, fed>>

(* The PTY takes no more, and the turn ends by registering for what is     *)
(* pending.  Reregistering may fail.                                       *)
TurnEnds ==
    /\ turn = "write"
    /\ \/ /\ interest' = Pending
          /\ turn' = "poll"
          /\ UNCHANGED <<stateVars, registered, quarantined, posted>>
       \/ /\ Pending # interest
          /\ interest' = Pending
          /\ Quarantine(FALSE, "poll")
    /\ UNCHANGED <<uiVars, wakeups, channel, tty, fed>>

(* The end of a turn that met a fault: the interest is brought up to date  *)
(* all the same, and a PTY that is no longer registered (with epoll, say)  *)
(* cannot be reregistered, which is one more fault.                        *)
FaultedTurnEnds ==
    /\ turn = "faulted"
    /\ turn' = "poll"
    /\ interest' = Pending
    /\ IF Pending # interest THEN Post(Event("fault", 0)) ELSE UNCHANGED posted
    /\ UNCHANGED <<uiVars, wakeups, channel, stateVars, registered, quarantined, tty, fed>>

(* The child's exit: drain, unless the parser panics, then leave. *)
HandleExit ==
    /\ turn = "events" /\ "child" \in Ready
    /\ turn' = "gone"
    /\ \/ /\ drain_on_exit
          /\ tty' = [tty EXCEPT !.parsed = tty.wrote]
          /\ posted' = posted \o <<Event("child_exit", 0), Event("exit", 0)>>
          /\ UNCHANGED stateVars
       \/ /\ drain_on_exit
          /\ posted' = posted \o <<Event("child_exit", 0), Event("fault", 0), Event("exit", 0)>>
          /\ write_list' = <<>> /\ writing' = <<>>
          /\ UNCHANGED tty
       \/ /\ ~drain_on_exit
          /\ posted' = posted \o <<Event("child_exit", 0), Event("exit", 0)>>
          /\ UNCHANGED <<stateVars, tty>>
    /\ UNCHANGED <<uiVars, wakeups, channel, interest, registered, quarantined, fed>>

Init ==
    /\ drain_on_exit \in BOOLEAN
    /\ sent = 0 /\ wakeups = {} /\ channel = <<>> /\ write_list = <<>> /\ writing = <<>>
    /\ interest = FALSE /\ registered = TRUE /\ quarantined = FALSE /\ turn = "poll"
    /\ tty = [wrote |-> 0, parsed |-> 0, exited |-> FALSE]
    /\ fed = <<>> /\ posted = <<>>

Next ==
    \/ Send \/ Notify \/ ChildWrites \/ ChildExits \/ PollReturns \/ Receive \/ Drained
    \/ HandleRead \/ SkipRead \/ WriteSome \/ WriteFails \/ TurnEnds
    \/ FaultedTurnEnds \/ HandleExit

Spec == Init /\ [][Next]_vars
-----------------------------------------------------------------------------
TypeOK ==
    /\ sent \in 0..Len(Sends)
    /\ turn \in {"poll", "drain", "events", "write", "faulted", "gone"}
    /\ tty.parsed <= tty.wrote

Told(kind) == {posted[i].n : i \in {i \in DOMAIN posted : posted[i].kind = kind}}

(* Input reaches the PTY in the order it was sent, each message whole      *)
(* before the next, and a message is reported written exactly when its     *)
(* last byte was taken, however writes are cut short; a message cut off by *)
(* a reset or a fault is never reported (pty_write, Writing).              *)
WrittenInOrder ==
    /\ \A j \in 1..(Len(fed) - 1) :
          LET a == fed[j]
              b == fed[j + 1]
          IN  IF b[1] = a[1] THEN b[2] = a[2] + 1 ELSE b[1] > a[1] /\ b[2] = 1
    /\ \A i \in DOMAIN Sends :
          i \in Told("written") <=> \E j \in DOMAIN fed : fed[j] = <<i, Sends[i].bytes>>

(* Between two turns, pending input of a registered pane is waited for,    *)
(* and a message in the channel has woken the loop or is about to.         *)
NothingForgotten ==
    turn = "poll" =>
        /\ registered => (interest <=> Pending)
        /\ channel # <<>> => wakeups # {} \/ Ready # {}

(* Exit is the last thing the UI thread hears, once, after the child's     *)
(* last output was parsed or a fault was reported; after a fault, nothing  *)
(* but resizes, one more fault at most, and the exit.                      *)
EndsOnce ==
    \A i \in DOMAIN posted :
        /\ posted[i].kind = "exit" =>
              /\ i = Len(posted)
              /\ drain_on_exit => tty.parsed = tty.wrote \/ "fault" \in {posted[j].kind : j \in DOMAIN posted}
        /\ posted[i].kind = "fault" =>
              /\ \A j \in (i + 1)..Len(posted) : posted[j].kind \in {"resized", "fault", "exit"}
              /\ Cardinality({j \in DOMAIN posted : posted[j].kind = "fault"}) <= 2

PtyWorker == WrittenInOrder /\ NothingForgotten /\ EndsOnce
=============================================================================
