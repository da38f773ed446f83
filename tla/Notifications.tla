---------------------------- MODULE Notifications ----------------------------
(***************************************************************************)
(* Desktop notifications a program asks for with OSC 9 and OSC 99           *)
(* (osc_notification.rs).  Three kinds of thread:                           *)
(*                                                                         *)
(*   - the window's NotificationController, which puts the chunks of a      *)
(*     Kitty notification together, rate-limits and submits;                *)
(*   - the worker (worker_loop), fed by a bounded queue that is written     *)
(*     with try_send (only Shutdown waits), which keeps the table of the    *)
(*     notifications on the desktop;                                        *)
(*   - one task per notification (run_notification_task), fed by a bounded  *)
(*     channel of its own, which ends by itself when the user answers or    *)
(*     the notification expires, and tells the worker with a try_send.      *)
(*                                                                         *)
(* Texts are their lengths; a window state either suits the notification's  *)
(* occasion or not; the rate limiter refills one token at a time.           *)
(***************************************************************************)
EXTENDS Naturals, Sequences, FiniteSets, Functions

CONSTANTS
  Ids,             \* the identifiers a program gives its notifications
  NoId,            \* a notification without one
  MAX_PENDING,     \* assemblies kept, and notifications on the desktop
  MAX_ASSEMBLED,   \* MAX_ASSEMBLED_BYTES
  WORKER_QUEUE,    \* WORKER_QUEUE_CAPACITY
  TASK_QUEUE,      \* TASK_QUEUE_CAPACITY
  RATE_BURST,
  MaxRequests      \* bound: requests of the program and refills

VARIABLES
  enabled, pending, tokens,         \* the controller (pending: oldest first)
  dropped,                          \* the controller is being dropped
  inbox,                            \* the worker's queue
  live, by_id, order, next_token,   \* the worker's tables
  closing, spawning, working,       \* where the worker is
  tasks, channels,                  \* the tasks and their channels
  requests                          \* how many requests were made

controllerVars == <<enabled, pending, tokens, dropped, requests>>
tableVars == <<live, by_id, order, next_token>>
workerVars == <<live, by_id, order, next_token, closing, spawning, working>>
taskVars == <<tasks, channels>>
noteVars == <<controllerVars, inbox, workerVars, taskVars>>

Tokens == 1 .. MaxRequests

(* Texts are empty or one unit long; done is the flag of the last chunk. *)
Texts == [payload : {"Title", "Body"}, text : {0, 1}, done : BOOLEAN,
          id : Ids \cup {NoId}]

Init ==
  /\ enabled \in BOOLEAN /\ pending = <<>> /\ tokens = RATE_BURST
  /\ dropped = FALSE /\ inbox = <<>> /\ requests = 0
  /\ live = <<>> /\ by_id = <<>> /\ order = <<>> /\ next_token = 0
  /\ closing = {} /\ spawning = <<>> /\ working = TRUE
  /\ tasks = [t \in Tokens |-> "none"] /\ channels = [t \in Tokens |-> <<>>]

Without(f, keys) == [k \in DOMAIN f \ keys |-> f[k]]
With(f, key, value) == [k \in DOMAIN f \cup {key} |-> IF k = key THEN value ELSE f[k]]
CutAt(s, i) == SubSeq(s, 1, i - 1) \o SubSeq(s, i + 1, Len(s))

(* NotificationWorker.display, close and clear, and a task's last act: the  *)
(* message is lost when the queue is full or the worker has gone.           *)
try_send(q, message) ==
  IF working /\ Len(q) < WORKER_QUEUE THEN Append(q, message) ELSE q

-----------------------------------------------------------------------------
(* The controller. *)

Asks ==
  /\ ~dropped /\ requests < MaxRequests
  /\ requests' = requests + 1
  /\ UNCHANGED <<dropped, workerVars, taskVars>>

set_enabled ==
  \E on \in BOOLEAN :
    /\ Asks
    /\ enabled' = on
    /\ pending' = IF enabled /\ ~on THEN <<>> ELSE pending
    /\ inbox' = IF enabled /\ ~on THEN try_send(inbox, [kind |-> "Clear"]) ELSE inbox
    /\ UNCHANGED tokens

(* RateLimiter.take, and NotificationWorker.display when it grants.  *)
Display(id) ==
  /\ tokens' = IF tokens >= 1 THEN tokens - 1 ELSE tokens
  /\ inbox' = IF tokens >= 1 THEN try_send(inbox, [kind |-> "Display", id |-> id]) ELSE inbox

notify_local ==
  /\ Asks
  /\ Display(NoId)
  /\ UNCHANGED <<enabled, pending>>

(* submit: the occasion must suit the window, a token is spent, and only    *)
(* then is an assembly without any text dropped.                            *)
submit(assembly, id) ==
  \/ /\ UNCHANGED <<tokens, inbox>>
  \/ /\ assembly.title + assembly.body > 0
     /\ Display(id)
  \/ /\ assembly.title + assembly.body = 0
     /\ tokens' = IF tokens >= 1 THEN tokens - 1 ELSE tokens
     /\ UNCHANGED inbox

(* expire_pending: the assemblies that were not touched for a while.        *)
Unexpired == {SubSeq(pending, k, Len(pending)) : k \in 1 .. Len(pending) + 1}

(* handle of an OSC 9 text; nothing is handled while notifications are off. *)
handle_legacy ==
  \E text \in {0, 1}, kept \in Unexpired :
    /\ Asks /\ enabled
    /\ pending' = kept
    /\ submit([title |-> text, body |-> 0], NoId)
    /\ UNCHANGED enabled

Empty(id) == [id |-> id, title |-> 0, body |-> 0]

Assembled(assembly, request) ==
  IF request.payload = "Title" THEN [assembly EXCEPT !.title = @ + request.text]
                               ELSE [assembly EXCEPT !.body = @ + request.text]

Fits(assembly) == assembly.title + assembly.body <= MAX_ASSEMBLED

Has(kept, id) == \E i \in DOMAIN kept : kept[i].id = id
Place(kept, id) == CHOOSE i \in DOMAIN kept : kept[i].id = id

(* The assembly a chunk goes to, the others, and room made for a new one.   *)
AssemblyOf(kept, id) == IF Has(kept, id) THEN kept[Place(kept, id)] ELSE Empty(id)

Others(kept, id) == IF Has(kept, id) THEN CutAt(kept, Place(kept, id)) ELSE kept

Room(kept, id) ==
  IF Len(kept) >= MAX_PENDING /\ ~Has(kept, id) THEN Tail(kept) ELSE kept

(* handle_kitty of a Title or a Body. *)
handle_kitty_text ==
  \E request \in Texts, kept \in Unexpired :
    /\ Asks /\ enabled
    /\ IF request.id = NoId
         THEN /\ pending' = kept
              /\ IF request.done /\ Fits(Assembled(Empty(NoId), request))
                   THEN submit(Assembled(Empty(NoId), request), NoId)
                   ELSE UNCHANGED <<tokens, inbox>>
         ELSE LET roomy == Room(kept, request.id)
                  grown == Assembled(AssemblyOf(roomy, request.id), request)
              IN  IF Fits(grown) /\ ~request.done
                    THEN /\ pending' = Append(Others(roomy, request.id), grown)
                         /\ UNCHANGED <<tokens, inbox>>
                    ELSE /\ pending' = Others(roomy, request.id)
                         /\ IF Fits(grown) THEN submit(grown, request.id)
                                           ELSE UNCHANGED <<tokens, inbox>>
    /\ UNCHANGED enabled

(* handle_kitty of a Close; a Query and an unsupported payload change       *)
(* nothing here.                                                            *)
handle_kitty_close ==
  \E id \in Ids, kept \in Unexpired :
    /\ Asks /\ enabled
    /\ pending' = Others(kept, id)
    /\ inbox' = try_send(inbox, [kind |-> "Close", id |-> id])
    /\ UNCHANGED <<enabled, tokens>>

Refill ==
  /\ tokens < RATE_BURST
  /\ Asks
  /\ tokens' = tokens + 1
  /\ UNCHANGED <<enabled, pending, inbox>>

(* Drop of the worker's handle: the only message that waits for room.       *)
DropWorker ==
  /\ ~dropped /\ Len(inbox) < WORKER_QUEUE
  /\ dropped' = TRUE
  /\ inbox' = Append(inbox, [kind |-> "Shutdown"])
  /\ UNCHANGED <<enabled, pending, tokens, requests, workerVars, taskVars>>

-----------------------------------------------------------------------------
(* The worker.  Its tables change at once, being its own; a Close it sends  *)
(* to a task waits while the task's channel is full, and what it does next  *)
(* waits with it.                                                           *)

Idle == working /\ closing = {} /\ spawning = <<>>

Receives(kind) ==
  /\ Idle /\ inbox # <<>> /\ Head(inbox).kind = kind
  /\ inbox' = Tail(inbox)
  /\ UNCHANGED controllerVars

(* A task that is running holds the receiving end of its channel.           *)
Listening(t) == tasks[t] \in {"starting", "shown"}

(* try_update_task *)
Updatable(id) ==
  /\ id \in DOMAIN by_id
  /\ by_id[id] \in DOMAIN live
  /\ Listening(by_id[id])
  /\ Len(channels[by_id[id]]) < TASK_QUEUE

(* The identifiers whose entry remove_task drops with the task.             *)
IdOf(t) == IF t \in DOMAIN live THEN {live[t]} ELSE {}

Full_mut == Cardinality(DOMAIN live) > MAX_PENDING

Full == Cardinality(DOMAIN live) >= MAX_PENDING

(* How many tokens are popped from order: up to the first that is still on  *)
(* the table, which then has room.                                          *)
Evicted ==
  IF Full
    THEN CHOOSE n \in 0 .. Len(order) :
           /\ \A i \in 1 .. n - 1 : order[i] \notin DOMAIN live
           /\ n = Len(order) \/ (n > 0 /\ order[n] \in DOMAIN live)
    ELSE 0

WorkerDisplay ==
  /\ Receives("Display")
  /\ LET id == Head(inbox).id
         token == next_token + 1
         gone == {order[i] : i \in 1 .. Evicted} \cap DOMAIN live
         names == Without(by_id, UNION {IdOf(t) : t \in gone})
     IN  IF Updatable(id)
           THEN /\ channels' = [channels EXCEPT ![by_id[id]] = Append(@, "Update")]
                /\ UNCHANGED <<workerVars, tasks>>
           ELSE /\ next_token' = token
                /\ live' = With(Without(live, gone), token, id)
                /\ by_id' = IF id = NoId THEN names ELSE With(names, id, token)
                /\ order' = Append(SubSeq(order, Evicted + 1, Len(order)), token)
                /\ closing' = gone
                /\ spawning' = <<token>>
                /\ UNCHANGED <<working, taskVars>>

(* by_id names the task; remove_task takes it out of live and closes it, and *)
(* leaves it in order until it says Done.                                    *)
WorkerClose ==
  /\ Receives("Close")
  /\ LET id == Head(inbox).id
         named == IF id \in DOMAIN by_id THEN {by_id[id]} \cap DOMAIN live ELSE {}
     IN  /\ by_id' = Without(by_id, {id} \cup UNION {IdOf(t) : t \in named})
         /\ live' = Without(live, named)
         /\ closing' = named
  /\ UNCHANGED <<order, next_token, spawning, working, taskVars>>

WorkerClear ==
  /\ Receives("Clear")
  /\ closing' = DOMAIN live
  /\ live' = <<>> /\ by_id' = <<>> /\ order' = <<>>
  /\ UNCHANGED <<next_token, spawning, working, taskVars>>

(* Whatever task the identifier names by then, its entry goes; no token is  *)
(* twice in order.                                                          *)
WorkerDone ==
  /\ Receives("Done")
  /\ LET token == Head(inbox).token
     IN  /\ by_id' = Without(by_id, IdOf(token))
         /\ live' = Without(live, {token})
         /\ order' = IF token \in Range(order)
                       THEN CutAt(order, CHOOSE i \in DOMAIN order : order[i] = token)
                       ELSE order
  /\ UNCHANGED <<next_token, closing, spawning, working, taskVars>>

WorkerShutdown ==
  /\ Receives("Shutdown")
  /\ closing' = DOMAIN live
  /\ live' = <<>> /\ working' = FALSE
  /\ UNCHANGED <<by_id, order, next_token, spawning, taskVars>>

(* close_task: send_blocking, which fails at once when the task has ended.  *)
(* The tables are hash maps: drained, they come in any order.               *)
close_task ==
  /\ \E t \in closing :
       /\ Listening(t) => Len(channels[t]) < TASK_QUEUE
       /\ channels' = IF Listening(t) THEN [channels EXCEPT ![t] = Append(@, "Close")]
                                      ELSE channels
       /\ closing' = closing \ {t}
  /\ UNCHANGED <<controllerVars, inbox, tableVars, spawning, working, tasks>>

(* spawn_notification_task; a thread that cannot be had drops the receiver  *)
(* and never says Done.                                                     *)
spawn_notification_task ==
  /\ closing = {} /\ spawning # <<>>
  /\ \E outcome \in {"starting", "over"} :
       tasks' = [tasks EXCEPT ![Head(spawning)] = outcome]
  /\ spawning' = <<>>
  /\ UNCHANGED <<controllerVars, inbox, tableVars, closing, working, channels>>

-----------------------------------------------------------------------------
(* The task of one notification.                                            *)

TaskStep(t, from, to) ==
  /\ tasks[t] = from
  /\ tasks' = [tasks EXCEPT ![t] = to]
  /\ UNCHANGED <<controllerVars, workerVars>>

Show(t) ==
  /\ \E to \in {"shown", "ended"} : TaskStep(t, "starting", to)
  /\ UNCHANGED <<inbox, channels>>

(* The user's answer, or the notification's expiry.                         *)
Answered(t) ==
  /\ TaskStep(t, "shown", "ended")
  /\ UNCHANGED <<inbox, channels>>

Command(t) ==
  /\ channels[t] # <<>>
  /\ TaskStep(t, "shown", IF Head(channels[t]) = "Close" THEN "ended" ELSE "shown")
  /\ channels' = [channels EXCEPT ![t] = Tail(@)]
  /\ UNCHANGED inbox

(* The task has returned: its receiver is gone; now it tells the worker.    *)
Done(t) ==
  /\ TaskStep(t, "ended", "over")
  /\ inbox' = try_send(inbox, [kind |-> "Done", token |-> t])
  /\ UNCHANGED channels

Next ==
  \/ set_enabled \/ notify_local \/ handle_legacy \/ handle_kitty_text
  \/ handle_kitty_close \/ Refill \/ DropWorker
  \/ WorkerDisplay \/ WorkerClose \/ WorkerClear \/ WorkerDone \/ WorkerShutdown
  \/ close_task \/ spawn_notification_task
  \/ \E t \in Tokens : Show(t) \/ Answered(t) \/ Command(t) \/ Done(t)

Spec == Init /\ [][Next]_noteVars

-----------------------------------------------------------------------------
TypeOK ==
  /\ enabled \in BOOLEAN /\ dropped \in BOOLEAN /\ working \in BOOLEAN
  /\ tokens \in 0 .. RATE_BURST /\ requests \in 0 .. MaxRequests
  /\ next_token \in 0 .. MaxRequests
  /\ DOMAIN live \subseteq 1 .. next_token
  /\ tasks \in [Tokens -> {"none", "starting", "shown", "ended", "over"}]

(* Neither table outgrows its limit, and whatever is on the worker's table   *)
(* can still be evicted.                                                    *)
Bounded ==
  /\ Len(pending) <= MAX_PENDING
  /\ Cardinality(DOMAIN live) <= MAX_PENDING
  /\ working => DOMAIN live \subseteq Range(order)

(* An identifier names a task on the table, and one that carries it.         *)
NamedIsLive ==
  working => \A id \in DOMAIN by_id : by_id[id] \in DOMAIN live /\ live[by_id[id]] = id

(* A notification the worker forgot while it was up (closed, evicted,        *)
(* cleared, or left at shutdown) has been told to close or is about to be.   *)
ForgottenIsClosed ==
  \A t \in Tokens :
    Listening(t) /\ t \notin DOMAIN live =>
      t \in closing \/ "Close" \in Range(channels[t])

(* The table of the desktop's notifications stays within its limit and true, *)
(* whatever the queues lose and whenever a notification ends by itself.      *)
NotificationsKept == Bounded /\ NamedIsLive /\ ForgottenIsClosed
=============================================================================
