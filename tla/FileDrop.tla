------------------------------ MODULE FileDrop ------------------------------
(***************************************************************************)
(* File drops of one session.  The producer binds a surface or the whole   *)
(* target, the presenter offers a dropped file to a binding, the producer  *)
(* accepts the offer as a transfer and opens a connection that streams the *)
(* file.  A lost connection is resumed under the transfer's next           *)
(* generation.  The manager is one lock; a source (the open file) outlives *)
(* its offer in the connections that stream it, and has a lock of its own  *)
(* for the handle that stops its connection.                               *)
(*                                                                         *)
(* A connection is a thread; what it streams, its credit and its hash are  *)
(* left out.  A deadline passes at any time.  The producer names every     *)
(* transfer afresh.                                                        *)
(***************************************************************************)
EXTENDS Naturals, Sequences, FiniteSets

CONSTANTS
    Conns,               \* connection threads
    MaxPending,          \* maximum_pending_offers of a binding
    MaxActive,           \* maximum_active_transfers of a binding
    MaxPastes,           \* MAX_PENDING_PASTES
    MaxEpoch, MaxDrops, MaxGeneration   \* bounds of the instance

Keys == {"wide", "pane"}     \* the target-wide binding; one of a surface

VARIABLES
    bindings,       \* live bindings
    binding_epochs, \* by key, the newest producer epoch (0: none)
    offers,         \* by drop id
    transfers,      \* by transfer id, which is the id of its drop
    next_drop_id,
    automation,     \* drops an automation request started: does it want the path typed
    cancellations,  \* drops whose timeout the actor has yet to report
    pending_pastes, typed,   \* drops whose path is to be typed; was typed
    sources,        \* by drop id: [generation, cancelled, slot]
    stopping,       \* drops whose cancelled source has yet to stop its connection
    conn,           \* [phase, drop, gen, stopped]
    ended           \* remove_session ran

vars == <<bindings, binding_epochs, offers, transfers, next_drop_id, automation, cancellations,
          pending_pastes, typed, sources, stopping, conn, ended>>
drops == <<bindings, binding_epochs, offers, transfers, next_drop_id, automation, cancellations,
           pending_pastes, typed>>

NoSlot == <<>>
Idle == [phase |-> "idle", drop |-> 0, gen |-> 0, stopped |-> FALSE]
Only(f, S) == [x \in DOMAIN f \cap S |-> f[x]]
Put(f, x, y) == [z \in DOMAIN f \cup {x} |-> IF z = x THEN y ELSE f[z]]

(***************************************************************************)
(* The manager.                                                            *)
(***************************************************************************)
Manager == stopping = {} /\ ~ended
Over(o) == o.cancelled \/ o.terminal # "none"

(* cancel_offer_source for the drops ds: each source they still hold is    *)
(* marked, and is then made to stop its connection (StopSource).           *)
CancelSources(os, ds) ==
    LET held == {d \in ds \cap DOMAIN os : os[d].source}
    IN  /\ sources' = [d \in DOMAIN sources |->
                          IF d \in held THEN [sources[d] EXCEPT !.cancelled = TRUE] ELSE sources[d]]
        /\ stopping' = held

(* expire: what is kept long enough is forgotten, what waited too long is  *)
(* cancelled.                                                              *)
Forgotten == {d \in DOMAIN offers : offers[d].retained = "over"}
TimedOut ==
    {d \in DOMAIN offers \ Forgotten :
        /\ ~Over(offers[d])
        /\ IF d \in DOMAIN transfers THEN ~transfers[d].active /\ transfers[d].due
           ELSE offers[d].due}

Expired ==
    [offers |-> [d \in DOMAIN offers \ Forgotten |->
                   IF d \in TimedOut
                   THEN [offers[d] EXCEPT !.source = FALSE, !.cancelled = TRUE, !.retained = "kept"]
                   ELSE offers[d]],
     transfers |-> Only(transfers, DOMAIN transfers \ Forgotten)]

(* An operation that expires first, leaving os and ts. *)
AfterExpire(os, ts) ==
    /\ offers' = os
    /\ transfers' = ts
    /\ automation' = Only(automation, DOMAIN automation \ Forgotten)
    /\ cancellations' = cancellations \cup TimedOut
    /\ CancelSources(offers, Forgotten \cup TimedOut)

(* set_binding with a newer epoch; an older or equal one changes nothing. *)
SetBinding(k) ==
    /\ Manager
    /\ binding_epochs[k] < MaxEpoch
    /\ binding_epochs' = [binding_epochs EXCEPT ![k] = @ + 1]
    /\ bindings' = bindings \cup {k}
    /\ UNCHANGED <<offers, transfers, next_drop_id, automation, cancellations, pending_pastes,
                   typed, sources, stopping, conn, ended>>

(* The offers and transfers of the keys ks go with them. *)
OfKeys(ks) == {d \in DOMAIN offers : offers[d].key \in ks}
RemoveOffers(ks) ==
    /\ offers' = Only(offers, DOMAIN offers \ OfKeys(ks))
    /\ transfers' = [d \in {x \in DOMAIN transfers : transfers[x].key \notin ks} |-> transfers[d]]
    /\ CancelSources(offers, OfKeys(ks))

(* set_binding that disables: remove_binding. *)
Disable(k) ==
    /\ Manager
    /\ binding_epochs[k] < MaxEpoch
    /\ binding_epochs' = [binding_epochs EXCEPT ![k] = @ + 1]
    /\ bindings' = bindings \ {k}
    /\ RemoveOffers({k})
    /\ UNCHANGED <<next_drop_id, automation, cancellations, pending_pastes, typed, conn, ended>>

remove_surface ==
    /\ Manager
    /\ bindings' = bindings \ {"pane"}
    /\ binding_epochs' = [binding_epochs EXCEPT !["pane"] = 0]
    /\ RemoveOffers({"pane"})
    /\ cancellations' = cancellations \ OfKeys({"pane"})
    /\ UNCHANGED <<next_drop_id, automation, pending_pastes, typed, conn, ended>>

(* A paste whose offer is gone is not typed, and every offer is.           *)
remove_contexts ==
    /\ Manager
    /\ bindings' = {} /\ binding_epochs' = [k \in Keys |-> 0]
    /\ RemoveOffers(Keys)
    /\ cancellations' = {}
    /\ pending_pastes' = <<>>
    /\ UNCHANGED <<next_drop_id, automation, typed, conn, ended>>

remove_session ==
    /\ Manager
    /\ bindings' = {} /\ binding_epochs' = [k \in Keys |-> 0]
    /\ RemoveOffers(Keys)
    /\ cancellations' = {} /\ pending_pastes' = <<>> /\ automation' = <<>>
    /\ ended' = TRUE
    /\ UNCHANGED <<next_drop_id, typed, conn>>

(* offer_local_file and offer_source, for a gesture or for automation: the *)
(* surface under the pointer wins, else the target-wide binding.           *)
OfferFile(hit, auto, type_path) ==
    /\ Manager
    /\ next_drop_id < MaxDrops
    /\ LET e == Expired
           k == IF hit /\ "pane" \in bindings THEN "pane" ELSE "wide"
           pending == {d \in DOMAIN e.offers : /\ e.offers[d].key = k /\ ~Over(e.offers[d])
                                               /\ d \notin DOMAIN e.transfers}
           d == next_drop_id + 1
       IN  IF k \notin bindings \/ Cardinality(pending) >= MaxPending
           THEN AfterExpire(e.offers, e.transfers) /\ UNCHANGED next_drop_id
           ELSE /\ next_drop_id' = d
                /\ offers' = Put(e.offers, d, [key |-> k, source |-> TRUE, due |-> FALSE,
                                               terminal |-> "none", cancelled |-> FALSE, retained |-> "no"])
                /\ transfers' = e.transfers
                /\ automation' = LET kept == Only(automation, DOMAIN automation \ Forgotten)
                                 IN  IF auto THEN Put(kept, d, type_path) ELSE kept
                /\ cancellations' = cancellations \cup TimedOut
                /\ CancelSources(offers, Forgotten \cup TimedOut)
    /\ UNCHANGED <<bindings, binding_epochs, pending_pastes, typed, conn, ended>>

(* accept: a repeat of an accepted offer is answered again; otherwise the  *)
(* binding must be live and below its limit of transfers.                  *)
Accept(d) ==
    /\ Manager
    /\ LET e == Expired
           live == {t \in DOMAIN e.transfers : /\ e.transfers[t].key = e.offers[d].key
                                               /\ t \in DOMAIN e.offers /\ ~Over(e.offers[t])}
       IN  IF \/ d \notin DOMAIN e.offers \/ Over(e.offers[d]) \/ d \in DOMAIN e.transfers
              \/ e.offers[d].key \notin bindings \/ Cardinality(live) >= MaxActive
           THEN AfterExpire(e.offers, e.transfers)
           ELSE AfterExpire(e.offers, Put(e.transfers, d,
                   [key |-> e.offers[d].key, gen |-> 1, active |-> FALSE, due |-> FALSE]))
    /\ UNCHANGED <<bindings, binding_epochs, next_drop_id, pending_pastes, typed, conn, ended>>

(* advance: the old connection is retired before the next generation may   *)
(* open.  The manager does not expire here.  FileSource::advance holds the *)
(* source's lock throughout.                                               *)
Advance(d) ==
    /\ Manager
    /\ d \in DOMAIN transfers /\ transfers[d].gen < MaxGeneration
    /\ d \in DOMAIN offers /\ offers[d].source
    /\ transfers[d].key \in bindings
    /\ LET slot == sources[d].slot
       IN  /\ sources' = [sources EXCEPT ![d].generation = transfers[d].gen + 1, ![d].slot = NoSlot]
           /\ conn' = IF slot = NoSlot THEN conn ELSE [conn EXCEPT ![slot[2]].stopped = TRUE]
    /\ transfers' = [transfers EXCEPT ![d].gen = @ + 1, ![d].active = FALSE, ![d].due = FALSE]
    /\ UNCHANGED <<bindings, binding_epochs, offers, next_drop_id, automation, cancellations,
                   pending_pastes, typed, stopping, ended>>

(* cancel, by the producer; it may come for a drop that is over. *)
Cancel(d) ==
    /\ Manager
    /\ d \in DOMAIN offers
    /\ transfers' = IF d \in DOMAIN transfers THEN [transfers EXCEPT ![d].active = FALSE] ELSE transfers
    /\ offers' = [offers EXCEPT ![d].source = FALSE, ![d].cancelled = TRUE, ![d].retained = "kept"]
    /\ CancelSources(offers, {d})
    /\ UNCHANGED <<bindings, binding_epochs, next_drop_id, automation, cancellations,
                   pending_pastes, typed, conn, ended>>

(* service_timeouts by the session's actor; status and automation_state    *)
(* expire as well.                                                         *)
ServiceTimeouts ==
    /\ Manager
    /\ LET e == Expired
       IN  /\ offers' = e.offers /\ transfers' = e.transfers
           /\ automation' = Only(automation, DOMAIN automation \ Forgotten)
           /\ CancelSources(offers, Forgotten \cup TimedOut)
    /\ cancellations' = {}
    /\ UNCHANGED <<bindings, binding_epochs, next_drop_id, pending_pastes, typed, conn, ended>>

(* take_pending_pastes by the event loop, in the order of the drops.       *)
TakePastes ==
    /\ stopping = {}
    /\ pending_pastes # <<>>
    /\ LET I == DOMAIN pending_pastes
       IN  \E at \in [I -> I] :
             /\ \A i, j \in I : i < j => at[i] # at[j] /\ pending_pastes[at[i]] <= pending_pastes[at[j]]
             /\ typed' = typed \o [i \in I |-> pending_pastes[at[i]]]
    /\ pending_pastes' = <<>>
    /\ UNCHANGED <<bindings, binding_epochs, offers, transfers, next_drop_id, automation,
                   cancellations, sources, stopping, conn, ended>>

(***************************************************************************)
(* Sources and connections.                                                *)
(***************************************************************************)

(* The second half of FileSource::cancel; the manager is locked meanwhile. *)
StopSource(d) ==
    /\ d \in stopping
    /\ stopping' = stopping \ {d}
    /\ LET slot == sources[d].slot
       IN  conn' = IF slot = NoSlot THEN conn ELSE [conn EXCEPT ![slot[2]].stopped = TRUE]
    /\ sources' = [sources EXCEPT ![d].slot = NoSlot]
    /\ UNCHANGED <<drops, ended>>

(* ensure_generation *)
Current(c) == ~sources[conn[c].drop].cancelled /\ sources[conn[c].drop].generation = conn[c].gen

(* begin_transfer, for an open that names the transfer's generation. *)
Open(c, d) ==
    /\ Manager
    /\ conn[c].phase = "idle"
    /\ LET e == Expired
       IN  IF d \notin DOMAIN e.transfers \/ d \notin DOMAIN e.offers
           THEN AfterExpire(e.offers, e.transfers) /\ UNCHANGED conn
           ELSE IF e.transfers[d].active \/ Over(e.offers[d])
           THEN AfterExpire(e.offers, e.transfers) /\ UNCHANGED conn
           ELSE /\ AfterExpire(e.offers, [e.transfers EXCEPT ![d].active = TRUE])
                /\ conn' = [conn EXCEPT ![c] = [phase |-> IF e.offers[d].source THEN "begun" ELSE "idle",
                                                drop |-> d, gen |-> e.transfers[d].gen, stopped |-> FALSE]]
    /\ UNCHANGED <<bindings, binding_epochs, next_drop_id, pending_pastes, typed, ended>>

Moves(c, phase) == conn' = [conn EXCEPT ![c].phase = phase]

(* install_shutdown, under the source's lock. *)
Install(c) ==
    /\ conn[c].phase = "begun"
    /\ LET d == conn[c].drop
       IN  IF Current(c)
           THEN sources' = [sources EXCEPT ![d].slot = <<conn[c].gen, c>>] /\ Moves(c, "installed")
           ELSE UNCHANGED sources /\ Moves(c, "failed")
    /\ UNCHANGED <<drops, stopping, ended>>

(* The reply, the data and FILE_FINISH, each after ensure_generation; any  *)
(* write may fail, and so does a binding that is gone.                     *)
Stream(c) ==
    /\ conn[c].phase = "installed"
    /\ \/ Current(c) /\ ~conn[c].stopped /\ Moves(c, "sent")
       \/ Moves(c, "failed")
    /\ UNCHANGED <<drops, sources, stopping, ended>>

(* The result is read, with no further check; a stopped or lost connection *)
(* reads nothing.                                                          *)
ReadResult(c) ==
    /\ conn[c].phase = "sent"
    /\ \/ ~conn[c].stopped /\ \E r \in {"committed", "refused"} : Moves(c, r)
       \/ Moves(c, "failed")
    /\ UNCHANGED <<drops, sources, stopping, ended>>

(* clear_shutdown, which leaves a later generation's handle alone. *)
ClearShutdown(c) ==
    /\ conn[c].phase \in {"committed", "refused", "failed"}
    /\ LET d == conn[c].drop
           mine == sources[d].slot # NoSlot /\ sources[d].slot[1] = conn[c].gen
       IN  sources' = IF mine THEN [sources EXCEPT ![d].slot = NoSlot] ELSE sources
    /\ Moves(c, CASE conn[c].phase = "failed" -> "lost"
                  [] conn[c].phase = "committed" -> "done-committed"
                  [] conn[c].phase = "refused" -> "done-refused")
    /\ UNCHANGED <<drops, stopping, ended>>

Finished(c) == conn[c].phase \in {"done-committed", "done-refused"}

(* finish_transfer, with the paste option and the path profile as they     *)
(* stand: the first terminal result of a live transfer counts.             *)
FinishTransfer(c, allow) ==
    /\ stopping = {}
    /\ Finished(c)
    /\ conn' = [conn EXCEPT ![c] = Idle]
    /\ LET d == conn[c].drop
           result == IF conn[c].phase = "done-committed" THEN "committed" ELSE "refused"
           counts == /\ d \in DOMAIN transfers /\ transfers[d].gen = conn[c].gen
                     /\ d \in DOMAIN offers /\ ~Over(offers[d])
           wanted == allow /\ (d \in DOMAIN automation => automation[d])
           paste == wanted /\ result = "committed" /\ transfers[d].key \in bindings
       IN  IF ~counts THEN UNCHANGED <<offers, transfers, pending_pastes>>
           ELSE /\ transfers' = [transfers EXCEPT ![d].active = FALSE]
                /\ offers' = [offers EXCEPT ![d].source = FALSE, ![d].terminal = result,
                                            ![d].retained = "kept"]
                /\ pending_pastes' = IF paste /\ Len(pending_pastes) < MaxPastes
                                     THEN Append(pending_pastes, d) ELSE pending_pastes
    /\ UNCHANGED <<bindings, binding_epochs, next_drop_id, automation, cancellations, typed, sources,
                   stopping, ended>>

connection_lost_mut(c) ==
    /\ stopping = {}
    /\ conn[c].phase = "lost"
    /\ conn' = [conn EXCEPT ![c] = Idle]
    /\ LET d == conn[c].drop
       IN  transfers' = IF d \in DOMAIN transfers
                        THEN [transfers EXCEPT ![d].active = FALSE, ![d].due = FALSE] ELSE transfers
    /\ UNCHANGED <<bindings, binding_epochs, offers, next_drop_id, automation, cancellations,
                   pending_pastes, typed, sources, stopping, ended>>

connection_lost(c) ==
    /\ stopping = {}
    /\ conn[c].phase = "lost"
    /\ conn' = [conn EXCEPT ![c] = Idle]
    /\ LET d == conn[c].drop
       IN  transfers' = IF d \in DOMAIN transfers /\ transfers[d].gen = conn[c].gen
                        THEN [transfers EXCEPT ![d].active = FALSE,
                                               ![d].due = @ /\ transfers[d].key \notin bindings]
                        ELSE transfers
    /\ UNCHANGED <<bindings, binding_epochs, offers, next_drop_id, automation, cancellations,
                   pending_pastes, typed, sources, stopping, ended>>

(* Time: the deadline of an offer, of an idle transfer, of a kept result. *)
Passes(d) ==
    /\ d \in DOMAIN offers
    /\ \/ /\ offers[d].retained = "kept"
          /\ offers' = [offers EXCEPT ![d].retained = "over"] /\ UNCHANGED transfers
       \/ /\ offers[d].retained = "no" /\ d \notin DOMAIN transfers /\ ~offers[d].due
          /\ offers' = [offers EXCEPT ![d].due = TRUE] /\ UNCHANGED transfers
       \/ /\ offers[d].retained = "no" /\ d \in DOMAIN transfers /\ ~transfers[d].due
          /\ transfers' = [transfers EXCEPT ![d].due = TRUE] /\ UNCHANGED offers
    /\ UNCHANGED <<bindings, binding_epochs, next_drop_id, automation, cancellations,
                   pending_pastes, typed, sources, stopping, conn, ended>>

Init ==
    /\ bindings = {} /\ binding_epochs = [k \in Keys |-> 0]
    /\ offers = <<>> /\ transfers = <<>> /\ next_drop_id = 0
    /\ automation = <<>> /\ cancellations = {} /\ pending_pastes = <<>> /\ typed = <<>>
    /\ sources = [d \in 1..MaxDrops |-> [generation |-> 1, cancelled |-> FALSE, slot |-> NoSlot]]
    /\ stopping = {}
    /\ conn = [c \in Conns |-> Idle]
    /\ ended = FALSE

Next ==
    \/ \E k \in Keys : SetBinding(k) \/ Disable(k)
    \/ remove_surface \/ remove_contexts \/ remove_session \/ ServiceTimeouts \/ TakePastes
    \/ \E hit, auto, type_path \in BOOLEAN : (type_path => auto) /\ OfferFile(hit, auto, type_path)
    \/ \E d \in 1..MaxDrops :
          \/ Accept(d) \/ Advance(d) \/ Cancel(d) \/ StopSource(d) \/ Passes(d)
          \/ \E c \in Conns : Open(c, d)
    \/ \E c \in Conns :
          \/ Install(c) \/ Stream(c) \/ ReadResult(c) \/ ClearShutdown(c) \/ connection_lost(c)
          \/ \E allow \in BOOLEAN : FinishTransfer(c, allow)

Spec == Init /\ [][Next]_vars
-----------------------------------------------------------------------------
Serves(c, d) == conn[c].phase # "idle" /\ conn[c].drop = d
Streaming(c) == conn[c].phase \in {"installed", "sent"}

(* A transfer belongs to an offer that exists, on the same binding: advance *)
(* indexes the offers with it.                                             *)
Indexed ==
    \A d \in DOMAIN transfers : d \in DOMAIN offers /\ offers[d].key = transfers[d].key

(* An active transfer never expires, so a connection of its generation must *)
(* be at work on it, and only one.                                         *)
ActiveIsServed ==
    \A d \in DOMAIN transfers :
        LET at == {c \in Conns : Serves(c, d) /\ conn[c].gen = transfers[d].gen}
        IN  /\ transfers[d].active => at # {}
            /\ Cardinality({c \in at : ~Over(offers[d])}) <= 1

(* A connection whose source was cancelled or moved to a later generation   *)
(* has been told to stop, whichever way installing its handle and           *)
(* retiring it interleaved: nobody waits on it for ever.                   *)
RetiredIsStopped ==
    stopping = {} => \A c \in Conns : Streaming(c) /\ ~Current(c) => conn[c].stopped

(* A drop that is over holds no file open; a path is typed at most once,    *)
(* however often its result is replayed.                                   *)
OverIsReleased == \A d \in DOMAIN offers : Over(offers[d]) => ~offers[d].source
TypedOnce ==
    LET all == typed \o pending_pastes
    IN  \A i, j \in DOMAIN all : all[i] = all[j] => i = j

(* File drops end cleanly under every order of binding, transfer and        *)
(* connection.                                                             *)
DropsKept == Indexed /\ ActiveIsServed /\ RetiredIsStopped /\ OverIsReleased /\ TypedOnce
=============================================================================
