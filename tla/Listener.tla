------------------------------ MODULE Listener ------------------------------
(***************************************************************************)
(* The front door of a presenter (vivid/mod.rs, vivid/target.rs): the        *)
(* listener thread admits connections to the pre-handshake budget and to the *)
(* connection budget, each connection's thread proves its peer and publishes *)
(* a session, the window's thread offers geometries and announces them, and  *)
(* the service is dropped.  One action is a critical section, a socket call  *)
(* or a step between two of them.                                            *)
(*                                                                           *)
(* A geometry is the generation it was offered under.  What a peer has been  *)
(* told is the last target its WELCOME or TARGET_CHANGED carried.            *)
(***************************************************************************)
EXTENDS Integers, FiniteSets, Sequences, SequencesExt

CONSTANTS
  Conns,            \* connections
  Waker,            \* the connection wake_listener makes
  NoConn,
  Kinds,            \* what the connections may be for, see kind
  Profiles,         \* which targets: a subset of {"terminal", "desktop"}
  MAX_PENDING_CONNECTIONS, MAX_CONNECTIONS, MAX_SESSIONS,
  MaxGeneration,    \* bounds how often the geometry changes
  MayDrop           \* whether the window closes in this instance

VARIABLES
  kind,       \* kind[c]: what its first record asks for, or that there is none
  backlog,    \* connections the kernel holds for accept()
  listener,   \* where listener_loop is: [at, conn]
  open,       \* PendingHandshakes.open, oldest first
  active,     \* active_connections
  conn,       \* where each connection is, and whether its socket is shut down
  sessions,   \* Registry.sessions
  registry,   \* who holds the registry's lock across steps
  cached,     \* the WELCOME a lease keeps for an exact retry, by kind
  retained,   \* the kinds of lease whose child has its scene registered
  told,       \* what each session's peer knows of the target
  target,     \* the presentation target: [profile, generation, settled, queued]
  scene,      \* SceneState.target_generation
  window,     \* the settle timer, vivid_resize_settled and flush_display_change under way
  owner       \* where VividService::drop is

vars == <<kind, backlog, listener, open, active, conn, sessions, registry, cached, retained, told, target,
          scene, window, owner>>

Nothing == [generation |-> 0, geometry |-> 0, settled |-> FALSE]

Init ==
  /\ kind \in Kinds
  /\ backlog = <<>>
  /\ listener = [at |-> "top", conn |-> NoConn]
  /\ open = <<>>
  /\ active = 0
  /\ conn = [c \in Conns |-> [at |-> "away", cut |-> FALSE]]
  /\ sessions = {}
  /\ registry = NoConn
  /\ cached = [k \in {"activation", "resume"} |-> Nothing]
  /\ retained = {"resume"}
  /\ told = [c \in Conns |-> Nothing @@ [replay |-> FALSE]]
  /\ \E p \in Profiles :
       target = [profile |-> p, generation |-> 1, settled |-> TRUE, queued |-> 0]
  /\ scene = 1
  /\ window = [timer |-> 0, settling |-> 0, flush |-> Nothing]
  /\ owner = "holds"

targetVars == <<target, scene, window>>
doorVars == <<kind, backlog, listener, owner>>

At(c, places) == conn[c].at \in places
Move(c, place) == conn' = [conn EXCEPT ![c].at = place]

-----------------------------------------------------------------------------
(* The listener.                                                             *)

(* A peer connects; nothing is said yet.                                      *)
Dial(c) ==
  /\ c # Waker /\ At(c, {"away"}) /\ listener.at # "ended"
  /\ backlog' = Append(backlog, c)
  /\ Move(c, "backlog")
  /\ UNCHANGED <<kind, listener, open, active, sessions, registry, cached, retained, told, targetVars, owner>>

(* The loop's condition: parked in accept(), or over.                         *)
Park ==
  /\ listener.at = "top"
  /\ listener' = [listener EXCEPT !.at = IF owner \in {"holds", "disconnected"}
                                         THEN "accept" ELSE "ended"]
  /\ UNCHANGED <<kind, backlog, open, active, conn, sessions, registry, cached, retained, told, targetVars, owner>>

Accept ==
  /\ listener.at = "accept" /\ backlog # <<>>
  /\ listener' = [at |-> "admit", conn |-> Head(backlog)]
  /\ backlog' = Tail(backlog)
  /\ UNCHANGED <<kind, open, active, conn, sessions, registry, cached, retained, told, targetVars, owner>>

AcceptFails ==
  /\ listener.at = "accept" /\ backlog # <<>>
  /\ listener' = [at |-> "top", conn |-> NoConn]
  /\ Move(Head(backlog), "over")
  /\ backlog' = Tail(backlog)
  /\ UNCHANGED <<kind, open, active, sessions, registry, cached, retained, told, targetVars, owner>>

(* PendingConnection::admit: the new one is noted, the oldest is evicted by   *)
(* shutting its socket down.                                                  *)
Admit ==
  /\ listener.at = "admit"
  /\ LET all == Append(open, listener.conn)
         over == IF Len(all) > MAX_PENDING_CONNECTIONS THEN 1 ELSE 0
     IN /\ open' = SubSeq(all, over + 1, Len(all))
        /\ conn' = [c \in Conns |-> IF over = 1 /\ c = all[1]
                                    THEN [conn[c] EXCEPT !.cut = TRUE] ELSE conn[c]]
  /\ listener' = [listener EXCEPT !.at = "count"]
  /\ UNCHANGED <<kind, backlog, active, sessions, registry, cached, retained, told, targetVars, owner>>

Without(c) == SelectSeq(open, LAMBDA d : d # c)

(* The connection budget and the thread; a connection refused here, or whose  *)
(* thread cannot be started, gives up both claims.                            *)
Serve ==
  /\ listener.at = "count"
  /\ \/ /\ active < MAX_CONNECTIONS
        /\ active' = active + 1
        /\ Move(listener.conn, "reading")
        /\ UNCHANGED open
     \/ /\ open' = Without(listener.conn)
        /\ Move(listener.conn, "over")
        /\ UNCHANGED active
  /\ listener' = [at |-> "top", conn |-> NoConn]
  /\ UNCHANGED <<kind, backlog, sessions, registry, cached, retained, told, targetVars, owner>>

-----------------------------------------------------------------------------
(* A connection's thread.                                                    *)

(* The first record is refused, times out, or ends.  What never authenticates *)
(* has no other way on.                                                       *)
Refuse(c) ==
  /\ At(c, {"reading"})
  /\ Move(c, "ending")
  /\ UNCHANGED <<doorVars, open, active, sessions, registry, cached, retained, told, targetVars>>

(* establish_root_session holds the registry from here; the generation and    *)
(* the descriptor of the WELCOME are read under two locks of the target.      *)
ReadGeneration(c) ==
  /\ At(c, {"reading"}) /\ ~conn[c].cut /\ kind[c] # "silent"
  /\ registry = NoConn
  /\ Cardinality(sessions) < MAX_SESSIONS
  /\ \A d \in sessions : kind[d] = "root" \/ kind[d] # kind[c]  \* the lease is free
  /\ registry' = c
  /\ told' = [told EXCEPT ![c].generation = target.generation]
  /\ Move(c, "describing")
  /\ UNCHANGED <<doorVars, open, active, sessions, cached, retained, targetVars>>

(* A lease answers an exact retry with the bytes of the first answer.         *)
ReadDescriptor(c) ==
  /\ At(c, {"describing"})
  /\ LET fresh == [generation |-> told[c].generation, geometry |-> target.generation,
                   settled |-> target.settled]
         kept == kind[c] # "root" /\ cached[kind[c]] # Nothing
         welcome == IF kept THEN cached[kind[c]] ELSE fresh
     IN /\ told' = [told EXCEPT ![c] = welcome @@ [replay |-> kept]]
        /\ cached' = IF kind[c] = "root" THEN cached
                     ELSE [cached EXCEPT ![kind[c]] = welcome]
  /\ Move(c, "welcoming")
  /\ UNCHANGED <<doorVars, open, active, sessions, registry, retained, targetVars>>

(* The WELCOME is written, the scene registered unless it was retained, and   *)
(* the session published.  A lease whose child is lost keeps the scene or is  *)
(* over; one that is over answers nobody, so here it is kept.                 *)
Publish(c) ==
  /\ At(c, {"welcoming"})
  /\ scene' = IF kind[c] \notin retained /\ target.generation > scene
              THEN target.generation ELSE scene
  /\ retained' = retained \cup ({kind[c]} \ {"root"})
  /\ sessions' = sessions \cup {c}
  /\ registry' = NoConn
  /\ Move(c, "published")
  /\ UNCHANGED <<doorVars, open, active, cached, told, target, window>>

WelcomeFails(c) ==
  /\ At(c, {"welcoming"})
  /\ registry' = NoConn
  /\ Move(c, "ending")
  /\ UNCHANGED <<doorVars, open, active, sessions, cached, retained, told, targetVars>>

(* Mutant: the deadline is lifted and the claim is kept.                      *)
AuthenticatedKeeping(c) ==
  /\ At(c, {"published"})
  /\ Move(c, "authenticated")
  /\ UNCHANGED <<doorVars, open, active, sessions, registry, cached, retained, told, targetVars>>

(* PendingConnection::authenticated.                                          *)
Authenticated(c) ==
  /\ At(c, {"published"})
  /\ open' = Without(c)
  /\ Move(c, "authenticated")
  /\ UNCHANGED <<doorVars, active, sessions, registry, cached, retained, told, targetVars>>

(* handle_control installs the handle that disconnect_clients takes, and its  *)
(* actor.                                                                     *)
InstallShutdown(c) ==
  /\ At(c, {"authenticated"})
  /\ Move(c, "serving")
  /\ UNCHANGED <<doorVars, open, active, sessions, registry, cached, retained, told, targetVars>>

(* The session is lost: its peer went, its socket was shut down, or a step    *)
(* failed.  SessionCleanup retires it under the registry's lock.              *)
Retire(c) ==
  /\ At(c, {"published", "authenticated", "serving"})
  /\ registry = NoConn
  /\ sessions' = sessions \ {c}
  /\ Move(c, "ending")
  /\ UNCHANGED <<doorVars, open, active, registry, cached, retained, told, targetVars>>

(* ConnectionSlot::drop, then PendingConnection::drop.                        *)
ReleaseSlot(c) ==
  /\ At(c, {"ending"})
  /\ active' = active - 1
  /\ Move(c, "released")
  /\ UNCHANGED <<doorVars, open, sessions, registry, cached, retained, told, targetVars>>

ReleasePending(c) ==
  /\ At(c, {"released"})
  /\ open' = Without(c)
  /\ Move(c, "over")
  /\ UNCHANGED <<doorVars, active, sessions, registry, cached, retained, told, targetVars>>

-----------------------------------------------------------------------------
(* The window's thread.                                                      *)

(* offer_geometry by update_metrics, with the settle timer it rearms.         *)
OfferGeometry ==
  /\ window.flush = Nothing /\ owner = "holds"
  /\ target.generation < MaxGeneration
  /\ target' = [target EXCEPT !.generation = @ + 1, !.settled = FALSE,
                              !.queued = target.generation + 1]
  /\ window' = [window EXCEPT !.timer = target.generation + 1]
  /\ UNCHANGED <<doorVars, open, active, conn, sessions, registry, cached, retained, told, scene>>

(* settle_vivid_resize.                                                       *)
SettleTimer ==
  /\ window.flush = Nothing /\ owner = "holds"
  /\ window.timer # 0
  /\ window' = [window EXCEPT !.timer = 0, !.settling = window.timer]
  /\ UNCHANGED <<doorVars, open, active, conn, sessions, registry, cached, retained, told, target, scene>>

Change(generation, settled) ==
  [generation |-> generation, geometry |-> generation, settled |-> settled]

(* take_change of either target: what a draw announces, or Nothing.           *)
TakenChange ==
  LET settling == window.settling = target.generation
  IN IF target.queued # 0
     THEN Change(target.queued, target.profile = "terminal" /\ settling)
     ELSE IF settling /\ (target.profile = "terminal" \/ ~target.settled)
     THEN Change(target.generation, TRUE) ELSE Nothing

(* A draw: flush_display_change takes the change.                             *)
Draw ==
  /\ window.flush = Nothing /\ owner = "holds"
  /\ target.queued # 0 \/ window.settling # 0
  /\ window' = [window EXCEPT !.settling = 0, !.flush = TakenChange]
  /\ target' = [target EXCEPT !.queued = 0,
                              !.settled = @ \/ TakenChange.settled]
  /\ UNCHANGED <<doorVars, open, active, conn, sessions, registry, cached, retained, told, scene>>

(* The scene reaches the new target first.                                    *)
AdvanceScene ==
  /\ window.flush # Nothing /\ window.flush.generation > scene
  /\ scene' = window.flush.generation
  /\ UNCHANGED <<doorVars, open, active, conn, sessions, registry, cached, retained, told, target, window>>

(* The sessions are collected under the registry's lock and TARGET_CHANGED is *)
(* posted to each behind its WELCOME; one whose egress refuses it is being    *)
(* cut (Egress).                                                              *)
Announce ==
  /\ window.flush # Nothing /\ window.flush.generation <= scene
  /\ registry = NoConn
  /\ told' = [c \in Conns |-> IF c \in sessions THEN window.flush @@ [replay |-> FALSE]
                              ELSE told[c]]
  /\ window' = [window EXCEPT !.flush = Nothing]
  /\ UNCHANGED <<doorVars, open, active, conn, sessions, registry, cached, retained, target, scene>>

-----------------------------------------------------------------------------
(* VividService::drop, on the window's thread.                               *)

(* disconnect_clients stops every session that has installed its handle.      *)
Disconnect ==
  /\ MayDrop
  /\ owner = "holds" /\ window.flush = Nothing /\ registry = NoConn
  /\ conn' = [c \in Conns |-> IF c \in sessions /\ At(c, {"serving"})
                              THEN [conn[c] EXCEPT !.cut = TRUE] ELSE conn[c]]
  /\ owner' = "disconnected"
  /\ UNCHANGED <<kind, backlog, listener, open, active, sessions, registry, cached, retained, told, targetVars>>

StoreShutdown ==
  /\ owner = "disconnected"
  /\ owner' = "stored"
  /\ UNCHANGED <<kind, backlog, listener, open, active, conn, sessions, registry, cached, retained, told, targetVars>>

(* wake_listener connects, and lets go of its end at once.                    *)
WakeListener ==
  /\ owner = "stored" /\ At(Waker, {"away"})
  /\ backlog' = Append(backlog, Waker)
  /\ Move(Waker, "backlog")
  /\ owner' = "joining"
  /\ UNCHANGED <<kind, listener, open, active, sessions, registry, cached, retained, told, targetVars>>

Joined ==
  /\ owner = "joining" /\ listener.at = "ended"
  /\ owner' = "dropped"
  /\ UNCHANGED <<kind, backlog, listener, open, active, conn, sessions, registry, cached, retained, told, targetVars>>

Next ==
  \/ Park \/ Accept \/ AcceptFails \/ Admit \/ Serve
  \/ \E c \in Conns :
       \/ Dial(c) \/ Refuse(c) \/ ReadGeneration(c) \/ ReadDescriptor(c) \/ Publish(c)
       \/ WelcomeFails(c) \/ Authenticated(c) \/ InstallShutdown(c) \/ Retire(c)
       \/ ReleaseSlot(c) \/ ReleasePending(c)
  \/ OfferGeometry \/ SettleTimer \/ Draw \/ AdvanceScene \/ Announce
  \/ Disconnect \/ StoreShutdown \/ WakeListener \/ Joined

Spec == Init /\ [][Next]_vars

-----------------------------------------------------------------------------
Threads == {c \in Conns : ~At(c, {"away", "backlog", "released", "over"})}
Unproved == {c \in Conns : At(c, {"reading", "describing", "welcoming"})}

TypeOK ==
  /\ active \in 0 .. MAX_CONNECTIONS
  /\ sessions \subseteq Conns /\ registry \in Conns \cup {NoConn}
  /\ scene \in 1 .. MaxGeneration /\ target.generation \in 1 .. MaxGeneration
  /\ Range(backlog) \subseteq Conns /\ Range(open) \subseteq Conns

(* Claims on the two budgets are made and released once, and a peer that has  *)
(* said nothing holds one of few (PendingConnection): the connections in      *)
(* their handshake are the pending ones and those evicted, whose sockets are  *)
(* shut down; nothing else is pending but a session about to leave the list,  *)
(* a connection that ends, or the one being admitted.                         *)
BudgetsHold ==
  /\ Len(open) <= MAX_PENDING_CONNECTIONS
  /\ Cardinality(Range(open)) = Len(open)
  /\ \A c \in Unproved : c \in Range(open) \/ conn[c].cut
  /\ \A c \in Range(open) :
       c \in Unproved \/ At(c, {"published", "ending", "released"}) \/ c = listener.conn
  /\ active = Cardinality({c \in Threads : c # listener.conn})

(* No producer can name a target the scene has not reached                    *)
(* (flush_display_change).  A session whose scene was retained is not         *)
(* registered again, and its fresh WELCOME may be ahead until the next draw.  *)
SceneReached ==
  \A c \in sessions : kind[c] # "resume" => told[c].generation <= scene

(* Once the window has drawn and its timer has fired, every session knows the *)
(* target: its generation, its geometry, and that it has settled.  A WELCOME  *)
(* that repeats an earlier one is told what was true then.                    *)
TargetTold ==
  (target.queued = 0 /\ window.settling = 0 /\ window.timer = 0 /\ window.flush = Nothing) =>
    /\ target.profile = "terminal" => target.settled
    /\ \A c \in sessions : ~told[c].replay =>
         /\ told[c].generation = target.generation
         /\ told[c].geometry = target.generation
         /\ told[c].settled = target.settled

(* Dropping the service does not wait for a listener nobody wakes.            *)
ListenerWoken == owner = "joining" /\ listener.at \in {"top", "accept"} =>
  \/ listener.at = "top"
  \/ Waker \in Range(backlog)

ListenerKept == TypeOK /\ BudgetsHold /\ SceneReached /\ TargetTold /\ ListenerWoken
=============================================================================
