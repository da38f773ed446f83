------------------------------- MODULE Leases -------------------------------
(***************************************************************************)
(* The session registry of a Vivid presenter and one session lease          *)
(* (src/vivid/mod.rs, src/vivid/lease.rs): a controller session issues a    *)
(* lease, child connections activate it, lose their transport, retry a lost *)
(* WELCOME and resume, while deadlines expire, the controller revokes and   *)
(* goes away, and the pane disconnects its clients.                         *)
(*                                                                         *)
(* Every action is one critical section of the registry mutex (or one call  *)
(* made outside it), so the interleavings between a connection's teardown,  *)
(* the next connection's establishment and the controller's actor are the   *)
(* ones the threads really have.  A session tag, like a resume key, is      *)
(* identified by the session and the resume generation it was derived for.  *)
(***************************************************************************)
EXTENDS Naturals, FiniteSets

CONSTANTS
  Conns,         \* control connections a child may make, each used once
  NoConn,        \* the absence of a connection
  MaxIssues,     \* bound: how often the controller issues the lease
  MaxGeneration, \* bound: resume generations
  MaxSessions,   \* MAX_SESSIONS, the controller's own session not counted
  CanSuspend     \* the lease's cleanup policy is SuspendOnUncleanLoss with a grace

ASSUME LeasesAssumption ==
  /\ NoConn \notin Conns /\ IsFiniteSet(Conns)
  /\ MaxIssues \in Nat /\ MaxGeneration \in Nat /\ MaxSessions \in Nat \ {0}
  /\ CanSuspend \in BOOLEAN

VARIABLES
  lease,      \* the entry of LeaseTable under the one key used, or NoLease
  sessions,   \* Registry.sessions: session ID to the connection of its runtime
  byTag,      \* Registry.by_tag, as the set of published tags
  scenes,     \* sessions registered in the shared scene
  charged,    \* contracts the controller's context has reserved for leases
  nextSession,\* ServiceShared.next_session
  issues,     \* how often the lease was issued
  conn,       \* the child connections
  issuer,     \* where the controller's threads are
  releasing   \* per thread: the revocation it is in the middle of, or NoRelease

registryVars == <<lease, sessions, byTag>>
vars == <<registryVars, scenes, charged, nextSession, issues, conn, issuer, releasing>>

SessionIds  == 1..MaxIssues
Generations == 0..MaxGeneration
Tags        == SessionIds \X Generations
NoTag       == <<0, 0>>
NoLease     == [state |-> "none"]
NoRelease   == MaxIssues + 1
Threads     == Conns \cup {NoConn}     \* NoConn stands for the controller's actor

Lease == [state : {"issued", "reserved", "active", "suspended"},
          awaiting : BOOLEAN,             \* awaiting_first
          live : BOOLEAN,                 \* LeaseMachine: a transport is attached
          due : BOOLEAN,                  \* the deadline now in force has passed
          child : SessionIds \cup {0},
          generation : Generations,
          key : Tags \cup {NoTag}]        \* resume_key

ConnPlaces ==
  {"idle", "auth", "starting", "open", "ending", "finding", "own", "suspending",
   "unpublish", "revoke", "release", "drop", "dropScene", "closed"}

TypeOK ==
  /\ lease \in Lease \cup {NoLease}
  /\ sessions \in [SessionIds -> Conns \cup {NoConn}]
  /\ byTag \subseteq Tags
  /\ scenes \subseteq SessionIds
  /\ charged \in 0..MaxIssues
  /\ nextSession \in 1..(MaxIssues + 1)
  /\ issues \in 0..MaxIssues
  /\ conn \in [Conns -> [place : ConnPlaces, resume : BOOLEAN,
                         tag : Tags \cup {NoTag}, spoken : BOOLEAN, clean : BOOLEAN]]
  /\ issuer \in {"serving", "expiring", "release", "ending", "endRelease", "unlisted", "gone"}
  /\ releasing \in [Threads -> SessionIds \cup {0, NoRelease}]

Init ==
  /\ lease = NoLease
  /\ sessions = [s \in SessionIds |-> NoConn]
  /\ byTag = {} /\ scenes = {} /\ charged = 0
  /\ nextSession = 1 /\ issues = 0
  /\ conn = [c \in Conns |->
               [place |-> "idle", resume |-> FALSE, tag |-> NoTag,
                spoken |-> FALSE, clean |-> FALSE]]
  /\ issuer = "serving" /\ releasing = [t \in Threads |-> NoRelease]

HasLease == lease # NoLease
Session(c) == conn[c].tag[1]
Place(c) == conn[c].place
At(c, place) == conn' = [conn EXCEPT ![c].place = place]
Published == {s \in SessionIds : sessions[s] # NoConn}

(* Mutant: expired() forgets a lease whose WELCOME could not be written.     *)
WaitingButReserved(l) == l.state \in {"issued", "suspended"} \/ (l.state = "active" /\ l.awaiting)

(* Lease::expired(): the deadline of the state the lease is in has passed.   *)
Waiting(l) == l.state \in {"issued", "reserved", "suspended"} \/ (l.state = "active" /\ l.awaiting)
Expired(l) == Waiting(l) /\ l.due

(* LeaseMachine::confirm_transport_lost(false), external: before the first   *)
(* record the establishment outcome is kept, afterwards the lease suspends.  *)
LossConfirmable(l) == l.live
AfterLoss(l) ==
  IF l.awaiting THEN [l EXCEPT !.live = FALSE]
                ELSE [l EXCEPT !.live = FALSE, !.state = "suspended"]

(* Registry::remove_session(): retire whatever runtime the ID names now, and *)
(* the tag of that runtime.                                                  *)
RemoveSession(s) ==
  /\ sessions' = [sessions EXCEPT ![s] = NoConn]
  /\ byTag' = IF sessions[s] = NoConn THEN byTag ELSE byTag \ {conn[sessions[s]].tag}

-----------------------------------------------------------------------------
(* The controller's actor.                                                   *)

(* CREATE_SESSION_LEASE: reserve the capacity and insert the lease.          *)
CreateLease ==
  /\ issuer = "serving" /\ ~HasLease /\ issues < MaxIssues
  /\ lease' = [state |-> "issued", awaiting |-> TRUE, live |-> FALSE, due |-> FALSE,
               child |-> 0, generation |-> 0, key |-> NoTag]
  /\ charged' = charged + 1
  /\ issues' = issues + 1
  /\ UNCHANGED <<sessions, byTag, scenes, nextSession, conn, issuer, releasing>>

(* Mutant: the lease is looked up here and removed by somebody later.        *)
TakeLeaseKeepsEntry(t) ==
  /\ IF lease.child = 0 THEN UNCHANGED <<sessions, byTag>> ELSE RemoveSession(lease.child)
  /\ releasing' = [releasing EXCEPT ![t] = lease.child]
  /\ UNCHANGED lease

(* revoke_lease(), its registry critical section: take the lease out and     *)
(* retire its child.  Nothing shuts the child's transport down.              *)
TakeLease(t) ==
  /\ lease' = NoLease
  /\ IF lease.child = 0 THEN UNCHANGED <<sessions, byTag>> ELSE RemoveSession(lease.child)
  /\ releasing' = [releasing EXCEPT ![t] = lease.child]

(* Mutant: the contract is given back for the lease and again for its child. *)
ReleaseTwice(t) ==
  /\ charged' = charged - 2
  /\ scenes' = scenes \ {releasing[t]}
  /\ releasing' = [releasing EXCEPT ![t] = NoRelease]

(* Mutant: the child's scene is left to its own teardown.                    *)
ReleaseKeepsScene(t) ==
  /\ charged' = charged - 1
  /\ releasing' = [releasing EXCEPT ![t] = NoRelease]
  /\ UNCHANGED scenes

(* revoke_lease() after the registry: release the capacity, clear the scene. *)
ReleaseLease(t) ==
  /\ charged' = charged - 1
  /\ scenes' = scenes \ {releasing[t]}
  /\ releasing' = [releasing EXCEPT ![t] = NoRelease]

(* REVOKE_SESSION_LEASE.                                                     *)
RevokeLease ==
  /\ issuer = "serving" /\ HasLease
  /\ TakeLease(NoConn)
  /\ issuer' = "release"
  /\ UNCHANGED <<scenes, charged, nextSession, issues, conn>>

(* expire_leases(): the expired keys are collected in one critical section   *)
(* and revoked in others.                                                    *)
ExpireCollect ==
  /\ issuer = "serving" /\ HasLease /\ Expired(lease)
  /\ issuer' = "expiring"
  /\ UNCHANGED <<registryVars, scenes, charged, nextSession, issues, conn, releasing>>

ExpireRevoke ==
  /\ issuer = "expiring"
  /\ \/ HasLease /\ TakeLease(NoConn) /\ issuer' = "release"
     \/ ~HasLease /\ issuer' = "serving" /\ UNCHANGED <<registryVars, releasing>>
  /\ UNCHANGED <<scenes, charged, nextSession, issues, conn>>

IssuerReleases ==
  /\ issuer \in {"release", "endRelease"}
  /\ ReleaseLease(NoConn)
  /\ issuer' = IF issuer = "release" THEN "serving" ELSE "unlisted"
  /\ UNCHANGED <<registryVars, nextSession, issues, conn>>

(* finish_session() of the controller: revoke what it issued, then unlist it.*)
IssuerEnds ==
  /\ issuer = "serving"
  /\ issuer' = "ending"
  /\ UNCHANGED <<registryVars, scenes, charged, nextSession, issues, conn, releasing>>

IssuerRevokesAll ==
  /\ issuer = "ending"
  /\ \/ HasLease /\ TakeLease(NoConn) /\ issuer' = "endRelease"
     \/ ~HasLease /\ issuer' = "unlisted" /\ UNCHANGED <<registryVars, releasing>>
  /\ UNCHANGED <<scenes, charged, nextSession, issues, conn>>

IssuerUnlisted ==
  /\ issuer = "unlisted"
  /\ issuer' = "gone"
  /\ UNCHANGED <<registryVars, scenes, charged, nextSession, issues, conn, releasing>>

(* The activation deadline, or the grace, runs out.                          *)
DeadlinePasses ==
  /\ HasLease /\ Waiting(lease) /\ ~lease.due
  /\ lease' = [lease EXCEPT !.due = TRUE]
  /\ UNCHANGED <<sessions, byTag, scenes, charged, nextSession, issues, conn, issuer, releasing>>

-----------------------------------------------------------------------------
(* A child connection's HELLO: establish_root_session().                     *)

(* find_activation() with the right secret, or find_resume() followed by the *)
(* generation check and the proof against the retained resume key.           *)
AuthActivation(c) ==
  /\ Place(c) = "idle" /\ HasLease /\ ~Expired(lease)
  /\ conn' = [conn EXCEPT ![c].place = "auth", ![c].resume = FALSE]
  /\ UNCHANGED <<registryVars, scenes, charged, nextSession, issues, issuer, releasing>>

AuthResume(c, g) ==
  /\ Place(c) = "idle" /\ HasLease /\ ~Expired(lease)
  /\ lease.state = "suspended" \/ (lease.awaiting /\ lease.key # NoTag)
  /\ lease.generation = g \/ (lease.awaiting /\ lease.generation = g + 1)
  /\ lease.key = <<lease.child, g>>
  /\ conn' = [conn EXCEPT ![c].place = "auth", ![c].resume = TRUE, ![c].tag = <<lease.child, g>>]
  /\ UNCHANGED <<registryVars, scenes, charged, nextSession, issues, issuer, releasing>>

(* LeaseMachine::begin_activation() and begin_resume(), external.  A fresh   *)
(* attempt wins an issued or suspended lease; an exact retry wins again only *)
(* after its transport was confirmed lost and before its first record.       *)
FreshActivation(c) == ~conn[c].resume /\ lease.state = "issued"
RetryActivation(c) ==
  ~conn[c].resume /\ lease.state \in {"reserved", "active"} /\ lease.generation = 0
  /\ lease.awaiting /\ ~lease.live
FreshResume(c) ==
  conn[c].resume /\ lease.state = "suspended" /\ conn[c].tag = <<lease.child, lease.generation>>
  /\ lease.generation < MaxGeneration
RetryResume(c) ==
  conn[c].resume /\ lease.state \in {"reserved", "active"} /\ lease.awaiting /\ ~lease.live
  /\ conn[c].tag[1] = lease.child /\ lease.generation = conn[c].tag[2] + 1

(* Mutant: a resume erases the prior key at once, as resumed() does later.   *)
DecidedErasesKey(c) ==
  IF FreshActivation(c) THEN [lease EXCEPT !.state = "reserved", !.live = TRUE, !.child = nextSession]
  ELSE IF FreshResume(c) THEN [lease EXCEPT !.state = "reserved", !.live = TRUE, !.awaiting = TRUE,
                                            !.generation = @ + 1, !.due = FALSE, !.key = NoTag]
  ELSE [lease EXCEPT !.live = TRUE]

(* The lease once the attempt is decided, before its WELCOME is written.  A  *)
(* resume advances the generation, keeps the prior key for a retry and opens *)
(* a new retry window.                                                       *)
Decided(c) ==
  IF FreshActivation(c) THEN [lease EXCEPT !.state = "reserved", !.live = TRUE, !.child = nextSession]
  ELSE IF FreshResume(c) THEN [lease EXCEPT !.state = "reserved", !.live = TRUE, !.awaiting = TRUE,
                                            !.generation = @ + 1, !.due = @ /\ lease.awaiting]
  ELSE [lease EXCEPT !.live = TRUE]

Admissible(c) ==
  /\ Place(c) = "auth" /\ HasLease
  /\ Cardinality(Published) < MaxSessions
  /\ FreshActivation(c) \/ RetryActivation(c) \/ FreshResume(c) \/ RetryResume(c)
  /\ nextSession' = nextSession + (IF FreshActivation(c) THEN 1 ELSE 0)

(* Mutant: the failure path's confirm_transport_lost() runs on success too.  *)
EstablishConfirmsLoss(c) ==
  /\ Admissible(c)
  /\ LET l == [Decided(c) EXCEPT !.state = "active", !.live = FALSE]
         tag == <<l.child, l.generation>>
     IN  /\ lease' = l
         /\ sessions' = [sessions EXCEPT ![l.child] = c]
         /\ byTag' = byTag \cup {tag}
         /\ scenes' = scenes \cup {l.child}
         /\ conn' = [conn EXCEPT ![c].place = "starting", ![c].tag = tag]
  /\ UNCHANGED <<charged, issues, issuer, releasing>>

(* WELCOME written: commit it, register the scene unless suspension kept it, *)
(* and publish the runtime under its ID and its tag, all under the registry. *)
Establish(c) ==
  /\ Admissible(c)
  /\ LET l == [Decided(c) EXCEPT !.state = "active"]
         tag == <<l.child, l.generation>>
     IN  /\ lease' = l
         /\ sessions' = [sessions EXCEPT ![l.child] = c]
         /\ byTag' = byTag \cup {tag}
         /\ scenes' = scenes \cup {l.child}
         /\ conn' = [conn EXCEPT ![c].place = "starting", ![c].tag = tag]
  /\ UNCHANGED <<charged, issues, issuer, releasing>>

(* Writing WELCOME fails: the machine is told its transport was lost.        *)
EstablishWriteFails(c) ==
  /\ Admissible(c)
  /\ lease' = AfterLoss(Decided(c))
  /\ At(c, "closed")
  /\ UNCHANGED <<sessions, byTag, scenes, charged, issues, issuer, releasing>>

(* Refused: no capacity, no such lease any more, another attempt's retry.    *)
EstablishRefused(c) ==
  /\ Place(c) = "auth"
  /\ At(c, "closed")
  /\ UNCHANGED <<registryVars, scenes, charged, nextSession, issues, issuer, releasing>>

(* handle_control() stores the shutdown handle and spawns the actor.         *)
Serve(c) ==
  /\ Place(c) = "starting"
  /\ At(c, "open")
  /\ UNCHANGED <<registryVars, scenes, charged, nextSession, issues, issuer, releasing>>

(* admit_post_hello() on a connection's first record: the retry window of    *)
(* the lease under the key closes and the prior resume key is erased.        *)
AdmitPostHello(c) ==
  lease' = IF HasLease /\ ~conn[c].spoken
           THEN [lease EXCEPT !.awaiting = FALSE, !.key = NoTag, !.due = FALSE]
           ELSE lease

FirstRecord(c) ==
  /\ Place(c) = "open" /\ ~conn[c].spoken
  /\ AdmitPostHello(c)
  /\ conn' = [conn EXCEPT ![c].spoken = TRUE]
  /\ UNCHANGED <<sessions, byTag, scenes, charged, nextSession, issues, issuer, releasing>>

(* The transport is lost, at any time, or the child says GOODBYE.            *)
Lose(c) ==
  /\ Place(c) \in {"starting", "open"}
  /\ At(c, "ending")
  /\ UNCHANGED <<registryVars, scenes, charged, nextSession, issues, issuer, releasing>>

Goodbye(c) ==
  /\ Place(c) = "open"
  /\ AdmitPostHello(c)
  /\ conn' = [conn EXCEPT ![c].place = "ending", ![c].spoken = TRUE, ![c].clean = TRUE]
  /\ UNCHANGED <<sessions, byTag, scenes, charged, nextSession, issues, issuer, releasing>>

(* disconnect_clients(): stop every published session that has a handle.     *)
DisconnectClients ==
  /\ \E s \in Published : Place(sessions[s]) = "open"
  /\ conn' = [c \in Conns |->
                IF Place(c) = "open" /\ \E s \in Published : sessions[s] = c
                THEN [conn[c] EXCEPT !.place = "ending"] ELSE conn[c]]
  /\ UNCHANGED <<registryVars, scenes, charged, nextSession, issues, issuer, releasing>>

-----------------------------------------------------------------------------
(* finish_session() of a child connection.                                   *)

(* An unclean loss before the first record keeps the establishment outcome:  *)
(* confirm the loss and retire the runtime in one critical section.          *)
Retryable(c) == ~conn[c].clean /\ HasLease /\ lease.awaiting /\ LossConfirmable(lease)

FinishRetryable(c) ==
  /\ Place(c) = "ending"
  /\ \/ /\ Retryable(c)
        /\ lease' = AfterLoss(lease)
        /\ RemoveSession(Session(c))
        /\ At(c, "closed")
     \/ /\ ~Retryable(c)
        /\ At(c, "finding")
        /\ UNCHANGED registryVars
  /\ UNCHANGED <<scenes, charged, nextSession, issues, issuer, releasing>>

(* Look the controller's session up.                                         *)
FinishFindIssuer(c) ==
  /\ Place(c) = "finding"
  /\ At(c, IF issuer = "gone" THEN "drop" ELSE IF conn[c].clean THEN "revoke" ELSE "own")
  /\ UNCHANGED <<registryVars, scenes, charged, nextSession, issues, issuer, releasing>>

(* suspend_lease(), its registry critical section.                           *)
Suspendable == HasLease /\ CanSuspend /\ LossConfirmable(lease)

FinishSuspend(c) ==
  /\ Place(c) = "own"
  /\ \/ /\ Suspendable /\ AfterLoss(lease).state = "suspended"
        /\ lease' = [AfterLoss(lease) EXCEPT !.key = conn[c].tag, !.due = FALSE]
        /\ At(c, "suspending")
     \/ /\ Suspendable /\ AfterLoss(lease).state # "suspended"
        /\ lease' = AfterLoss(lease)
        /\ At(c, "revoke")
     \/ /\ ~Suspendable
        /\ At(c, "revoke")
        /\ UNCHANGED lease
  /\ UNCHANGED <<sessions, byTag, scenes, charged, nextSession, issues, issuer, releasing>>

(* The rest of suspend_lease(): input, channels and audio, all retained as   *)
(* scene state, and the notice to the controller.                            *)
FinishSuspendScene(c) ==
  /\ Place(c) = "suspending"
  /\ At(c, "unpublish")
  /\ UNCHANGED <<registryVars, scenes, charged, nextSession, issues, issuer, releasing>>

(* finish_session() retires the suspended session in a later critical        *)
(* section.                                                                  *)
FinishUnpublish(c) ==
  /\ Place(c) = "unpublish"
  /\ RemoveSession(Session(c))
  /\ At(c, "closed")
  /\ UNCHANGED <<lease, scenes, charged, nextSession, issues, issuer, releasing>>

(* revoke_lease() from the child's own teardown.                             *)
FinishRevoke(c) ==
  /\ Place(c) = "revoke"
  /\ \/ HasLease /\ TakeLease(c) /\ At(c, "release")
     \/ ~HasLease /\ At(c, "drop") /\ UNCHANGED <<registryVars, releasing>>
  /\ UNCHANGED <<scenes, charged, nextSession, issues, issuer>>

FinishRelease(c) ==
  /\ Place(c) = "release"
  /\ ReleaseLease(c)
  /\ At(c, "drop")
  /\ UNCHANGED <<registryVars, nextSession, issues, issuer>>

(* Without a lease to keep it: retire the session, then its scene.           *)
FinishDrop(c) ==
  /\ Place(c) = "drop"
  /\ RemoveSession(Session(c))
  /\ At(c, "dropScene")
  /\ UNCHANGED <<lease, scenes, charged, nextSession, issues, issuer, releasing>>

FinishDropScene(c) ==
  /\ Place(c) = "dropScene"
  /\ scenes' = scenes \ {Session(c)}
  /\ At(c, "closed")
  /\ UNCHANGED <<registryVars, charged, nextSession, issues, issuer, releasing>>

-----------------------------------------------------------------------------
Finish(c) ==
  \/ FinishRetryable(c) \/ FinishFindIssuer(c) \/ FinishSuspend(c)
  \/ FinishSuspendScene(c) \/ FinishUnpublish(c) \/ FinishRevoke(c)
  \/ FinishRelease(c) \/ FinishDrop(c) \/ FinishDropScene(c)

Next ==
  \/ CreateLease \/ RevokeLease \/ ExpireCollect \/ ExpireRevoke \/ IssuerReleases
  \/ IssuerEnds \/ IssuerRevokesAll \/ IssuerUnlisted
  \/ DeadlinePasses \/ DisconnectClients
  \/ \E c \in Conns :
       \/ AuthActivation(c) \/ \E g \in Generations : AuthResume(c, g)
       \/ Establish(c) \/ EstablishWriteFails(c) \/ EstablishRefused(c)
       \/ Serve(c) \/ FirstRecord(c) \/ Lose(c) \/ Goodbye(c) \/ Finish(c)

(* The presenter's own threads keep running: an actor that is waiting wakes  *)
(* at the lease's next deadline, a teardown runs to its end, a HELLO is      *)
(* answered.  Peers and the controller's requests owe nothing.               *)
Fairness ==
  /\ WF_vars(ExpireCollect) /\ WF_vars(ExpireRevoke) /\ WF_vars(IssuerReleases)
  /\ WF_vars(IssuerRevokesAll) /\ WF_vars(IssuerUnlisted) /\ WF_vars(DeadlinePasses)
  /\ \A c \in Conns :
       WF_vars(Establish(c) \/ EstablishRefused(c)) /\ WF_vars(Serve(c)) /\ WF_vars(Finish(c))

Spec == Init /\ [][Next]_vars
FairSpec == Spec /\ Fairness

-----------------------------------------------------------------------------
Serving(c) == Place(c) \in {"starting", "open"}
OwnsLease(c) == HasLease /\ lease.child = Session(c)
Revoking == {t \in Threads : releasing[t] # NoRelease}

(* "Concurrent attempts have exactly one winner": retries and resumes never  *)
(* leave two connections serving the same logical session.                   *)
OneServingTransport ==
  \A c, d \in Conns : Serving(c) /\ Serving(d) /\ Session(c) = Session(d) => c = d

(* A lost WELCOME, or a lost transport, can always be recovered: while no    *)
(* transport is attached the lease keeps the resume key of the generation    *)
(* the child last held, so the proof it retries with still verifies.         *)
RecoverableKeyKept ==
  HasLease /\ ~lease.live /\ lease.child # 0 =>
    /\ lease.state = "suspended" => lease.key = <<lease.child, lease.generation>>
    /\ lease.awaiting /\ lease.generation > 0 => lease.key = <<lease.child, lease.generation - 1>>

(* Capacity delegated to a lease is charged exactly once for as long as the  *)
(* lease or its revocation lasts, however revocations by the controller, by  *)
(* expiry and by the child's own teardown interleave.                        *)
CapacityCharged == charged = (IF HasLease THEN 1 ELSE 0) + Cardinality(Revoking)

(* Scene state of a child never outlives what reclaims it: its lease, or a   *)
(* revocation in progress.  No teardown of a connection is needed for that.  *)
NoOrphanScene ==
  \A s \in scenes : (HasLease /\ lease.child = s) \/ \E t \in Threads : releasing[t] = s

(* A lease no transport is attached to does not stay charged forever: it is  *)
(* taken up again or its deadline releases it.                               *)
DetachedLeaseEnds == (HasLease /\ ~lease.live) ~> (~HasLease \/ lease.live)

(* remove_session() retires "one session from both indexes, leaving every    *)
(* other session's entries alone": a connection that serves the lease's      *)
(* session stays published.                                                  *)
ServedIsPublished == \A c \in Conns : Serving(c) /\ OwnsLease(c) => sessions[Session(c)] = c

=============================================================================
