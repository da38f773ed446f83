---------------------------- MODULE LeasesProofs ----------------------------
(***************************************************************************)
(* Proofs about Leases for every finite set of connections and every bound, *)
(* a key that is issued again included: its types, that the capacity of a   *)
(* lease is charged exactly once, and that no scene is orphaned.            *)
(*                                                                          *)
(* A step either keeps the lease, takes it out of the table for a           *)
(* revocation (TakeLease), finishes one (ReleaseLease), or gives it its     *)
(* child (Decided); the lemmas Keeps, Takes, Releases and Binds say what    *)
(* each does to the accounts, and every action is one of the four.          *)
(***************************************************************************)
EXTENDS Leases, FiniteSetTheorems, TLAPS

Conn == [place : ConnPlaces, resume : BOOLEAN, tag : Tags \cup {NoTag},
         spoken : BOOLEAN, clean : BOOLEAN]

(* Sessions are numbered by activations, each of which used an issue up, and *)
(* a contract is charged once per issue.                                     *)
Counted ==
  /\ nextSession <= issues + 1
  /\ HasLease /\ lease.state = "issued" => nextSession <= issues
  /\ charged <= issues

(* A lease has a child, and may have a transport, from its activation on.    *)
ChildKnown ==
  HasLease => /\ lease.state = "issued" <=> lease.child = 0
              /\ lease.state = "issued" => ~lease.live

(* A revocation is in progress exactly where its thread is in the middle of  *)
(* revoke_lease().                                                           *)
ReleasePlace ==
  /\ \A c \in Conns : releasing[c] # NoRelease <=> Place(c) = "release"
  /\ releasing[NoConn] # NoRelease <=> issuer \in {"release", "endRelease"}

IInv == TypeOK /\ Counted /\ ChildKnown /\ ReleasePlace /\ CapacityCharged /\ NoOrphanScene

-----------------------------------------------------------------------------
(* A lease record is not the absence of one.                                 *)
LEMMA LeaseIsOne == \A l \in Lease : l # NoLease
<1> SUFFICES ASSUME NEW l \in Lease PROVE l # NoLease
  OBVIOUS
<1>1. l.state \in {"issued", "reserved", "active", "suspended"}
  BY DEF Lease
<1>2. NoLease.state = "none"
  BY DEF NoLease
<1>3. QED BY <1>1, <1>2

(* The threads, and those that are revoking, are finitely many.              *)
LEMMA Finite == IsFiniteSet(Threads) /\ IsFiniteSet(Revoking) /\ Cardinality(Revoking) \in Nat
<1>1. IsFiniteSet(Threads)
  BY LeasesAssumption, FS_AddElement DEF Threads
<1>2. IsFiniteSet(Revoking)
  BY <1>1, FS_Subset DEF Revoking
<1>3. QED BY <1>1, <1>2, FS_CardinalityType

(* Numbers: a session ID is not the mark of an idle thread.                  *)
LEMMA Ids == /\ \A s \in SessionIds \cup {0} : s # NoRelease
             /\ \A s \in SessionIds : s # 0 /\ s \in Nat /\ s <= MaxIssues
BY LeasesAssumption DEF SessionIds, NoRelease

(* Moving a connection to another place.                                     *)
LEMMA Moves ==
  ASSUME TypeOK, NEW c \in Conns, NEW p \in ConnPlaces, At(c, p)
  PROVE  /\ conn' \in [Conns -> Conn]
         /\ Place(c)' = p
         /\ \A d \in Conns : d # c => Place(d)' = Place(d)
BY DEF TypeOK, At, Place, Conn

(* The same, with other fields of the connection replaced too.               *)
LEMMA Replaces ==
  ASSUME TypeOK, NEW c \in Conns, NEW r \in Conn, conn' = [conn EXCEPT ![c] = r],
         Place(c) # "release", r.place # "release"
  PROVE  /\ conn' \in [Conns -> Conn]
         /\ \A d \in Conns : Place(d)' = "release" <=> Place(d) = "release"
BY DEF TypeOK, Place, Conn

(* Retiring a session leaves both indexes with their types.                  *)
LEMMA Removes ==
  ASSUME TypeOK, NEW s, RemoveSession(s)
  PROVE  sessions' \in [SessionIds -> Conns \cup {NoConn}] /\ byTag' \subseteq Tags
BY DEF TypeOK, RemoveSession

(* Losing a transport keeps the lease, its child and whether it was issued.  *)
LEMMA Losses ==
  ASSUME NEW l \in Lease
  PROVE  /\ AfterLoss(l) \in Lease /\ AfterLoss(l).child = l.child
         /\ AfterLoss(l).state \in {l.state, "suspended"} /\ ~AfterLoss(l).live
BY DEF Lease, AfterLoss

-----------------------------------------------------------------------------
(* A step that keeps the lease keeps the accounts.                           *)
SameLease ==
  \/ lease' = lease
  \/ /\ HasLease /\ lease' \in Lease
     /\ lease'.child = lease.child /\ (lease'.state = "issued" <=> lease.state = "issued")
     /\ lease'.live => lease.live

(* The accounts after a step that keeps the lease.                           *)
LEMMA Keeps ==
  ASSUME IInv, TypeOK', ReleasePlace', SameLease, scenes' \subseteq scenes,
         UNCHANGED <<charged, nextSession, issues, releasing>>
  PROVE  IInv'
<1> USE DEF IInv
<1>1. HasLease' <=> HasLease
  BY LeaseIsOne DEF HasLease, SameLease
<1>2. HasLease => /\ lease'.child = lease.child
                  /\ lease'.state = "issued" <=> lease.state = "issued"
                  /\ lease'.live => lease.live
  BY DEF SameLease
<1>3. Counted' /\ ChildKnown'
  BY <1>1, <1>2 DEF Counted, ChildKnown
<1>4. CapacityCharged'
  BY <1>1 DEF CapacityCharged, Revoking
<1>5. NoOrphanScene'
  BY <1>1, <1>2 DEF NoOrphanScene
<1>6. QED BY <1>3, <1>4, <1>5

(* revoke_lease(), first half: the thread now stands for the lease.          *)
LEMMA Takes ==
  ASSUME IInv, TypeOK', ReleasePlace', HasLease, NEW t \in Threads, releasing[t] = NoRelease,
         TakeLease(t), UNCHANGED <<charged, nextSession, issues, scenes>>
  PROVE  IInv'
<1> USE DEF IInv
<1>1. lease' = NoLease /\ ~HasLease' /\ releasing' = [releasing EXCEPT ![t] = lease.child]
  BY DEF TakeLease, HasLease
<1>2. lease.child \in SessionIds \cup {0} /\ releasing \in [Threads -> SessionIds \cup {0, NoRelease}]
  BY DEF TypeOK, Lease, HasLease
<1>3. Revoking' = Revoking \cup {t} /\ t \notin Revoking
  BY <1>1, <1>2, Ids DEF Revoking
<1>4. Cardinality(Revoking') = Cardinality(Revoking) + 1
  BY <1>3, Finite, FS_AddElement
<1>5. CapacityCharged'
  BY <1>1, <1>4, Finite DEF CapacityCharged
<1>6. NoOrphanScene'
  <2> SUFFICES ASSUME NEW s \in scenes PROVE \E u \in Threads : releasing'[u] = s
    BY DEF NoOrphanScene
  <2>1. CASE lease.child = s
    BY <2>1, <1>1, <1>2
  <2>2. CASE \E u \in Threads : releasing[u] = s
    <3>1. PICK u \in Threads : releasing[u] = s
      BY <2>2
    <3>2. s \in SessionIds
      BY DEF TypeOK
    <3>3. u # t
      BY <3>1, <3>2, Ids
    <3>4. QED BY <3>1, <3>3, <1>1, <1>2
  <2>3. QED BY <2>1, <2>2 DEF NoOrphanScene
<1>7. Counted' /\ ChildKnown'
  BY <1>1 DEF Counted, ChildKnown
<1>8. QED BY <1>5, <1>6, <1>7

(* revoke_lease(), second half.                                              *)
LEMMA Releases ==
  ASSUME IInv, ReleasePlace', NEW t \in Threads, releasing[t] # NoRelease, ReleaseLease(t),
         UNCHANGED <<lease, sessions, byTag, nextSession, issues>>,
         conn' \in [Conns -> Conn],
         issuer' \in {"serving", "expiring", "release", "ending", "endRelease", "unlisted", "gone"}
  PROVE  IInv'
<1> USE DEF IInv
<1>1. releasing' = [releasing EXCEPT ![t] = NoRelease] /\ charged' = charged - 1
      /\ scenes' = scenes \ {releasing[t]}
  BY DEF ReleaseLease
<1>2. Revoking' = Revoking \ {t} /\ t \in Revoking
  BY <1>1 DEF Revoking, TypeOK
<1>3. Cardinality(Revoking') = Cardinality(Revoking) - 1
  BY <1>2, Finite, FS_RemoveElement
<1>4. Cardinality(Revoking') \in Nat
  BY <1>2, Finite, FS_RemoveElement, FS_CardinalityType
<1>5. HasLease' <=> HasLease
  BY DEF HasLease
<1>6. CapacityCharged'
  BY <1>1, <1>3, <1>5, Finite DEF CapacityCharged
<1>7. charged' \in 0..MaxIssues
  BY <1>1, <1>3, <1>4, Finite, LeasesAssumption DEF CapacityCharged, TypeOK
<1>8. TypeOK'
  BY <1>1, <1>7 DEF TypeOK, Conn
<1>9. Counted' /\ ChildKnown'
  BY <1>1, <1>5, LeasesAssumption DEF Counted, ChildKnown, TypeOK
<1>10. NoOrphanScene'
  <2> SUFFICES ASSUME NEW s \in scenes, s # releasing[t]
               PROVE  (HasLease /\ lease.child = s) \/ \E u \in Threads : releasing'[u] = s
    BY <1>1, <1>5 DEF NoOrphanScene
  <2>1. CASE \E u \in Threads : releasing[u] = s
    BY <2>1, <1>1 DEF TypeOK
  <2>2. QED BY <2>1 DEF NoOrphanScene
<1>11. QED BY <1>6, <1>8, <1>9, <1>10
(* An attempt that is admitted gives an issued lease its child, and leaves   *)
(* any other lease the child it has.                                         *)
LEMMA DecidedFacts ==
  ASSUME IInv, NEW c \in Conns, Admissible(c)
  PROVE  /\ HasLease
         /\ Decided(c) \in Lease /\ Decided(c).child \in SessionIds
         /\ Decided(c).state # "issued"
         /\ lease.child # 0 => Decided(c).child = lease.child
         /\ nextSession' \in 1..(MaxIssues + 1) /\ nextSession' <= issues + 1
<1> USE DEF IInv, Admissible
<1>1. HasLease /\ lease \in Lease
  BY DEF TypeOK, HasLease
<1>2. nextSession \in Nat /\ issues \in Nat /\ issues <= MaxIssues /\ nextSession >= 1
  BY LeasesAssumption DEF TypeOK
<1>3. CASE FreshActivation(c)
  <2>1. lease.state = "issued" /\ lease.child = 0
    BY <1>1, <1>3 DEF FreshActivation, ChildKnown
  <2>2. nextSession \in SessionIds /\ nextSession' = nextSession + 1
    BY <1>1, <1>2, <1>3, <2>1, LeasesAssumption DEF Counted, SessionIds
  <2>3. Decided(c) = [lease EXCEPT !.state = "reserved", !.live = TRUE, !.child = nextSession]
    BY <1>3 DEF Decided
  <2>4. Decided(c) \in Lease /\ Decided(c).child = nextSession /\ Decided(c).state = "reserved"
    BY <1>1, <2>2, <2>3 DEF Lease
  <2>5. nextSession <= issues
    BY <1>1, <2>1 DEF Counted
  <2>6. QED BY <1>1, <1>2, <2>1, <2>2, <2>4, <2>5, LeasesAssumption
<1>4. CASE ~FreshActivation(c)
  <2>1. lease.state \in {"reserved", "active", "suspended"}
    BY <1>4 DEF RetryActivation, FreshResume, RetryResume
  <2>2. lease.child \in SessionIds
    BY <1>1, <2>1 DEF ChildKnown, Lease
  <2>3. nextSession' = nextSession
    BY <1>2, <1>4
  <2>4. Decided(c) \in Lease /\ Decided(c).child = lease.child /\ Decided(c).state # "issued"
    <3>1. CASE FreshResume(c)
      <4>1. lease.generation + 1 \in Generations
        BY <1>1, <3>1, LeasesAssumption DEF FreshResume, Generations, Lease
      <4>2. Decided(c) = [lease EXCEPT !.state = "reserved", !.live = TRUE, !.awaiting = TRUE,
                                       !.generation = lease.generation + 1,
                                       !.due = lease.due /\ lease.awaiting]
        BY <1>1, <1>4, <3>1 DEF Decided, Lease
      <4>3. QED BY <1>1, <4>1, <4>2 DEF Lease
    <3>2. CASE ~FreshResume(c)
      <4>1. Decided(c) = [lease EXCEPT !.live = TRUE]
        BY <1>4, <3>2 DEF Decided
      <4>2. QED BY <1>1, <2>1, <4>1 DEF Lease
    <3>3. QED BY <3>1, <3>2
  <2>5. nextSession \in 1..(MaxIssues + 1) /\ nextSession <= issues + 1
    BY DEF TypeOK, Counted
  <2>6. QED BY <1>1, <2>2, <2>3, <2>4, <2>5
<1>5. QED BY <1>3, <1>4

(* The accounts after an admitted attempt, whether or not WELCOME was        *)
(* written.                                                                  *)
LEMMA Binds ==
  ASSUME IInv, TypeOK', ReleasePlace', NEW c \in Conns, Admissible(c),
         lease' \in Lease, lease'.child = Decided(c).child, lease'.state # "issued",
         scenes' \subseteq scenes \cup {lease'.child},
         UNCHANGED <<charged, issues, releasing>>
  PROVE  IInv'
<1> USE DEF IInv
<1>1. HasLease /\ HasLease' /\ lease'.child \in SessionIds
  BY DecidedFacts, LeaseIsOne DEF HasLease
<1>2. Counted'
  BY <1>1, DecidedFacts DEF Counted
<1>3. ChildKnown'
  BY <1>1, Ids DEF ChildKnown
<1>4. CapacityCharged'
  BY <1>1 DEF CapacityCharged, Revoking
<1>5. NoOrphanScene'
  <2> SUFFICES ASSUME NEW s \in scenes
               PROVE  lease'.child = s \/ \E t \in Threads : releasing[t] = s
    BY <1>1 DEF NoOrphanScene
  <2>1. s \in SessionIds
    BY DEF TypeOK
  <2>2. CASE lease.child = s
    BY <2>1, <2>2, DecidedFacts, Ids
  <2>3. QED BY <2>2 DEF NoOrphanScene
<1>6. QED BY <1>2, <1>3, <1>4, <1>5

-----------------------------------------------------------------------------
(* The initial state satisfies the inductive invariant.                      *)
LEMMA InitInv == Init => IInv
<1> SUFFICES ASSUME Init PROVE IInv
  OBVIOUS
<1>1. ~HasLease /\ Revoking = {}
  BY DEF Init, HasLease, Revoking
<1>2. TypeOK
  BY LeasesAssumption DEF Init, TypeOK, ConnPlaces
<1>3. Counted /\ ChildKnown /\ NoOrphanScene
  BY <1>1, LeasesAssumption DEF Init, Counted, ChildKnown, NoOrphanScene
<1>4. ReleasePlace
  BY DEF Init, ReleasePlace, Place, Threads
<1>5. CapacityCharged
  BY <1>1, FS_EmptySet DEF Init, CapacityCharged
<1>6. QED BY <1>2, <1>3, <1>4, <1>5 DEF IInv

(* CREATE_SESSION_LEASE charges what it inserts.                             *)
LEMMA CreateInv ==
  ASSUME IInv, CreateLease
  PROVE  IInv'
<1> USE DEF IInv, CreateLease
<1>1. lease' \in Lease /\ lease'.state = "issued" /\ lease'.child = 0 /\ ~lease'.live
  BY LeasesAssumption DEF Lease, Generations
<1>2. HasLease' /\ ~HasLease
  BY <1>1, LeaseIsOne DEF HasLease
<1>3. charged \in Nat /\ issues \in Nat /\ nextSession \in Nat
  BY DEF TypeOK
<1>4. issues' \in 0..MaxIssues /\ charged' \in 0..MaxIssues
  BY <1>3, LeasesAssumption DEF Counted, TypeOK
<1>5. TypeOK'
  BY <1>1, <1>4 DEF TypeOK
<1>6. Counted' /\ ChildKnown'
  BY <1>1, <1>2, <1>3 DEF Counted, ChildKnown
<1>7. ReleasePlace' /\ NoOrphanScene'
  BY <1>2 DEF ReleasePlace, Place, NoOrphanScene
<1>8. CapacityCharged'
  BY <1>2, <1>3, Finite DEF CapacityCharged, Revoking
<1>9. QED BY <1>5, <1>6, <1>7, <1>8

(* Each step of the controller's actor.                                      *)
LEMMA IssuerInv ==
  ASSUME IInv,
         RevokeLease \/ ExpireCollect \/ ExpireRevoke \/ IssuerReleases \/ IssuerEnds
         \/ IssuerRevokesAll \/ IssuerUnlisted
  PROVE  IInv'
<1> USE DEF IInv
<1>1. UNCHANGED conn /\ NoConn \in Threads
  BY DEF Threads, RevokeLease, ExpireCollect, ExpireRevoke, IssuerReleases, IssuerEnds,
         IssuerRevokesAll, IssuerUnlisted
<1>2. ASSUME HasLease, TakeLease(NoConn), issuer \in {"serving", "expiring", "ending"},
             issuer' \in {"release", "endRelease"},
             UNCHANGED <<scenes, charged, nextSession, issues>>
      PROVE  IInv'
  <2>1. releasing[NoConn] = NoRelease /\ lease.child \in SessionIds \cup {0}
    BY <1>2 DEF ReleasePlace, TypeOK, Lease, HasLease
  <2>2. releasing' = [releasing EXCEPT ![NoConn] = lease.child]
        /\ releasing \in [Threads -> SessionIds \cup {0, NoRelease}]
    BY <1>2 DEF TakeLease, TypeOK
  <2>3. ReleasePlace'
    BY <1>1, <1>2, <2>1, <2>2, Ids, LeasesAssumption DEF ReleasePlace, Place, Threads
  <2>4. sessions' \in [SessionIds -> Conns \cup {NoConn}] /\ byTag' \subseteq Tags
    BY <1>2, Removes DEF TakeLease, TypeOK
  <2>5. lease' = NoLease
    BY <1>2 DEF TakeLease
  <2>6. TypeOK'
    BY <1>1, <1>2, <2>1, <2>2, <2>4, <2>5 DEF TypeOK
  <2>7. QED BY <1>1, <1>2, <2>1, <2>3, <2>6, Takes
<1>3. ASSUME UNCHANGED <<registryVars, scenes, charged, nextSession, issues, releasing>>,
             issuer \notin {"release", "endRelease"},
             issuer' \in {"serving", "expiring", "ending", "unlisted", "gone"}
      PROVE  IInv'
  <2>1. ReleasePlace'
    BY <1>1, <1>3 DEF ReleasePlace, Place
  <2>2. TypeOK'
    BY <1>1, <1>3 DEF TypeOK, registryVars
  <2>3. QED BY <1>3, <2>1, <2>2, Keeps DEF SameLease, registryVars
<1>4. CASE RevokeLease
  BY <1>2, <1>4 DEF RevokeLease
<1>5. CASE ExpireCollect \/ IssuerEnds \/ IssuerUnlisted
  BY <1>3, <1>5 DEF ExpireCollect, IssuerEnds, IssuerUnlisted
<1>6. CASE ExpireRevoke
  BY <1>2, <1>3, <1>6 DEF ExpireRevoke
<1>7. CASE IssuerRevokesAll
  BY <1>2, <1>3, <1>7 DEF IssuerRevokesAll
<1>8. CASE IssuerReleases
  <2>1. releasing[NoConn] # NoRelease
    BY <1>8 DEF IssuerReleases, ReleasePlace
  <2>2. ReleaseLease(NoConn) /\ issuer' \in {"serving", "unlisted"}
        /\ UNCHANGED <<lease, sessions, byTag, nextSession, issues>>
    BY <1>8 DEF IssuerReleases, registryVars
  <2>3. ReleasePlace'
    BY <1>1, <2>2, LeasesAssumption DEF ReleasePlace, Place, ReleaseLease, TypeOK, Threads
  <2>4. conn' \in [Conns -> Conn]
    BY <1>1 DEF TypeOK, Conn
  <2>5. QED BY <1>1, <2>1, <2>2, <2>3, <2>4, Releases
<1>9. QED BY <1>4, <1>5, <1>6, <1>7, <1>8

-----------------------------------------------------------------------------
(* A step of a connection that keeps the lease and revokes nothing.          *)
LEMMA ConnKeeps ==
  ASSUME IInv, SameLease, conn' \in [Conns -> Conn],
         \A d \in Conns : Place(d)' = "release" <=> Place(d) = "release",
         sessions' \in [SessionIds -> Conns \cup {NoConn}], byTag' \subseteq Tags,
         scenes' \subseteq scenes,
         UNCHANGED <<charged, nextSession, issues, issuer, releasing>>
  PROVE  IInv'
<1> USE DEF IInv
<1>1. lease' \in Lease \cup {NoLease}
  BY DEF SameLease, TypeOK
<1>2. TypeOK'
  BY <1>1 DEF TypeOK, Conn
<1>3. ReleasePlace'
  BY DEF ReleasePlace
<1>4. QED BY <1>2, <1>3, Keeps

(* The steps that leave the registry alone, and the deadline.                *)
LEMMA QuietInv ==
  ASSUME IInv, NEW c \in Conns,
         \/ AuthActivation(c) \/ \E g \in Generations : AuthResume(c, g)
         \/ EstablishRefused(c) \/ Serve(c) \/ Lose(c)
         \/ FinishFindIssuer(c) \/ FinishSuspendScene(c)
  PROVE  IInv'
<1> USE DEF IInv
<1>1. UNCHANGED <<registryVars, scenes, charged, nextSession, issues, issuer, releasing>>
  BY DEF AuthActivation, AuthResume, EstablishRefused, Serve, Lose, FinishFindIssuer,
         FinishSuspendScene
<1>2. /\ conn' \in [Conns -> Conn]
      /\ \A d \in Conns : Place(d)' = "release" <=> Place(d) = "release"
  <2>1. CASE AuthActivation(c)
    <3> DEFINE r == [conn[c] EXCEPT !.place = "auth", !.resume = FALSE]
    <3>1. conn' = [conn EXCEPT ![c] = r] /\ Place(c) # "release"
      BY <2>1 DEF AuthActivation, TypeOK
    <3>2. r \in Conn /\ r.place # "release"
      BY DEF TypeOK, Conn, ConnPlaces
    <3> HIDE DEF r
    <3>3. QED BY <3>1, <3>2, Replaces
  <2>2. ASSUME NEW g \in Generations, AuthResume(c, g)
        PROVE  /\ conn' \in [Conns -> Conn]
               /\ \A d \in Conns : Place(d)' = "release" <=> Place(d) = "release"
    <3> DEFINE r == [conn[c] EXCEPT !.place = "auth", !.resume = TRUE, !.tag = lease.key]
    <3>1. conn' = [conn EXCEPT ![c] = r] /\ Place(c) # "release"
      BY <2>2 DEF AuthResume, TypeOK
    <3>2. lease.key \in Tags \cup {NoTag}
      BY <2>2 DEF AuthResume, TypeOK, Lease, HasLease
    <3>3. r \in Conn /\ r.place # "release"
      BY <3>2 DEF TypeOK, Conn, ConnPlaces
    <3> HIDE DEF r
    <3>4. QED BY <3>1, <3>3, Replaces
  <2>3. CASE EstablishRefused(c) \/ Serve(c) \/ Lose(c) \/ FinishFindIssuer(c)
             \/ FinishSuspendScene(c)
    <3>1. PICK p \in {"closed", "open", "ending", "drop", "revoke", "own", "unpublish"} : At(c, p)
      BY <2>3 DEF EstablishRefused, Serve, Lose, FinishFindIssuer, FinishSuspendScene
    <3>2. p \in ConnPlaces /\ p # "release" /\ Place(c) # "release"
      BY <2>3, <3>1 DEF ConnPlaces, EstablishRefused, Serve, Lose, FinishFindIssuer,
                        FinishSuspendScene
    <3>3. QED BY <3>1, <3>2, Moves
  <2>4. QED BY <2>1, <2>2, <2>3
<1>3. QED BY <1>1, <1>2, ConnKeeps DEF SameLease, registryVars, TypeOK

(* disconnect_clients() and a deadline that passes.                          *)
LEMMA OutsideInv ==
  ASSUME IInv, DisconnectClients \/ DeadlinePasses
  PROVE  IInv'
<1> USE DEF IInv
<1>1. CASE DisconnectClients
  <2>1. /\ conn' \in [Conns -> Conn]
        /\ \A d \in Conns : Place(d)' = "release" <=> Place(d) = "release"
    BY <1>1 DEF DisconnectClients, TypeOK, Conn, ConnPlaces, Place
  <2>2. QED BY <1>1, <2>1, ConnKeeps DEF DisconnectClients, SameLease, registryVars, TypeOK
<1>2. CASE DeadlinePasses
  <2>1. HasLease /\ lease \in Lease /\ lease' = [lease EXCEPT !.due = TRUE]
    BY <1>2 DEF DeadlinePasses, TypeOK, HasLease
  <2>2. SameLease
    BY <2>1 DEF SameLease, Lease
  <2>3. QED BY <1>2, <2>2, ConnKeeps DEF DeadlinePasses, TypeOK, Conn, Place
<1>3. QED BY <1>1, <1>2

(* A connection's first record, GOODBYE among them.                          *)
LEMMA RecordInv ==
  ASSUME IInv, NEW c \in Conns, FirstRecord(c) \/ Goodbye(c)
  PROVE  IInv'
<1> USE DEF IInv
<1>1. SameLease
  <2>1. CASE lease' = lease
    BY <2>1 DEF SameLease
  <2>2. CASE lease' # lease
    <3>1. HasLease /\ lease \in Lease
          /\ lease' = [lease EXCEPT !.awaiting = FALSE, !.key = NoTag, !.due = FALSE]
      BY <2>2 DEF FirstRecord, Goodbye, AdmitPostHello, TypeOK, HasLease
    <3>2. QED BY <3>1 DEF SameLease, Lease
  <2>3. QED BY <2>1, <2>2
<1>2. Place(c) = "open"
  BY DEF FirstRecord, Goodbye
<1>3. /\ conn' \in [Conns -> Conn]
      /\ \A d \in Conns : Place(d)' = "release" <=> Place(d) = "release"
  <2>1. CASE FirstRecord(c)
    BY <1>2, <2>1 DEF FirstRecord, TypeOK, Conn, Place
  <2>2. CASE Goodbye(c)
    <3> DEFINE r == [conn[c] EXCEPT !.place = "ending", !.spoken = TRUE, !.clean = TRUE]
    <3>1. conn' = [conn EXCEPT ![c] = r]
      BY <2>2 DEF Goodbye, TypeOK
    <3>2. r \in Conn /\ r.place # "release"
      BY DEF TypeOK, Conn, ConnPlaces
    <3> HIDE DEF r
    <3>3. QED BY <1>2, <3>1, <3>2, Replaces
  <2>3. QED BY <2>1, <2>2
<1>4. QED BY <1>1, <1>3, ConnKeeps DEF FirstRecord, Goodbye, TypeOK

(* The steps of a teardown that revoke nothing.                              *)
LEMMA TeardownInv ==
  ASSUME IInv, NEW c \in Conns,
         FinishRetryable(c) \/ FinishSuspend(c) \/ FinishUnpublish(c) \/ FinishDrop(c)
         \/ FinishDropScene(c)
  PROVE  IInv'
<1> USE DEF IInv
<1>1. PICK p \in {"closed", "finding", "suspending", "revoke", "dropScene"} : At(c, p)
  BY DEF FinishRetryable, FinishSuspend, FinishUnpublish, FinishDrop, FinishDropScene
<1>2. p \in ConnPlaces /\ p # "release" /\ Place(c) # "release"
  BY DEF ConnPlaces, FinishRetryable, FinishSuspend, FinishUnpublish, FinishDrop, FinishDropScene
<1>3. /\ conn' \in [Conns -> Conn]
      /\ \A d \in Conns : Place(d)' = "release" <=> Place(d) = "release"
  BY <1>1, <1>2, Moves
<1>4. /\ scenes' \subseteq scenes
      /\ UNCHANGED <<charged, nextSession, issues, issuer, releasing>>
  BY DEF FinishRetryable, FinishSuspend, FinishUnpublish, FinishDrop, FinishDropScene
<1>5. UNCHANGED <<sessions, byTag>> \/ RemoveSession(Session(c))
  BY DEF FinishRetryable, FinishSuspend, FinishUnpublish, FinishDrop, FinishDropScene, registryVars
<1>6. sessions' \in [SessionIds -> Conns \cup {NoConn}] /\ byTag' \subseteq Tags
  BY <1>5, Removes DEF TypeOK
<1>7. SameLease
  <2>1. CASE lease' = lease
    BY <2>1 DEF SameLease
  <2>2. CASE FinishRetryable(c) /\ lease' # lease
    <3>1. HasLease /\ lease \in Lease /\ lease.awaiting /\ lease' = AfterLoss(lease)
      BY <2>2 DEF FinishRetryable, Retryable, registryVars, TypeOK, HasLease
    <3>2. lease'.state = lease.state
      BY <3>1 DEF AfterLoss, Lease
    <3>3. QED BY <3>1, <3>2, Losses DEF SameLease
  <2>3. CASE FinishSuspend(c) /\ lease' # lease
    <3>1. HasLease /\ lease \in Lease /\ lease.live
      BY <2>3 DEF FinishSuspend, Suspendable, LossConfirmable, TypeOK, HasLease
    <3>2. lease.state # "issued" /\ conn[c].tag \in Tags \cup {NoTag}
      BY <3>1 DEF ChildKnown, TypeOK
    <3>3. lease' = [AfterLoss(lease) EXCEPT !.key = conn[c].tag, !.due = FALSE]
          \/ lease' = AfterLoss(lease)
      BY <2>3 DEF FinishSuspend
    <3>4. /\ AfterLoss(lease) \in Lease /\ AfterLoss(lease).child = lease.child
          /\ AfterLoss(lease).state # "issued" /\ ~AfterLoss(lease).live
      BY <3>1, <3>2, Losses
    <3>5. /\ lease' \in Lease /\ lease'.child = lease.child
          /\ lease'.state # "issued" /\ ~lease'.live
      BY <3>2, <3>3, <3>4 DEF Lease
    <3>6. QED BY <3>1, <3>2, <3>5 DEF SameLease
  <2>4. QED BY <2>1, <2>2, <2>3 DEF FinishUnpublish, FinishDrop, FinishDropScene, registryVars
<1>8. QED BY <1>3, <1>4, <1>6, <1>7, ConnKeeps

(* revoke_lease() from a teardown.                                           *)
LEMMA FinishRevokeInv ==
  ASSUME IInv, NEW c \in Conns, FinishRevoke(c)
  PROVE  IInv'
<1> USE DEF IInv
<1>1. Place(c) = "revoke" /\ c \in Threads /\ c # NoConn
  BY LeasesAssumption DEF FinishRevoke, Threads
<1>2. CASE HasLease
  <2>1. TakeLease(c) /\ At(c, "release") /\ "release" \in ConnPlaces
        /\ UNCHANGED <<scenes, charged, nextSession, issues, issuer>>
    BY <1>2 DEF FinishRevoke, ConnPlaces
  <2>2. releasing[c] = NoRelease /\ lease.child \in SessionIds \cup {0}
    BY <1>1, <1>2 DEF ReleasePlace, TypeOK, Lease, HasLease
  <2>3. releasing' = [releasing EXCEPT ![c] = lease.child] /\ lease' = NoLease
        /\ releasing \in [Threads -> SessionIds \cup {0, NoRelease}]
    BY <2>1 DEF TakeLease, TypeOK
  <2>4. conn' \in [Conns -> Conn] /\ Place(c)' = "release"
        /\ \A d \in Conns : d # c => Place(d)' = Place(d)
    BY <2>1, Moves
  <2>5. ReleasePlace'
    BY <1>1, <2>1, <2>2, <2>3, <2>4, Ids DEF ReleasePlace, Threads
  <2>6. sessions' \in [SessionIds -> Conns \cup {NoConn}] /\ byTag' \subseteq Tags
    BY <2>1, Removes DEF TakeLease, TypeOK
  <2>7. TypeOK'
    BY <2>1, <2>2, <2>3, <2>4, <2>6 DEF TypeOK, Conn
  <2>8. QED BY <1>1, <1>2, <2>1, <2>2, <2>5, <2>7, Takes
<1>3. CASE ~HasLease
  <2>1. At(c, "drop") /\ "drop" \in ConnPlaces
        /\ UNCHANGED <<registryVars, scenes, charged, nextSession, issues, issuer, releasing>>
    BY <1>3 DEF FinishRevoke, ConnPlaces
  <2>2. /\ conn' \in [Conns -> Conn]
        /\ \A d \in Conns : Place(d)' = "release" <=> Place(d) = "release"
    BY <1>1, <2>1, Moves
  <2>3. QED BY <2>1, <2>2, ConnKeeps DEF SameLease, registryVars, TypeOK
<1>4. QED BY <1>2, <1>3

(* The second half of it.                                                    *)
LEMMA FinishReleaseInv ==
  ASSUME IInv, NEW c \in Conns, FinishRelease(c)
  PROVE  IInv'
<1> USE DEF IInv
<1>1. Place(c) = "release" /\ ReleaseLease(c) /\ At(c, "drop") /\ "drop" \in ConnPlaces
      /\ UNCHANGED <<lease, sessions, byTag, nextSession, issues, issuer>>
      /\ c \in Threads /\ c # NoConn
  BY LeasesAssumption DEF FinishRelease, registryVars, ConnPlaces, Threads
<1>2. releasing[c] # NoRelease
  BY <1>1 DEF ReleasePlace
<1>3. conn' \in [Conns -> Conn] /\ Place(c)' = "drop"
      /\ \A d \in Conns : d # c => Place(d)' = Place(d)
  BY <1>1, Moves
<1>4. ReleasePlace'
  BY <1>1, <1>2, <1>3 DEF ReleasePlace, ReleaseLease, TypeOK, Threads
<1>5. QED BY <1>1, <1>2, <1>3, <1>4, Releases DEF TypeOK

(* An admitted HELLO, whose WELCOME is written or is not.                    *)
LEMMA EstablishInv ==
  ASSUME IInv, NEW c \in Conns, Establish(c) \/ EstablishWriteFails(c)
  PROVE  IInv'
<1> USE DEF IInv
<1>1. Admissible(c) /\ Place(c) = "auth" /\ UNCHANGED <<charged, issues, issuer, releasing>>
  BY DEF Establish, EstablishWriteFails, Admissible
<1>2. /\ Decided(c) \in Lease /\ Decided(c).child \in SessionIds
      /\ Decided(c).state # "issued" /\ nextSession' \in 1..(MaxIssues + 1)
  BY <1>1, DecidedFacts
<1>3. CASE Establish(c)
  <2> DEFINE l   == [Decided(c) EXCEPT !.state = "active"]
             tag == <<l.child, l.generation>>
  <2>1. l \in Lease /\ l.child = Decided(c).child /\ l.state = "active" /\ tag \in Tags
    BY <1>2 DEF Lease, Tags
  <2>2. /\ lease' = l /\ sessions' = [sessions EXCEPT ![l.child] = c]
        /\ byTag' = byTag \cup {tag} /\ scenes' = scenes \cup {l.child}
        /\ conn' = [conn EXCEPT ![c].place = "starting", ![c].tag = tag]
    BY <1>3 DEF Establish
  <2> HIDE DEF l, tag
  <2>3. /\ conn' \in [Conns -> Conn]
        /\ \A d \in Conns : Place(d)' = "release" <=> Place(d) = "release"
    BY <1>1, <2>1, <2>2 DEF TypeOK, Conn, ConnPlaces, Place
  <2>4. ReleasePlace'
    BY <1>1, <2>3 DEF ReleasePlace
  <2>5. sessions' \in [SessionIds -> Conns \cup {NoConn}]
        /\ byTag' \subseteq Tags /\ scenes' \subseteq SessionIds
    BY <1>2, <2>1, <2>2 DEF TypeOK
  <2>6. TypeOK'
    BY <1>1, <1>2, <2>1, <2>2, <2>3, <2>5 DEF TypeOK, Conn
  <2>7. QED BY <1>1, <2>1, <2>2, <2>4, <2>6, Binds
<1>4. CASE EstablishWriteFails(c)
  <2>1. lease' = AfterLoss(Decided(c)) /\ At(c, "closed") /\ "closed" \in ConnPlaces
        /\ UNCHANGED <<sessions, byTag, scenes>>
    BY <1>4 DEF EstablishWriteFails, ConnPlaces
  <2>2. lease' \in Lease /\ lease'.child = Decided(c).child /\ lease'.state # "issued"
    BY <1>2, <2>1, Losses
  <2>3. /\ conn' \in [Conns -> Conn]
        /\ \A d \in Conns : Place(d)' = "release" <=> Place(d) = "release"
    BY <1>1, <2>1, Moves
  <2>4. ReleasePlace'
    BY <1>1, <2>3 DEF ReleasePlace
  <2>5. TypeOK'
    BY <1>1, <1>2, <2>1, <2>2, <2>3 DEF TypeOK, Conn
  <2>6. QED BY <1>1, <2>1, <2>2, <2>4, <2>5, Binds
<1>5. QED BY <1>3, <1>4

-----------------------------------------------------------------------------
(* The inductive invariant holds in every reachable state.                   *)
THEOREM Invariance == Spec => []IInv
<1>1. IInv /\ [Next]_vars => IInv'
  <2> SUFFICES ASSUME IInv, [Next]_vars PROVE IInv'
    OBVIOUS
  <2>1. CASE UNCHANGED vars
    BY <2>1, ConnKeeps DEF IInv, vars, registryVars, SameLease, TypeOK, Conn, Place
  <2>2. CASE CreateLease
    BY <2>2, CreateInv
  <2>3. CASE RevokeLease \/ ExpireCollect \/ ExpireRevoke \/ IssuerReleases \/ IssuerEnds
             \/ IssuerRevokesAll \/ IssuerUnlisted
    BY <2>3, IssuerInv
  <2>4. CASE DeadlinePasses \/ DisconnectClients
    BY <2>4, OutsideInv
  <2>5. ASSUME NEW c \in Conns,
               \/ AuthActivation(c) \/ \E g \in Generations : AuthResume(c, g)
               \/ EstablishRefused(c) \/ Serve(c) \/ Lose(c)
        PROVE  IInv'
    BY <2>5, QuietInv
  <2>6. ASSUME NEW c \in Conns, Establish(c) \/ EstablishWriteFails(c) PROVE IInv'
    BY <2>6, EstablishInv
  <2>7. ASSUME NEW c \in Conns, FirstRecord(c) \/ Goodbye(c) PROVE IInv'
    BY <2>7, RecordInv
  <2>8. ASSUME NEW c \in Conns, Finish(c) PROVE IInv'
    BY <2>8, QuietInv, TeardownInv, FinishRevokeInv, FinishReleaseInv DEF Finish
  <2>9. QED BY <2>1, <2>2, <2>3, <2>4, <2>5, <2>6, <2>7, <2>8 DEF Next
<1>2. QED BY InitInv, <1>1, PTL DEF Spec

(* The registry, the lease and the connections have their types.             *)
THEOREM TypeCorrect == Spec => []TypeOK
<1>1. IInv => TypeOK
  BY DEF IInv
<1>2. QED BY Invariance, <1>1, PTL

(* revoke_lease() returns what CREATE_SESSION_LEASE reserved exactly once,   *)
(* however the controller, the expiry and teardowns race for the lease.      *)
THEOREM CapacityCorrect == Spec => []CapacityCharged
<1>1. IInv => CapacityCharged
  BY DEF IInv
<1>2. QED BY Invariance, <1>1, PTL

(* A scene always has its lease or a revocation in progress to reclaim it.   *)
THEOREM ScenesReclaimed == Spec => []NoOrphanScene
<1>1. IInv => NoOrphanScene
  BY DEF IInv
<1>2. QED BY Invariance, <1>1, PTL

-----------------------------------------------------------------------------
(***************************************************************************)
(* While the key has been issued once, the lease has one transport and      *)
(* keeps what the child can recover with.  After a second issue both can    *)
(* fail: a late teardown finds the new lease by the key it was issued under. *)
(*                                                                         *)
(* A connection holds the lease from its WELCOME until its own teardown has *)
(* confirmed the loss of its transport, or leaves that to a revocation.     *)
(***************************************************************************)
Holder(c) == Place(c) \in {"starting", "open", "ending", "finding", "own"}

Untouched == issues = 0 => ~HasLease /\ \A c \in Conns : Place(c) = "idle"
OneHolder == \A c, d \in Conns : Holder(c) /\ Holder(d) => c = d

(* A holder is attached, and its tag is of the lease's own generation: no    *)
(* attempt is admitted over it.                                              *)
HolderAttached ==
  HasLease => \A c \in Conns :
    Holder(c) => lease.live /\ conn[c].tag = <<lease.child, lease.generation>>

(* The key is of this generation once the lease is suspended, and of the one *)
(* before while the first record of a resume is awaited, attached or not.    *)
KeyOfGeneration ==
  HasLease =>
    /\ lease.state = "suspended" =>
         ~lease.live /\ ~lease.awaiting /\ lease.key = <<lease.child, lease.generation>>
    /\ lease.awaiting /\ lease.generation > 0 => lease.key = <<lease.child, lease.generation - 1>>

(* An issued lease still awaits its first record, in its first generation.   *)
IssuedIsNew == HasLease /\ lease.state = "issued" => lease.awaiting /\ lease.generation = 0

Once == Untouched /\ OneHolder /\ HolderAttached /\ KeyOfGeneration /\ IssuedIsNew
OnceInv == issues <= 1 => Once

(* A step that keeps the lease or takes it out, and makes no holder.         *)
LEMMA OnceShrinks ==
  ASSUME Once, lease' \in {lease, NoLease}, UNCHANGED issues, issues = 0 => UNCHANGED conn,
         \A d \in Conns : Holder(d)' => Holder(d) /\ conn'[d].tag = conn[d].tag
  PROVE  Once'
<1> USE DEF Once
<1>1. HasLease' => HasLease /\ lease' = lease
  BY DEF HasLease
<1>2. Untouched'
  BY <1>1 DEF Untouched, Place
<1>3. OneHolder'
  BY DEF OneHolder
<1>4. HolderAttached' /\ KeyOfGeneration' /\ IssuedIsNew'
  BY <1>1 DEF HolderAttached, KeyOfGeneration, IssuedIsNew
<1>5. QED BY <1>2, <1>3, <1>4

(* The steps of the controller, and those of a connection that move only it. *)
LEMMA OnceKept ==
  ASSUME IInv, Once,
         \/ RevokeLease \/ ExpireCollect \/ ExpireRevoke \/ IssuerReleases \/ IssuerEnds
            \/ IssuerRevokesAll \/ IssuerUnlisted
         \/ DisconnectClients
         \/ \E c \in Conns :
              \/ AuthActivation(c) \/ \E g \in Generations : AuthResume(c, g)
              \/ EstablishRefused(c) \/ Serve(c) \/ Lose(c) \/ FinishFindIssuer(c)
              \/ FinishSuspendScene(c) \/ FinishUnpublish(c) \/ FinishRevoke(c)
              \/ FinishRelease(c) \/ FinishDrop(c) \/ FinishDropScene(c)
  PROVE  Once'
<1>1. CASE RevokeLease \/ ExpireCollect \/ ExpireRevoke \/ IssuerReleases \/ IssuerEnds
           \/ IssuerRevokesAll \/ IssuerUnlisted
  <2>1. UNCHANGED <<conn, issues>> /\ lease' \in {lease, NoLease}
    BY <1>1 DEF RevokeLease, ExpireCollect, ExpireRevoke, IssuerReleases, IssuerEnds,
                IssuerRevokesAll, IssuerUnlisted, TakeLease, registryVars
  <2>2. QED BY <2>1, OnceShrinks DEF Holder, Place
<1>2. CASE DisconnectClients
  <2>1. UNCHANGED <<issues, lease>>
    BY <1>2 DEF DisconnectClients, registryVars
  <2>2. \A d \in Conns : Holder(d)' => Holder(d) /\ conn'[d].tag = conn[d].tag
    BY <1>2 DEF DisconnectClients, Holder, Place, IInv, TypeOK
  <2>3. issues # 0
    BY <1>2, LeasesAssumption DEF DisconnectClients, Once, Untouched, Published, IInv, TypeOK
  <2>4. QED BY <2>1, <2>2, <2>3, OnceShrinks
<1>3. ASSUME NEW c \in Conns,
              \/ AuthActivation(c) \/ \E g \in Generations : AuthResume(c, g)
              \/ EstablishRefused(c) \/ Serve(c) \/ Lose(c) \/ FinishFindIssuer(c)
              \/ FinishSuspendScene(c) \/ FinishUnpublish(c) \/ FinishRevoke(c)
              \/ FinishRelease(c) \/ FinishDrop(c) \/ FinishDropScene(c)
      PROVE  Once'
  <2>1. UNCHANGED issues /\ lease' \in {lease, NoLease}
    BY <1>3 DEF AuthActivation, AuthResume, EstablishRefused, Serve, Lose, FinishFindIssuer,
        FinishSuspendScene, FinishUnpublish, FinishRevoke, FinishRelease, FinishDrop,
        FinishDropScene, TakeLease, registryVars
  <2>2. HasLease \/ Place(c) # "idle"
    BY <1>3 DEF AuthActivation, AuthResume, EstablishRefused, Serve, Lose, FinishFindIssuer,
        FinishSuspendScene, FinishUnpublish, FinishRevoke, FinishRelease, FinishDrop,
        FinishDropScene
  <2>3. issues # 0
    BY <2>2 DEF Once, Untouched
  <2>4. \A d \in Conns : Holder(d)' => Holder(d) /\ conn'[d].tag = conn[d].tag
    <3>1. CASE AuthActivation(c) \/ \E g \in Generations : AuthResume(c, g)
      <4>1. conn'[c].place = "auth" /\ \A d \in Conns : d # c => conn'[d] = conn[d]
        <5>1. CASE AuthActivation(c)
          BY <5>1 DEF AuthActivation, IInv, TypeOK
        <5>2. ASSUME NEW g \in Generations, AuthResume(c, g)
              PROVE  conn'[c].place = "auth" /\ \A d \in Conns : d # c => conn'[d] = conn[d]
          BY <5>2 DEF AuthResume, IInv, TypeOK
        <5>3. QED BY <3>1, <5>1, <5>2
      <4>2. QED BY <4>1 DEF Holder, Place
    <3>2. CASE ~(AuthActivation(c) \/ \E g \in Generations : AuthResume(c, g))
      <4>1. PICK p \in {"open", "ending", "drop", "revoke", "own", "unpublish", "closed",
                        "release", "dropScene"} :
              /\ At(c, p)
              /\ p \in {"open", "ending", "own"} => Holder(c)
        BY <1>3, <3>2 DEF EstablishRefused, Serve, Lose, FinishFindIssuer, FinishSuspendScene,
           FinishUnpublish, FinishRevoke, FinishRelease, FinishDrop, FinishDropScene, Holder
      <4>2. QED BY <4>1 DEF At, Holder, Place, IInv, TypeOK
    <3>3. QED BY <3>1, <3>2
  <2>5. QED BY <2>1, <2>3, <2>4, OnceShrinks
<1>4. QED BY <1>1, <1>2, <1>3

(* A deadline that passes changes neither transport nor key.                 *)
LEMMA OnceDeadline ==
  ASSUME IInv, Once, DeadlinePasses
  PROVE  Once'
<1> USE DEF Once
<1>1. /\ lease \in Lease /\ lease' = [lease EXCEPT !.due = TRUE] /\ HasLease
      /\ UNCHANGED <<conn, issues>>
  BY DEF DeadlinePasses, IInv, TypeOK, HasLease
<1>2. /\ lease'.state = lease.state /\ lease'.awaiting = lease.awaiting /\ lease'.live = lease.live
      /\ lease'.child = lease.child /\ lease'.generation = lease.generation
      /\ lease'.key = lease.key
  BY <1>1 DEF Lease
<1>3. Untouched' /\ OneHolder'
  BY <1>1 DEF Untouched, OneHolder, Holder, Place
<1>4. HolderAttached' /\ KeyOfGeneration' /\ IssuedIsNew'
  BY <1>1, <1>2 DEF HolderAttached, KeyOfGeneration, IssuedIsNew, Holder, Place
<1>5. QED BY <1>3, <1>4

(* The first issue of the key finds no connection at all.                    *)
LEMMA OnceCreate ==
  ASSUME IInv, Once, CreateLease, issues' <= 1
  PROVE  Once'
<1> USE DEF Once
<1>1. issues = 0 /\ issues' = 1
  BY DEF CreateLease, IInv, TypeOK
<1>2. \A c \in Conns : ~Holder(c)'
  BY <1>1 DEF CreateLease, Untouched, Holder, Place
<1>3. Untouched' /\ OneHolder' /\ HolderAttached'
  BY <1>1, <1>2 DEF Untouched, OneHolder, HolderAttached
<1>4. KeyOfGeneration' /\ IssuedIsNew'
  BY DEF CreateLease, KeyOfGeneration, IssuedIsNew
<1>5. QED BY <1>3, <1>4

(* The first record comes from the attached transport, so it never erases    *)
(* the key of a suspended lease.                                             *)
LEMMA OnceRecord ==
  ASSUME IInv, Once, NEW c \in Conns, FirstRecord(c) \/ Goodbye(c)
  PROVE  Once'
<1> USE DEF Once
<1>1. Holder(c) /\ UNCHANGED issues /\ issues # 0
  BY DEF FirstRecord, Goodbye, Holder, Untouched
<1>2. \A d \in Conns : Holder(d)' => Holder(d) /\ conn'[d].tag = conn[d].tag
  <2>1. /\ conn'[c].tag = conn[c].tag
        /\ \A d \in Conns : d # c => conn'[d] = conn[d]
    BY DEF FirstRecord, Goodbye, IInv, TypeOK
  <2>2. QED BY <1>1, <2>1 DEF Holder, Place
<1>3. CASE lease' = lease
  BY <1>1, <1>2, <1>3, OnceShrinks
<1>4. CASE lease' # lease
  <2>1. /\ HasLease /\ lease \in Lease
        /\ lease' = [lease EXCEPT !.awaiting = FALSE, !.key = NoTag, !.due = FALSE]
    BY <1>4 DEF FirstRecord, Goodbye, AdmitPostHello, IInv, TypeOK, HasLease
  <2>2. /\ lease'.state = lease.state /\ ~lease'.awaiting /\ lease'.live = lease.live
        /\ lease'.child = lease.child /\ lease'.generation = lease.generation
    BY <2>1 DEF Lease
  <2>3. lease.state \notin {"issued", "suspended"}
    BY <1>1, <2>1 DEF HolderAttached, KeyOfGeneration, IInv, ChildKnown
  <2>4. Untouched' /\ OneHolder'
    BY <1>1, <1>2 DEF Untouched, OneHolder
  <2>5. HolderAttached'
    BY <1>2, <2>1, <2>2 DEF HolderAttached
  <2>6. KeyOfGeneration' /\ IssuedIsNew'
    BY <2>2, <2>3 DEF KeyOfGeneration, IssuedIsNew
  <2>7. QED BY <2>4, <2>5, <2>6
<1>5. QED BY <1>3, <1>4

(* What losing its transport does to a lease: it suspends only once the      *)
(* first record has come.                                                    *)
LEMMA LossFacts ==
  ASSUME NEW l \in Lease
  PROVE  /\ AfterLoss(l) \in Lease
         /\ AfterLoss(l).awaiting = l.awaiting /\ AfterLoss(l).child = l.child
         /\ AfterLoss(l).generation = l.generation /\ AfterLoss(l).key = l.key
         /\ ~AfterLoss(l).live
         /\ l.awaiting => AfterLoss(l).state = l.state
         /\ ~l.awaiting => AfterLoss(l).state = "suspended"
BY DEF Lease, AfterLoss

(* The holder's teardown confirms the loss: nobody holds the lease any more, *)
(* and what it keeps is the key of the holder's generation, or the earlier   *)
(* one if its first record never came.                                       *)
LEMMA OnceLoss ==
  ASSUME IInv, Once, NEW c \in Conns, FinishRetryable(c) \/ FinishSuspend(c)
  PROVE  Once'
<1> USE DEF Once
<1>1. Holder(c) /\ UNCHANGED issues /\ issues # 0
  BY DEF FinishRetryable, FinishSuspend, Holder, Untouched
<1>2. PICK p \in {"closed", "finding", "suspending", "revoke"} : At(c, p)
  BY DEF FinishRetryable, FinishSuspend
<1>3. \A d \in Conns : Holder(d)' => Holder(d) /\ conn'[d].tag = conn[d].tag
  BY <1>1, <1>2 DEF At, Holder, Place, IInv, TypeOK
<1>4. CASE lease' = lease
  BY <1>1, <1>3, <1>4, OnceShrinks
<1>5. CASE lease' # lease
  <2>1. HasLease /\ lease \in Lease /\ p # "finding"
    <3>1. HasLease
      BY <1>5 DEF FinishRetryable, FinishSuspend, Retryable, Suspendable, registryVars
    <3>2. p # "finding"
      BY <1>2, <1>5 DEF FinishRetryable, FinishSuspend, Retryable, registryVars, At, Place,
         IInv, TypeOK
    <3>3. QED BY <3>1, <3>2 DEF HasLease, IInv, TypeOK
  <2>2. /\ lease.live /\ conn[c].tag = <<lease.child, lease.generation>>
        /\ lease.state \notin {"issued", "suspended"}
    BY <1>1, <2>1 DEF HolderAttached, KeyOfGeneration, IInv, ChildKnown
  <2>3. \A d \in Conns : ~Holder(d)'
    BY <1>1, <1>2, <1>3, <2>1 DEF OneHolder, Holder, At, Place, IInv, TypeOK
  <2>4. Untouched' /\ OneHolder' /\ HolderAttached'
    BY <1>1, <2>3 DEF Untouched, OneHolder, HolderAttached
  <2>5. CASE lease' = AfterLoss(lease) /\ AfterLoss(lease).state # "suspended"
    <3>1. /\ lease'.state \notin {"issued", "suspended"} /\ lease'.child = lease.child
          /\ lease'.generation = lease.generation /\ lease'.key = lease.key
          /\ lease'.awaiting = lease.awaiting
      BY <2>1, <2>2, <2>5, LossFacts
    <3>2. QED BY <2>1, <2>4, <3>1 DEF KeyOfGeneration, IssuedIsNew
  <2>6. CASE /\ lease' = [AfterLoss(lease) EXCEPT !.key = conn[c].tag, !.due = FALSE]
             /\ AfterLoss(lease).state = "suspended"
    <3>1. /\ lease'.state = "suspended" /\ lease'.child = lease.child
          /\ lease'.generation = lease.generation /\ lease'.key = conn[c].tag
          /\ lease'.awaiting = lease.awaiting /\ ~lease'.live
      BY <2>1, <2>6, LossFacts DEF Lease
    <3>2. ~lease.awaiting
      BY <2>1, <2>2, <2>6, LossFacts
    <3>3. QED BY <2>2, <2>4, <3>1, <3>2 DEF KeyOfGeneration, IssuedIsNew
  <2>7. \/ lease' = AfterLoss(lease) /\ AfterLoss(lease).state # "suspended"
        \/ /\ lease' = [AfterLoss(lease) EXCEPT !.key = conn[c].tag, !.due = FALSE]
           /\ AfterLoss(lease).state = "suspended"
    <3>1. CASE FinishRetryable(c)
      BY <1>5, <2>1, <2>2, <3>1, LossFacts DEF FinishRetryable, Retryable, registryVars
    <3>2. CASE FinishSuspend(c)
      BY <1>5, <3>2 DEF FinishSuspend
    <3>3. QED BY <3>1, <3>2
  <2>8. QED BY <2>4, <2>5, <2>6, <2>7
<1>6. QED BY <1>4, <1>5

(* What an attempt is admitted to: a lease nobody holds.                     *)
LEMMA AdmittedIsFree ==
  ASSUME IInv, Once, NEW c \in Conns, Admissible(c)
  PROVE  /\ HasLease /\ lease \in Lease /\ ~lease.live
         /\ \A d \in Conns : ~Holder(d)
         /\ issues # 0
<1> USE DEF Once, Admissible
<1>1. HasLease /\ lease \in Lease
  BY DEF IInv, TypeOK, HasLease
<1>2. ~lease.live
  BY <1>1 DEF FreshActivation, RetryActivation, FreshResume, RetryResume, KeyOfGeneration, IInv,
     ChildKnown
<1>3. \A d \in Conns : ~Holder(d)
  BY <1>1, <1>2 DEF HolderAttached
<1>4. issues # 0
  BY <1>1 DEF Untouched
<1>5. QED BY <1>1, <1>2, <1>3, <1>4

(* The decided lease keeps the key its child would retry with: the one of    *)
(* the generation before the resume's.                                       *)
LEMMA DecidedKey ==
  ASSUME IInv, Once, NEW c \in Conns, Admissible(c)
  PROVE  /\ Decided(c) \in Lease
         /\ Decided(c).awaiting /\ Decided(c).live /\ Decided(c).state # "suspended"
         /\ Decided(c).generation > 0 =>
              Decided(c).key = <<Decided(c).child, Decided(c).generation - 1>>
<1> USE DEF Once, Admissible
<1>1. /\ HasLease /\ lease \in Lease /\ Decided(c) \in Lease
  BY DecidedFacts, AdmittedIsFree
<1>2. lease.generation \in Nat
  BY <1>1, LeasesAssumption DEF Lease, Generations
<1>3. CASE FreshActivation(c)
  <2>1. Decided(c) = [lease EXCEPT !.state = "reserved", !.live = TRUE, !.child = nextSession]
    BY <1>3 DEF Decided
  <2>2. lease.awaiting /\ lease.generation = 0
    BY <1>1, <1>3 DEF FreshActivation, IssuedIsNew
  <2>3. QED BY <1>1, <2>1, <2>2 DEF Lease
<1>4. CASE ~FreshActivation(c) /\ FreshResume(c)
  <2>1. Decided(c) = [lease EXCEPT !.state = "reserved", !.live = TRUE, !.awaiting = TRUE,
                                   !.generation = lease.generation + 1,
                                   !.due = lease.due /\ lease.awaiting]
    BY <1>1, <1>4 DEF Decided, Lease
  <2>2. lease.key = <<lease.child, lease.generation>>
    BY <1>1, <1>4 DEF FreshResume, KeyOfGeneration
  <2>3. /\ Decided(c).awaiting /\ Decided(c).live /\ Decided(c).state = "reserved"
        /\ Decided(c).generation = lease.generation + 1
        /\ Decided(c).key = lease.key /\ Decided(c).child = lease.child
    BY <1>1, <2>1 DEF Lease
  <2>4. QED BY <1>1, <1>2, <2>2, <2>3
<1>5. CASE ~FreshActivation(c) /\ ~FreshResume(c)
  <2>1. Decided(c) = [lease EXCEPT !.live = TRUE]
    BY <1>5 DEF Decided
  <2>2. lease.awaiting /\ lease.state # "suspended"
    BY <1>5 DEF RetryActivation, RetryResume
  <2>3. /\ Decided(c).awaiting /\ Decided(c).live /\ Decided(c).state = lease.state
        /\ Decided(c).generation = lease.generation
        /\ Decided(c).key = lease.key /\ Decided(c).child = lease.child
    BY <1>1, <2>1, <2>2 DEF Lease
  <2>4. QED BY <1>1, <2>2, <2>3 DEF KeyOfGeneration
<1>6. QED BY <1>3, <1>4, <1>5

(* An admitted attempt becomes the one holder, or, its WELCOME not written,  *)
(* leaves the lease to a retry with its key.                                 *)
LEMMA OnceEstablish ==
  ASSUME IInv, Once, NEW c \in Conns, Establish(c) \/ EstablishWriteFails(c)
  PROVE  Once'
<1> USE DEF Once
<1>1. Admissible(c) /\ UNCHANGED issues
  BY DEF Establish, EstablishWriteFails
<1>2. issues # 0 /\ \A d \in Conns : ~Holder(d)
  BY <1>1, AdmittedIsFree
<1>3. /\ Decided(c) \in Lease
      /\ Decided(c).awaiting /\ Decided(c).live /\ Decided(c).state # "suspended"
      /\ Decided(c).generation > 0 =>
           Decided(c).key = <<Decided(c).child, Decided(c).generation - 1>>
  BY <1>1, DecidedKey
<1>4. CASE Establish(c)
  <2> DEFINE l   == [Decided(c) EXCEPT !.state = "active"]
             tag == <<l.child, l.generation>>
  <2>1. /\ l.awaiting /\ l.live /\ l.state = "active"
        /\ l.generation > 0 => l.key = <<l.child, l.generation - 1>>
    BY <1>3 DEF Lease
  <2>2. lease' = l /\ conn' = [conn EXCEPT ![c].place = "starting", ![c].tag = tag]
    BY <1>4 DEF Establish
  <2> HIDE DEF l
  <2>3. conn'[c].tag = tag /\ \A d \in Conns : d # c => conn'[d] = conn[d]
    BY <2>2 DEF IInv, TypeOK
  <2>4. \A d \in Conns : Holder(d)' => d = c
    BY <1>2, <2>3 DEF Holder, Place
  <2>5. Untouched' /\ OneHolder' /\ HolderAttached'
    BY <1>1, <1>2, <2>1, <2>2, <2>3, <2>4 DEF Untouched, OneHolder, HolderAttached
  <2>6. KeyOfGeneration' /\ IssuedIsNew'
    BY <2>1, <2>2 DEF KeyOfGeneration, IssuedIsNew
  <2>7. QED BY <2>5, <2>6
<1>5. CASE EstablishWriteFails(c)
  <2>1. lease' = AfterLoss(Decided(c)) /\ At(c, "closed") /\ "closed" \in ConnPlaces
    BY <1>5 DEF EstablishWriteFails, ConnPlaces
  <2>2. \A d \in Conns : ~Holder(d)'
    BY <1>2, <2>1, Moves DEF Holder, IInv
  <2>3. Untouched' /\ OneHolder' /\ HolderAttached'
    BY <1>1, <1>2, <2>2 DEF Untouched, OneHolder, HolderAttached
  <2>4. Decided(c).state # "issued"
    BY <1>1, DecidedFacts
  <2>5. /\ lease'.awaiting /\ lease'.state \notin {"issued", "suspended"}
        /\ lease'.child = Decided(c).child /\ lease'.key = Decided(c).key
        /\ lease'.generation = Decided(c).generation
    BY <1>3, <2>1, <2>4, LossFacts
  <2>6. KeyOfGeneration' /\ IssuedIsNew'
    BY <1>3, <2>5 DEF KeyOfGeneration, IssuedIsNew
  <2>7. QED BY <2>3, <2>6
<1>6. QED BY <1>4, <1>5

(* Up to a second issue of the key, every step preserves Once.               *)
LEMMA OnceStep == IInv /\ OnceInv /\ [Next]_vars => OnceInv'
<1> SUFFICES ASSUME IInv, OnceInv, [Next]_vars, issues' <= 1 PROVE Once'
  BY DEF OnceInv
<1>1. issues' = issues \/ CreateLease
  BY DEF Next, RevokeLease, ExpireCollect, ExpireRevoke, IssuerReleases, IssuerEnds,
     IssuerRevokesAll, IssuerUnlisted, DeadlinePasses, DisconnectClients, AuthActivation,
     AuthResume, Establish, EstablishWriteFails, EstablishRefused, Serve, FirstRecord, Lose,
     Goodbye, Finish, FinishRetryable, FinishFindIssuer, FinishSuspend, FinishSuspendScene,
     FinishUnpublish, FinishRevoke, FinishRelease, FinishDrop, FinishDropScene, vars
<1>2. issues <= 1
  BY <1>1 DEF CreateLease, IInv, TypeOK
<1>3. Once
  BY <1>2 DEF OnceInv
<1>4. CASE UNCHANGED vars
  BY <1>3, <1>4, OnceShrinks DEF vars, registryVars, Holder, Place
<1>5. CASE CreateLease
  BY <1>3, <1>5, OnceCreate
<1>6. CASE DeadlinePasses
  BY <1>3, <1>6, OnceDeadline
<1>7. CASE RevokeLease \/ ExpireCollect \/ ExpireRevoke \/ IssuerReleases \/ IssuerEnds
           \/ IssuerRevokesAll \/ IssuerUnlisted \/ DisconnectClients
  BY <1>3, <1>7, OnceKept
<1>8. ASSUME NEW c \in Conns,
             \/ AuthActivation(c) \/ \E g \in Generations : AuthResume(c, g)
             \/ EstablishRefused(c) \/ Serve(c) \/ Lose(c) \/ FinishFindIssuer(c)
             \/ FinishSuspendScene(c) \/ FinishUnpublish(c) \/ FinishRevoke(c)
             \/ FinishRelease(c) \/ FinishDrop(c) \/ FinishDropScene(c)
      PROVE  Once'
  BY <1>3, <1>8, OnceKept
<1>9. ASSUME NEW c \in Conns,
             \/ Establish(c) \/ EstablishWriteFails(c) \/ FirstRecord(c) \/ Goodbye(c)
             \/ FinishRetryable(c) \/ FinishSuspend(c)
      PROVE  Once'
  BY <1>3, <1>9, OnceEstablish, OnceRecord, OnceLoss
<1>10. QED BY <1>4, <1>5, <1>6, <1>7, <1>8, <1>9 DEF Next, Finish

(* Once holds in every reachable state in which the key was issued once.     *)
THEOREM OnceInvariance == Spec => []OnceInv
<1>1. Init => OnceInv
  BY DEF Init, OnceInv, Once, Untouched, OneHolder, HolderAttached, KeyOfGeneration, IssuedIsNew,
         Holder, Place, HasLease
<1>2. QED BY <1>1, OnceStep, Invariance, PTL DEF Spec

(* "Concurrent attempts have exactly one winner": while the controller has   *)
(* issued the key once, no two connections serve one logical session,        *)
(* however activations, retries, resumes and losses interleave.              *)
THEOREM OneTransport == Spec => [](issues <= 1 => OneServingTransport)
<1>1. OnceInv => (issues <= 1 => OneServingTransport)
  BY DEF OnceInv, Once, OneHolder, OneServingTransport, Serving, Holder
<1>2. QED BY OnceInvariance, <1>1, PTL

(* While the key was issued once, a lost WELCOME or a lost transport leaves  *)
(* the lease the resume key its child still has (suspend_lease,              *)
(* finish_session, admit_post_hello).                                        *)
THEOREM KeyRecoverable == Spec => [](issues <= 1 => RecoverableKeyKept)
<1>1. OnceInv => (issues <= 1 => RecoverableKeyKept)
  BY DEF OnceInv, Once, KeyOfGeneration, RecoverableKeyKept
<1>2. QED BY OnceInvariance, <1>1, PTL
=============================================================================
