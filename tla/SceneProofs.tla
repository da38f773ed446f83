------------------------------ MODULE SceneProofs ------------------------------
(***************************************************************************)
(* Proofs about the shared scene.  What its properties say of the cache,   *)
(* of slots, of revisions and of posters rests on who owns what: a track's *)
(* surface lives as long as it does and in a live session, a node names    *)
(* objects of its own session, a poster's track is one of a session that   *)
(* has ended.  IInv has a part for each group of variables, so that a      *)
(* method is looked at where it writes.                                    *)
(***************************************************************************)
EXTENDS Scene, FiniteSetTheorems, WellFoundedInduction, TLAPS

SurfaceRecords ==
  [live : {TRUE}, generation : Nat, deny : BOOLEAN, slots : [Slots -> SUBSET Tracks]]
TrackRecords ==
  [live : {TRUE}, lost : BOOLEAN, generation : Nat, frame : Nat, presented : Nat]
AnchorRecords == [kind : {"at"}, line : {0, 1}, alternate : BOOLEAN]
Items == [track : Tracks, surface_generation : Nat, channel_generation : Nat, frame : Nat,
          line : Nat, policy : BOOLEAN]
Posters == [anchor : Anchors, item : Items]
Transactions == [open : BOOLEAN, queued : Seq(Mutations(Anchors)), accepted : Nat]

AnchorMaps == [Anchors -> AnchorRecords \cup {None, Gone}]
NodeMaps == [Nodes -> NodeRecords(Anchors) \cup {NoNode}]

(* Who is there, and the target generation they agree on. *)
Sessional ==
  /\ stage \in Stages /\ target \in 1 .. MaxTarget
  /\ live \subseteq Sessions /\ ended \subseteq Sessions /\ live \cap ended = {}
  /\ planned \in [Sessions -> 0 .. MaxTarget]
  /\ TargetAgreement

(* A surface has a live session, a track a live surface, a slot a track.   *)
Media ==
  /\ surfaces \in [Surfaces -> SurfaceRecords \cup {NoSurface}]
  /\ tracks \in [Tracks -> TrackRecords \cup {NoTrack}]
  /\ \A x \in Surfaces : surfaces[x].live =>
       Owner(x) \in live /\ surfaces[x].generation \in 1 .. MaxSurfaceGen
  /\ \A t \in Tracks : tracks[t].live =>
       surfaces[Surface[t]].live /\ tracks[t].generation \in 1 .. MaxChannelGen
  /\ SlotsNameTracks

(* What a node shows and where are of the session s. *)
OwnedBy(s, content) ==
  /\ Owner(content.surface) = s
  /\ content.anchor # NoAnchor => Owner(content.anchor) = s

(* Nodes, and those that pending transactions would make, name objects of  *)
(* their own session; a transaction has its bound.                         *)
NodesOwned ==
  /\ nodes \in NodeMaps /\ named \in NodeMaps
  /\ \A n \in Nodes : nodes[n] # NoNode => OwnedBy(Owner(n), nodes[n])
PendingOwned ==
  /\ pending \in [Contexts -> Transactions]
  /\ \A c \in Contexts : \A i \in 1 .. Len(pending[c].queued) :
       /\ Context[pending[c].queued[i].node] = c
       /\ pending[c].queued[i].op # "delete" =>
            OwnedBy(Session[c], pending[c].queued[i].content)
  /\ \A c \in Contexts :
       Len(pending[c].queued) <= pending[c].accepted /\ pending[c].accepted <= MaxMutations

(* An anchor is in the scene only once: what a marker named before is seen.*)
AnchorsSeen ==
  /\ anchors \in AnchorMaps /\ seen \subseteq Anchors /\ alternate \in BOOLEAN
  /\ \A a \in Anchors : At(a) => a \in seen

(* A node that went since the last revision went with an anchor that does  *)
(* not come back.                                                          *)
Revisions ==
  \A n \in Nodes : nodes[n] # named[n] =>
    nodes[n] = NoNode /\ named[n].anchor \in seen /\ ~At(named[n].anchor)

(* A poster shows a track of the session that left it, which is over.      *)
PostersKept ==
  /\ posters \subseteq Posters /\ IsFiniteSet(posters) /\ Cardinality(posters) <= MaxPosters
  /\ detached \subseteq ended
  /\ \A p \in posters : TrackOwner(p.item.track) = Owner(p.anchor)
  /\ PostersAnchored

(* The cache and the screen. *)
Cached ==
  /\ cache = [valid |-> cache.valid, items |-> cache.items]
  /\ cache.valid \in BOOLEAN /\ fresh \in BOOLEAN
  /\ CacheFresh /\ SkipIsSound

IInv ==
  /\ Sessional /\ Media /\ NodesOwned /\ PendingOwned /\ AnchorsSeen /\ Revisions
  /\ PostersKept /\ Cached

-----------------------------------------------------------------------------
(* A step that changes nothing a part speaks of keeps it. *)
LEMMA SessionalFrame ==
  ASSUME Sessional, UNCHANGED sessionVars
  PROVE  Sessional'
BY DEF Sessional, sessionVars, TargetAgreement, MaxTarget

LEMMA MediaFrame ==
  ASSUME Media, UNCHANGED <<surfaces, tracks, stage>>, live \subseteq live'
  PROVE  Media'
BY DEF Media, SlotsNameTracks, MaxSurfaceGen, MaxChannelGen

LEMMA NodesFrame ==
  ASSUME NodesOwned, UNCHANGED <<nodes, named>>
  PROVE  NodesOwned'
BY DEF NodesOwned

LEMMA PendingFrame ==
  ASSUME PendingOwned, UNCHANGED pending
  PROVE  PendingOwned'
BY DEF PendingOwned

LEMMA AnchorsFrame ==
  ASSUME AnchorsSeen, UNCHANGED anchorVars
  PROVE  AnchorsSeen'
BY DEF AnchorsSeen, At, anchorVars

LEMMA RevisionsFrame ==
  ASSUME Revisions, UNCHANGED <<nodes, named>>, UNCHANGED anchorVars
  PROVE  Revisions'
BY DEF Revisions, At, anchorVars

LEMMA PostersFrame ==
  ASSUME PostersKept, UNCHANGED posterVars, UNCHANGED anchorVars, ended \subseteq ended'
  PROVE  PostersKept'
BY DEF PostersKept, PostersAnchored, At, anchorVars, posterVars

(* invalidate_topology() and invalidate_capture() forget what was cached.  *)
LEMMA InvalidateKeeps ==
  ASSUME Invalidate
  PROVE  Cached'
BY DEF Invalidate, NoCache, Cached, CacheFresh, SkipIsSound

(* Identities have their owners. *)
LEMMA Owners ==
  /\ \A c \in Contexts : Session[c] \in Sessions
  /\ \A x \in Surfaces \cup Nodes \cup Anchors : Context[x] \in Contexts /\ Owner(x) \in Sessions
  /\ \A t \in Tracks : Surface[t] \in Surfaces /\ TrackOwner(t) \in Sessions
BY SceneAssumption DEF Owner, TrackOwner
-----------------------------------------------------------------------------
(* The initial state. *)
LEMMA InitHolds == ASSUME Init PROVE IInv
<1>1. Sessional
  BY SceneAssumption DEF Init, Sessional, TargetAgreement, MaxTarget, Stage
<1>2. Media
  BY DEF Init, Media, NoSurface, NoTrack, SlotsNameTracks
<1>3. NodesOwned
  BY DEF Init, NodesOwned, NodeMaps
<1>4. PendingOwned
  <2>1. NoTx \in Transactions /\ Len(NoTx.queued) = 0 /\ NoTx.accepted = 0
    <3>1. <<>> \in Seq(Mutations(Anchors)) /\ Len(<<>>) = 0
      OBVIOUS
    <3> QED BY <3>1 DEF NoTx, Transactions
  <2>2. \A c \in Contexts : pending[c] = NoTx
    BY DEF Init
  <2>3. pending \in [Contexts -> Transactions]
    BY <2>1 DEF Init
  <2> QED BY <2>1, <2>2, <2>3, SceneAssumption DEF PendingOwned
<1>5. AnchorsSeen
  BY DEF Init, AnchorsSeen, AnchorMaps, At, None
<1>6. Revisions
  BY DEF Init, Revisions
<1>7. PostersKept
  BY SceneAssumption, FS_EmptySet DEF Init, PostersKept, PostersAnchored
<1>8. Cached
  BY DEF Init, Cached, NoCache, CacheFresh, SkipIsSound
<1> QED BY <1>1, <1>2, <1>3, <1>4, <1>5, <1>6, <1>7, <1>8 DEF IInv
-----------------------------------------------------------------------------
(* What a live surface, a live track and an active slot are. *)
LEMMA LiveRecords ==
  ASSUME Media
  PROVE  /\ \A x \in Surfaces : surfaces[x].live => surfaces[x] \in SurfaceRecords
         /\ \A t \in Tracks : tracks[t].live => tracks[t] \in TrackRecords
         /\ \A x \in Surfaces : surfaces[x].live => \A k \in Slots : \A t \in surfaces[x].slots[k] :
              t \in Tracks /\ tracks[t].live /\ Surface[t] = x /\ Slot[t] = k
<1>1. \A x \in Surfaces : surfaces[x].live => surfaces[x] \in SurfaceRecords
  BY DEF Media, NoSurface
<1>2. \A t \in Tracks : tracks[t].live => tracks[t] \in TrackRecords
  BY DEF Media, NoTrack
<1>3. \A x \in Surfaces : surfaces[x].live =>
         \A k \in Slots : surfaces[x].slots[k] \subseteq Tracks
  BY <1>1 DEF SurfaceRecords
<1> QED BY <1>1, <1>2, <1>3 DEF Media, SlotsNameTracks

(* Surfaces and tracks: what each request does to them.                    *)

LEMMA CreateSurfaceMedia ==
  ASSUME IInv, NEW x \in Surfaces, CreateSurface(x)
  PROVE  Media'
<1> DEFINE r == [live |-> TRUE, generation |-> 1, deny |-> FALSE, slots |-> [k \in Slots |-> {}]]
<1>1. /\ Owner(x) \in live /\ surfaces' = [surfaces EXCEPT ![x] = r]
      /\ tracks' = tracks /\ live' = live /\ stage' = stage
      /\ ~surfaces[x].live
  BY DEF CreateSurface, sessionVars
<1>2. r \in SurfaceRecords /\ r.live /\ r.generation = 1 /\ \A k \in Slots : r.slots[k] = {}
  BY DEF SurfaceRecords
<1> HIDE DEF r
<1>3. /\ surfaces' \in [Surfaces -> SurfaceRecords \cup {NoSurface}]
      /\ surfaces'[x] = r /\ \A y \in Surfaces \ {x} : surfaces'[y] = surfaces[y]
  BY <1>1, <1>2 DEF IInv, Media
<1>4. MaxSurfaceGen' = MaxSurfaceGen /\ MaxChannelGen' = MaxChannelGen /\ 1 \in 1 .. MaxSurfaceGen
  BY <1>1, SceneAssumption DEF MaxSurfaceGen, MaxChannelGen, IInv, Sessional, Stage
<1>5. \A t \in Tracks : tracks[t].live => Surface[t] \in Surfaces \ {x}
  BY <1>1, Owners DEF IInv, Media
<1> QED BY <1>1, <1>2, <1>3, <1>4, <1>5 DEF IInv, Media, SlotsNameTracks

LEMMA UpdateSurfaceMedia ==
  ASSUME IInv, NEW x \in Surfaces, NEW remap \in BOOLEAN, NEW deny \in BOOLEAN,
         UpdateSurface(x, remap, deny)
  PROVE  Media'
<1>1. /\ surfaces[x].live /\ (remap => surfaces[x].generation < MaxSurfaceGen)
      /\ surfaces' = [surfaces EXCEPT ![x].deny = deny,
                                      ![x].generation = IF remap THEN @ + 1 ELSE @]
      /\ tracks' = tracks /\ live' = live /\ stage' = stage
  BY DEF UpdateSurface, sessionVars
<1>2. surfaces[x] \in SurfaceRecords
  BY <1>1 DEF IInv, Media, NoSurface
<1> DEFINE g == IF remap THEN surfaces[x].generation + 1 ELSE surfaces[x].generation
<1>3. g \in Nat /\ g \in 1 .. MaxSurfaceGen
  <2>1. surfaces[x].generation \in 1 .. MaxSurfaceGen /\ MaxSurfaceGen \in Nat
    BY <1>1, SceneAssumption DEF IInv, Media, Sessional, Stage, MaxSurfaceGen
  <2> QED BY <1>1, <2>1
<1>4. surfaces' = [surfaces EXCEPT ![x] = [surfaces[x] EXCEPT !.deny = deny, !.generation = g]]
  BY <1>1 DEF IInv, Media
<1> HIDE DEF g
<1> DEFINE r == [surfaces[x] EXCEPT !.deny = deny, !.generation = g]
<1>5. r \in SurfaceRecords /\ r.live /\ r.generation = g /\ r.slots = surfaces[x].slots
  BY <1>2, <1>3 DEF SurfaceRecords
<1> HIDE DEF r
<1>6. /\ surfaces' \in [Surfaces -> SurfaceRecords \cup {NoSurface}]
      /\ surfaces'[x] = r /\ \A y \in Surfaces \ {x} : surfaces'[y] = surfaces[y]
  BY <1>4, <1>5 DEF IInv, Media, r
<1>7. MaxSurfaceGen' = MaxSurfaceGen /\ MaxChannelGen' = MaxChannelGen
  BY <1>1 DEF MaxSurfaceGen, MaxChannelGen
<1>8. \A y \in Surfaces : (surfaces'[y].live <=> surfaces[y].live)
                          /\ surfaces'[y].slots = surfaces[y].slots
  BY <1>1, <1>5, <1>6
<1>9. \A y \in Surfaces : surfaces'[y].live =>
         Owner(y) \in live' /\ surfaces'[y].generation \in 1 .. MaxSurfaceGen'
  BY <1>1, <1>3, <1>5, <1>6, <1>7 DEF IInv, Media
<1> QED BY <1>1, <1>6, <1>7, <1>8, <1>9, Owners DEF IInv, Media, SlotsNameTracks

(* The slots of one surface change. *)
LEMMA SlotsMedia ==
  ASSUME IInv, NEW x \in Surfaces, surfaces[x].live, NEW now \in [Slots -> SUBSET Tracks],
         surfaces' = [surfaces EXCEPT ![x].slots = now],
         live' = live, stage' = stage,
         tracks' \in [Tracks -> TrackRecords \cup {NoTrack}],
         \A t \in Tracks : tracks'[t] = tracks[t] \/ ~tracks'[t].live,
         \A k \in Slots : \A t \in now[k] : tracks'[t].live /\ Surface[t] = x /\ Slot[t] = k,
         \A t \in Tracks : Surface[t] # x => tracks'[t] = tracks[t]
  PROVE  Media'
<1>1. surfaces[x] \in SurfaceRecords
  BY DEF IInv, Media, NoSurface
<1> DEFINE r == [surfaces[x] EXCEPT !.slots = now]
<1>2. r \in SurfaceRecords /\ r.live /\ r.generation = surfaces[x].generation /\ r.slots = now
  BY <1>1 DEF SurfaceRecords
<1>3. surfaces' = [surfaces EXCEPT ![x] = r]
  BY DEF IInv, Media
<1> HIDE DEF r
<1>4. /\ surfaces' \in [Surfaces -> SurfaceRecords \cup {NoSurface}]
      /\ surfaces'[x] = r /\ \A y \in Surfaces \ {x} : surfaces'[y] = surfaces[y]
  BY <1>2, <1>3 DEF IInv, Media
<1>5. MaxSurfaceGen' = MaxSurfaceGen /\ MaxChannelGen' = MaxChannelGen
  BY DEF MaxSurfaceGen, MaxChannelGen
<1>6. \A y \in Surfaces : surfaces'[y].live <=> surfaces[y].live
  BY <1>2, <1>4
<1>7. \A y \in Surfaces : surfaces'[y].generation = surfaces[y].generation
  BY <1>2, <1>4
<1>8. SlotsNameTracks'
  <2> SUFFICES ASSUME NEW y \in Surfaces, surfaces'[y].live, NEW k \in Slots,
                      NEW t \in surfaces'[y].slots[k]
               PROVE  tracks'[t].live /\ Surface[t] = y /\ Slot[t] = k
    BY DEF SlotsNameTracks
  <2>1. CASE y = x
    BY <1>2, <1>4, <2>1
  <2>2. CASE y # x
    <3>1. surfaces'[y] = surfaces[y]
      BY <1>4, <2>2
    <3>2. tracks[t].live /\ Surface[t] = y /\ Slot[t] = k /\ t \in Tracks
      BY <3>1, LiveRecords DEF IInv
    <3> QED BY <2>2, <3>2
  <2> QED BY <2>1, <2>2
<1>9. \A t \in Tracks : tracks'[t].live =>
         surfaces'[Surface[t]].live /\ tracks'[t].generation \in 1 .. MaxChannelGen'
  BY <1>5, <1>6, Owners DEF IInv, Media
<1> QED BY <1>4, <1>5, <1>6, <1>7, <1>8, <1>9 DEF IInv, Media

(* One track changes and keeps its place. *)
LEMMA TrackMedia ==
  ASSUME IInv, NEW t \in Tracks, NEW r \in TrackRecords,
         tracks' = [tracks EXCEPT ![t] = r],
         surfaces[Surface[t]].live, r.generation \in 1 .. MaxChannelGen,
         UNCHANGED <<surfaces, live, stage>>
  PROVE  Media'
<1>1. /\ tracks' \in [Tracks -> TrackRecords \cup {NoTrack}]
      /\ tracks'[t] = r /\ \A u \in Tracks \ {t} : tracks'[u] = tracks[u]
  BY DEF IInv, Media
<1>2. MaxSurfaceGen' = MaxSurfaceGen /\ MaxChannelGen' = MaxChannelGen
  BY DEF MaxSurfaceGen, MaxChannelGen
<1>3. r.live
  BY DEF TrackRecords
<1>4. SlotsNameTracks'
  <2> SUFFICES ASSUME NEW y \in Surfaces, surfaces[y].live, NEW k \in Slots,
                      NEW u \in surfaces[y].slots[k]
               PROVE  tracks'[u].live /\ Surface[u] = y /\ Slot[u] = k
    BY DEF SlotsNameTracks
  <2>1. tracks[u].live /\ Surface[u] = y /\ Slot[u] = k /\ u \in Tracks
    BY LiveRecords DEF IInv
  <2> QED BY <1>1, <1>3, <2>1
<1> QED BY <1>1, <1>2, <1>3, <1>4 DEF IInv, Media

(* Objects that end together: of a session, of a context, of a surface.    *)
LEMMA EndMedia ==
  ASSUME IInv, NEW gone \in SUBSET Surfaces,
         surfaces' = [x \in Surfaces |-> IF x \in gone THEN NoSurface ELSE surfaces[x]],
         tracks' = [t \in Tracks |-> IF Surface[t] \in gone THEN NoTrack ELSE tracks[t]],
         stage' = stage,
         \A x \in Surfaces : x \notin gone /\ Owner(x) \in live => Owner(x) \in live'
  PROVE  Media'
<1>1. /\ surfaces' \in [Surfaces -> SurfaceRecords \cup {NoSurface}]
      /\ tracks' \in [Tracks -> TrackRecords \cup {NoTrack}]
  BY DEF IInv, Media
<1>2. MaxSurfaceGen' = MaxSurfaceGen /\ MaxChannelGen' = MaxChannelGen
  BY DEF MaxSurfaceGen, MaxChannelGen
<1>3. \A x \in Surfaces : surfaces'[x].live => x \notin gone /\ surfaces'[x] = surfaces[x]
  BY DEF NoSurface
<1>4. \A t \in Tracks : tracks'[t].live => Surface[t] \notin gone /\ tracks'[t] = tracks[t]
  BY DEF NoTrack
<1>5. SlotsNameTracks'
  <2> SUFFICES ASSUME NEW y \in Surfaces, surfaces'[y].live, NEW k \in Slots,
                      NEW t \in surfaces'[y].slots[k]
               PROVE  tracks'[t].live /\ Surface[t] = y /\ Slot[t] = k
    BY DEF SlotsNameTracks
  <2>1. surfaces'[y] = surfaces[y] /\ y \notin gone
    BY <1>3
  <2>2. t \in Tracks /\ tracks[t].live /\ Surface[t] = y /\ Slot[t] = k
    BY <2>1, LiveRecords DEF IInv
  <2> QED BY <2>1, <2>2
<1>6. \A x \in Surfaces : surfaces'[x].live =>
         Owner(x) \in live' /\ surfaces'[x].generation \in 1 .. MaxSurfaceGen'
  BY <1>2, <1>3 DEF IInv, Media
<1>7. \A t \in Tracks : tracks'[t].live =>
         surfaces'[Surface[t]].live /\ tracks'[t].generation \in 1 .. MaxChannelGen'
  BY <1>2, <1>4, Owners DEF IInv, Media
<1> QED BY <1>1, <1>5, <1>6, <1>7 DEF Media

(* The requests and results that change one track's record.                *)
LEMMA TrackStepMedia ==
  ASSUME IInv, NEW t \in Tracks,
         \/ CreateTrack(t) \/ AdvanceChannel(t)
         \/ \E g \in 1 .. MaxChannelGen : \/ LoseTrack(t, g)
                                          \/ \E f \in stage.frames : PublishDecodedFrame(t, g, f)
  PROVE  Media'
<1>0. MaxChannelGen \in Nat /\ 1 \in 1 .. MaxChannelGen /\ stage.frames \subseteq Nat \ {0}
  BY SceneAssumption DEF IInv, Sessional, Stage, MaxChannelGen
<1>1. CASE CreateTrack(t)
  <2> DEFINE r == [live |-> TRUE, lost |-> FALSE, generation |-> 1, frame |-> NoFrame,
                   presented |-> 0]
  <2>1. r \in TrackRecords /\ r.generation = 1
    BY DEF TrackRecords, NoFrame
  <2>2. /\ surfaces[Surface[t]].live /\ tracks' = [tracks EXCEPT ![t] = r]
        /\ UNCHANGED <<surfaces, live, stage>>
    BY <1>1 DEF CreateTrack, OnlyTracks, sessionVars
  <2> HIDE DEF r
  <2> QED BY <1>0, <2>1, <2>2, TrackMedia
<1>2. CASE AdvanceChannel(t)
  <2> DEFINE r == [tracks[t] EXCEPT !.generation = @ + 1, !.frame = NoFrame, !.presented = 0]
  <2>1. /\ tracks[t].live /\ tracks[t].generation < MaxChannelGen
        /\ tracks' = [tracks EXCEPT ![t].generation = @ + 1,
                                    ![t].frame = NoFrame, ![t].presented = 0]
        /\ UNCHANGED <<surfaces, live, stage>>
    BY <1>2 DEF AdvanceChannel, OnlyTracks, sessionVars
  <2>2. tracks[t] \in TrackRecords /\ tracks[t].generation + 1 \in 1 .. MaxChannelGen
        /\ surfaces[Surface[t]].live /\ tracks[t].generation + 1 \in Nat
    BY <1>0, <2>1, LiveRecords DEF IInv, Media
  <2>3. r \in TrackRecords /\ r.generation = tracks[t].generation + 1
    BY <2>2 DEF TrackRecords, NoFrame
  <2>4. tracks' = [tracks EXCEPT ![t] = r]
    BY <2>1 DEF IInv, Media
  <2> HIDE DEF r
  <2> QED BY <2>1, <2>2, <2>3, <2>4, TrackMedia
<1>3. ASSUME NEW g \in 1 .. MaxChannelGen, LoseTrack(t, g)
      PROVE  Media'
  <2> DEFINE r == [tracks[t] EXCEPT !.lost = TRUE, !.presented = 0]
  <2>1. /\ tracks[t].live
        /\ tracks' = [tracks EXCEPT ![t].lost = TRUE, ![t].presented = 0]
        /\ UNCHANGED <<surfaces, live, stage>>
    BY <1>3 DEF LoseTrack, OnlyTracks, sessionVars
  <2>2. tracks[t] \in TrackRecords /\ surfaces[Surface[t]].live
        /\ tracks[t].generation \in 1 .. MaxChannelGen
    BY <2>1, LiveRecords DEF IInv, Media
  <2>3. r \in TrackRecords /\ r.generation = tracks[t].generation
    BY <2>2 DEF TrackRecords
  <2>4. tracks' = [tracks EXCEPT ![t] = r]
    BY <2>1 DEF IInv, Media
  <2> HIDE DEF r
  <2> QED BY <2>1, <2>2, <2>3, <2>4, TrackMedia
<1>4. ASSUME NEW g \in 1 .. MaxChannelGen, NEW f \in stage.frames, PublishDecodedFrame(t, g, f)
      PROVE  Media'
  <2> DEFINE r == [tracks[t] EXCEPT !.frame = f]
  <2>1. /\ tracks[t].live
        /\ tracks' = [tracks EXCEPT ![t].frame = f]
        /\ UNCHANGED <<surfaces, live, stage>>
    BY <1>4 DEF PublishDecodedFrame, OnlyTracks, sessionVars
  <2>2. tracks[t] \in TrackRecords /\ surfaces[Surface[t]].live
        /\ tracks[t].generation \in 1 .. MaxChannelGen
    BY <2>1, LiveRecords DEF IInv, Media
  <2>3. r \in TrackRecords /\ r.generation = tracks[t].generation
    BY <1>0, <2>2 DEF TrackRecords
  <2>4. tracks' = [tracks EXCEPT ![t] = r]
    BY <2>1 DEF IInv, Media
  <2> HIDE DEF r
  <2> QED BY <2>1, <2>2, <2>3, <2>4, TrackMedia
<1> QED BY <1>1, <1>2, <1>3, <1>4

(* destroy_track(), activate_tracks(), and a slot cleared.                 *)
LEMMA SlotStepMedia ==
  ASSUME IInv, \/ \E t \in Tracks : DestroyTrack(t) \/ ActivateTrack(t)
               \/ \E x \in Surfaces, k \in Slots : ClearSlot(x, k)
  PROVE  Media'
<1>1. ASSUME NEW t \in Tracks, DestroyTrack(t)
      PROVE  Media'
  <2> DEFINE x == Surface[t]
             now == [k \in Slots |-> surfaces[x].slots[k] \ {t}]
  <2>1. /\ tracks[t].live /\ tracks' = [tracks EXCEPT ![t] = NoTrack]
        /\ surfaces' = [surfaces EXCEPT ![x].slots = [k \in Slots |-> @[k] \ {t}]]
        /\ UNCHANGED <<live, stage>>
    BY <1>1 DEF DestroyTrack, OnlySlots, sessionVars
  <2>2. x \in Surfaces /\ surfaces[x].live
    BY <2>1, Owners DEF IInv, Media
  <2>3. surfaces' = [surfaces EXCEPT ![x].slots = now]
    BY <2>1
  <2>4. now \in [Slots -> SUBSET Tracks]
    BY <2>2, LiveRecords DEF IInv, SurfaceRecords
  <2>5. /\ tracks' \in [Tracks -> TrackRecords \cup {NoTrack}]
        /\ \A u \in Tracks : u # t => tracks'[u] = tracks[u]
        /\ tracks'[t] = NoTrack /\ ~tracks'[t].live
    BY <2>1 DEF IInv, Media, NoTrack
  <2>6. \A k \in Slots : \A u \in now[k] : tracks'[u].live /\ Surface[u] = x /\ Slot[u] = k
    BY <2>2, <2>5, LiveRecords DEF IInv
  <2>7. \A u \in Tracks : tracks'[u] = tracks[u] \/ ~tracks'[u].live
    BY <2>5
  <2>8. \A u \in Tracks : Surface[u] # x => tracks'[u] = tracks[u]
    BY <2>5
  <2> HIDE DEF now, x
  <2> QED BY <2>1, <2>2, <2>3, <2>4, <2>5, <2>6, <2>7, <2>8, SlotsMedia
<1>2. ASSUME NEW t \in Tracks, ActivateTrack(t)
      PROVE  Media'
  <2> DEFINE x == Surface[t]
             now == [surfaces[x].slots EXCEPT ![Slot[t]] = {t}]
  <2>1. /\ surfaces[x].live /\ tracks[t].live
        /\ surfaces' = [surfaces EXCEPT ![x].slots[Slot[t]] = {t}]
        /\ UNCHANGED <<tracks, live, stage>>
    BY <1>2 DEF ActivateTrack, OnlySlots, sessionVars
  <2>2. x \in Surfaces /\ Slot[t] \in Slots /\ surfaces[x] \in SurfaceRecords
    BY <2>1, LiveRecords, Owners, SceneAssumption DEF IInv
  <2>3. surfaces' = [surfaces EXCEPT ![x].slots = now]
    BY <2>1
  <2>4. /\ now \in [Slots -> SUBSET Tracks] /\ now[Slot[t]] = {t}
        /\ \A k \in Slots : k # Slot[t] => now[k] = surfaces[x].slots[k]
    BY <2>2 DEF SurfaceRecords
  <2> HIDE DEF now
  <2>5. \A k \in Slots : \A u \in now[k] : tracks'[u].live /\ Surface[u] = x /\ Slot[u] = k
    <3> SUFFICES ASSUME NEW k \in Slots, NEW u \in now[k]
                 PROVE  tracks'[u].live /\ Surface[u] = x /\ Slot[u] = k
      OBVIOUS
    <3>1. CASE k = Slot[t]
      BY <2>1, <2>4, <3>1
    <3>2. CASE k # Slot[t]
      BY <2>1, <2>2, <2>4, <3>2, LiveRecords DEF IInv
    <3> QED BY <3>1, <3>2
  <2>6. tracks' \in [Tracks -> TrackRecords \cup {NoTrack}]
    BY <2>1 DEF IInv, Media
  <2>7. \A u \in Tracks : tracks'[u] = tracks[u]
    BY <2>1
  <2>8. /\ x \in Surfaces /\ surfaces[x].live /\ live' = live /\ stage' = stage
        /\ \A u \in Tracks : tracks'[u] = tracks[u] \/ ~tracks'[u].live
        /\ \A u \in Tracks : Surface[u] # x => tracks'[u] = tracks[u]
    BY <2>1, <2>2, <2>7
  <2>9. now \in [Slots -> SUBSET Tracks]
    BY <2>4
  <2> QED BY <2>3, <2>5, <2>6, <2>8, <2>9, SlotsMedia
<1>3. ASSUME NEW x \in Surfaces, NEW k \in Slots, ClearSlot(x, k)
      PROVE  Media'
  <2> DEFINE now == [surfaces[x].slots EXCEPT ![k] = {}]
  <2>1. /\ surfaces[x].live
        /\ surfaces' = [surfaces EXCEPT ![x].slots[k] = {}]
        /\ UNCHANGED <<tracks, live, stage>>
    BY <1>3 DEF ClearSlot, OnlySlots, sessionVars
  <2>2. surfaces[x] \in SurfaceRecords
    BY <2>1, LiveRecords DEF IInv
  <2>3. surfaces' = [surfaces EXCEPT ![x].slots = now]
    BY <2>1
  <2>4. /\ now \in [Slots -> SUBSET Tracks]
        /\ \A j \in Slots : now[j] \subseteq surfaces[x].slots[j]
    BY <2>2 DEF SurfaceRecords
  <2> HIDE DEF now
  <2>5. \A j \in Slots : \A u \in now[j] : tracks'[u].live /\ Surface[u] = x /\ Slot[u] = j
    BY <2>1, <2>4, LiveRecords DEF IInv
  <2>6. tracks' \in [Tracks -> TrackRecords \cup {NoTrack}]
    BY <2>1 DEF IInv, Media
  <2>7. \A u \in Tracks : tracks'[u] = tracks[u]
    BY <2>1
  <2> QED BY <2>1, <2>3, <2>4, <2>5, <2>6, <2>7, SlotsMedia
<1> QED BY <1>1, <1>2, <1>3

(* What is drawn depends on these. *)
scene == <<nodes, surfaces, anchors, alternate, posters>>

(* The slots of x that can show something, and the first of some slots.    *)
Showing(x) == {k \in Slots : \E t \in Tracks : surfaces[x].slots[k] = {t} /\ Shows(t)}
First(ks) == CHOOSE k \in ks : \A j \in ks : k <= j

LEMMA SelectedIs ==
  ASSUME NEW x
  PROVE  Selected(x) = IF Showing(x) = {} THEN {} ELSE surfaces[x].slots[First(Showing(x))]
BY DEF Selected, Showing, First

LEMMA FirstIsIn ==
  ASSUME NEW ks \in SUBSET Slots, ks # {}
  PROVE  First(ks) \in ks
<1>1. ks \subseteq {1, 3, 4}
  BY DEF Slots
<1>2. \E k \in ks : \A j \in ks : k <= j
  <2>1. CASE 1 \in ks
    BY <1>1, <2>1
  <2>2. CASE 1 \notin ks /\ 3 \in ks
    <3>1. \A j \in ks : j = 3 \/ j = 4
      BY <1>1, <2>2
    <3> QED BY <2>2, <3>1
  <2>3. CASE 1 \notin ks /\ 3 \notin ks
    <3>1. \A j \in ks : j = 4
      BY <1>1, <2>3
    <3> QED BY <3>1
  <2> QED BY <2>1, <2>2, <2>3
<1> QED BY <1>2 DEF First

(* What stands for a surface is one track, and that can be shown.          *)
LEMMA SelectedShows ==
  ASSUME NEW x, NEW t \in Selected(x)
  PROVE  t \in Tracks /\ Shows(t) /\ Selected(x) = {t}
         /\ \E k \in Slots : surfaces[x].slots[k] = {t}
<1> DEFINE k == First(Showing(x))
<1>1. Showing(x) # {} /\ Selected(x) = surfaces[x].slots[k]
  BY SelectedIs
<1>2. k \in Showing(x)
  BY <1>1, FirstIsIn DEF Showing
<1> HIDE DEF k
<1>3. PICK u \in Tracks : surfaces[x].slots[k] = {u} /\ Shows(u)
  BY <1>2 DEF Showing
<1> QED BY <1>1, <1>2, <1>3 DEF Showing

(* Nothing else can be selected while the same tracks can be shown.        *)
LEMMA SelectedFrame ==
  ASSUME NEW x, surfaces' = surfaces, \A t \in Tracks : (Shows(t) <=> Shows(t)')
  PROVE  Selected(x)' = Selected(x)
<1>1. Showing(x)' = Showing(x)
  BY DEF Showing
<1>2. Selected(x)' = IF Showing(x)' = {} THEN {} ELSE surfaces'[x].slots[First(Showing(x)')]
  BY SelectedIs DEF Selected, Showing, First
<1> QED BY <1>1, <1>2, SelectedIs

(* A step that leaves the scene alone, and of the tracks that are shown    *)
(* what is shown of them, changes nothing that a snapshot draws.           *)
LEMMA RenderFrame ==
  ASSUME scene' = scene,
         \A t \in Tracks : /\ Shows(t)' <=> Shows(t)
                           /\ Shows(t) => /\ tracks'[t].generation = tracks[t].generation
                                          /\ tracks'[t].frame = tracks[t].frame
  PROVE  Render' = Render
<1>1. UNCHANGED <<nodes, surfaces, anchors, alternate, posters>>
  BY DEF scene
<1>2. PosterItems' = PosterItems
  BY <1>1 DEF PosterItems, Visible, At
<1>3. ASSUME NEW n \in Nodes
      PROVE  NodeItems(n)' = NodeItems(n)
  <2> DEFINE x == nodes[n].surface
             a == nodes[n].anchor
             line == IF a = NoAnchor THEN 0 ELSE anchors[a].line
  <2>1. Selected(x)' = Selected(x)
    <3>1. \A y : surfaces' = surfaces /\ (\A t \in Tracks : Shows(t)' <=> Shows(t)) =>
                   Selected(y)' = Selected(y)
      BY SelectedFrame
    <3> QED BY <1>1, <3>1
  <2>2. \A t \in Selected(x) : Item(t, line)' = Item(t, line)
    BY <1>1, SelectedShows DEF Item
  <2>3. {Item(t, line)' : t \in Selected(x)'} = {Item(t, line) : t \in Selected(x)}
    BY <2>1, <2>2
  <2> QED BY <1>1, <2>3 DEF NodeItems, Visible, At
<1> QED BY <1>2, <1>3 DEF Render

(* An item with the frame that its track was given. *)
With(t, frame, i) == [i EXCEPT !.frame = IF i.track = t THEN frame ELSE @]

(* Retained posters are items of tracks that are not live any more.        *)
LEMMA PosterItemsOf ==
  ASSUME IInv, NEW i \in PosterItems
  PROVE  i \in Items /\ ~tracks[i.track].live
<1>1. PICK p \in posters : /\ Visible(p.anchor)
                           /\ i = [p.item EXCEPT !.line = anchors[p.anchor].line]
  BY DEF PosterItems
<1>2. /\ p.item \in Items /\ p.anchor \in Anchors
      /\ TrackOwner(p.item.track) = Owner(p.anchor) /\ Owner(p.anchor) \in ended
  BY <1>1 DEF IInv, PostersKept, PostersAnchored, Posters
<1>3. anchors[p.anchor].line \in Nat
  BY <1>1, <1>2 DEF IInv, AnchorsSeen, AnchorMaps, AnchorRecords, Visible, At, None, Gone
<1>4. i \in Items /\ i.track = p.item.track
  BY <1>1, <1>2, <1>3 DEF Items
<1>5. ~tracks[i.track].live
  <2> SUFFICES ASSUME tracks[i.track].live PROVE FALSE
    OBVIOUS
  <2>1. Surface[i.track] \in Surfaces /\ Owner(Surface[i.track]) \in live
    BY <1>4, Owners DEF IInv, Media, Items
  <2> QED BY <1>2, <1>4, <2>1 DEF IInv, Sessional, TrackOwner
<1> QED BY <1>4, <1>5

(* A frame that follows another changes what is drawn in the items of its  *)
(* track, and only there (replace_cached_frame()).                         *)
LEMMA RenderReplaced ==
  ASSUME IInv, NEW t \in Tracks, NEW frame \in Nat \ {0},
         tracks[t].live, tracks[t].frame # NoFrame,
         tracks' = [tracks EXCEPT ![t].frame = frame], scene' = scene
  PROVE  Render' = {With(t, frame, i) : i \in Render}
<1>1. UNCHANGED <<nodes, surfaces, anchors, alternate, posters>>
  BY DEF scene
<1>2. /\ tracks[t] \in TrackRecords
      /\ tracks'[t] = [tracks[t] EXCEPT !.frame = frame]
      /\ \A u \in Tracks \ {t} : tracks'[u] = tracks[u]
  BY LiveRecords DEF IInv, Media
<1>3. /\ tracks'[t].frame = frame /\ tracks'[t].live = tracks[t].live
      /\ tracks'[t].lost = tracks[t].lost /\ tracks'[t].generation = tracks[t].generation
  <2> DEFINE old == tracks[t]
             new == tracks'[t]
  <2>1. old \in TrackRecords /\ new = [old EXCEPT !.frame = frame]
    BY <1>2
  <2> HIDE DEF old, new
  <2>2. /\ new.frame = frame /\ new.live = old.live
        /\ new.lost = old.lost /\ new.generation = old.generation
    BY <2>1 DEF TrackRecords
  <2> QED BY <2>2 DEF old, new
<1>4. \A u \in Tracks : Shows(u)' <=> Shows(u)
  BY <1>2, <1>3 DEF Shows, NoFrame
<1>5. \A u \in Tracks : \A l : Item(u, l)' = With(t, frame, Item(u, l))
  <2> TAKE u \in Tracks
  <2> TAKE l
  <2>1. surfaces'[Surface[u]] = surfaces[Surface[u]]
    BY <1>1
  <2>2. CASE u = t
    BY <1>3, <2>1, <2>2 DEF Item, With
  <2>3. CASE u # t
    BY <1>2, <2>1, <2>3 DEF Item, With
  <2> QED BY <2>2, <2>3
<1>6. ASSUME NEW n \in Nodes
      PROVE  NodeItems(n)' = {With(t, frame, i) : i \in NodeItems(n)}
  <2> DEFINE x == nodes[n].surface
             a == nodes[n].anchor
             line == IF a = NoAnchor THEN 0 ELSE anchors[a].line
  <2>1. Selected(x)' = Selected(x)
    <3>1. \A y : surfaces' = surfaces /\ (\A u \in Tracks : Shows(u)' <=> Shows(u)) =>
                   Selected(y)' = Selected(y)
      BY SelectedFrame
    <3> QED BY <1>1, <1>4, <3>1
  <2>2. \A u \in Selected(x) : Item(u, line)' = With(t, frame, Item(u, line))
    <3> TAKE u \in Selected(x)
    <3>1. u \in Tracks
      BY SelectedShows
    <3>2. line' = line
      BY <1>1
    <3> QED BY <1>5, <3>1, <3>2
  <2>3. {Item(u, line)' : u \in Selected(x)'}
          = {With(t, frame, i) : i \in {Item(u, line) : u \in Selected(x)}}
    BY <2>1, <2>2
  <2> QED BY <1>1, <2>3 DEF NodeItems, Visible, At
<1>7. PosterItems' = {With(t, frame, i) : i \in PosterItems}
  <2>1. PosterItems' = PosterItems
    BY <1>1 DEF PosterItems, Visible, At
  <2>2. \A i \in PosterItems : With(t, frame, i) = i
    <3> TAKE i \in PosterItems
    <3>1. i \in Items /\ i.track # t
      BY PosterItemsOf
    <3> QED BY <3>1 DEF With, Items
  <2> QED BY <2>1, <2>2
<1>8. Render' = PosterItems' \cup UNION {NodeItems(n)' : n \in Nodes}
  BY DEF Render
<1>9. \A i \in Render' : \E j \in Render : i = With(t, frame, j)
  BY <1>6, <1>7, <1>8 DEF Render
<1>10. \A j \in Render : With(t, frame, j) \in Render'
  BY <1>6, <1>7, <1>8 DEF Render
<1> QED BY <1>9, <1>10

(* A step that leaves cache and screen alone and changes nothing that is   *)
(* drawn keeps them true.                                                  *)
LEMMA QuietKeeps ==
  ASSUME Cached, UNCHANGED <<cache, fresh, drawn>>, Render' = Render
  PROVE  Cached'
BY DEF Cached, CacheFresh, SkipIsSound

(* A step that writes surfaces and tracks only. *)
LEMMA MediaOnly ==
  ASSUME IInv, Media', Cached', UNCHANGED <<sessionVars, nodeVars, anchorVars, posterVars>>
  PROVE  IInv'
<1>1. UNCHANGED <<sessionVars, anchorVars, posterVars, nodes, named, pending, ended>>
  BY DEF sessionVars, nodeVars
<1>2. Sessional'
  BY <1>1, SessionalFrame DEF IInv
<1>3. NodesOwned' /\ PendingOwned'
  BY <1>1, NodesFrame, PendingFrame DEF IInv
<1>4. AnchorsSeen' /\ Revisions'
  BY <1>1, AnchorsFrame, RevisionsFrame DEF IInv
<1>5. PostersKept'
  BY <1>1, PostersFrame DEF IInv
<1> QED BY <1>2, <1>3, <1>4, <1>5 DEF IInv

(* The requests and results that write one surface or one track.           *)
LEMMA MediaSteps ==
  ASSUME IInv,
         \/ \E x \in Surfaces : CreateSurface(x)
         \/ \E x \in Surfaces, remap, deny \in BOOLEAN : UpdateSurface(x, remap, deny)
         \/ \E x \in Surfaces, k \in Slots : ClearSlot(x, k)
         \/ \E t \in Tracks : \/ CreateTrack(t) \/ DestroyTrack(t) \/ ActivateTrack(t)
                              \/ AdvanceChannel(t)
                              \/ \E g \in 1 .. MaxChannelGen : LoseTrack(t, g)
  PROVE  IInv'
<1>1. Media'
  BY CreateSurfaceMedia, UpdateSurfaceMedia, SlotStepMedia, TrackStepMedia
<1>2. Invalidate
  BY DEF CreateSurface, UpdateSurface, ClearSlot, CreateTrack, DestroyTrack, ActivateTrack,
         AdvanceChannel, LoseTrack
<1>3. UNCHANGED <<sessionVars, nodeVars, anchorVars, posterVars>>
  BY DEF CreateSurface, UpdateSurface, ClearSlot, CreateTrack, DestroyTrack, ActivateTrack,
         AdvanceChannel, LoseTrack, OnlyTracks, OnlySlots
<1> QED BY <1>1, <1>2, <1>3, InvalidateKeeps, MediaOnly

(* publish_decoded_frame(): a first frame changes what can be shown, a     *)
(* later one only the items of its track.                                  *)
LEMMA PublishKeeps ==
  ASSUME IInv, NEW t \in Tracks, NEW g \in 1 .. MaxChannelGen, NEW frame \in stage.frames,
         PublishDecodedFrame(t, g, frame)
  PROVE  IInv'
<1>1. Media'
  BY TrackStepMedia
<1>2. /\ tracks[t].live
      /\ tracks' = [tracks EXCEPT ![t].frame = frame]
      /\ UNCHANGED <<surfaces, sessionVars, nodeVars, anchorVars, posterVars>>
      /\ IF tracks[t].frame # NoFrame THEN ReplaceCachedFrame(t, frame) ELSE Invalidate
  BY DEF PublishDecodedFrame, OnlyTracks
<1>3. Cached'
  <2>1. CASE tracks[t].frame = NoFrame
    BY <1>2, <2>1, InvalidateKeeps
  <2>2. CASE tracks[t].frame # NoFrame
    <3>1. frame \in Nat \ {0}
      BY SceneAssumption DEF IInv, Sessional, Stage
    <3>2. scene' = scene
      BY <1>2 DEF scene, nodeVars, anchorVars, posterVars
    <3>3. Render' = {With(t, frame, i) : i \in Render}
      BY <1>2, <2>2, <3>1, <3>2, RenderReplaced
    <3>4. /\ cache' = [cache EXCEPT !.items = {With(t, frame, i) : i \in @}]
          /\ fresh' = FALSE
      BY <1>2, <2>2 DEF ReplaceCachedFrame, Replaced, With
    <3>5. /\ cache' = [valid |-> cache.valid, items |-> {With(t, frame, i) : i \in cache.items}]
      BY <3>4 DEF IInv, Cached
    <3>6. cache.valid => cache.items = Render
      BY DEF IInv, Cached, CacheFresh
    <3> QED BY <3>3, <3>4, <3>5, <3>6 DEF IInv, Cached, CacheFresh, SkipIsSound
  <2> QED BY <2>1, <2>2
<1> QED BY <1>1, <1>2, <1>3, MediaOnly

(* draw(): what is rebuilt is cached and drawn, what is skipped was drawn. *)
LEMMA DrawKeeps ==
  ASSUME IInv, Draw
  PROVE  IInv'
<1>1. /\ cache' = IF cache.valid THEN cache ELSE [valid |-> TRUE, items |-> Render]
      /\ fresh' = TRUE /\ UNCHANGED world
      /\ IF fresh THEN UNCHANGED renderer ELSE drawn' = cache'.items /\ marking' = cache'.items
  BY DEF Draw
<1>2. UNCHANGED <<sessionVars, nodeVars, surfaces, tracks, anchorVars, posterVars, stage, live>>
  BY <1>1 DEF world, mediaVars, sessionVars
<1>3. scene' = scene
  BY <1>2 DEF scene, nodeVars, anchorVars, posterVars
<1>4. Render' = Render
  BY <1>2, <1>3, RenderFrame DEF Shows
<1>5. Media'
  BY <1>2, MediaFrame DEF IInv
<1>6. Cached'
  <2>1. cache'.items = Render /\ cache'.valid /\ cache' = [valid |-> cache'.valid, items |-> cache'.items]
    <3>1. CASE cache.valid
      BY <1>1, <3>1 DEF IInv, Cached, CacheFresh
    <3>2. CASE ~cache.valid
      BY <1>1, <3>2
    <3> QED BY <3>1, <3>2
  <2>2. cache'.valid = TRUE
    BY <1>1, <2>1 DEF IInv, Cached
  <2>3. drawn' = Render
    BY <1>1, <2>1 DEF IInv, Cached, SkipIsSound, renderer
  <2> QED BY <1>1, <1>4, <2>1, <2>2, <2>3 DEF Cached, CacheFresh, SkipIsSound
<1> QED BY <1>2, <1>5, <1>6, MediaOnly

(* mark_presented() counts a presentation, and nothing that is drawn.      *)
LEMMA MarkKeeps ==
  ASSUME IInv, NEW i \in marking, MarkPresented(i)
  PROVE  IInv'
<1> DEFINE t == i.track
           g == surfaces[Surface[t]].generation
           r == [tracks[t] EXCEPT !.presented = g]
<1>1. /\ tracks' = IF Acknowledged(i) THEN [tracks EXCEPT ![t].presented = g] ELSE tracks
      /\ UNCHANGED <<surfaces, sessionVars, nodeVars, anchorVars, posterVars, stage, live,
                     cache, fresh, drawn>>
  BY DEF MarkPresented, OnlyTracks, sessionVars
<1>2. scene' = scene
  BY <1>1 DEF scene, nodeVars, anchorVars, posterVars
<1>3. CASE Acknowledged(i) /\ t \in Tracks
  <2>1. /\ tracks[t].live /\ surfaces[Surface[t]].live /\ Surface[t] \in Surfaces
        /\ tracks[t] \in TrackRecords /\ tracks[t].generation \in 1 .. MaxChannelGen
    BY <1>3, LiveRecords, Owners DEF IInv, Media, Acknowledged
  <2>2. g \in Nat
    BY <2>1, LiveRecords DEF IInv, SurfaceRecords
  <2>3. tracks' = [tracks EXCEPT ![t] = r]
    BY <1>1, <1>3 DEF IInv, Media
  <2> HIDE DEF g
  <2>4. /\ r \in TrackRecords /\ r.generation = tracks[t].generation
        /\ r.frame = tracks[t].frame /\ r.live = tracks[t].live /\ r.lost = tracks[t].lost
    BY <2>1, <2>2 DEF TrackRecords
  <2> HIDE DEF r
  <2>5. tracks'[t] = r /\ \A u \in Tracks \ {t} : tracks'[u] = tracks[u]
    BY <1>3, <2>3, <2>4 DEF IInv, Media
  <2>6. Media'
    BY <1>1, <1>3, <2>1, <2>3, <2>4, TrackMedia
  <2>7. \A u \in Tracks : /\ Shows(u)' <=> Shows(u)
                          /\ tracks'[u].generation = tracks[u].generation
                          /\ tracks'[u].frame = tracks[u].frame
    BY <2>4, <2>5 DEF Shows
  <2>8. Render' = Render
    BY <1>2, <2>7, RenderFrame
  <2> QED BY <1>1, <2>6, <2>8, QuietKeeps, MediaOnly DEF IInv
<1>4. CASE ~(Acknowledged(i) /\ t \in Tracks)
  <2>1. tracks' = tracks
    BY <1>1, <1>4 DEF IInv, Media
  <2>2. Render' = Render
    BY <1>2, <2>1, RenderFrame DEF Shows
  <2>3. Media'
    BY <1>1, <2>1, MediaFrame DEF IInv
  <2> QED BY <1>1, <2>2, <2>3, QuietKeeps, MediaOnly DEF IInv
<1> QED BY <1>3, <1>4
-----------------------------------------------------------------------------
(* gc_detached_sessions(): what is kept has its anchors and its sessions,  *)
(* and what has nothing left is forgotten.                                 *)
LEMMA CollectKeeps ==
  ASSUME NEW kept \in SUBSET Posters, IsFiniteSet(kept), Cardinality(kept) <= MaxPosters,
         NEW from \in AnchorMaps, NEW among, among \subseteq ended', Collect(kept, from, among),
         \A p \in kept : /\ from[p.anchor].kind = "at" /\ Owner(p.anchor) \in among
                         /\ TrackOwner(p.item.track) = Owner(p.anchor)
  PROVE  /\ PostersKept' /\ anchors' \in AnchorMaps
         /\ \A a \in Anchors : At(a)' => from[a].kind = "at"
<1> DEFINE forgotten == {s \in among : ~\E p \in kept : Owner(p.anchor) = s}
<1>1. /\ posters' = kept /\ detached' = among \ forgotten
      /\ anchors' = [a \in Anchors |-> IF Owner(a) \in forgotten THEN None ELSE from[a]]
  BY DEF Collect
<1>2. \A p \in kept : p.anchor \in Anchors /\ Owner(p.anchor) \notin forgotten
  BY DEF Posters
<1>3. \A s \in detached' : \E p \in kept : Owner(p.anchor) = s
  BY <1>1
<1> HIDE DEF forgotten
<1>4. anchors' \in AnchorMaps
  BY <1>1 DEF AnchorMaps
<1>5. \A a \in Anchors : At(a)' => from[a].kind = "at"
  BY <1>1 DEF At, None
<1>6. \A p \in posters' : At(p.anchor)' /\ Owner(p.anchor) \in detached'
  BY <1>1, <1>2 DEF At
<1>7. PostersAnchored'
  BY <1>1, <1>3, <1>6 DEF PostersAnchored
<1> QED BY <1>1, <1>4, <1>5, <1>7 DEF PostersKept

(* Some of the posters that there are, with their anchors.                 *)
LEMMA FewerPosters ==
  ASSUME PostersKept, NEW kept \in SUBSET posters
  PROVE  /\ kept \in SUBSET Posters /\ IsFiniteSet(kept) /\ Cardinality(kept) <= MaxPosters
         /\ \A p \in kept : /\ At(p.anchor) /\ Owner(p.anchor) \in detached /\ p.anchor \in Anchors
                            /\ TrackOwner(p.item.track) = Owner(p.anchor)
<1>1. IsFiniteSet(posters) /\ Cardinality(posters) <= MaxPosters
  BY DEF PostersKept
<1>2. IsFiniteSet(kept) /\ Cardinality(kept) <= Cardinality(posters)
  BY <1>1, FS_Subset
<1>3. Cardinality(kept) \in Nat /\ Cardinality(posters) \in Nat
  BY <1>1, <1>2, FS_CardinalityType
<1>4. Cardinality(kept) <= MaxPosters
  BY <1>1, <1>2, <1>3, SceneAssumption
<1> QED BY <1>2, <1>4 DEF PostersKept, PostersAnchored, Posters

(* Anchors that only go leave the revisions naming what they named.        *)
LEMMA AnchorsGo ==
  ASSUME IInv, anchors' \in AnchorMaps, seen' = seen, alternate' \in BOOLEAN,
         \A a \in Anchors : At(a)' => At(a)
  PROVE  AnchorsSeen'
BY DEF IInv, AnchorsSeen

(* Nodes of a session that go together, with a new scene revision: nothing *)
(* else is unnamed.                                                        *)
LEMMA DropKeeps ==
  ASSUME IInv, NEW s, NEW gone \in SUBSET Nodes, \A n \in gone : Owner(n) = s,
         Drop(s, gone), seen' = seen, \A a \in Anchors : At(a)' => At(a)
  PROVE  NodesOwned' /\ Revisions'
<1>1. /\ nodes' = [n \in Nodes |-> IF n \in gone THEN NoNode ELSE nodes[n]]
      /\ named' = [n \in Nodes |-> IF Owner(n) = s /\ \E m \in gone : nodes[m] # NoNode
                                   THEN nodes'[n] ELSE named[n]]
  BY DEF Drop
<1>2. nodes' \in NodeMaps
  BY <1>1 DEF IInv, NodesOwned, NodeMaps
<1>3. named' \in NodeMaps
  BY <1>1, <1>2 DEF IInv, NodesOwned, NodeMaps
<1>4. \A n \in Nodes : nodes'[n] # NoNode => nodes'[n] = nodes[n]
  BY <1>1
<1>5. NodesOwned'
  BY <1>2, <1>3, <1>4 DEF IInv, NodesOwned
<1>6. ASSUME NEW n \in Nodes, nodes'[n] # named'[n]
      PROVE  nodes'[n] = nodes[n] /\ named'[n] = named[n]
  <2>1. ~(Owner(n) = s /\ \E m \in gone : nodes[m] # NoNode)
    BY <1>1, <1>6
  <2>2. named'[n] = named[n]
    BY <1>1, <2>1
  <2>3. n \in gone => nodes[n] = NoNode
    BY <2>1
  <2> QED BY <1>1, <2>2, <2>3
<1>7. Revisions'
  <2> SUFFICES ASSUME NEW n \in Nodes, nodes'[n] # named'[n]
               PROVE  nodes'[n] = NoNode /\ named'[n].anchor \in seen' /\ anchors'[named'[n].anchor].kind # "at"
    BY DEF Revisions, At
  <2>1. nodes[n] # named[n] /\ nodes'[n] = nodes[n] /\ named'[n] = named[n]
    BY <1>6
  <2>2. nodes[n] = NoNode /\ named[n].anchor \in seen /\ ~At(named[n].anchor)
    BY <2>1 DEF IInv, Revisions
  <2>3. named[n].anchor \in Anchors
    BY <2>2 DEF IInv, AnchorsSeen
  <2> QED BY <2>1, <2>2, <2>3 DEF At
<1> QED BY <1>5, <1>7

(* remove_anchors(): anchors that are there go, and nodes and posters with *)
(* them.                                                                   *)
LEMMA RemoveAnchorsKeeps ==
  ASSUME IInv, NEW gone \in SUBSET Anchors, \A a \in gone : At(a),
         NEW from \in AnchorMaps, \A a \in Anchors : from[a].kind = "at" <=> At(a),
         RemoveAnchors(gone, from), seen' = seen, alternate' \in BOOLEAN, Invalidate
  PROVE  IInv'
<1> DEFINE kept == {p \in posters : p.anchor \notin gone}
           left == [a \in Anchors |-> IF a \in gone THEN Gone ELSE from[a]]
<1>1. /\ nodes' = [n \in Nodes |->
                     IF nodes[n] # NoNode /\ nodes[n].anchor \in gone THEN NoNode ELSE nodes[n]]
      /\ Collect(kept, left, detached)
      /\ UNCHANGED <<named, pending, sessionVars, mediaVars, live, ended, stage>>
  BY DEF RemoveAnchors, sessionVars
<1>2. left \in AnchorMaps /\ \A a \in Anchors : left[a].kind = "at" => At(a) /\ a \notin gone
  BY DEF AnchorMaps, Gone
<1>3. /\ kept \in SUBSET Posters /\ IsFiniteSet(kept) /\ Cardinality(kept) <= MaxPosters
      /\ \A p \in kept : /\ At(p.anchor) /\ Owner(p.anchor) \in detached /\ p.anchor \in Anchors
                         /\ TrackOwner(p.item.track) = Owner(p.anchor)
  BY FewerPosters DEF IInv
<1>4. \A p \in kept : left[p.anchor].kind = "at"
  BY <1>3
<1>5. detached \subseteq ended'
  BY <1>1 DEF IInv, PostersKept
<1>6. \A a \in gone : a \in seen
  BY DEF IInv, AnchorsSeen
<1> HIDE DEF kept, left
<1>7. /\ PostersKept' /\ anchors' \in AnchorMaps
      /\ \A a \in Anchors : At(a)' => left[a].kind = "at"
  BY <1>1, <1>2, <1>3, <1>4, <1>5, CollectKeeps
<1>8. \A a \in Anchors : At(a)' => At(a) /\ a \notin gone
  BY <1>2, <1>7
<1>9. AnchorsSeen'
  BY <1>7, <1>8, AnchorsGo
<1>10. NodesOwned'
  <2>1. nodes' \in NodeMaps /\ \A n \in Nodes : nodes'[n] # NoNode => nodes'[n] = nodes[n]
    BY <1>1 DEF IInv, NodesOwned, NodeMaps
  <2> QED BY <1>1, <2>1 DEF IInv, NodesOwned
<1>11. Revisions'
  <2> SUFFICES ASSUME NEW n \in Nodes, nodes'[n] # named[n]
               PROVE  nodes'[n] = NoNode /\ named[n].anchor \in seen'
                      /\ anchors'[named[n].anchor].kind # "at"
    BY <1>1 DEF Revisions, At
  <2>1. CASE nodes[n] # named[n]
    <3>1. nodes[n] = NoNode /\ named[n].anchor \in seen /\ ~At(named[n].anchor)
      BY <2>1 DEF IInv, Revisions
    <3>2. named[n].anchor \in Anchors
      BY <3>1 DEF IInv, AnchorsSeen
    <3> QED BY <1>1, <1>8, <3>1, <3>2 DEF At
  <2>2. CASE nodes[n] = named[n]
    <3>1. nodes[n] # NoNode /\ nodes[n].anchor \in gone /\ nodes'[n] = NoNode
      BY <1>1, <2>2
    <3> QED BY <1>6, <1>8, <2>2, <3>1 DEF At
  <2> QED BY <2>1, <2>2
<1>12. Sessional' /\ Media' /\ PendingOwned'
  BY <1>1, SessionalFrame, MediaFrame, PendingFrame DEF IInv, mediaVars
<1> QED BY <1>7, <1>9, <1>10, <1>11, <1>12, InvalidateKeeps DEF IInv

(* scroll_anchors(), apply_anchor_resize(), a cleared screen and a change  *)
(* of screens.                                                             *)
LEMMA AnchorsLeave ==
  ASSUME IInv,
         \/ \E gone \in SUBSET stage.anchors : MoveAnchors(gone)
         \/ ClearTerminal \/ SetAlternateScreen
  PROVE  IInv'
<1>0. /\ anchors \in AnchorMaps /\ alternate \in BOOLEAN /\ stage.anchors \subseteq Anchors
  BY SceneAssumption DEF IInv, AnchorsSeen, Sessional, Stage
<1>1. ASSUME NEW gone \in SUBSET stage.anchors, MoveAnchors(gone)
      PROVE  IInv'
  <2> DEFINE from == [a \in Anchors |-> Moved(a)]
  <2>1. /\ \A a \in gone : At(a)
        /\ RemoveAnchors(gone, from)
        /\ Invalidate /\ UNCHANGED <<seen, alternate>>
    BY <1>1 DEF MoveAnchors
  <2>2. \A a \in Anchors : Moved(a) \in AnchorRecords \cup {None, Gone}
                           /\ (Moved(a).kind = "at" <=> At(a))
    <3> TAKE a \in Anchors
    <3>1. CASE At(a)
      <4>1. anchors[a] \in AnchorRecords
        BY <1>0, <3>1 DEF AnchorMaps, At, None, Gone
      <4>2. Moved(a) = [anchors[a] EXCEPT !.line = 1 - anchors[a].line]
        BY <3>1 DEF Moved
      <4>3. 1 - anchors[a].line \in {0, 1}
        BY <4>1 DEF AnchorRecords
      <4> QED BY <3>1, <4>1, <4>2, <4>3 DEF AnchorRecords
    <3>2. CASE ~At(a)
      BY <1>0, <3>2 DEF Moved, At, AnchorMaps
    <3> QED BY <3>1, <3>2
  <2>3. from \in AnchorMaps /\ \A a \in Anchors : from[a].kind = "at" <=> At(a)
    BY <2>2 DEF AnchorMaps
  <2>4. gone \in SUBSET Anchors /\ seen' = seen /\ alternate' \in BOOLEAN
    BY <1>0, <2>1
  <2> HIDE DEF from
  <2> QED BY <2>1, <2>3, <2>4, RemoveAnchorsKeeps
<1>2. CASE ClearTerminal
  <2> DEFINE gone == {a \in Anchors : Visible(a)}
  <2>1. /\ RemoveAnchors(gone, anchors)
        /\ Invalidate /\ UNCHANGED <<seen, alternate>>
    BY <1>2 DEF ClearTerminal
  <2>2. gone \in SUBSET Anchors /\ \A a \in gone : At(a)
    BY DEF Visible
  <2>3. \A a \in Anchors : anchors[a].kind = "at" <=> At(a)
    BY DEF At
  <2>4. seen' = seen /\ alternate' \in BOOLEAN
    BY <1>0, <2>1
  <2> HIDE DEF gone
  <2> QED BY <1>0, <2>1, <2>2, <2>3, <2>4, RemoveAnchorsKeeps
<1>3. CASE SetAlternateScreen
  <2> DEFINE gone == {a \in Anchors : At(a) /\ alternate /\ anchors[a].alternate}
  <2>1. /\ alternate' = ~alternate /\ RemoveAnchors(gone, anchors)
        /\ Invalidate /\ UNCHANGED seen
    BY <1>3 DEF SetAlternateScreen
  <2>2. gone \in SUBSET Anchors /\ \A a \in gone : At(a)
    OBVIOUS
  <2>3. \A a \in Anchors : anchors[a].kind = "at" <=> At(a)
    BY DEF At
  <2>4. seen' = seen /\ alternate' \in BOOLEAN
    BY <1>0, <2>1
  <2> HIDE DEF gone
  <2> QED BY <1>0, <2>1, <2>2, <2>3, <2>4, RemoveAnchorsKeeps
<1> QED BY <1>1, <1>2, <1>3

(* add_anchor(): what named a node before, or holds a poster, was another  *)
(* anchor.                                                                 *)
LEMMA AddAnchorKeeps ==
  ASSUME IInv, NEW a \in stage.anchors, NEW onAlternate \in BOOLEAN, AddAnchor(a, onAlternate)
  PROVE  IInv'
<1> DEFINE r == [kind |-> "at", line |-> 0, alternate |-> onAlternate]
<1>1. /\ a \notin seen /\ seen' = seen \cup {a} /\ anchors' = [anchors EXCEPT ![a] = r]
      /\ UNCHANGED <<alternate, sessionVars, nodes, named, pending, mediaVars, posterVars,
                     stage, live, ended>>
      /\ Invalidate
  BY DEF AddAnchor, OnlyAnchors, nodeVars, sessionVars
<1>2. a \in Anchors /\ r \in AnchorRecords /\ r.kind = "at"
  BY SceneAssumption DEF IInv, Sessional, Stage, AnchorRecords
<1> HIDE DEF r
<1>3. /\ anchors' \in AnchorMaps /\ anchors'[a].kind = "at"
      /\ \A b \in Anchors : b # a => anchors'[b] = anchors[b]
  BY <1>1, <1>2 DEF IInv, AnchorsSeen, AnchorMaps
<1>4. AnchorsSeen'
  <2>1. \A b \in Anchors : At(b)' => b \in seen'
    BY <1>1, <1>3 DEF IInv, AnchorsSeen, At
  <2> QED BY <1>1, <1>2, <1>3, <2>1 DEF IInv, AnchorsSeen
<1>5. Revisions'
  <2> SUFFICES ASSUME NEW n \in Nodes, nodes[n] # named[n]
               PROVE  nodes[n] = NoNode /\ named[n].anchor \in seen'
                      /\ anchors'[named[n].anchor].kind # "at"
    BY <1>1 DEF Revisions, At
  <2>1. nodes[n] = NoNode /\ named[n].anchor \in seen /\ ~At(named[n].anchor)
    BY DEF IInv, Revisions
  <2> QED BY <1>1, <1>3, <2>1 DEF IInv, AnchorsSeen, At
<1>6. PostersKept'
  <2>1. \A p \in posters : p.anchor \in Anchors /\ At(p.anchor)
    BY DEF IInv, PostersKept, PostersAnchored, Posters
  <2>2. \A p \in posters : anchors'[p.anchor].kind = "at"
    BY <1>3, <2>1 DEF At
  <2> QED BY <1>1, <2>2 DEF IInv, PostersKept, PostersAnchored, At, posterVars
<1>7. Sessional' /\ Media' /\ NodesOwned' /\ PendingOwned'
  BY <1>1, SessionalFrame, MediaFrame, NodesFrame, PendingFrame DEF IInv, mediaVars
<1> QED BY <1>1, <1>4, <1>5, <1>6, <1>7, InvalidateKeeps DEF IInv

-----------------------------------------------------------------------------
(* destroy_surface(): its tracks and nodes go with it.                     *)
LEMMA DestroySurfaceKeeps ==
  ASSUME IInv, NEW x \in Surfaces, DestroySurface(x)
  PROVE  IInv'
<1> DEFINE gone == {n \in Nodes : nodes[n] # NoNode /\ nodes[n].surface = x}
<1>1. /\ surfaces' = [surfaces EXCEPT ![x] = NoSurface]
      /\ tracks' = [t \in Tracks |-> IF Surface[t] = x THEN NoTrack ELSE tracks[t]]
      /\ Drop(Owner(x), gone)
      /\ UNCHANGED <<pending, sessionVars, anchorVars, posterVars, stage, live, ended, seen,
                     anchors>>
      /\ Invalidate
  BY DEF DestroySurface, sessionVars, anchorVars
<1>2. \A n \in gone : Owner(n) = Owner(x)
  BY DEF IInv, NodesOwned, OwnedBy
<1> HIDE DEF gone
<1>3. gone \in SUBSET Nodes
  BY DEF gone
<1>4. NodesOwned' /\ Revisions'
  BY <1>1, <1>2, <1>3, DropKeeps DEF At
<1>5. Media'
  <2>1. surfaces' = [y \in Surfaces |-> IF y \in {x} THEN NoSurface ELSE surfaces[y]]
    BY <1>1 DEF IInv, Media
  <2>2. tracks' = [t \in Tracks |-> IF Surface[t] \in {x} THEN NoTrack ELSE tracks[t]]
    BY <1>1
  <2> QED BY <1>1, <2>1, <2>2, EndMedia
<1>6. Sessional' /\ PendingOwned' /\ AnchorsSeen' /\ PostersKept'
  BY <1>1, SessionalFrame, PendingFrame, AnchorsFrame, PostersFrame DEF IInv
<1> QED BY <1>1, <1>4, <1>5, <1>6, InvalidateKeeps DEF IInv

(* register_session() and advance_target_generation(): the scenes follow   *)
(* the presenter's target.                                                 *)
LEMMA TargetKeeps ==
  ASSUME IInv, \/ \E s \in Sessions, g \in 1 .. MaxTarget : RegisterSession(s, g)
               \/ \E g \in 1 .. MaxTarget : AdvanceTarget(g)
  PROVE  IInv'
<1>0. target \in Nat /\ MaxTarget \in Nat /\ target \in 1 .. MaxTarget
  BY SceneAssumption DEF IInv, Sessional, Stage, MaxTarget
<1>1. ASSUME NEW s \in Sessions, NEW g \in 1 .. MaxTarget, RegisterSession(s, g)
      PROVE  Sessional'
  <2>1. /\ s \notin live \cup ended /\ live' = live \cup {s}
        /\ target' = IF g > target THEN g ELSE target
        /\ planned' = [r \in Sessions |->
                         IF r = s \/ (r \in live /\ g > target) THEN target' ELSE planned[r]]
        /\ ended' = ended /\ stage' = stage
    BY <1>1 DEF RegisterSession, Invalidate
  <2>2. target' \in 1 .. MaxTarget
    BY <1>0, <2>1
  <2>3. planned' \in [Sessions -> 0 .. MaxTarget]
    BY <1>0, <2>1, <2>2 DEF IInv, Sessional
  <2>4. TargetAgreement'
    BY <2>1 DEF IInv, Sessional, TargetAgreement
  <2>5. MaxTarget' = MaxTarget
    BY <2>1 DEF MaxTarget
  <2> QED BY <2>1, <2>2, <2>3, <2>4, <2>5 DEF IInv, Sessional
<1>2. ASSUME NEW g \in 1 .. MaxTarget, AdvanceTarget(g)
      PROVE  Sessional'
  <2>1. /\ target' = IF g > target THEN g ELSE target
        /\ planned' = [r \in Sessions |->
                         IF r \in live /\ planned[r] < g THEN g ELSE planned[r]]
        /\ ended' = ended /\ live' = live /\ stage' = stage
    BY <1>2 DEF AdvanceTarget, Invalidate
  <2>2. target' \in 1 .. MaxTarget
    BY <1>0, <2>1
  <2>3. planned' \in [Sessions -> 0 .. MaxTarget]
    BY <1>0, <2>1, <2>2 DEF IInv, Sessional
  <2>4. TargetAgreement'
    BY <1>0, <2>1 DEF IInv, Sessional, TargetAgreement
  <2>5. MaxTarget' = MaxTarget
    BY <2>1 DEF MaxTarget
  <2> QED BY <2>1, <2>2, <2>3, <2>4, <2>5 DEF IInv, Sessional
<1>3. /\ Invalidate /\ live \subseteq live'
      /\ UNCHANGED <<ended, nodes, named, pending, surfaces, tracks, stage, anchorVars, posterVars>>
  BY DEF RegisterSession, AdvanceTarget, Invalidate, nodeVars, mediaVars
<1>4. Media' /\ NodesOwned' /\ PendingOwned' /\ AnchorsSeen' /\ Revisions' /\ PostersKept'
  BY <1>3, MediaFrame, NodesFrame, PendingFrame, AnchorsFrame, RevisionsFrame, PostersFrame
     DEF IInv
<1> QED BY <1>1, <1>2, <1>3, <1>4, InvalidateKeeps DEF IInv

(* A refused request, and a suspended session, change no scene.            *)
LEMMA NothingKeeps ==
  ASSUME IInv, Invalidate, UNCHANGED world
  PROVE  IInv'
<1>1. UNCHANGED <<sessionVars, nodeVars, surfaces, tracks, anchorVars, posterVars, stage, live>>
  BY DEF world, mediaVars, sessionVars
<1>2. Media'
  BY <1>1, MediaFrame DEF IInv
<1> QED BY <1>1, <1>2, InvalidateKeeps, MediaOnly

(* A context without a transaction. *)
LEMMA NoTxIs ==
  NoTx \in Transactions /\ Len(NoTx.queued) = 0 /\ NoTx.accepted = 0
<1>1. <<>> \in Seq(Mutations(Anchors)) /\ Len(<<>>) = 0
  OBVIOUS
<1> QED BY <1>1 DEF NoTx, Transactions

(* Transactions that end are empty. *)
LEMMA PendingEnds ==
  ASSUME PendingOwned, NEW over \in SUBSET Contexts,
         pending' = [c \in Contexts |-> IF c \in over THEN NoTx ELSE pending[c]]
  PROVE  PendingOwned'
<1>1. pending' \in [Contexts -> Transactions]
  BY NoTxIs DEF PendingOwned
<1>2. ASSUME NEW c \in Contexts
      PROVE  /\ \A i \in 1 .. Len(pending'[c].queued) :
                  /\ Context[pending'[c].queued[i].node] = c
                  /\ pending'[c].queued[i].op # "delete" =>
                       OwnedBy(Session[c], pending'[c].queued[i].content)
             /\ Len(pending'[c].queued) <= pending'[c].accepted
             /\ pending'[c].accepted <= MaxMutations
  <2>1. CASE c \in over
    <3>1. pending'[c] = NoTx
      BY <2>1
    <3>2. 1 .. Len(pending'[c].queued) = {}
      BY <3>1, NoTxIs
    <3> QED BY <3>1, <3>2, NoTxIs, SceneAssumption
  <2>2. CASE c \notin over
    <3>1. pending'[c] = pending[c]
      BY <2>2
    <3> QED BY <3>1 DEF PendingOwned
  <2> QED BY <2>1, <2>2
<1> QED BY <1>1, <1>2 DEF PendingOwned

(* What ends with a session leaves what the others have.                   *)
LEMMA ForgetKeeps ==
  ASSUME IInv, NEW s \in Sessions, s \in live, Forget(s), UNCHANGED <<stage, target, seen>>,
         \A a \in Anchors : At(a)' => At(a)
  PROVE  Sessional' /\ Media' /\ NodesOwned' /\ PendingOwned' /\ Revisions'
         /\ live' = live \ {s} /\ ended' = ended \cup {s}
<1>1. /\ live' = live \ {s} /\ ended' = ended \cup {s}
      /\ planned' = [planned EXCEPT ![s] = 0]
      /\ nodes' = [n \in Nodes |-> IF Owner(n) = s THEN NoNode ELSE nodes[n]]
      /\ named' = [n \in Nodes |-> IF Owner(n) = s THEN NoNode ELSE named[n]]
      /\ pending' = [c \in Contexts |-> IF Session[c] = s THEN NoTx ELSE pending[c]]
      /\ surfaces' = [x \in Surfaces |-> IF Owner(x) = s THEN NoSurface ELSE surfaces[x]]
      /\ tracks' = [t \in Tracks |-> IF TrackOwner(t) = s THEN NoTrack ELSE tracks[t]]
  BY DEF Forget
<1>2. Sessional'
  <2>1. planned' \in [Sessions -> 0 .. MaxTarget] /\ MaxTarget' = MaxTarget
    BY <1>1, SceneAssumption DEF IInv, Sessional, MaxTarget, Stage
  <2> QED BY <1>1, <2>1 DEF IInv, Sessional, TargetAgreement
<1>3. Media'
  <2> DEFINE gone == {x \in Surfaces : Owner(x) = s}
  <2>1. surfaces' = [x \in Surfaces |-> IF x \in gone THEN NoSurface ELSE surfaces[x]]
    BY <1>1
  <2>2. tracks' = [t \in Tracks |-> IF Surface[t] \in gone THEN NoTrack ELSE tracks[t]]
    BY <1>1, Owners DEF TrackOwner
  <2>3. \A x \in Surfaces : x \notin gone /\ Owner(x) \in live => Owner(x) \in live'
    BY <1>1
  <2> HIDE DEF gone
  <2>4. gone \in SUBSET Surfaces
    BY DEF gone
  <2> QED BY <2>1, <2>2, <2>3, <2>4, EndMedia
<1>4. NodesOwned'
  <2>1. nodes' \in NodeMaps /\ named' \in NodeMaps
    BY <1>1 DEF IInv, NodesOwned, NodeMaps
  <2>2. \A n \in Nodes : nodes'[n] # NoNode => nodes'[n] = nodes[n]
    BY <1>1
  <2> QED BY <2>1, <2>2 DEF IInv, NodesOwned
<1>5. PendingOwned'
  <2> DEFINE over == {c \in Contexts : Session[c] = s}
  <2>1. pending' = [c \in Contexts |-> IF c \in over THEN NoTx ELSE pending[c]]
    BY <1>1
  <2> HIDE DEF over
  <2>2. over \in SUBSET Contexts
    BY DEF over
  <2> QED BY <2>1, <2>2, PendingEnds DEF IInv
<1>6. Revisions'
  <2> SUFFICES ASSUME NEW n \in Nodes, nodes'[n] # named'[n]
               PROVE  nodes'[n] = NoNode /\ named'[n].anchor \in seen'
                      /\ anchors'[named'[n].anchor].kind # "at"
    BY DEF Revisions, At
  <2>1. nodes[n] # named[n] /\ nodes'[n] = nodes[n] /\ named'[n] = named[n]
    BY <1>1
  <2>2. nodes[n] = NoNode /\ named[n].anchor \in seen /\ ~At(named[n].anchor)
    BY <2>1 DEF IInv, Revisions
  <2>3. named[n].anchor \in Anchors
    BY <2>2 DEF IInv, AnchorsSeen
  <2> QED BY <2>1, <2>2, <2>3 DEF At
<1> QED BY <1>1, <1>2, <1>3, <1>4, <1>5, <1>6

(* remove_session(): the others keep their posters and anchors.            *)
LEMMA RemoveSessionKeeps ==
  ASSUME IInv, NEW s \in Sessions, RemoveSession(s)
  PROVE  IInv'
<1> DEFINE kept == {p \in posters : Owner(p.anchor) # s}
<1>1. /\ s \in live /\ Forget(s) /\ Invalidate
      /\ anchors' = [a \in Anchors |-> IF Owner(a) = s THEN None ELSE anchors[a]]
      /\ posters' = kept /\ detached' = detached \ {s}
      /\ UNCHANGED <<stage, target, seen, alternate>>
  BY DEF RemoveSession, Invalidate
<1>2. /\ anchors' \in AnchorMaps
      /\ \A a \in Anchors : At(a)' => At(a)
      /\ \A a \in Anchors : Owner(a) # s => anchors'[a] = anchors[a]
  BY <1>1 DEF IInv, AnchorsSeen, AnchorMaps, At, None
<1>3. /\ Sessional' /\ Media' /\ NodesOwned' /\ PendingOwned' /\ Revisions'
      /\ ended' = ended \cup {s}
  BY <1>1, <1>2, ForgetKeeps
<1>4. AnchorsSeen'
  BY <1>1, <1>2, AnchorsGo DEF IInv, AnchorsSeen
<1>5. PostersKept'
  <2>1. /\ kept \in SUBSET Posters /\ IsFiniteSet(kept) /\ Cardinality(kept) <= MaxPosters
        /\ \A p \in kept : /\ At(p.anchor) /\ Owner(p.anchor) \in detached /\ p.anchor \in Anchors
                           /\ TrackOwner(p.item.track) = Owner(p.anchor)
    BY FewerPosters DEF IInv
  <2>2. \A p \in kept : anchors'[p.anchor].kind = "at" /\ Owner(p.anchor) \in detached'
    BY <1>1, <1>2, <2>1 DEF At
  <2>3. \A r \in detached' : \E p \in kept : Owner(p.anchor) = r
    BY <1>1 DEF IInv, PostersKept, PostersAnchored
  <2>4. detached' \subseteq ended'
    BY <1>1, <1>3 DEF IInv, PostersKept
  <2> HIDE DEF kept
  <2> QED BY <1>1, <2>1, <2>2, <2>3, <2>4 DEF PostersKept, PostersAnchored, At
<1> QED BY <1>1, <1>3, <1>4, <1>5, InvalidateKeeps DEF IInv

(* retained_poster(): a poster has its anchor in the scene, and shows a    *)
(* track of the session of its node.                                       *)
LEMMA PosterOf ==
  ASSUME IInv, NEW n \in Nodes, NEW p \in Poster(n)
  PROVE  /\ p \in Posters /\ At(p.anchor) /\ Poster(n) = {p}
         /\ Owner(p.anchor) = Owner(n) /\ TrackOwner(p.item.track) = Owner(n)
<1> DEFINE x == nodes[n].surface
           a == nodes[n].anchor
<1>1. /\ nodes[n] # NoNode /\ a # NoAnchor /\ At(a) /\ surfaces[x].live
      /\ \E t \in Selected(x) : p = [anchor |-> a, item |-> Item(t, 0)] /\ ~surfaces[x].deny
  BY DEF Poster
<1>2. PICK t \in Selected(x) : p = [anchor |-> a, item |-> Item(t, 0)] /\ ~surfaces[x].deny
  BY <1>1
<1>3. nodes[n] \in NodeRecords(Anchors) /\ OwnedBy(Owner(n), nodes[n])
  BY <1>1 DEF IInv, NodesOwned, NodeMaps
<1>4. x \in Surfaces /\ a \in Anchors /\ Owner(x) = Owner(n) /\ Owner(a) = Owner(n)
  BY <1>1, <1>3 DEF NodeRecords, OwnedBy
<1>5. /\ t \in Tracks /\ Shows(t) /\ Selected(x) = {t}
      /\ \E k \in Slots : surfaces[x].slots[k] = {t}
  BY <1>2, SelectedShows
<1>6. Surface[t] = x
  BY <1>1, <1>4, <1>5, LiveRecords DEF IInv
<1>7. surfaces[x] \in SurfaceRecords /\ tracks[t] \in TrackRecords
  BY <1>1, <1>4, <1>5, LiveRecords DEF IInv, Shows
<1>8. Item(t, 0) \in Items /\ Item(t, 0).track = t
  BY <1>5, <1>6, <1>7 DEF Item, Items, SurfaceRecords, TrackRecords
<1>9. p \in Posters /\ p.anchor = a /\ p.item.track = t
  BY <1>2, <1>4, <1>8 DEF Posters
<1>10. Poster(n) = {p}
  <2>1. Poster(n) = {[anchor |-> a, item |-> Item(u, 0)] : u \in {v \in Selected(x) : ~surfaces[x].deny}}
    BY <1>1 DEF Poster
  <2>2. {v \in Selected(x) : ~surfaces[x].deny} = {t}
    BY <1>2, <1>5
  <2> QED BY <1>2, <2>1, <2>2
<1> QED BY <1>1, <1>4, <1>6, <1>9, <1>10 DEF TrackOwner

(* There is a poster for a node at most. *)
LEMMA PostersFinite ==
  ASSUME IInv, NEW kept \in SUBSET UNION {Poster(n) : n \in Nodes}
  PROVE  IsFiniteSet(kept)
<1> DEFINE f == [n \in Nodes |-> CHOOSE p : p \in Poster(n)]
           T == {f[n] : n \in Nodes}
<1>1. f \in Surjection(Nodes, T)
  BY DEF Surjection
<1>2. \A n \in Nodes : \A p \in Poster(n) : p = f[n]
  <2> TAKE n \in Nodes
  <2> TAKE p \in Poster(n)
  <2>1. Poster(n) = {p}
    BY PosterOf
  <2> QED BY <2>1
<1>3. \A p \in kept : p \in T
  BY <1>2
<1> HIDE DEF f
<1>4. IsFiniteSet(T)
  BY <1>1, SceneAssumption, FS_Surjection
<1> QED BY <1>3, <1>4, FS_Subset

(* detach_session(): the posters it leaves are counted with those that are *)
(* there, and its anchors are theirs.                                      *)
LEMMA DetachSessionKeeps ==
  ASSUME IInv, NEW s \in Sessions, NEW kept \in SUBSET UNION {Poster(n) : n \in Nodes},
         DetachSession(s, kept)
  PROVE  IInv'
<1> DEFINE anchored == {p.anchor : p \in kept}
           others == {p \in posters : Owner(p.anchor) # s}
           from == [a \in Anchors |-> IF Owner(a) # s THEN anchors[a]
                                      ELSE IF a \in anchored THEN anchors[a] ELSE None]
           among == IF kept = {} THEN detached \ {s} ELSE detached \cup {s}
<1>1. /\ s \in live /\ Forget(s) /\ Invalidate
      /\ kept \subseteq UNION {Poster(n) : n \in {m \in Nodes : Owner(m) = s}}
      /\ Cardinality(kept) + Cardinality(others) <= MaxPosters
      /\ Collect(others \cup kept, from, among)
      /\ UNCHANGED <<stage, target, seen, alternate>>
  BY DEF DetachSession, Invalidate
<1>2. ended' = ended \cup {s}
  BY <1>1 DEF Forget
<1>3. \A p \in kept : /\ p \in Posters /\ At(p.anchor) /\ p.anchor \in Anchors
                      /\ Owner(p.anchor) = s /\ TrackOwner(p.item.track) = s
  <2> TAKE p \in kept
  <2>1. PICK n \in Nodes : Owner(n) = s /\ p \in Poster(n)
    BY <1>1
  <2> QED BY <2>1, PosterOf DEF Posters
<1>4. /\ others \in SUBSET Posters /\ IsFiniteSet(others)
      /\ \A p \in others : /\ At(p.anchor) /\ Owner(p.anchor) \in detached /\ p.anchor \in Anchors
                           /\ TrackOwner(p.item.track) = Owner(p.anchor)
  BY FewerPosters DEF IInv
<1>5. IsFiniteSet(kept)
  BY PostersFinite
<1>6. /\ from \in AnchorMaps /\ \A a \in Anchors : from[a].kind = "at" => At(a)
      /\ \A p \in others \cup kept : from[p.anchor].kind = "at"
  <2>1. from \in AnchorMaps /\ \A a \in Anchors : from[a].kind = "at" => At(a)
    BY DEF IInv, AnchorsSeen, AnchorMaps, At, None
  <2>2. \A p \in others : from[p.anchor].kind = "at"
    BY <1>4 DEF At
  <2>3. \A p \in kept : from[p.anchor].kind = "at"
    BY <1>3 DEF At
  <2> QED BY <2>1, <2>2, <2>3
<1>7. among \subseteq ended' /\ \A p \in others \cup kept : Owner(p.anchor) \in among
  BY <1>2, <1>3, <1>4 DEF IInv, PostersKept
<1>8. \A p \in others \cup kept : TrackOwner(p.item.track) = Owner(p.anchor)
  BY <1>3, <1>4
<1>9. others \cup kept \in SUBSET Posters
  BY <1>3, <1>4
<1> HIDE DEF anchored, others, from, among
<1>10. /\ IsFiniteSet(others \cup kept)
       /\ Cardinality(others \cup kept)
            = Cardinality(others) + Cardinality(kept) - Cardinality(others \cap kept)
  BY <1>4, <1>5, FS_Union
<1>11. /\ Cardinality(others) \in Nat /\ Cardinality(kept) \in Nat
       /\ Cardinality(others \cap kept) \in Nat
  BY <1>4, <1>5, FS_CardinalityType, FS_Subset
<1>12. Cardinality(others \cup kept) <= MaxPosters
  BY <1>1, <1>10, <1>11, SceneAssumption
<1>13. /\ PostersKept' /\ anchors' \in AnchorMaps
       /\ \A a \in Anchors : At(a)' => from[a].kind = "at"
  BY <1>1, <1>6, <1>7, <1>8, <1>9, <1>10, <1>12, CollectKeeps
<1>14. \A a \in Anchors : At(a)' => At(a)
  BY <1>6, <1>13
<1>15. Sessional' /\ Media' /\ NodesOwned' /\ PendingOwned' /\ Revisions'
  BY <1>1, <1>14, ForgetKeeps
<1>16. AnchorsSeen'
  BY <1>1, <1>13, <1>14, AnchorsGo DEF IInv, AnchorsSeen
<1> QED BY <1>1, <1>13, <1>15, <1>16, InvalidateKeeps DEF IInv

(* remove_contexts(): what a revoked context had goes, wherever it is      *)
(* named.                                                                  *)
LEMMA RemoveContextKeeps ==
  ASSUME IInv, NEW c \in Contexts, RemoveContext(c)
  PROVE  IInv'
<1> DEFINE s == Session[c]
           gone == {n \in Nodes : nodes[n] # NoNode
                                  /\ (Context[n] = c \/ Context[nodes[n].surface] = c)}
           kept == {p \in posters : Context[p.anchor] # c}
           from == [a \in Anchors |-> IF Context[a] = c THEN None ELSE anchors[a]]
<1>1. /\ surfaces' = [x \in Surfaces |-> IF Context[x] = c THEN NoSurface ELSE surfaces[x]]
      /\ tracks' = [t \in Tracks |-> IF Context[Surface[t]] = c THEN NoTrack ELSE tracks[t]]
      /\ Drop(s, gone) /\ pending' = [pending EXCEPT ![c] = NoTx]
      /\ Collect(kept, from, detached)
      /\ Invalidate /\ UNCHANGED <<seen, alternate, sessionVars, stage, live, ended>>
  BY DEF RemoveContext, sessionVars
<1>2. Media'
  <2> DEFINE over == {x \in Surfaces : Context[x] = c}
  <2>1. surfaces' = [x \in Surfaces |-> IF x \in over THEN NoSurface ELSE surfaces[x]]
    BY <1>1
  <2>2. tracks' = [t \in Tracks |-> IF Surface[t] \in over THEN NoTrack ELSE tracks[t]]
    BY <1>1, Owners
  <2> HIDE DEF over
  <2>3. over \in SUBSET Surfaces
    BY DEF over
  <2> QED BY <1>1, <2>1, <2>2, <2>3, EndMedia
<1>3. /\ kept \in SUBSET Posters /\ IsFiniteSet(kept) /\ Cardinality(kept) <= MaxPosters
      /\ \A p \in kept : /\ At(p.anchor) /\ Owner(p.anchor) \in detached /\ p.anchor \in Anchors
                         /\ TrackOwner(p.item.track) = Owner(p.anchor)
  BY FewerPosters DEF IInv
<1>4. /\ from \in AnchorMaps /\ \A a \in Anchors : from[a].kind = "at" => At(a)
      /\ \A p \in kept : from[p.anchor].kind = "at"
  <2>1. from \in AnchorMaps /\ \A a \in Anchors : from[a].kind = "at" => At(a)
    BY DEF IInv, AnchorsSeen, AnchorMaps, At, None
  <2>2. \A p \in kept : from[p.anchor].kind = "at"
    BY <1>3 DEF At
  <2> QED BY <2>1, <2>2
<1>5. detached \subseteq ended'
  BY <1>1 DEF IInv, PostersKept
<1>6. \A n \in gone : Owner(n) = s
  BY DEF Owner, IInv, NodesOwned, OwnedBy
<1>7. gone \in SUBSET Nodes
  OBVIOUS
<1> HIDE DEF gone, kept, from, s
<1>8. /\ PostersKept' /\ anchors' \in AnchorMaps
      /\ \A a \in Anchors : At(a)' => from[a].kind = "at"
  BY <1>1, <1>3, <1>4, <1>5, CollectKeeps
<1>9. \A a \in Anchors : At(a)' => At(a)
  BY <1>4, <1>8
<1>10. NodesOwned' /\ Revisions'
  BY <1>1, <1>6, <1>7, <1>9, DropKeeps
<1>11. AnchorsSeen'
  BY <1>1, <1>8, <1>9, AnchorsGo DEF IInv, AnchorsSeen
<1>12. PendingOwned'
  <2>1. pending' = [d \in Contexts |-> IF d \in {c} THEN NoTx ELSE pending[d]]
    BY <1>1 DEF IInv, PendingOwned
  <2> QED BY <2>1, PendingEnds DEF IInv
<1>13. Sessional'
  BY <1>1, SessionalFrame DEF IInv
<1> QED BY <1>1, <1>2, <1>8, <1>10, <1>11, <1>12, <1>13, InvalidateKeeps DEF IInv
-----------------------------------------------------------------------------
(* Transactions.  A step that writes them only.                            *)
LEMMA PendingOnly ==
  ASSUME IInv, PendingOwned', Quiet, OnlyPending
  PROVE  IInv'
<1>1. UNCHANGED <<nodes, named, sessionVars, surfaces, tracks, anchorVars, posterVars, cache,
                  fresh, drawn, stage, live, ended>>
  BY DEF OnlyPending, Quiet, renderer, mediaVars, sessionVars
<1>2. scene' = scene
  BY <1>1 DEF scene, anchorVars, posterVars
<1>3. Render' = Render
  BY <1>1, <1>2, RenderFrame DEF Shows
<1>4. Sessional' /\ Media' /\ NodesOwned' /\ AnchorsSeen' /\ Revisions' /\ PostersKept'
  BY <1>1, SessionalFrame, MediaFrame, NodesFrame, AnchorsFrame, RevisionsFrame, PostersFrame
     DEF IInv
<1>5. Cached'
  BY <1>1, <1>3, QuietKeeps DEF IInv
<1> QED BY <1>4, <1>5 DEF IInv

(* begin_transaction() and abort_transaction(): the queue is empty.        *)
LEMMA BeginAbortKeeps ==
  ASSUME IInv, NEW c \in Contexts, BeginTransaction(c) \/ AbortTransaction(c)
  PROVE  IInv'
<1>1. CASE AbortTransaction(c)
  <2>1. pending' = [d \in Contexts |-> IF d \in {c} THEN NoTx ELSE pending[d]]
    BY <1>1 DEF AbortTransaction, IInv, PendingOwned
  <2>2. PendingOwned'
    BY <2>1, PendingEnds DEF IInv
  <2> QED BY <1>1, <2>2, PendingOnly DEF AbortTransaction
<1>2. CASE BeginTransaction(c)
  <2> DEFINE r == [pending[c] EXCEPT !.open = TRUE, !.queued = <<>>]
  <2>1. pending' = [pending EXCEPT ![c] = r]
    BY <1>2 DEF BeginTransaction, IInv, PendingOwned
  <2>2. pending[c] \in Transactions /\ pending[c].accepted <= MaxMutations
    BY DEF IInv, PendingOwned
  <2>3. <<>> \in Seq(Mutations(Anchors)) /\ Len(<<>>) = 0
    OBVIOUS
  <2>4. r \in Transactions /\ Len(r.queued) = 0 /\ r.accepted = pending[c].accepted
    BY <2>2, <2>3 DEF Transactions
  <2> HIDE DEF r
  <2>5. /\ pending' \in [Contexts -> Transactions] /\ pending'[c] = r
        /\ \A d \in Contexts \ {c} : pending'[d] = pending[d]
    BY <2>1, <2>4 DEF IInv, PendingOwned
  <2>6. 1 .. Len(r.queued) = {} /\ Len(r.queued) <= r.accepted /\ r.accepted <= MaxMutations
    <3>1. r.accepted \in Nat
      BY <2>4 DEF Transactions
    <3> QED BY <2>2, <2>4, <3>1
  <2>7. PendingOwned'
    BY <2>5, <2>6 DEF IInv, PendingOwned
  <2> QED BY <1>2, <2>7, PendingOnly DEF BeginTransaction
<1> QED BY <1>1, <1>2

(* queue_mutation(): a queued mutation is one of its context and names its *)
(* session's objects.                                                      *)
LEMMA QueueKeeps ==
  ASSUME IInv, NEW c \in Contexts, NEW m \in Mutations(stage.anchors), QueueMutation(c, m)
  PROVE  IInv'
<1> DEFINE q == pending[c].queued
           n == pending[c].accepted
           r == [pending[c] EXCEPT !.queued = Append(q, m), !.accepted = n + 1]
<1>1. /\ n < MaxMutations /\ Context[m.node] = c
      /\ m.op # "delete" => OwnedBy(Session[c], m.content)
      /\ Quiet /\ OnlyPending
  BY DEF QueueMutation, OwnedBy
<1>2. pending' = [pending EXCEPT ![c] = r]
  BY DEF QueueMutation, IInv, PendingOwned
<1>3. m \in Mutations(Anchors)
  BY SceneAssumption DEF IInv, Sessional, Stage, Mutations, NodeRecords
<1>4. pending[c] \in Transactions /\ q \in Seq(Mutations(Anchors)) /\ n \in Nat /\ Len(q) \in Nat
      /\ Len(q) <= n
  BY DEF IInv, PendingOwned, Transactions
<1> HIDE DEF q, n
<1>5. /\ Append(q, m) \in Seq(Mutations(Anchors)) /\ Len(Append(q, m)) = Len(q) + 1
      /\ \A i \in 1 .. Len(q) + 1 : Append(q, m)[i] = IF i = Len(q) + 1 THEN m ELSE q[i]
  BY <1>3, <1>4
<1>6. r \in Transactions /\ r.queued = Append(q, m) /\ r.accepted = n + 1
  <2> DEFINE more == Append(q, m)
             count == n + 1
  <2>1. more \in Seq(Mutations(Anchors)) /\ count \in Nat
    BY <1>4, <1>5
  <2> HIDE DEF more, count
  <2>2. [pending[c] EXCEPT !.queued = more, !.accepted = count] \in Transactions
    BY <1>4, <2>1 DEF Transactions
  <2>3. /\ [pending[c] EXCEPT !.queued = more, !.accepted = count].queued = more
        /\ [pending[c] EXCEPT !.queued = more, !.accepted = count].accepted = count
    BY <1>4 DEF Transactions
  <2> QED BY <2>2, <2>3 DEF more, count
<1> HIDE DEF r
<1>7. /\ pending' \in [Contexts -> Transactions] /\ pending'[c] = r
      /\ \A d \in Contexts \ {c} : pending'[d] = pending[d]
  BY <1>2, <1>6 DEF IInv, PendingOwned
<1>8. \A i \in 1 .. Len(q) : /\ Context[q[i].node] = c
                             /\ q[i].op # "delete" => OwnedBy(Session[c], q[i].content)
  BY DEF q, IInv, PendingOwned
<1>9. \A i \in 1 .. Len(r.queued) :
        /\ Context[r.queued[i].node] = c
        /\ r.queued[i].op # "delete" => OwnedBy(Session[c], r.queued[i].content)
  <2> SUFFICES ASSUME NEW i \in 1 .. Len(q) + 1
               PROVE  /\ Context[Append(q, m)[i].node] = c
                      /\ Append(q, m)[i].op # "delete" =>
                           OwnedBy(Session[c], Append(q, m)[i].content)
    BY <1>5, <1>6
  <2>1. CASE i = Len(q) + 1
    BY <1>1, <1>5, <2>1
  <2>2. CASE i # Len(q) + 1
    <3>1. i \in 1 .. Len(q)
      BY <1>4, <2>2
    <3>2. Append(q, m)[i] = q[i]
      BY <1>5, <2>2
    <3> QED BY <1>8, <3>1, <3>2
  <2> QED BY <2>1, <2>2
<1>10. Len(r.queued) <= r.accepted /\ r.accepted <= MaxMutations
  BY <1>1, <1>4, <1>5, <1>6, SceneAssumption
<1>11. PendingOwned'
  BY <1>7, <1>9, <1>10 DEF IInv, PendingOwned
<1> QED BY <1>1, <1>11, PendingOnly

-----------------------------------------------------------------------------
(* Induction over the mutations of a transaction, from a set of numbers.   *)
Below == {p \in Nat \X Nat : p[1] < p[2]}

LEMMA Induction ==
  ASSUME NEW S, 0 \in S, \A n \in Nat : n \in S => n + 1 \in S
  PROVE  \A n \in Nat : n \in S
<1> SUFFICES ASSUME Nat \ S # {} PROVE FALSE
  OBVIOUS
<1>1. IsWellFoundedOn(Below, Nat)
  BY NatLessThanWellFounded DEF OpToRel, Below
<1>2. PICK x \in Nat \ S : \A y \in Nat \ S : <<y, x>> \notin Below
  BY <1>1, WFMin
<1>3. x # 0 /\ x - 1 \in Nat /\ x - 1 < x /\ (x - 1) + 1 = x
  BY <1>2
<1> QED BY <1>2, <1>3 DEF Below

(* What commit_transaction() makes of the mutations, one after another.    *)
Make(c, before, i) ==
  IF i = 0 THEN [ok |-> TRUE, nodes |-> nodes]
  ELSE IF before[i - 1].ok /\ Applies(pending[c].queued[i], before[i - 1].nodes)
  THEN [ok |-> TRUE, nodes |-> Applied(pending[c].queued[i], before[i - 1].nodes)]
  ELSE [ok |-> FALSE, nodes |-> nodes]
Makes(c, f, last) == f = [i \in 0 .. last |-> Make(c, f, i)]

(* There is a candidate after every number of mutations.                   *)
LEMMA CandidatesExist ==
  ASSUME NEW c, NEW last \in Nat
  PROVE  \E f : Makes(c, f, last)
<1> DEFINE S == {k \in Nat : \E f : Makes(c, f, k)}
<1>1. 0 \in S
  <2> DEFINE f == [i \in 0 .. 0 |-> [ok |-> TRUE, nodes |-> nodes]]
  <2>1. \A i \in 0 .. 0 : Make(c, f, i) = [ok |-> TRUE, nodes |-> nodes]
    BY DEF Make
  <2>2. Makes(c, f, 0)
    BY <2>1 DEF Makes
  <2> QED BY <2>2
<1>2. ASSUME NEW k \in Nat, k \in S
      PROVE  k + 1 \in S
  <2>1. PICK f : Makes(c, f, k)
    BY <1>2
  <2> DEFINE g == [i \in 0 .. k + 1 |-> IF i = k + 1 THEN Make(c, f, i) ELSE f[i]]
  <2>2. ASSUME NEW i \in 0 .. k + 1
        PROVE  g[i] = Make(c, g, i)
    <3>1. i # 0 => i - 1 \in 0 .. k /\ g[i - 1] = f[i - 1]
      OBVIOUS
    <3>2. Make(c, g, i) = Make(c, f, i)
      BY <3>1 DEF Make
    <3>3. i # k + 1 => f[i] = Make(c, f, i)
      BY <2>1 DEF Makes
    <3> QED BY <3>2, <3>3
  <2>3. Makes(c, g, k + 1)
    <3>1. g = [i \in 0 .. k + 1 |-> g[i]]
      OBVIOUS
    <3> HIDE DEF g
    <3> QED BY <2>2, <3>1 DEF Makes
  <2> QED BY <2>3
<1> HIDE DEF S
<1>3. last \in S
  BY <1>1, <1>2, Induction
<1> QED BY <1>3 DEF S

(* Nodes as a session may make them: its own name its own objects, the     *)
(* others are what they were.                                              *)
Proper(s, candidate) ==
  /\ candidate \in NodeMaps
  /\ \A n \in Nodes : candidate[n] # NoNode => OwnedBy(Owner(n), candidate[n])
  /\ \A n \in Nodes : Owner(n) # s => candidate[n] = nodes[n]

(* A mutation of the context keeps them so. *)
LEMMA AppliedProper ==
  ASSUME IInv, NEW c \in Contexts, NEW i \in 1 .. Len(pending[c].queued),
         NEW candidate, Proper(Session[c], candidate)
  PROVE  Proper(Session[c], Applied(pending[c].queued[i], candidate))
<1> DEFINE m == pending[c].queued[i]
           new == IF m.op = "delete" THEN NoNode ELSE m.content
<1>1. /\ Context[m.node] = c
      /\ m.op # "delete" => OwnedBy(Session[c], m.content)
  BY DEF IInv, PendingOwned
<1>2. m \in Mutations(Anchors)
  <2>1. pending[c].queued \in Seq(Mutations(Anchors))
    BY DEF IInv, PendingOwned, Transactions
  <2> QED BY <2>1
<1> HIDE DEF m
<1>3. m.node \in Nodes /\ new \in NodeRecords(Anchors) \cup {NoNode}
  BY <1>2 DEF Mutations
<1>4. Owner(m.node) = Session[c] /\ (new # NoNode => OwnedBy(Session[c], new))
  BY <1>1 DEF Owner
<1>5. Applied(m, candidate) = [candidate EXCEPT ![m.node] = new]
  BY DEF Applied
<1> HIDE DEF new
<1>6. Proper(Session[c], Applied(m, candidate))
  BY <1>3, <1>4, <1>5 DEF Proper, NodeMaps
<1> QED BY <1>6 DEF m

(* So does a transaction, however many mutations it has.                   *)
LEMMA CandidateProper ==
  ASSUME IInv, NEW c \in Contexts
  PROVE  Proper(Session[c], Candidate(c).nodes)
<1> DEFINE last == Len(pending[c].queued)
           f == CHOOSE g : Makes(c, g, last)
           S == {k \in Nat : k <= last => Proper(Session[c], f[k].nodes)}
<1>1. last \in Nat
  BY DEF IInv, PendingOwned, Transactions
<1>2. Candidate(c) = f[last]
  BY Zenon DEF Candidate, Makes, Make
<1> HIDE DEF last
<1>3. Makes(c, f, last)
  BY <1>1, CandidatesExist
<1> HIDE DEF f
<1>4. \A i \in 0 .. last : f[i] = Make(c, f, i)
  BY <1>3 DEF Makes
<1>5. Proper(Session[c], nodes)
  BY DEF Proper, IInv, NodesOwned
<1>6. 0 \in S
  <2>1. 0 \in 0 .. last
    BY <1>1
  <2>2. f[0] = Make(c, f, 0)
    BY <1>4, <2>1
  <2>3. f[0].nodes = nodes
    BY <2>2 DEF Make
  <2> QED BY <1>5, <2>3
<1>7. ASSUME NEW k \in Nat, k \in S
      PROVE  k + 1 \in S
  <2> SUFFICES ASSUME k + 1 <= last
               PROVE  Proper(Session[c], f[k + 1].nodes)
    OBVIOUS
  <2>1. Proper(Session[c], f[k].nodes) /\ k + 1 \in 1 .. last /\ k + 1 \in 0 .. last
    BY <1>1, <1>7
  <2>2. f[k + 1] = Make(c, f, k + 1) /\ k + 1 # 0 /\ (k + 1) - 1 = k
    BY <1>4, <2>1
  <2>3. \/ f[k + 1].nodes = Applied(pending[c].queued[k + 1], f[k].nodes)
        \/ f[k + 1].nodes = nodes
    BY <2>2 DEF Make
  <2>4. Proper(Session[c], Applied(pending[c].queued[k + 1], f[k].nodes))
    BY <2>1, AppliedProper DEF last
  <2> QED BY <1>5, <2>3, <2>4
<1> HIDE DEF S
<1>8. last \in S
  BY <1>1, <1>6, <1>7, Induction
<1> QED BY <1>1, <1>2, <1>8 DEF S

(* commit_transaction(): the session's nodes are named anew.               *)
LEMMA CommitKeeps ==
  ASSUME IInv, NEW c \in Contexts, NEW g \in 1 .. MaxTarget, CommitTransaction(c, g)
  PROVE  IInv'
<1> DEFINE made == Candidate(c).nodes
<1>1. Proper(Session[c], made)
  BY CandidateProper
<1> HIDE DEF made
<1>2. /\ nodes' = made
      /\ named' = [n \in Nodes |-> IF Owner(n) = Session[c] THEN nodes'[n] ELSE named[n]]
      /\ pending' = [pending EXCEPT ![c] = NoTx]
      /\ Invalidate
      /\ UNCHANGED <<sessionVars, surfaces, tracks, anchorVars, posterVars, stage, live, ended,
                     anchors, seen>>
  BY DEF CommitTransaction, made, mediaVars, sessionVars, anchorVars
<1>3. nodes' \in NodeMaps /\ named' \in NodeMaps
  BY <1>1, <1>2 DEF Proper, NodeMaps, IInv, NodesOwned
<1>4. NodesOwned'
  BY <1>1, <1>2, <1>3 DEF Proper, NodesOwned
<1>5. Revisions'
  <2> SUFFICES ASSUME NEW n \in Nodes, nodes'[n] # named'[n]
               PROVE  nodes'[n] = NoNode /\ named'[n].anchor \in seen'
                      /\ anchors'[named'[n].anchor].kind # "at"
    BY DEF Revisions, At
  <2>1. nodes'[n] = nodes[n] /\ named'[n] = named[n]
    BY <1>1, <1>2 DEF Proper
  <2> QED BY <1>2, <2>1 DEF IInv, Revisions, At
<1>6. PendingOwned'
  <2>1. pending' = [d \in Contexts |-> IF d \in {c} THEN NoTx ELSE pending[d]]
    BY <1>2 DEF IInv, PendingOwned
  <2> QED BY <2>1, PendingEnds DEF IInv
<1>7. Sessional' /\ Media' /\ AnchorsSeen' /\ PostersKept'
  BY <1>2, SessionalFrame, MediaFrame, AnchorsFrame, PostersFrame DEF IInv
<1> QED BY <1>2, <1>4, <1>5, <1>6, <1>7, InvalidateKeeps DEF IInv

-----------------------------------------------------------------------------
(* Every step keeps the invariant. *)
LEMMA NextKeeps ==
  ASSUME IInv, [Next]_vars
  PROVE  IInv'
<1>0. stage.tracks \subseteq Tracks
  BY SceneAssumption DEF IInv, Sessional, Stage
<1>1. CASE SessionStep
  <2>1. CASE \E s \in Sessions : SuspendSession(s)
    BY <2>1, NothingKeeps DEF SuspendSession
  <2> QED BY <1>1, <2>1, TargetKeeps, RemoveSessionKeeps, DetachSessionKeeps, RemoveContextKeeps
          DEF SessionStep
<1>2. CASE SurfaceStep
  BY <1>0, <1>2, MediaSteps, PublishKeeps, DestroySurfaceKeeps DEF SurfaceStep
<1>3. CASE AnchorStep
  BY <1>3, AnchorsLeave, AddAnchorKeeps DEF AnchorStep
<1>4. CASE TransactionStep
  BY <1>4, BeginAbortKeeps, QueueKeeps, CommitKeeps DEF TransactionStep
<1>5. CASE RenderStep
  BY <1>5, DrawKeeps, MarkKeeps DEF RenderStep
<1>6. CASE Reject
  BY <1>6, NothingKeeps DEF Reject
<1>7. CASE UNCHANGED vars
  <2>1. /\ UNCHANGED <<nodeVars, sessionVars, surfaces, tracks, anchorVars, posterVars, stage,
                       live, cache, fresh, drawn>>
    BY <1>7 DEF vars, world, renderer, mediaVars, sessionVars
  <2>2. scene' = scene
    BY <2>1 DEF scene, nodeVars, anchorVars, posterVars
  <2>3. Render' = Render
    BY <2>1, <2>2, RenderFrame DEF Shows
  <2>4. Cached' /\ Media'
    BY <2>1, <2>3, QuietKeeps, MediaFrame DEF IInv
  <2> QED BY <2>1, <2>4, MediaOnly
<1> QED BY <1>1, <1>2, <1>3, <1>4, <1>5, <1>6, <1>7 DEF Next

(* The invariant holds of every reachable state of the scene.              *)
THEOREM Invariance == Spec => []IInv
<1>1. Init => IInv
  BY InitHolds
<1>2. IInv /\ [Next]_vars => IInv'
  BY NextKeeps
<1> QED BY <1>1, <1>2, PTL DEF Spec

(* However registrations and announcements cross, every live scene         *)
(* validates commits against the presenter's own target generation         *)
(* (advance_target_generation(), register_session()).                      *)
THEOREM TargetsAgree == Spec => []TargetAgreement
<1>1. IInv => TargetAgreement
  BY DEF IInv, Sessional
<1> QED BY <1>1, Invariance, PTL

(* An active slot names an existing track, and the nodes of a scene        *)
(* revision are those its producer knows of, but for what went with its    *)
(* anchor (destroy_track(), destroy_surface(), remove_contexts()).         *)
THEOREM NamesStand == Spec => []NamesResolve
<1>1. IInv => SlotsNameTracks
  BY DEF IInv, Media
<1>2. IInv => RevisionNamesNodes
  <2> SUFFICES ASSUME IInv, NEW n \in Nodes, nodes[n] # named[n]
               PROVE  nodes[n] = NoNode /\ named[n].anchor # NoAnchor /\ ~At(named[n].anchor)
    BY DEF RevisionNamesNodes
  <2>1. nodes[n] = NoNode /\ named[n].anchor \in seen /\ ~At(named[n].anchor)
    BY DEF IInv, Revisions
  <2>2. named[n].anchor \in Anchors
    BY <2>1 DEF IInv, AnchorsSeen
  <2> QED BY <2>1, <2>2, SceneAssumption
<1>3. IInv => NamesResolve
  BY <1>1, <1>2 DEF NamesResolve
<1> QED BY <1>3, Invariance, PTL

(* A poster that a session left has its anchor, and a session that is      *)
(* remembered has a poster (detach_session(), gc_detached_sessions()).     *)
THEOREM PostersStand == Spec => []PostersAnchored
<1>1. IInv => PostersAnchored
  BY DEF IInv, PostersKept
<1> QED BY <1>1, Invariance, PTL

(* Types and bounds. *)
LEMMA InvTypes == ASSUME IInv PROVE TypeOK
<1>1. \A c \in Contexts : Len(pending[c].queued) <= MaxMutations
  <2> TAKE c \in Contexts
  <2>1. /\ Len(pending[c].queued) \in Nat /\ pending[c].accepted \in Nat
        /\ Len(pending[c].queued) <= pending[c].accepted /\ pending[c].accepted <= MaxMutations
    BY DEF IInv, PendingOwned, Transactions
  <2> QED BY <2>1, SceneAssumption
<1>2. \A a \in Anchors : anchors[a].kind \in {"none", "gone", "at"}
  BY DEF IInv, AnchorsSeen, AnchorMaps, AnchorRecords, None, Gone
<1>3. nodes \in [Nodes -> NodeRecords(Anchors) \cup {NoNode}]
  BY DEF IInv, NodesOwned, NodeMaps
<1>4. /\ stage \in Stages /\ target \in 1 .. MaxTarget /\ live \cap ended = {}
      /\ detached \subseteq ended /\ planned \in [Sessions -> 0 .. MaxTarget]
      /\ Cardinality(posters) <= MaxPosters
  BY DEF IInv, Sessional, PostersKept
<1>5. /\ \A x \in Surfaces : surfaces[x].live => surfaces[x].generation \in 1 .. MaxSurfaceGen
      /\ \A t \in Tracks : tracks[t].live => tracks[t].generation \in 1 .. MaxChannelGen
  BY DEF IInv, Media
<1> QED BY <1>1, <1>2, <1>3, <1>4, <1>5 DEF TypeOK

(* The cached items are what a rebuild would make, and a draw that is      *)
(* skipped would have drawn what is on the screen (invalidate_topology(),  *)
(* replace_cached_frame(), draw()).                                        *)
THEOREM CacheIsSound == Spec => []CacheSound
<1>1. IInv => CacheSound
  BY InvTypes DEF IInv, Cached, CacheSound
<1> QED BY <1>1, Invariance, PTL
===============================================================================
