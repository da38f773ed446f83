-------------------------------- MODULE Scene --------------------------------
(***************************************************************************)
(* The shared scene of one presenter (src/vivid/scene.rs): the surfaces,    *)
(* tracks, nodes and anchors of its sessions, behind one lock, so that each *)
(* method is one action; the render cache; and the window's renderer        *)
(* (src/display/media.rs), which draws a snapshot, skips one it has drawn   *)
(* already, and acknowledges each item afterwards, while actors, channels   *)
(* and the terminal go on changing the scene.                               *)
(*                                                                          *)
(* Positions, layers and the order of items are abstracted to the line of   *)
(* the anchor; surface and scene revisions to the rejections they cause     *)
(* (Reject) and to named, the nodes at the last revision.                   *)
(***************************************************************************)
EXTENDS Naturals, Sequences, FiniteSets

CONSTANTS
  Sessions, Contexts, Surfaces, Tracks, Nodes, Anchors, \* identities
  Session,    \* the session of a context
  Context,    \* the context of a surface, a node or an anchor
  Surface,    \* the surface of a track
  Slot,       \* the slot a track is configured for: 1 video, 3 raster, 4 poster
  NoAnchor,   \* the anchor of a node that the target places by itself
  Stages,     \* what the producers and the terminal may use, see Stage
  MaxMutations, \* bound on the mutations of a transaction
  MaxPosters  \* MAX_RETAINED_POSTERS

Slots == {1, 3, 4}

(* The tracks, anchors and frames that come up, and the bounds on the        *)
(* generations of the target, of surfaces and of channels.                   *)
Stage ==
  [tracks : SUBSET Tracks, anchors : SUBSET Anchors, frames : SUBSET (Nat \ {0}),
   target : Nat \ {0}, surface : Nat \ {0}, channel : Nat \ {0}]

ASSUME SceneAssumption ==
  /\ Session \in [Contexts -> Sessions]
  /\ Context \in [Surfaces \cup Nodes \cup Anchors -> Contexts]
  /\ Surface \in [Tracks -> Surfaces] /\ Slot \in [Tracks -> Slots]
  /\ IsFiniteSet(Nodes) /\ NoAnchor \notin Anchors
  /\ MaxMutations \in Nat /\ MaxPosters \in Nat
  /\ \A s \in Stages : s \in Stage

VARIABLES
  stage,     \* which stage this is
  target,    \* State::target_generation
  live,      \* the sessions that have a scene
  ended,     \* the sessions whose scene is gone
  planned,   \* SessionScene::target_generation
  nodes,     \* SessionScene::nodes
  named,     \* history: the nodes at the session's last scene revision
  pending,   \* SessionScene::pending, one transaction for each context; accepted is history:
             \* the mutations answered with OK since it began
  surfaces,  \* State::surfaces
  tracks,    \* State::tracks
  anchors,   \* State::anchors and gone_anchors
  seen,      \* SessionRuntime::seen_anchors of the sessions
  alternate, \* State::alternate_screen
  posters,   \* State::retained_posters
  detached,  \* State::detached_sessions
  cache,     \* State::render_cache
  fresh,     \* the revisions are those of the renderer's last snapshot
  drawn,     \* the items the renderer drew last
  marking    \* the drawn items it has not acknowledged yet

sessionVars == <<stage, target, live, ended, planned>>
nodeVars    == <<nodes, named, pending>>
mediaVars   == <<surfaces, tracks>>
anchorVars  == <<anchors, seen, alternate>>
posterVars  == <<posters, detached>>
world    == <<sessionVars, nodeVars, mediaVars, anchorVars, posterVars>>
renderer == <<drawn, marking>>
vars     == <<world, cache, fresh, renderer>>

MaxTarget     == stage.target
MaxSurfaceGen == stage.surface
MaxChannelGen == stage.channel

NoNode    == [surface |-> "none"]
NoTx      == [open |-> FALSE, queued |-> <<>>, accepted |-> 0]
NoSurface == [live |-> FALSE]
NoTrack   == [live |-> FALSE]
None      == [kind |-> "none"]
Gone      == [kind |-> "gone"]
NoCache   == [valid |-> FALSE, items |-> {}]
NoFrame   == 0

NodeRecords(from) == [surface : Surfaces, anchor : from \cup {NoAnchor}]
Mutations(from) == [op : {"create", "update"}, node : Nodes, content : NodeRecords(from)]
                   \cup [op : {"delete"}, node : Nodes]

Owner(x) == Session[Context[x]]
TrackOwner(t) == Owner(Surface[t])
At(a) == anchors[a].kind = "at"

Init ==
  /\ stage \in Stages
  /\ target = 1 /\ live = {} /\ ended = {} /\ planned = [s \in Sessions |-> 0]
  /\ nodes = [n \in Nodes |-> NoNode] /\ named = nodes
  /\ pending = [c \in Contexts |-> NoTx]
  /\ surfaces = [x \in Surfaces |-> NoSurface] /\ tracks = [t \in Tracks |-> NoTrack]
  /\ anchors = [a \in Anchors |-> None] /\ seen = {} /\ alternate = FALSE
  /\ posters = {} /\ detached = {}
  /\ cache = NoCache /\ fresh = FALSE /\ drawn = {} /\ marking = {}

-----------------------------------------------------------------------------
(* What snapshot() draws.                                                    *)

Shows(t) == tracks[t].live /\ ~tracks[t].lost /\ tracks[t].frame # NoFrame

(* The track that stands for a surface: the first slot that can show one.    *)
Selected(x) ==
  LET showing == {k \in Slots : \E t \in Tracks : surfaces[x].slots[k] = {t} /\ Shows(t)}
      first   == CHOOSE k \in showing : \A j \in showing : k <= j
  IN  IF showing = {} THEN {} ELSE surfaces[x].slots[first]

Item(t, line) ==
  [track |-> t, surface_generation |-> surfaces[Surface[t]].generation,
   channel_generation |-> tracks[t].generation, frame |-> tracks[t].frame,
   line |-> line, policy |-> surfaces[Surface[t]].deny]

Visible(a) == At(a) /\ anchors[a].alternate = alternate

NodeItems(n) ==
  LET x == nodes[n].surface
      a == nodes[n].anchor
  IN  IF nodes[n] = NoNode \/ x \notin Surfaces \/ (a # NoAnchor /\ ~Visible(a)) THEN {}
      ELSE IF ~surfaces[x].live THEN {}
      ELSE {Item(t, IF a = NoAnchor THEN 0 ELSE anchors[a].line) : t \in Selected(x)}

PosterItems ==
  {[p.item EXCEPT !.line = anchors[p.anchor].line] : p \in {q \in posters : Visible(q.anchor)}}

Render == PosterItems \cup UNION {NodeItems(n) : n \in Nodes}

-----------------------------------------------------------------------------
(* invalidate_topology() and invalidate_capture().                           *)
Invalidate == cache' = NoCache /\ fresh' = FALSE /\ UNCHANGED <<renderer, stage>>
Quiet == UNCHANGED <<cache, fresh, renderer>>

(* A method that invalidates the cache first and then refuses its request:   *)
(* a stale revision, generation or target, a missing or duplicate object.    *)
Reject == Invalidate /\ UNCHANGED world

(* The nodes of a session after some are dropped, and the revision advanced  *)
(* if one was.                                                               *)
Drop(s, gone) ==
  /\ nodes' = [n \in Nodes |-> IF n \in gone THEN NoNode ELSE nodes[n]]
  /\ named' = [n \in Nodes |-> IF Owner(n) = s /\ \E m \in gone : nodes[m] # NoNode
                               THEN nodes'[n] ELSE named[n]]

(* Mutant: sessions whose last poster has gone are remembered.               *)
CollectNothing(kept, from, among) == posters' = kept /\ anchors' = from /\ detached' = among

(* gc_detached_sessions(): a detached session without posters is forgotten.  *)
Collect(kept, from, among) ==
  LET forgotten == {s \in among : ~\E p \in kept : Owner(p.anchor) = s}
  IN  /\ posters' = kept /\ detached' = among \ forgotten
      /\ anchors' = [a \in Anchors |-> IF Owner(a) \in forgotten THEN None ELSE from[a]]

RegisterSession(s, generation) ==
  /\ s \notin live \cup ended /\ generation \in 1 .. MaxTarget
  /\ live' = live \cup {s}
  /\ target' = IF generation > target THEN generation ELSE target
  /\ planned' = [r \in Sessions |->
                   IF r = s \/ (r \in live /\ generation > target) THEN target' ELSE planned[r]]
  /\ Invalidate
  /\ UNCHANGED <<ended, nodeVars, mediaVars, anchorVars, posterVars>>

(* Mutant: only the presenter's own generation follows the target.           *)
AdvanceTargetAlone(generation) ==
  /\ generation \in 1 .. MaxTarget
  /\ target' = IF generation > target THEN generation ELSE target
  /\ Invalidate
  /\ UNCHANGED <<live, ended, planned, nodeVars, mediaVars, anchorVars, posterVars>>

(* advance_target_generation(), from flush_display_change().                 *)
AdvanceTarget(generation) ==
  /\ generation \in 1 .. MaxTarget
  /\ target' = IF generation > target THEN generation ELSE target
  /\ planned' = [s \in Sessions |->
                   IF s \in live /\ planned[s] < generation THEN generation ELSE planned[s]]
  /\ Invalidate
  /\ UNCHANGED <<live, ended, nodeVars, mediaVars, anchorVars, posterVars>>

(* Mutant: the session stays registered.                                     *)
ForgetKeepsScene(s) ==
  /\ ended' = ended \cup {s} /\ UNCHANGED <<live, planned, nodeVars, mediaVars>>

(* What ends with a session's scene.                                         *)
Forget(s) ==
  /\ live' = live \ {s} /\ ended' = ended \cup {s}
  /\ planned' = [planned EXCEPT ![s] = 0]
  /\ nodes' = [n \in Nodes |-> IF Owner(n) = s THEN NoNode ELSE nodes[n]]
  /\ named' = [n \in Nodes |-> IF Owner(n) = s THEN NoNode ELSE named[n]]
  /\ pending' = [c \in Contexts |-> IF Session[c] = s THEN NoTx ELSE pending[c]]
  /\ surfaces' = [x \in Surfaces |-> IF Owner(x) = s THEN NoSurface ELSE surfaces[x]]
  /\ tracks' = [t \in Tracks |-> IF TrackOwner(t) = s THEN NoTrack ELSE tracks[t]]

RemoveSession(s) ==
  /\ s \in live /\ Forget(s)
  /\ anchors' = [a \in Anchors |-> IF Owner(a) = s THEN None ELSE anchors[a]]
  /\ posters' = {p \in posters : Owner(p.anchor) # s} /\ detached' = detached \ {s}
  /\ Invalidate /\ UNCHANGED <<target, seen, alternate>>

(* retained_poster(): what detach_session() may keep of a node.              *)
Poster(n) ==
  LET x == nodes[n].surface
      a == nodes[n].anchor
  IN  IF nodes[n] = NoNode \/ a = NoAnchor \/ ~At(a) \/ ~surfaces[x].live THEN {}
      ELSE {[anchor |-> a, item |-> Item(t, 0)] : t \in {u \in Selected(x) : ~surfaces[x].deny}}

(* detach_session(): posters up to the ceiling (the one on pixels may refuse *)
(* any of them), and only their anchors.                                     *)
DetachSession(s, kept) ==
  LET anchored == {p.anchor : p \in kept}
  IN  /\ s \in live
      /\ kept \subseteq UNION {Poster(n) : n \in {m \in Nodes : Owner(m) = s}}
      /\ Cardinality(kept) + Cardinality({p \in posters : Owner(p.anchor) # s}) <= MaxPosters
      /\ Forget(s)
      /\ Collect({p \in posters : Owner(p.anchor) # s} \cup kept,
                 [a \in Anchors |-> IF Owner(a) # s THEN anchors[a]
                                    ELSE IF a \in anchored THEN anchors[a] ELSE None],
                 IF kept = {} THEN detached \ {s} ELSE detached \cup {s})
      /\ Invalidate /\ UNCHANGED <<target, seen, alternate>>

(* suspend_session(): the channels are detached, and what is drawn stays.    *)
SuspendSession(s) == s \in live /\ Invalidate /\ UNCHANGED world

(* remove_contexts(), when a context is revoked.                             *)
RemoveContext(c) ==
  LET s == Session[c]
  IN  /\ surfaces' = [x \in Surfaces |-> IF Context[x] = c THEN NoSurface ELSE surfaces[x]]
      /\ tracks' = [t \in Tracks |-> IF Context[Surface[t]] = c THEN NoTrack ELSE tracks[t]]
      /\ Drop(s, {n \in Nodes : nodes[n] # NoNode
                                /\ (Context[n] = c \/ Context[nodes[n].surface] = c)})
      /\ pending' = [pending EXCEPT ![c] = NoTx]
      /\ Collect({p \in posters : Context[p.anchor] # c},
                 [a \in Anchors |-> IF Context[a] = c THEN None ELSE anchors[a]], detached)
      /\ s \in live
      /\ Invalidate /\ UNCHANGED <<seen, alternate, sessionVars>>

-----------------------------------------------------------------------------
(* Surfaces and tracks.                                                      *)

CreateSurface(x) ==
  /\ Owner(x) \in live /\ ~surfaces[x].live
  /\ surfaces' = [surfaces EXCEPT ![x] = [live |-> TRUE, generation |-> 1, deny |-> FALSE,
                                          slots |-> [k \in Slots |-> {}]]]
  /\ Invalidate
  /\ UNCHANGED <<tracks, sessionVars, nodeVars, anchorVars, posterVars>>

(* update_surface(): policy only tightens; a new mapping is a new generation. *)
UpdateSurface(x, remap, deny) ==
  /\ surfaces[x].live /\ (surfaces[x].deny => deny)
  /\ remap => surfaces[x].generation < MaxSurfaceGen
  /\ surfaces' = [surfaces EXCEPT ![x].deny = deny,
                                  ![x].generation = IF remap THEN @ + 1 ELSE @]
  /\ Invalidate
  /\ UNCHANGED <<tracks, sessionVars, nodeVars, anchorVars, posterVars>>

(* Mutant: the nodes of a destroyed surface go without a new revision.       *)
DestroySurfaceSilently(x) ==
  /\ surfaces[x].live
  /\ surfaces' = [surfaces EXCEPT ![x] = NoSurface]
  /\ tracks' = [t \in Tracks |-> IF Surface[t] = x THEN NoTrack ELSE tracks[t]]
  /\ nodes' = [n \in Nodes |-> IF nodes[n].surface = x THEN NoNode ELSE nodes[n]]
  /\ Invalidate
  /\ UNCHANGED <<named, pending, sessionVars, anchorVars, posterVars>>

DestroySurface(x) ==
  /\ surfaces[x].live
  /\ surfaces' = [surfaces EXCEPT ![x] = NoSurface]
  /\ tracks' = [t \in Tracks |-> IF Surface[t] = x THEN NoTrack ELSE tracks[t]]
  /\ Drop(Owner(x), {n \in Nodes : nodes[n] # NoNode /\ nodes[n].surface = x})
  /\ Invalidate
  /\ UNCHANGED <<pending, sessionVars, anchorVars, posterVars>>

(* Changing one track, or the slots of one surface, and nothing else.        *)
OnlyTracks ==
  UNCHANGED <<surfaces, sessionVars, nodeVars, anchorVars, posterVars>>
OnlySlots ==
  UNCHANGED <<sessionVars, nodeVars, anchorVars, posterVars>>

CreateTrack(t) ==
  /\ surfaces[Surface[t]].live /\ ~tracks[t].live
  /\ tracks' = [tracks EXCEPT ![t] =
       [live |-> TRUE, lost |-> FALSE, generation |-> 1, frame |-> NoFrame,
        presented |-> 0]]
  /\ Invalidate /\ OnlyTracks

(* Mutant: a destroyed track keeps its slot.                                 *)
DestroyTrackKeepsSlot(t) ==
  /\ tracks[t].live
  /\ tracks' = [tracks EXCEPT ![t] = NoTrack]
  /\ UNCHANGED surfaces /\ Invalidate /\ OnlySlots

DestroyTrack(t) ==
  /\ tracks[t].live
  /\ tracks' = [tracks EXCEPT ![t] = NoTrack]
  /\ surfaces' = [surfaces EXCEPT ![Surface[t]].slots = [k \in Slots |-> @[k] \ {t}]]
  /\ Invalidate /\ OnlySlots

(* activate_tracks(), one binding; the milestone it requires is a choice.    *)
ActivateTrack(t) ==
  /\ surfaces[Surface[t]].live /\ tracks[t].live /\ ~tracks[t].lost
  /\ surfaces' = [surfaces EXCEPT ![Surface[t]].slots[Slot[t]] = {t}]
  /\ Invalidate /\ UNCHANGED tracks /\ OnlySlots
ClearSlot(x, k) ==
  /\ surfaces[x].live
  /\ surfaces' = [surfaces EXCEPT ![x].slots[k] = {}]
  /\ Invalidate /\ UNCHANGED tracks /\ OnlySlots

(* advance_channel(): the milestones start again with the new generation.    *)
AdvanceChannel(t) ==
  /\ tracks[t].live /\ tracks[t].generation < MaxChannelGen
  /\ tracks' = [tracks EXCEPT ![t].generation = @ + 1,
                              ![t].frame = NoFrame, ![t].presented = 0]
  /\ Invalidate /\ OnlyTracks

(* Mutant: the cached items keep the frame they had.                         *)
ReplacedNothing(t, frame) == cache

(* replace_cached_frame(): the cached items of the track take the new frame. *)
Replaced(t, frame) ==
  [cache EXCEPT !.items = {[i EXCEPT !.frame = IF i.track = t THEN frame ELSE @] : i \in @}]

(* Mutant: the new frame is cached under the old content revision.           *)
ReplaceUnannounced(t, frame) ==
  cache' = Replaced(t, frame) /\ UNCHANGED <<fresh, renderer>>

ReplaceCachedFrame(t, frame) ==
  cache' = Replaced(t, frame) /\ fresh' = FALSE /\ UNCHANGED renderer

(* publish_decoded_frame(), from the thread of the channel's generation.     *)
PublishDecodedFrame(t, generation, frame) ==
  /\ tracks[t].live /\ ~tracks[t].lost /\ tracks[t].generation = generation
  /\ frame # tracks[t].frame
  /\ tracks' = [tracks EXCEPT ![t].frame = frame]
  /\ IF tracks[t].frame # NoFrame THEN ReplaceCachedFrame(t, frame) ELSE Invalidate
  /\ OnlyTracks

(* lose_track(), of the generation that failed.                              *)
LoseTrack(t, generation) ==
  /\ tracks[t].live /\ ~tracks[t].lost /\ tracks[t].generation = generation
  /\ tracks' = [tracks EXCEPT ![t].lost = TRUE, ![t].presented = 0]
  /\ Invalidate /\ OnlyTracks

-----------------------------------------------------------------------------
(* Anchors, moved by the terminal (module Anchors says where to).            *)

OnlyAnchors ==
  UNCHANGED <<alternate, sessionVars, nodeVars, mediaVars, posterVars>>

(* add_anchor(): the handler of a marker looked its session up before, and   *)
(* the session may have ended since.                                         *)
AddAnchor(a, onAlternate) ==
  /\ a \notin seen /\ Owner(a) \in live \cup ended
  /\ seen' = seen \cup {a}
  /\ anchors' = [anchors EXCEPT ![a] = [kind |-> "at", line |-> 0, alternate |-> onAlternate]]
  /\ Invalidate /\ OnlyAnchors

(* remove_anchors(): nodes and posters go with their anchor, and the scene   *)
(* revision does not advance.                                                *)
RemoveAnchors(gone, from) ==
  /\ nodes' = [n \in Nodes |->
                 IF nodes[n] # NoNode /\ nodes[n].anchor \in gone THEN NoNode ELSE nodes[n]]
  /\ Collect({p \in posters : p.anchor \notin gone},
             [a \in Anchors |-> IF a \in gone THEN Gone ELSE from[a]], detached)
  /\ UNCHANGED <<named, pending, sessionVars, mediaVars>>

Moved(a) == IF At(a) THEN [anchors[a] EXCEPT !.line = 1 - @] ELSE anchors[a]

(* scroll_anchors() and apply_anchor_resize().                               *)
MoveAnchors(gone) ==
  /\ \A a \in gone : At(a)
  /\ RemoveAnchors(gone, [a \in Anchors |-> Moved(a)])
  /\ Invalidate /\ UNCHANGED <<seen, alternate>>

ClearTerminal ==
  /\ RemoveAnchors({a \in Anchors : Visible(a)}, anchors)
  /\ Invalidate /\ UNCHANGED <<seen, alternate>>

SetAlternateScreen ==
  /\ alternate' = ~alternate
  /\ RemoveAnchors({a \in Anchors : At(a) /\ alternate /\ anchors[a].alternate}, anchors)
  /\ Invalidate /\ UNCHANGED seen

-----------------------------------------------------------------------------
(* Scene transactions, one for each context.                                 *)

OnlyPending ==
  UNCHANGED <<nodes, named, sessionVars, mediaVars, anchorVars, posterVars>>

(* begin_transaction() inserts an empty transaction, and then refuses if     *)
(* there was one.                                                            *)
BeginTransaction(c) ==
  /\ Session[c] \in live
  /\ pending' = [pending EXCEPT ![c].open = TRUE, ![c].queued = <<>>]
  /\ Quiet /\ OnlyPending

QueueMutation(c, m) ==
  /\ pending[c].open /\ pending[c].accepted < MaxMutations
  /\ Context[m.node] = c
  /\ m.op # "delete" =>
       /\ Owner(m.content.surface) = Session[c]
       /\ m.content.anchor # NoAnchor => Owner(m.content.anchor) = Session[c]
  /\ pending' = [pending EXCEPT ![c].queued = Append(@, m), ![c].accepted = @ + 1]
  /\ Quiet /\ OnlyPending

AbortTransaction(c) ==
  /\ pending[c].open
  /\ pending' = [pending EXCEPT ![c] = NoTx]
  /\ Quiet /\ OnlyPending

(* Whether a mutation applies to the candidate nodes, and what it makes.     *)
Applies(m, candidate) ==
  IF m.op = "create" THEN candidate[m.node] = NoNode /\ surfaces[m.content.surface].live
  ELSE candidate[m.node] # NoNode
Applied(m, candidate) ==
  [candidate EXCEPT ![m.node] = IF m.op = "delete" THEN NoNode ELSE m.content]

(* The candidate after the first i mutations, and whether they all applied.  *)
Candidate(c) ==
  LET step[i \in 0 .. Len(pending[c].queued)] ==
        IF i = 0 THEN [ok |-> TRUE, nodes |-> nodes]
        ELSE IF step[i - 1].ok /\ Applies(pending[c].queued[i], step[i - 1].nodes)
        THEN [ok |-> TRUE, nodes |-> Applied(pending[c].queued[i], step[i - 1].nodes)]
        ELSE [ok |-> FALSE, nodes |-> nodes]
  IN  step[Len(pending[c].queued)]

(* commit_transaction(): all of it or nothing; a refused one stays pending.  *)
CommitTransaction(c, expected) ==
  /\ pending[c].open /\ planned[Session[c]] = expected /\ Candidate(c).ok
  /\ nodes' = Candidate(c).nodes
  /\ named' = [n \in Nodes |-> IF Owner(n) = Session[c] THEN nodes'[n] ELSE named[n]]
  /\ pending' = [pending EXCEPT ![c] = NoTx]
  /\ Invalidate
  /\ UNCHANGED <<sessionVars, mediaVars, anchorVars, posterVars>>

-----------------------------------------------------------------------------
(* The renderer.                                                             *)

(* draw(): a snapshot with the revisions of the last one is not drawn again. *)
Draw ==
  /\ marking = {}
  /\ cache' = IF cache.valid THEN cache ELSE [valid |-> TRUE, items |-> Render]
  /\ fresh' = TRUE
  /\ IF fresh THEN UNCHANGED renderer ELSE drawn' = cache'.items /\ marking' = cache'.items
  /\ UNCHANGED world

(* mark_presented(), for one drawn item: superseded ones are ignored.        *)
Acknowledged(i) ==
  /\ surfaces[Surface[i.track]].live
  /\ surfaces[Surface[i.track]].generation = i.surface_generation
  /\ tracks[i.track].live
  /\ tracks[i.track].generation = i.channel_generation /\ tracks[i.track].frame = i.frame

MarkPresented(i) ==
  /\ i \in marking /\ marking' = marking \ {i}
  /\ tracks' = IF Acknowledged(i)
               THEN [tracks EXCEPT ![i.track].presented = surfaces[Surface[i.track]].generation]
               ELSE tracks
  /\ OnlyTracks /\ UNCHANGED <<cache, fresh, drawn>>

-----------------------------------------------------------------------------
SessionStep ==
  \/ \E s \in Sessions, g \in 1 .. MaxTarget : RegisterSession(s, g)
  \/ \E g \in 1 .. MaxTarget : AdvanceTarget(g)
  \/ \E s \in Sessions : RemoveSession(s) \/ SuspendSession(s)
  \/ \E s \in Sessions, kept \in SUBSET UNION {Poster(n) : n \in Nodes} : DetachSession(s, kept)
  \/ \E c \in Contexts : RemoveContext(c)

SurfaceStep ==
  \/ \E x \in Surfaces : CreateSurface(x) \/ DestroySurface(x)
  \/ \E x \in Surfaces, remap, deny \in BOOLEAN : UpdateSurface(x, remap, deny)
  \/ \E x \in Surfaces, k \in Slots : ClearSlot(x, k)
  \/ \E t \in stage.tracks : \/ CreateTrack(t) \/ DestroyTrack(t) \/ ActivateTrack(t)
                            \/ AdvanceChannel(t)
  \/ \E t \in stage.tracks, g \in 1 .. MaxChannelGen :
       LoseTrack(t, g) \/ \E f \in stage.frames : PublishDecodedFrame(t, g, f)

AnchorStep ==
  \/ \E a \in stage.anchors, b \in BOOLEAN : AddAnchor(a, b)
  \/ \E gone \in SUBSET stage.anchors : MoveAnchors(gone)
  \/ ClearTerminal \/ SetAlternateScreen

TransactionStep ==
  \/ \E c \in Contexts : BeginTransaction(c) \/ AbortTransaction(c)
  \/ \E c \in Contexts, m \in Mutations(stage.anchors) : QueueMutation(c, m)
  \/ \E c \in Contexts, g \in 1 .. MaxTarget : CommitTransaction(c, g)

RenderStep == Draw \/ \E i \in marking : MarkPresented(i)

Next == SessionStep \/ SurfaceStep \/ AnchorStep \/ TransactionStep \/ RenderStep \/ Reject

Spec == Init /\ [][Next]_vars

-----------------------------------------------------------------------------
(* The scene has its types, every generation and the posters their bound:    *)
(* detach_session() counts the posters of every session.                     *)
TypeOK ==
  /\ stage \in Stages
  /\ target \in 1 .. MaxTarget /\ live \cap ended = {} /\ detached \subseteq ended
  /\ planned \in [Sessions -> 0 .. MaxTarget]
  /\ nodes \in [Nodes -> NodeRecords(Anchors) \cup {NoNode}]
  /\ \A c \in Contexts : ~pending[c].open \/ Len(pending[c].queued) <= MaxMutations
  /\ \A x \in Surfaces : surfaces[x].live => surfaces[x].generation \in 1 .. MaxSurfaceGen
  /\ \A t \in Tracks : tracks[t].live => tracks[t].generation \in 1 .. MaxChannelGen
  /\ \A a \in Anchors : anchors[a].kind \in {"none", "gone", "at"}
  /\ Cardinality(posters) <= MaxPosters

(* The cached items are what a rebuild would make, however the scene was     *)
(* changed since (invalidate_topology(), replace_cached_frame()).            *)
CacheFresh == cache.valid => cache.items = Render

(* A draw that the renderer skips would have drawn what is on the screen     *)
(* already (SnapshotKey in draw()).                                          *)
SkipIsSound == fresh => drawn = Render

(* What is drawn, and what is kept to draw from, is the scene as it is.      *)
CacheSound == TypeOK /\ CacheFresh /\ SkipIsSound

(* An active slot names an existing track of its surface, configured for it, *)
(* through every destruction and revocation (destroy_track()).               *)
SlotsNameTracks ==
  \A x \in Surfaces : surfaces[x].live =>
    \A k \in Slots : \A t \in surfaces[x].slots[k] :
      tracks[t].live /\ Surface[t] = x /\ Slot[t] = k

(* Every live scene validates commits against the presenter's own target     *)
(* generation, however registrations and announcements cross                 *)
(* (advance_target_generation(), register_session()).                        *)
TargetAgreement == \A s \in live : planned[s] = target

(* What a session leaves behind is exactly what still shows: a poster has    *)
(* its anchor, and a detached session has a poster (gc_detached_sessions()). *)
PostersAnchored ==
  /\ \A p \in posters : At(p.anchor) /\ Owner(p.anchor) \in detached
  /\ \A s \in detached : \E p \in posters : Owner(p.anchor) = s

(* Between two scene revisions nodes only go, and only with their anchor: a  *)
(* commit that names the current revision meets the nodes its producer knows *)
(* of (commit_transaction(), destroy_surface(), remove_contexts()).          *)
RevisionNamesNodes ==
  \A n \in Nodes : nodes[n] # named[n] =>
    nodes[n] = NoNode /\ named[n].anchor # NoAnchor /\ ~At(named[n].anchor)

(* Slots and revisions name what exists: neither a destruction nor a         *)
(* revocation leaves a name behind it (destroy_track(), destroy_surface()).  *)
NamesResolve == SlotsNameTracks /\ RevisionNamesNodes
=============================================================================
