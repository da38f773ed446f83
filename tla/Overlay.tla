------------------------------ MODULE Overlay -------------------------------
(***************************************************************************)
(* The overlay host (vivid/overlay.rs) for one producer with one window on  *)
(* one surface: channel workers compile scenes of its vector tracks, the     *)
(* session's actor activates, advances and destroys them and sends receipts, *)
(* the window's thread draws, the user dismisses, and the input lane, whose  *)
(* loss revokes everything, comes and goes.  One action is a critical        *)
(* section of the host's mutex, or a step of the shared scene between two.   *)
(*                                                                         *)
(* The host keeps a track's compiled scene and its submission together;      *)
(* held is both.  Revisions are unique on a surface (accepted).              *)
(***************************************************************************)
EXTENDS Naturals, Sequences, FiniteSets, SequencesExt

CONSTANTS
  Tracks, NoTrack,
  MaxRevision,   \* bounds the scenes submitted
  MaxChannels,   \* bounds the channel generations of a track
  Capacity       \* receipts a session may be owed

VARIABLES
  scene,    \* SharedScene: [surface, active, generation (0: no such track), lost]
  channel,  \* channel[t][g]: the worker of generation g of track t
  window,   \* vivid_protocol's model: [at, revision, visible]
  host,     \* Host, see Init
  lane,     \* where the interactive lane is
  actor,    \* the session's actor: [at, track]; woken is a Wake in its mailbox
  drawer,   \* where the window's thread is in a draw
  told,     \* history, while the owner has its lane: receipts posted to it
  admitted  \* and submissions admitted

vars == <<scene, channel, window, host, lane, actor, drawer, told, admitted>>

None == [track |-> NoTrack, generation |-> 0, revision |-> 0]
Tuples == [track : Tracks, generation : 1 .. MaxChannels, revision : 1 .. MaxRevision]

Empty ==
  [known |-> FALSE,                        \* surfaces
   held |-> [t \in Tracks |-> None],       \* scenes and submissions
   active |-> None, accepted |-> 0,
   pending |-> {}, outcomes |-> <<>>, overflow |-> FALSE,
   displayed |-> None, inflight |-> None,
   lanes |-> FALSE, actors |-> FALSE]

Init ==
  /\ scene = [surface |-> TRUE, active |-> NoTrack,
              generation |-> [t \in Tracks |-> 1], lost |-> {}]
  /\ channel = [t \in Tracks |-> [g \in 1 .. MaxChannels |-> "none"]]
  /\ window = [at |-> "none", revision |-> 0, visible |-> FALSE]
  /\ host = Empty
  /\ lane = "none"
  /\ actor = [at |-> "idle", track |-> NoTrack, woken |-> FALSE]
  /\ drawer = "idle"
  /\ told = <<>> /\ admitted = {}

-----------------------------------------------------------------------------
(* Operations of the host, from a host to a host.                             *)

resolve(h, s, outcome) ==
  IF s \in h.pending
  THEN [h EXCEPT !.pending = @ \ {s}, !.outcomes = Append(@, [of |-> s, outcome |-> outcome])]
  ELSE h

(* Mutant: what is being composed is superseded as well.                      *)
supersedeComposed(h, s) == resolve(h, s, "superseded")

(* Not what is being composed: finish will say how that ended.                *)
supersede(h, s) == IF h.inflight = s THEN h ELSE resolve(h, s, "superseded")

remove_track(h, t) ==
  LET left == supersede([h EXCEPT !.held[t] = None], h.held[t])
  IN [left EXCEPT !.active = IF @.track = t THEN None ELSE @]

(* Any receipt the surface is owed becomes superseded, in no particular order. *)
retire_presentation(h) ==
  LET left == FoldLeft(LAMBDA acc, s : resolve(acc, s, "superseded"), h, SetToSeq(h.pending))
  IN [left EXCEPT !.displayed = None, !.inflight = None, !.active = None,
                  !.held = Empty.held]

remove_surface(h) == [retire_presentation(h) EXCEPT !.accepted = 0, !.known = FALSE]

(* What a track's channel generation and its compiled scene say together.     *)
Current(t) == scene.generation[t] # 0 /\ t \notin scene.lost
ActiveTrack == IF scene.active # NoTrack /\ Current(scene.active) THEN scene.active ELSE NoTrack

sync_active(h, t) ==
  IF t = NoTrack \/ h.held[t] = None \/ h.held[t].generation # scene.generation[t] THEN h
  ELSE LET old == h.active
           new == [h EXCEPT !.active = h.held[t]]
       IN IF old # None /\ old # h.held[t] THEN supersede(new, old) ELSE new

(* Scene revisions advance across tracks.                                     *)
Advances(r) == r > window.revision /\ r > host.active.revision

(* What a draw shows of the window: its active track's scene, or what it       *)
(* showed before when another track's scene has replaced that one.            *)
drawing ==
  IF window.at # "open" \/ ~window.visible \/ ActiveTrack = NoTrack THEN None
  ELSE IF host.held[ActiveTrack] = None THEN host.displayed
  ELSE IF host.held[ActiveTrack].generation # scene.generation[ActiveTrack] THEN None
  ELSE host.held[ActiveTrack]

(* A receipt, or a window that is gone, wakes the actor the host knows of.     *)
Woken(h) == [actor EXCEPT !.woken = @ \/ (h.actors /\ h.outcomes # host.outcomes)]
Become(h) == host' = h /\ actor' = Woken(h)

-----------------------------------------------------------------------------
(* The input lane and the window.                                            *)

OpenLane ==
  /\ lane = "none"
  /\ lane' = "opened"
  /\ host' = [host EXCEPT !.lanes = TRUE]
  /\ UNCHANGED <<scene, channel, window, actor, drawer, told, admitted>>

InstallLane ==
  /\ lane = "opened"
  /\ lane' = "installed"
  /\ host' = [host EXCEPT !.actors = TRUE]
  /\ actor' = [actor EXCEPT !.woken = TRUE]
  /\ UNCHANGED <<scene, channel, window, drawer, told, admitted>>

(* LaneCleanup: the lane's end revokes the owner (remove_owner), then its      *)
(* surfaces go.                                                              *)
LaneLost ==
  /\ lane \in {"opened", "installed", "stopped"}
  /\ IF host.lanes
     THEN /\ host' = Empty
          /\ window' = [window EXCEPT !.at = "gone"]
          /\ lane' = IF host.known THEN "cleaning" ELSE "over"
          /\ told' = <<>> /\ admitted' = {}
     ELSE lane' = "over" /\ UNCHANGED <<host, window, told, admitted>>
  /\ UNCHANGED <<scene, channel, actor, drawer>>

Gone == [scene EXCEPT !.surface = FALSE, !.active = NoTrack,
                      !.generation = [t \in Tracks |-> 0], !.lost = {}]

LaneDestroys ==
  /\ lane = "cleaning"
  /\ scene' = Gone
  /\ lane' = "over"
  /\ UNCHANGED <<channel, window, host, actor, drawer, told, admitted>>

(* SET_OVERLAY_WINDOW; a surface whose window was dismissed is not reopened.  *)
CreateWindow ==
  /\ actor.at = "idle" /\ scene.surface /\ host.lanes /\ ~host.known
  /\ \E v \in BOOLEAN : window' = [at |-> "open", revision |-> 0, visible |-> v]
  /\ host' = [host EXCEPT !.known = TRUE]
  /\ UNCHANGED <<scene, channel, lane, actor, drawer, told, admitted>>

UpdateWindow ==
  /\ actor.at = "idle" /\ window.at = "open" /\ host.lanes
  /\ window' = [window EXCEPT !.visible = ~@]
  /\ UNCHANGED <<scene, channel, host, lane, actor, drawer, told, admitted>>

(* Escape, a press outside, or the producer's own action.                     *)
Dismiss ==
  /\ window.at = "open"
  /\ window' = [window EXCEPT !.at = "gone"]
  /\ actor' = [actor EXCEPT !.woken = @ \/ host.actors]
  /\ UNCHANGED <<scene, channel, host, lane, drawer, told, admitted>>

-----------------------------------------------------------------------------
(* Channel workers.                                                          *)

OpenChannel(t) ==
  /\ Current(t) /\ channel[t][scene.generation[t]] = "none"
  /\ channel' = [channel EXCEPT ![t][scene.generation[t]] = "open"]
  /\ UNCHANGED <<scene, window, host, lane, actor, drawer, told, admitted>>

Full == Cardinality(host.pending) + Len(host.outcomes) >= Capacity

(* VectorWorker::process: a compiled scene is admitted and replaces whatever   *)
(* the window's tracks hold, primed ones as well.                             *)
Frame(t, g, r) ==
  /\ channel[t][g] = "open"
  /\ host.known /\ ~Full /\ r > host.accepted /\ window.at = "open"
  /\ ActiveTrack = t => Advances(r)
  /\ Current(t) /\ scene.generation[t] = g
  /\ LET s == [track |-> t, generation |-> g, revision |-> r]
         others == SetToSeq({u \in Tracks \ {t} : host.held[u] # None})
         retired == FoldLeft(LAMBDA h, u : supersede([h EXCEPT !.held[u] = None], h.held[u]),
                             host, others)
         kept == [retired EXCEPT !.held[t] = s, !.accepted = r, !.pending = @ \cup {s}]
         replaced == supersede(kept, host.held[t])
     IN /\ Become(sync_active(replaced, ActiveTrack))
        /\ admitted' = admitted \cup {s}
  /\ UNCHANGED <<scene, channel, window, lane, drawer, told>>

(* A producer that is owed too many receipts loses its lane.                  *)
FrameOverflows(t, g) ==
  /\ channel[t][g] = "open"
  /\ host.known /\ Full
  /\ host' = [host EXCEPT !.overflow = TRUE]
  /\ actor' = [actor EXCEPT !.woken = @ \/ host.actors]
  /\ channel' = [channel EXCEPT ![t][g] = "failed"]
  /\ UNCHANGED <<scene, window, lane, drawer, told, admitted>>

(* A record is refused, or the peer goes.                                     *)
ChannelFails(t, g) ==
  /\ channel[t][g] = "open"
  /\ channel' = [channel EXCEPT ![t][g] = "failed"]
  /\ UNCHANGED <<scene, window, host, lane, actor, drawer, told, admitted>>

(* lose_track, unless the track has gone on; the host hears of it afterwards. *)
LoseTrack(t, g) ==
  /\ channel[t][g] = "failed"
  /\ LET losing == Current(t) /\ scene.generation[t] = g
     IN /\ scene' = IF losing THEN [scene EXCEPT !.lost = @ \cup {t}] ELSE scene
        /\ channel' = [channel EXCEPT ![t][g] = IF losing THEN "lost" ELSE "over"]
  /\ UNCHANGED <<window, host, lane, actor, drawer, told, admitted>>

TrackLost(t, g) ==
  /\ channel[t][g] = "lost"
  /\ Become(IF host.held[t] # None /\ host.held[t].generation = g
            THEN remove_track(host, t) ELSE host)
  /\ channel' = [channel EXCEPT ![t][g] = "over"]
  /\ UNCHANGED <<scene, window, lane, drawer, told, admitted>>

-----------------------------------------------------------------------------
(* The session's actor.                                                      *)

(* ACTIVATE_TRACK: validated, activated and synchronised in one section.      *)
Activate(t) ==
  /\ actor.at = "idle" /\ scene.surface /\ Current(t)
  /\ \/ ActiveTrack = t /\ host.active.generation = scene.generation[t]
     \/ /\ host.held[t] # None /\ host.held[t].generation = scene.generation[t]
        /\ ActiveTrack # t => window.at = "open" /\ Advances(host.held[t].revision)
  /\ scene' = [scene EXCEPT !.active = t]
  /\ Become(sync_active(host, t))
  /\ UNCHANGED <<channel, window, lane, drawer, told, admitted>>

(* ADVANCE_CHANNEL and DESTROY_TRACK: the scene first, then the host.         *)
AdvanceChannel(t) ==
  /\ actor.at = "idle" /\ Current(t) /\ scene.generation[t] < MaxChannels
  /\ scene' = [scene EXCEPT !.generation[t] = @ + 1]
  /\ actor' = [actor EXCEPT !.at = "track", !.track = t]
  /\ UNCHANGED <<channel, window, host, lane, drawer, told, admitted>>

DestroyTrack(t) ==
  /\ actor.at = "idle" /\ scene.generation[t] # 0
  /\ scene' = [scene EXCEPT !.generation[t] = 0, !.lost = @ \ {t},
                            !.active = IF @ = t THEN NoTrack ELSE @]
  /\ actor' = [actor EXCEPT !.at = "track", !.track = t]
  /\ UNCHANGED <<channel, window, host, lane, drawer, told, admitted>>

TrackRemoved ==
  /\ actor.at = "track"
  /\ LET h == remove_track(host, actor.track)
     IN host' = h /\ actor' = [Woken(h) EXCEPT !.at = "idle", !.track = NoTrack]
  /\ UNCHANGED <<scene, channel, window, lane, drawer, told, admitted>>

DestroySurface ==
  /\ actor.at = "idle" /\ scene.surface
  /\ scene' = Gone
  /\ actor' = [actor EXCEPT !.at = "surface"]
  /\ UNCHANGED <<channel, window, host, lane, drawer, told, admitted>>

SurfaceRemoved ==
  /\ actor.at = "surface"
  /\ LET h == remove_surface(host)
     IN host' = h /\ actor' = [Woken(h) EXCEPT !.at = "idle"]
  /\ window' = [window EXCEPT !.at = "gone"]
  /\ UNCHANGED <<scene, channel, lane, drawer, told, admitted>>

(* service_input: receipts a dismissed window is owed, then the lane's health, *)
(* then the receipts, in order, until the lane refuses one.  A watchdog that   *)
(* ran out needs no Wake.  With its lane the owner loses what it was owed.     *)
Serviced == IF host.known /\ window.at = "gone" THEN retire_presentation(host) ELSE host

ServiceInput ==
  /\ actor.at = "idle" /\ actor.woken /\ lane = "installed" /\ ~host.overflow
  /\ told' = told \o Serviced.outcomes
  /\ host' = [Serviced EXCEPT !.outcomes = <<>>]
  /\ actor' = [actor EXCEPT !.woken = FALSE]
  /\ UNCHANGED <<scene, channel, window, lane, drawer, admitted>>

ServiceFails ==
  /\ actor.at = "idle" /\ lane = "installed" /\ host.lanes
  /\ host' = Empty
  /\ told' = <<>> /\ admitted' = {}
  /\ window' = [window EXCEPT !.at = "gone"]
  /\ actor' = [actor EXCEPT !.at = "revoked", !.woken = FALSE]
  /\ UNCHANGED <<scene, channel, lane, drawer>>

RevokedDestroys ==
  /\ actor.at = "revoked"
  /\ scene' = Gone
  /\ actor' = [actor EXCEPT !.at = "idle"]
  /\ lane' = IF lane = "installed" THEN "stopped" ELSE lane
  /\ UNCHANGED <<channel, window, host, drawer, told, admitted>>

(* The Wake finds no lane to write to.                                        *)
WakeIgnored ==
  /\ actor.at = "idle" /\ actor.woken /\ lane # "installed"
  /\ actor' = [actor EXCEPT !.woken = FALSE]
  /\ UNCHANGED <<scene, channel, window, host, lane, drawer, told, admitted>>

-----------------------------------------------------------------------------
(* The window's thread.                                                      *)

finish(h, presented) ==
  LET d == h.inflight
      shown == presented /\ window.at = "open"
      cleared == [h EXCEPT !.inflight = None]
      done == IF shown THEN [resolve(cleared, d, "presented") EXCEPT !.displayed = d] ELSE cleared
      left == IF d \in Range(h.held) THEN done ELSE resolve(done, d, "superseded")
  IN IF d = None THEN cleared ELSE left

(* A draw gives up the frame of an earlier one that was not presented, and     *)
(* reserves what it composes.                                                *)
Draw ==
  /\ drawer = "idle"
  /\ Become([finish(host, FALSE) EXCEPT !.inflight = drawing])
  /\ drawer' = "drawn"
  /\ UNCHANGED <<scene, channel, window, lane, told, admitted>>

Present ==
  /\ drawer = "drawn"
  /\ Become(finish(host, TRUE))
  /\ window' = IF host.inflight # None /\ window.at = "open"
                  /\ window.revision < host.inflight.revision
               THEN [window EXCEPT !.revision = host.inflight.revision] ELSE window
  /\ drawer' = "idle"
  /\ UNCHANGED <<scene, channel, lane, told, admitted>>

NotPresented ==
  /\ drawer = "drawn"
  /\ drawer' = "idle"
  /\ UNCHANGED <<scene, channel, window, host, lane, actor, told, admitted>>

Next ==
  \/ OpenLane \/ InstallLane \/ LaneLost \/ LaneDestroys
  \/ CreateWindow \/ UpdateWindow \/ Dismiss
  \/ \E t \in Tracks :
       \/ OpenChannel(t) \/ Activate(t) \/ AdvanceChannel(t) \/ DestroyTrack(t)
       \/ \E g \in 1 .. MaxChannels :
            \/ FrameOverflows(t, g) \/ ChannelFails(t, g) \/ LoseTrack(t, g) \/ TrackLost(t, g)
            \/ \E r \in 1 .. MaxRevision : Frame(t, g, r)
  \/ TrackRemoved \/ DestroySurface \/ SurfaceRemoved
  \/ ServiceInput \/ ServiceFails \/ RevokedDestroys \/ WakeIgnored
  \/ Draw \/ Present \/ NotPresented

Spec == Init /\ [][Next]_vars

-----------------------------------------------------------------------------
Receipts == told \o host.outcomes
OutcomeOf(s) == {Receipts[i].outcome : i \in {i \in DOMAIN Receipts : Receipts[i].of = s}}

TypeOK ==
  /\ scene.active \in Tracks \cup {NoTrack} /\ window.revision \in 0 .. MaxRevision
  /\ host.pending \subseteq admitted /\ admitted \subseteq Tuples
  /\ {host.active, host.displayed, host.inflight} \cup Range(host.held) \subseteq Tuples \cup {None}
  /\ Cardinality(host.pending) + Len(host.outcomes) <= Capacity

(* While the owner keeps its lane, every scene it submitted is either waiting  *)
(* or has had its one receipt, and one that waits will get it: the host still  *)
(* holds it, composes it, or is about to see that its window is gone.          *)
ReceiptsKept ==
  /\ \A i, j \in DOMAIN Receipts : Receipts[i].of = Receipts[j].of => i = j
  /\ host.lanes => \A s \in admitted : (s \in host.pending) # (OutcomeOf(s) # {})
  /\ \A s \in host.pending :
       s \in Range(host.held) \/ s = host.inflight \/ (window.at = "gone" /\ host.known)

(* "A newer candidate cannot retire it mid-render": what is displayed has been *)
(* reported presented, and input names the revision that is displayed.         *)
DisplayedPresented ==
  host.displayed # None =>
    /\ OutcomeOf(host.displayed) \subseteq {"presented"}
    /\ host.displayed \notin host.pending
    /\ window.at = "open" => host.displayed.revision = window.revision

(* No receipt waits for an actor nobody woke, nor does a dismissed window.      *)
ReceiptsFetched ==
  (lane = "installed" /\ host.actors
     /\ (host.outcomes # <<>> \/ (window.at = "gone" /\ host.pending # {}))) =>
    actor.woken \/ actor.at # "idle"

OverlayKept ==
  TypeOK /\ ReceiptsKept /\ DisplayedPresented /\ ReceiptsFetched
=============================================================================
