-------------------------------- MODULE Lane --------------------------------
(***************************************************************************)
(* The interactive lane of one Vivid session (src/vivid/lane.rs and         *)
(* handle_lane(), serve_lane(), LaneCleanup and send_input() in             *)
(* src/vivid/mod.rs): the slot that names the one admitted transport, the   *)
(* egress installed for it, the input grant, the threads of the connections *)
(* that open a lane and the window's thread that sends input and revokes    *)
(* it.  Each action is one critical section.                                *)
(***************************************************************************)
EXTENDS Naturals

CONSTANTS
  Lanes,       \* lane connections, each used once
  NoLane,      \* the absence of one
  Generations, \* lane generations a producer uses
  Nonces       \* client nonces a producer uses

ASSUME LaneAssumption == NoLane \notin Lanes /\ Generations \subseteq Nat \ {0}

VARIABLES
  slot,      \* SessionRuntime.lane, or NoSlot
  installed, \* the lane whose egress is SessionRuntime.lane_egress
  grant,     \* the lane whose binding made the input grant active, or NoLane
  lane,      \* the lane connections
  window     \* where the window's thread is in send_input()

vars == <<slot, installed, grant, lane, window>>

NoSlot == [generation |-> 0, nonce |-> 0, live |-> FALSE, admitted_input |-> FALSE]
Slots  == [generation : Generations, nonce : Nonces, live : BOOLEAN, admitted_input : BOOLEAN]

Places == {"idle", "admitted", "serving", "eligible", "ineligible", "cleanup", "owned",
           "confirmed", "uninstall", "closed"}

TypeOK ==
  /\ slot \in Slots \cup {NoSlot}
  /\ installed \in Lanes \cup {NoLane}
  /\ grant \in Lanes \cup {NoLane}
  /\ lane \in [Lanes -> [place : Places, generation : Generations \cup {0}]]
  /\ window \in {"idle", "tagged", "posted"}

Init ==
  /\ slot = NoSlot /\ installed = NoLane /\ grant = NoLane
  /\ lane = [l \in Lanes |-> [place |-> "idle", generation |-> 0]]
  /\ window = "idle"

Place(l) == lane[l].place
Generation(l) == lane[l].generation
At(l, place) == lane' = [lane EXCEPT ![l].place = place]

-----------------------------------------------------------------------------
(* Mutant: a retry is not checked against a transport that is still live.    *)
ReplaysWhileBusy(g, n) == g = slot.generation /\ n = slot.nonce /\ ~slot.admitted_input

(* lane::admit(), the two ways a LANE_OPEN is admitted.                      *)
Accepts(g) == slot = NoSlot \/ g > slot.generation
Replays(g, n) ==
  g = slot.generation /\ n = slot.nonce /\ ~slot.live /\ ~slot.admitted_input

OpenAccepted(l, g, n) ==
  /\ Place(l) = "idle" /\ Accepts(g)
  /\ slot' = [generation |-> g, nonce |-> n, live |-> TRUE, admitted_input |-> FALSE]
  /\ lane' = [lane EXCEPT ![l] = [place |-> "admitted", generation |-> g]]
  /\ UNCHANGED <<installed, grant, window>>

OpenReplayed(l, g, n) ==
  /\ Place(l) = "idle" /\ Replays(g, n)
  /\ slot' = [slot EXCEPT !.live = TRUE]
  /\ lane' = [lane EXCEPT ![l] = [place |-> "admitted", generation |-> g]]
  /\ UNCHANGED <<installed, grant, window>>

(* Busy, or refused: the connection ends with an error and owns nothing.     *)
OpenRefused(l, g, n) ==
  /\ Place(l) = "idle" /\ ~Accepts(g) /\ ~Replays(g, n)
  /\ At(l, "closed")
  /\ UNCHANGED <<slot, installed, grant, window>>

(* LANE_ACCEPTED is written and the egress installed for the session.        *)
Install(l) ==
  /\ Place(l) = "admitted"
  /\ installed' = l
  /\ At(l, "serving")
  /\ UNCHANGED <<slot, grant, window>>

(* SET_INPUT_BINDING: the eligibility is gathered, the slot's liveness among *)
(* it, and only then applied to the grant.                                   *)
BindGather(l) ==
  /\ Place(l) = "serving"
  /\ \/ slot.live /\ At(l, "eligible")
     \/ At(l, "ineligible")
  /\ UNCHANGED <<slot, installed, grant, window>>

(* An eligible binding activates the grant; one that is not ends it; a stale *)
(* epoch is refused and changes nothing.                                     *)
BindApply(l) ==
  /\ Place(l) \in {"eligible", "ineligible"}
  /\ \/ Place(l) = "eligible" /\ grant' = l
     \/ Place(l) = "ineligible" /\ grant' = NoLane
     \/ UNCHANGED grant
  /\ At(l, "serving")
  /\ UNCHANGED <<slot, installed, window>>

-----------------------------------------------------------------------------
(* The connection ends, or never came to serve; LaneCleanup::drop() follows. *)
Lose(l) ==
  /\ Place(l) \in {"admitted", "serving"}
  /\ At(l, "cleanup")
  /\ UNCHANGED <<slot, installed, grant, window>>

(* owns_lane is read under the slot's lock, which is then released.          *)
CleanupOwns(l) ==
  /\ Place(l) = "cleanup"
  /\ At(l, IF slot.generation = Generation(l) THEN "owned" ELSE "uninstall")
  /\ UNCHANGED <<slot, installed, grant, window>>

(* Mutant: the slot forgets which generation was lost.                       *)
CleanupForgetsGeneration(l) ==
  /\ Place(l) = "owned"
  /\ slot' = [slot EXCEPT !.live = FALSE, !.generation = 0]
  /\ At(l, "confirmed")
  /\ UNCHANGED <<installed, grant, window>>

(* Mutant: whatever generation the slot names is marked lost.                *)
CleanupConfirmsAny(l) ==
  /\ Place(l) = "owned"
  /\ slot' = [slot EXCEPT !.live = FALSE]
  /\ At(l, "confirmed")
  /\ UNCHANGED <<installed, grant, window>>

(* lane::confirm_lost(): only its own generation.                            *)
CleanupConfirms(l) ==
  /\ Place(l) = "owned"
  /\ slot' = IF slot.generation = Generation(l) THEN [slot EXCEPT !.live = FALSE] ELSE slot
  /\ At(l, "confirmed")
  /\ UNCHANGED <<installed, grant, window>>

(* Mutant: a lost lane leaves the grant to its watchdog.                     *)
CleanupKeepsGrant(l) ==
  /\ Place(l) = "confirmed"
  /\ At(l, "uninstall")
  /\ UNCHANGED <<slot, installed, grant, window>>

(* revoke_input(LANE_LOSS): whatever grant the session has.                  *)
CleanupRevokes(l) ==
  /\ Place(l) = "confirmed"
  /\ grant' = NoLane
  /\ At(l, "uninstall")
  /\ UNCHANGED <<slot, installed, window>>

(* Mutant: the egress is closed and stays installed.                         *)
CleanupLeavesEgress(l) ==
  /\ Place(l) = "uninstall"
  /\ At(l, "closed")
  /\ UNCHANGED <<slot, installed, grant, window>>

(* Take the egress out, if it is still this lane's, and close it.            *)
CleanupUninstalls(l) ==
  /\ Place(l) = "uninstall"
  /\ installed' = IF installed = l THEN NoLane ELSE installed
  /\ At(l, "closed")
  /\ UNCHANGED <<slot, grant, window>>

-----------------------------------------------------------------------------
(* send_input() on the window's thread: tag under the grant's lock, queue on *)
(* the installed egress, note the admission under the slot's lock.           *)
SendTag ==
  /\ window = "idle" /\ grant # NoLane
  /\ window' = "tagged"
  /\ UNCHANGED <<slot, installed, grant, lane>>

SendPost ==
  /\ window = "tagged"
  /\ window' = IF installed # NoLane THEN "posted" ELSE "idle"
  /\ UNCHANGED <<slot, installed, grant, lane>>

SendNote ==
  /\ window = "posted"
  /\ slot' = IF slot = NoSlot THEN slot ELSE [slot EXCEPT !.admitted_input = TRUE]
  /\ window' = "idle"
  /\ UNCHANGED <<installed, grant, lane>>

(* revoke_all_input(): focus loss or a policy change.                        *)
RevokeAll ==
  /\ window = "idle" /\ grant # NoLane
  /\ grant' = NoLane
  /\ UNCHANGED <<slot, installed, lane, window>>

-----------------------------------------------------------------------------
Cleanup(l) ==
  CleanupOwns(l) \/ CleanupConfirms(l) \/ CleanupRevokes(l) \/ CleanupUninstalls(l)

Open(l) ==
  \E g \in Generations, n \in Nonces :
    OpenAccepted(l, g, n) \/ OpenReplayed(l, g, n) \/ OpenRefused(l, g, n)

Next ==
  \/ SendTag \/ SendPost \/ SendNote \/ RevokeAll
  \/ \E l \in Lanes : Open(l) \/ Install(l) \/ BindGather(l) \/ BindApply(l) \/ Lose(l) \/ Cleanup(l)

Spec == Init /\ [][Next]_vars

-----------------------------------------------------------------------------
Attached(l) == Place(l) \in {"admitted", "serving", "eligible", "ineligible"}

(* "Core 7 permits only one transport per generation": a duplicate open, a   *)
(* retry and a cleanup still under way never leave two attached to one.      *)
OneTransportPerGeneration ==
  \A l, m \in Lanes : Attached(l) /\ Attached(m) /\ Generation(l) = Generation(m) => l = m

(* confirm_lost() leaves "a later generation untouched": the transport the   *)
(* slot names is never marked lost while its connection is attached.         *)
AttachedIsLive == \A l \in Lanes : Attached(l) /\ Generation(l) = slot.generation => slot.live

(* Events are queued only for a lane whose connection thread still exists:   *)
(* the installed egress is always one that its own cleanup will take out.    *)
InstalledIsOwned == installed # NoLane => Place(installed) \notin {"idle", "admitted", "closed"}

(* "Losing it revokes input": while one generation is in use, an active      *)
(* grant has a live lane under it, or the cleanup that will revoke it has    *)
(* not finished.  (With two, a binding gathered on the older lane may be     *)
(* applied after the newer one was lost and cleaned up.)                     *)
GrantHasLane ==
  grant # NoLane /\ (\A l \in Lanes : Generation(l) \in {0, slot.generation}) =>
    slot.live \/ \E l \in Lanes : Place(l) \in {"cleanup", "owned", "confirmed"}
=============================================================================
