------------------------------ MODULE MCLeases ------------------------------
(***************************************************************************)
(* What is asked for and must end, in one run: the leases of the Vivid        *)
(* service, whose module this one extends, and the requests of the automation  *)
(* endpoint, an instance.  They share no state: part says which one a          *)
(* behaviour is about, and the other keeps its initial values.                *)
(***************************************************************************)
EXTENDS Leases, TLC

CONSTANTS a1, a2, w, None

VARIABLES
  part,
  v1, v2, v3, v4, v5, v6, v7, v8, v9, v10, v11, v12, v13, v14, v15, v16

(* Loads of the automation endpoint: two clients, one window.  Where both may *)
(* use the number 1, a wait of one stands before the resize of the other;     *)
(* the screenshots beside a fault include the one that takes another's place. *)
Asks(a, b) == (a1 :> a) @@ (a2 :> b)
L(a, b, ids1, ids2, ops) == [asks |-> Asks(a, b), ids |-> Asks(ids1, ids2), ops |-> ops]

PassLoads == {
    L(<<"ping">>, <<"host">>, {1}, {1}, {"hello", "drop"}),
    L(<<"write", "seq">>, <<"close">>, {1}, {2}, {"drop", "activity"}),
    L(<<"gesture">>, <<"path">>, {1}, {1}, {"drop", "activity", "fault"}),
    L(<<"resize">>, <<"seq", "resize">>, {1}, {1}, {"resized", "activity", "exit"}),
    L(<<"resize">>, <<"seq">>, {1}, {1}, {"resized", "fault"}),
    L(<<"finish", "exit">>, <<"write", "write">>, {1, 2}, {1}, {"commands", "exit", "hold"}),
    L(<<"write">>, <<"reset", "restart">>, {1}, {1}, {"fault"}),
    L(<<"shot", "host">>, <<"shot", "shot">>, {1, 2}, {1, 2}, {"drop"}),
    L(<<"shot", "shot">>, <<"shot", "shot">>, {1, 2}, {1, 2}, {"drop", "fault"}),
    L(<<"shot">>, <<"close", "exit">>, {1}, {1}, {"exit"}) }

Clients == {a1, a2}
RequestIds == {1, 2}

Auto == INSTANCE Automation WITH
  Conns <- Clients, Wins <- {w}, Ids <- RequestIds, Loads <- PassLoads,
  OutCap <- 2, MaxInFlight <- 2, MaxConnections <- 2, Points <- 2, MaxSeq <- 2,
  load <- v1, asked <- v2, reader <- v3, ep <- v4, inbox <- v5, win <- v6, gesture <- v7,
  timer <- v8, tick <- v9, host <- v10, encoders <- v11, encoded <- v12, records <- v13,
  pressed <- v14, token <- v15, replaced <- v16

autoVars == <<v1, v2, v3, v4, v5, v6, v7, v8, v9, v10, v11, v12, v13, v14, v15, v16>>
bothVars == <<part, vars, autoVars>>

BothInit ==
  /\ Init
  /\ \/ /\ part = "leases"
        /\ v1 = 0 /\ v2 = 0 /\ v3 = 0 /\ v4 = 0 /\ v5 = 0 /\ v6 = 0 /\ v7 = 0 /\ v8 = 0
        /\ v9 = 0 /\ v10 = 0 /\ v11 = 0 /\ v12 = 0 /\ v13 = 0 /\ v14 = 0 /\ v15 = 0 /\ v16 = 0
     \/ part = "automation" /\ Auto!Init

BothNext ==
  /\ UNCHANGED part
  /\ \/ part = "leases" /\ Next /\ UNCHANGED autoVars
     \/ part = "automation" /\ Auto!Next /\ UNCHANGED vars

(* Each part's own fairness; a state predicate is asked of its part only.     *)
LeasesFair ==
  /\ WF_vars(part = "leases" /\ ExpireCollect) /\ WF_vars(part = "leases" /\ ExpireRevoke)
  /\ WF_vars(part = "leases" /\ IssuerReleases) /\ WF_vars(part = "leases" /\ IssuerRevokesAll)
  /\ WF_vars(part = "leases" /\ IssuerUnlisted) /\ WF_vars(part = "leases" /\ DeadlinePasses)
  /\ \A c \in Conns :
       /\ WF_vars(part = "leases" /\ (Establish(c) \/ EstablishRefused(c)))
       /\ WF_vars(part = "leases" /\ Serve(c)) /\ WF_vars(part = "leases" /\ Finish(c))

AutomationFair ==
  /\ \A c \in Clients : []<>(part = "automation" => Auto!Handled(c))
  /\ \A i \in 1 .. 4 : []<>(part = "automation" => Auto!WindowMoves(w)[i])
  /\ []<>(part = "automation" => Auto!EncodersEnd)
  /\ []<>(part = "automation" => Auto!HostServed)

BothSpec == BothInit /\ [][BothNext]_bothVars /\ LeasesFair /\ AutomationFair

-----------------------------------------------------------------------------
(* What the automation endpoint promises, as its module states it: requests   *)
(* held once and timed, but for a screenshot that another replaced after a    *)
(* fault (event.rs, schedule_automation_timer; window_context.rs,             *)
(* fail_automation_requests).                                                *)
RequestsHeld == part = "automation" => Auto!RequestsHeld

(* A wait whose condition came true moves on, but for a resize whose          *)
(* confirmation an older wait with the same request number received           *)
(* (event.rs, apply_automation_confirmations).                               *)
MetWaitsMove == part = "automation" => Auto!MetWaitsMove

(* No button stays down that no gesture is going to release (event.rs,        *)
(* release_paced_gesture).                                                   *)
ButtonReleased == part = "automation" => Auto!ButtonReleased

(* Every admitted request is answered, or its connection ends, or it is a     *)
(* screenshot that another replaced (event.rs, handle_ipc_request).          *)
RequestsEnd ==
  \A c \in Clients, id \in RequestIds :
    (part = "automation" /\ Auto!Asking(c, id)) ~> ~(part = "automation" /\ Auto!Asking(c, id))
=============================================================================
