---------------------------- MODULE MCRedrawLive ----------------------------
(***************************************************************************)
(* What must happen in the end, in one run: that changes reach the screen,    *)
(* from the module this one extends, and that the egress of a connection ends  *)
(* once it is closed, an instance.  They share no state: part says which one   *)
(* a behaviour is about, and the other stays as it was.                       *)
(***************************************************************************)
EXTENDS Redraw, TLC

LiveStories == {[ops |-> {"reset", "exit"}, media |-> 1]}

VARIABLES part, v1, v2, v3, v4, v5, v6, v7, v8, v9, v10, v11, v12, v13, v14

Out == INSTANCE Egress WITH
  Posters <- {"q1", "q2"}, Capacity <- 3, MaxRecords <- 5,
  queue <- v1, closed <- v2, poisoned <- v3, overflowed <- v4, handle <- v5, down <- v6,
  inflight <- v7, wire <- v8, accepted <- v9, worker <- v10, poster <- v11, installer <- v12,
  actor <- v13, gaveUp <- v14

outVars == <<v1, v2, v3, v4, v5, v6, v7, v8, v9, v10, v11, v12, v13, v14>>
bothVars == <<part, vars, outVars>>

BothInit ==
  /\ Init /\ Out!Init
  /\ part = "redraw" \/ (part = "egress" /\ direct)

BothNext ==
  /\ UNCHANGED part
  /\ \/ part = "redraw" /\ Next /\ UNCHANGED outVars
     \/ part = "egress" /\ Out!Next /\ UNCHANGED vars

(* Each part's own fairness; none of the steps Redraw's is about is enabled in *)
(* the initial state that it keeps in the other part.                         *)
EgressFair ==
  /\ WF_outVars(part = "egress" /\ Out!WorkerStep)
  /\ WF_outVars(part = "egress" /\ (Out!InstallCheck \/ Out!InstallStore))
  /\ WF_outVars(part = "egress" /\ (Out!ActorJoined \/ Out!ActorStop))
  /\ \A p \in {"q1", "q2"} : WF_outVars(part = "egress" /\ Out!SendOverflowStop(p))

BothSpec == BothInit /\ [][BothNext]_bothVars /\ Fairness /\ EgressFair

-----------------------------------------------------------------------------
(* A connection that closes, in order or not, ends: nobody hangs in join() and *)
(* no reader stays behind (egress.rs join, set_shutdown).                      *)
ClosingEnds == Out!CloseCompletes /\ Out!AbandonedIsCut
=============================================================================
