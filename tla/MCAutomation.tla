---------------------------- MODULE MCAutomation ----------------------------
(* One load of Automation for TLC: two clients, one window. *)
EXTENDS Automation

CONSTANTS c1, c2

GestureLoads ==
    { [asks |-> (c1 :> <<"gesture">>) @@ (c2 :> <<"close">>),
       ids |-> (c1 :> {1}) @@ (c2 :> {1}), ops |-> {}] }
=============================================================================
