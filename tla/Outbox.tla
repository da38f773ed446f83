------------------------------- MODULE Outbox -------------------------------
(***************************************************************************)
(* What an egress promises the threads that post to it: records leave in    *)
(* the order of their admission, without gaps or repetitions, and a closed  *)
(* outbox admits nothing any more.  The n-th admitted record is n.          *)
(***************************************************************************)
EXTENDS Naturals, Sequences

VARIABLES
  sent,   \* number of records admitted
  out,    \* records that left, in order
  open    \* records are still admitted

boxVars == <<sent, out, open>>

Init == sent = 0 /\ out = <<>> /\ open = TRUE

Admit   == open /\ sent' = sent + 1 /\ UNCHANGED <<out, open>>
Deliver == /\ Len(out) < sent
           /\ out' = Append(out, Len(out) + 1)
           /\ UNCHANGED <<sent, open>>
Shut    == open /\ open' = FALSE /\ UNCHANGED <<sent, out>>

Next == Admit \/ Deliver \/ Shut

Spec == Init /\ [][Next]_boxVars
=============================================================================
