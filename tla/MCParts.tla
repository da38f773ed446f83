------------------------------- MODULE MCParts -------------------------------
(***************************************************************************)
(* Instance of AllParts: what is sent to the parts that take a script.         *)
(***************************************************************************)
EXTENDS AllParts

(* What the window sends a PTY worker: input, a reset between inputs, a     *)
(* resize, and the end.                                                     *)
Message(kind, bytes) == [kind |-> kind, bytes |-> bytes]
MCSends ==
  <<Message("input", 2), Message("input", 1), Message("reset", 0), Message("input", 2),
    Message("resize", 0), Message("shutdown", 0)>>

(* The two lives and the client of one build and endpoint, a life of another *)
(* build, and one of another endpoint.                                       *)
Plain == [a \in Lives \cup Clients |-> [build |-> 1, path |-> "named"]]
MCLaunches ==
  {Plain, [Plain EXCEPT !["l2"].build = 2], [Plain EXCEPT !["l2"].path = "asked"]}

MCSizes ==
  {[lines |-> 3, columns |-> 3], [lines |-> 1, columns |-> 2], [lines |-> 2, columns |-> 2]}
=============================================================================
