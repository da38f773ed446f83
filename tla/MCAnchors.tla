------------------------------ MODULE MCAnchors ------------------------------
(* Two panes for TLC: one that sends each event by itself, and one whose     *)
(* events are batched, as on Windows.                                        *)
EXTENDS Anchors

MCPanes ==
  {[windows |-> FALSE, rows |-> {1, 2}, history |-> 1, limit |-> 1],
   [windows |-> TRUE, rows |-> {1}, history |-> 0, limit |-> 2]}
=============================================================================
