------------------------------ MODULE MCRedraw ------------------------------
(* Instances of Redraw for TLC. *)
EXTENDS Redraw, TLC

(* Two media changes, of which one can hide behind the other's wake; a reader  *)
(* that faults with one; a child that exits, or hangs up first, or a client    *)
(* that is reset with none.                                                    *)
RedrawStories == {[ops |-> {"occlude"}, media |-> 2],
                  [ops |-> {"occlude", "fault"}, media |-> 1],
                  [ops |-> {"reset", "exit"}, media |-> 0]}

ProducerSymmetry == Permutations(Producers)
=============================================================================
