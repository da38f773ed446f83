---------------------------- MODULE MCOverlayText ----------------------------
(* Overlay text by itself for TLC, with the symmetry of its sessions. *)
EXTENDS OverlayText, TLC

SessionSymmetry == Permutations(Sessions)
=============================================================================
