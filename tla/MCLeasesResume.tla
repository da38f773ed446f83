--------------------------- MODULE MCLeasesResume ---------------------------
(* Leases by itself for TLC, with its symmetry. *)
EXTENDS Leases, TLC

ConnSymmetry == Permutations(Conns)
=============================================================================
