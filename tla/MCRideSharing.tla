---------------------------- MODULE MCRideSharing ----------------------------
(* The sessions are alike. *)
EXTENDS RideSharing, TLC
Symmetry == Permutations(Sessions)
=============================================================================
