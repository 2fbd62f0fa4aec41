------------------------- MODULE MCTripSettlement --------------------------
(* The symmetry of the runs of TripSettlement.                             *)
EXTENDS TripSettlement, TLC

Symmetry == Permutations(Finishes) \cup Permutations(Trips)
=============================================================================
