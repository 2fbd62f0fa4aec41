--------------------------- MODULE MCTripProcess ---------------------------
(* The symmetry and the bounds of the runs of TripProcess.                 *)
EXTENDS TripProcess, FiniteSets, TLC

Symmetry ==
  Permutations(Trips) \cup Permutations(Finishes)

\* One call of start at a time.
OneStartAtATime ==
  Cardinality({t \in Trips : startPc[t] \in RunningPcs \cup UndoPcs}) <= 1
=============================================================================
