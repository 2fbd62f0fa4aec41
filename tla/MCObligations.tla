--------------------------- MODULE MCObligations ---------------------------
(* The symmetry of the run of Obligations.                                 *)
EXTENDS Obligations, TLC

Symmetry == Permutations(Calls) \cup Permutations(Debts)
=============================================================================
