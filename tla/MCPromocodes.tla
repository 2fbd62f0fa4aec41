---------------------------- MODULE MCPromocodes ----------------------------
(* The symmetry of the runs of Promocodes.                                 *)
EXTENDS Promocodes, TLC

Symmetry == Permutations(Calls) \cup Permutations(Rows)
=============================================================================
