----------------------------- MODULE MCRenewals -----------------------------
(* The symmetry of the run of Renewals.                                    *)
EXTENDS Renewals, TLC

Symmetry == Permutations(Options)
=============================================================================
