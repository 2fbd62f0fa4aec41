-------------------------------- MODULE Sums --------------------------------
(***************************************************************************)
(* The sum of the values of a function with finitely many arguments, as    *)
(* the number of its units: a definition without recursion, so that the    *)
(* library's theorems on cardinalities tell how a sum changes.             *)
(***************************************************************************)
EXTENDS Integers, FiniteSets

Units(f) == UNION {{x} \X (1 .. f[x]) : x \in DOMAIN f}

SumOf(f) == Cardinality(Units(f)) - Cardinality(Units([x \in DOMAIN f |-> -f[x]]))
=============================================================================
