-------------------------------- MODULE Sums --------------------------------
(***************************************************************************)
(* The sum of a function that gives each member of a finite set a natural  *)
(* number: the number of its units.  A sum that is counted has no order of *)
(* summation, and the theorems about finite sets apply to it.              *)
(***************************************************************************)
EXTENDS Integers, FiniteSets

Units(f) == UNION {{x} \X (1..f[x]) : x \in DOMAIN f}

SumOf(f) == Cardinality(Units(f))
=============================================================================
