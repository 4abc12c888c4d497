------------------------------- MODULE Totals -------------------------------
(***************************************************************************)
(* The sum of a function into the naturals over a finite domain, written   *)
(* as the number of units its values stand for: a caller that holds three  *)
(* permits contributes the pairs <<c, 1>>, <<c, 2>> and <<c, 3>>.  Counting *)
(* a set instead of folding keeps the sum within reach of the theorems on  *)
(* finite cardinality (TotalsProofs).                                      *)
(***************************************************************************)
EXTENDS Integers, FiniteSets

UnitsOf(f) == UNION { {c} \X (1 .. f[c]) : c \in DOMAIN f }

Total(f) == Cardinality(UnitsOf(f))
=============================================================================
