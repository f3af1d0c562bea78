-------------------------------- MODULE Sums --------------------------------
(***************************************************************************)
(* Sums of naturals over a set, written as the cardinality of a set of     *)
(* pairs, as in UnitCount, but without a bound on the numbers.             *)
(***************************************************************************)
EXTENDS Integers, FiniteSets

\* The sum of f[x] for the x in S: the number of pairs <<x, 1>>, ..., <<x, f[x]>>.
SumOver(f, S) == Cardinality(UNION {{x} \X (1..f[x]) : x \in S})
=============================================================================
