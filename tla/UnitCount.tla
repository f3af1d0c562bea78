----------------------------- MODULE UnitCount -----------------------------
(***************************************************************************)
(* Sums of quantities, written as the cardinality of a set of units.       *)
(*                                                                         *)
(* Entry e of a ledger with size[e] pieces stands for the units <<e, 1>>,  *)
(* ..., <<e, size[e]>>.  The sum of the sizes of a set S of entries is the *)
(* number of units of S.  Written this way a sum needs no recursion, and   *)
(* the facts about it follow from the library's facts about cardinalities. *)
(***************************************************************************)
EXTENDS Integers, FiniteSets

CONSTANT MaxQty  \* the largest quantity of one entry

ASSUME MaxQtyAssumption == MaxQty \in Nat

UnitsOf(size, S) == {u \in S \X (1..MaxQty) : u[2] <= size[u[1]]}

Total(size, S) == Cardinality(UnitsOf(size, S))
============================================================================
