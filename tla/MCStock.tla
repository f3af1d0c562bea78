------------------------------ MODULE MCStock ------------------------------
\* Instances of Stock for TLC.
EXTENDS Stock, TLC

CONSTANTS i1, i2, e1, e2, e3

OneItem == {i1}
TwoItems == {i1, i2}
ThreeEvents == {e1, e2, e3}
TwoUnits == (i1 :> 2)
TwoAndOne == (i1 :> 2 @@ i2 :> 1)

Strict    == [finite |-> TRUE, backorder |-> FALSE]
Backorder == [finite |-> TRUE, backorder |-> TRUE]
Untracked == [finite |-> FALSE, backorder |-> FALSE]

StrictOrBackorder == {Strict, Backorder}
AnyDefinition  == {Strict, Backorder, Untracked}
OnlyStrict     == {Strict}

EventSymmetry == Permutations(ThreeEvents)
============================================================================
