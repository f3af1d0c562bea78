----------------------------- MODULE MCCheckout -----------------------------
\* Instances of Checkout for TLC.
EXTENDS Checkout, TLC

CONSTANTS c1, c2, c3, r1, r2

TwoCheckouts == {c1, c2}
ThreeCheckouts == {c1, c2, c3}
TwoRequests == {r1, r2}
OneCheckout == {c1}

OneEach == [l \in Lines |-> 1]

RequestSymmetry == Permutations(TwoRequests)
CheckoutRequestSymmetry == RequestSymmetry \cup Permutations(TwoCheckouts)
WideSymmetry == RequestSymmetry \cup Permutations(ThreeCheckouts)
=============================================================================
