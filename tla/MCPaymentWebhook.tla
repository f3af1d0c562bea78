-------------------------- MODULE MCPaymentWebhook --------------------------
\* Instances of PaymentWebhook for TLC.
EXTENDS PaymentWebhook, TLC

CONSTANTS d1, d2, a1, p1, p2, some, all

TwoDeliveries == {d1, d2}
OneAdmin == {a1}
OnePaid == {p1}
TwoPaid == {p1, p2}
BothRefunds == {some, all}
WholeRefund == {all}

\* A first refund of half the amount, a second of the rest.
InTwoParts == [w \in BothRefunds |-> IF w = some THEN 1 ELSE 2]
AtOnce == [w \in WholeRefund |-> 2]
Nothing == [w \in {} |-> 1]

Symmetry == Permutations(TwoDeliveries)
=============================================================================
