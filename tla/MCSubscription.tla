--------------------------- MODULE MCSubscription ---------------------------
(***************************************************************************)
(* Small instances of Subscription for TLC.                                *)
(***************************************************************************)
EXTENDS Subscription

CONSTANT a1

Event(status, period) == [status |-> status, period |-> period]

\* What the provider may have to tell, in its order: the end of a period that was
\* announced before, and a new period.
Stories == {<<Event("active", 1), Event("cancelled", 1)>>,
            <<Event("incomplete", 1), Event("past_due", 2)>>}
=============================================================================
