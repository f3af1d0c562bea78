----------------------------- MODULE MCPurchase -----------------------------
(***************************************************************************)
(* Small instances of Checkout, Pricing and ProviderEvents for TLC: what a *)
(* checkout does to the cart, the stock and the documents, what it         *)
(* charges, and how the provider's events find what was bought.  Pricing   *)
(* follows one request and needs the versions of the cart only, and        *)
(* ProviderEvents begins when the provider has answered, so the three are  *)
(* put side by side and not composed: the first state chooses which of     *)
(* them is looked at, and the others rest.                                 *)
(***************************************************************************)
EXTENDS MCCheckout

CONSTANTS
  Sellables, Prices, SellableOf, Amounts, MaxPerOrder, StockRows, NoRow, Codes, Rates, NoRate,
  Asks, Fee, MaxAsks, MaxEditsOfPrices,
  Stories, OrderTotal, MaxTroubles

VARIABLES
  aspect,  \* "documents", "amounts" or "events"
  prices, active, rows, rates, priced, host, stripe, job, previewed, charged, drifted, asks, edits,
  story, made, checkout, order, hooks, locks, work, troubles, late

Pricing == INSTANCE Pricing WITH cart <- priced, MaxEdits <- MaxEditsOfPrices

Provided == INSTANCE ProviderEvents

ASSUME PurchaseAssumption == Pricing!PricingAssumption /\ Provided!EventsAssumption

priceVars ==
  <<prices, active, rows, rates, priced, host, stripe, job, previewed, charged, drifted, asks, edits>>

eventVars == <<story, made, checkout, order, hooks, locks, work, troubles, late>>

InCheckout == aspect = "documents"
InPricing == aspect = "amounts"
InEvents == aspect = "events"
InEvent(e) == InEvents /\ e \in Provided!Events

OnlyCheckout == UNCHANGED <<aspect, priceVars, eventVars>>
OnlyPricing == UNCHANGED <<aspect, vars, eventVars>>
OnlyEvents == UNCHANGED <<aspect, vars, priceVars>>

\* An aspect that is not looked at has no state, but for the checkout that nothing happens to.
Resting == "resting"

PricingRests ==
  /\ prices = Resting /\ active = Resting /\ rows = Resting /\ rates = Resting
  /\ priced = Resting /\ host = Resting /\ stripe = Resting /\ job = Resting /\ previewed = Resting
  /\ charged = Resting /\ drifted = Resting /\ asks = Resting /\ edits = Resting

EventsRest ==
  /\ story = Resting /\ made = Resting /\ checkout = Resting /\ order = Resting
  /\ hooks = Resting /\ locks = Resting /\ work = Resting /\ troubles = Resting /\ late = Resting

\* One sellable with two prices, and what its stock row may become.
OneSellable == [p \in Prices |-> "s"]
Row(policy, free, back, override) ==
  [policy |-> policy, free |-> free, back |-> back, override |-> override]
TwoLeft == Row("finite", 2, FALSE, "none")
Rows == {NoRow, TwoLeft, Row("finite", 1, TRUE, "none"), Row("finite", 0, FALSE, "on"),
         Row("manual", 1, FALSE, "off")}

\* The cart by its id, delegated or not; by its owner with a code; an item at once; and both.
ForCart(byId, code, delegated) ==
  [byId |-> byId, sellable |-> "none", price |-> "any", quantity |-> 1, code |-> code,
   delegated |-> delegated]
ForItem(byId, price, code) ==
  [byId |-> byId, sellable |-> "s", price |-> price, quantity |-> 1, code |-> code,
   delegated |-> FALSE]
SomeAsks == {ForCart(TRUE, "absent", FALSE), ForCart(TRUE, "absent", TRUE), ForCart(FALSE, "c", FALSE),
             ForItem(FALSE, "any", "c"), ForItem(TRUE, "p1", "blank")}

\* With a resolver of the host the cart has both lines, else one of them; the second price is a
\* subscription only for an item without a stock row and with Stripe.
FewCases ==
  /\ \A p \in Prices : prices[p].amount = 3
  /\ rates["c"] = 2 /\ priced.status = "open"
  /\ DOMAIN priced.lines = IF host THEN Prices ELSE {"p1"}
  /\ prices["p1"].mode = "one_time" /\ (prices["p2"].mode = "subscription" => host)
  /\ rows["s"] = IF prices["p2"].mode = "subscription" THEN NoRow ELSE TwoLeft
  /\ stripe <=> prices["p2"].mode = "subscription"

\* A session that is paid at once, after a failure, later, not at all; a subscription, whose
\* invoice is paid first; and a delegated payment, given back in two parts.
Event(type, amount) == [type |-> type, paid |-> TRUE, amount |-> amount]
Submitted == [type |-> "checkout.session.completed", paid |-> FALSE, amount |-> 0]
Way(paid, events) == [paid |-> paid, events |-> events]
SomeStories ==
  {Way("session", <<Event("payment_intent.succeeded", 0), Event("checkout.session.completed", 0),
                    Event("charge.refunded", 1)>>),
   Way("session", <<Event("payment_intent.payment_failed", 0), Event("checkout.session.completed", 0)>>),
   Way("session", <<Submitted, Event("checkout.session.async_payment_succeeded", 0),
                    Event("charge.refunded", 2)>>),
   Way("session", <<Submitted, Event("checkout.session.async_payment_failed", 0)>>),
   Way("session", <<Event("checkout.session.expired", 0)>>),
   Way("subscription", <<Event("invoice.paid", 0), Event("checkout.session.completed", 0),
                         Event("invoice.marked_uncollectible", 2)>>),
   Way("subscription", <<Event("invoice.payment_failed", 0), Event("charge.refunded", 2)>>),
   Way("intent", <<Event("payment_intent.succeeded", 0), Event("charge.refunded", 1),
                   Event("charge.refunded", 2)>>)}

PurchaseInit ==
  /\ aspect \in {"documents", "amounts", "events"}
  /\ Init
  /\ IF InPricing THEN Pricing!PricingInit /\ FewCases ELSE PricingRests
  /\ IF InEvents THEN Provided!EventsInit ELSE EventsRest

PurchaseNext ==
  \/ InCheckout /\ Next /\ OnlyCheckout
  \/ \E ask \in Asks :
       \/ InPricing /\ Pricing!Preview(ask) /\ OnlyPricing
       \/ InPricing /\ Pricing!Start(ask) /\ OnlyPricing
  \/ InPricing /\ Pricing!QuoteLine /\ OnlyPricing
  \/ InPricing /\ Pricing!Show /\ OnlyPricing
  \/ InPricing /\ Pricing!ResolveLine /\ OnlyPricing
  \/ InPricing /\ Pricing!Resolve /\ OnlyPricing
  \/ InPricing /\ Pricing!Compare /\ OnlyPricing
  \/ InPricing /\ Pricing!Prove /\ OnlyPricing
  \/ InPricing /\ Pricing!Dispatch /\ OnlyPricing
  \/ InPricing /\ Pricing!Claim /\ OnlyPricing
  \/ InPricing /\ Pricing!Reserve /\ OnlyPricing
  \/ InPricing /\ Pricing!Hosted /\ OnlyPricing
  \/ InPricing /\ Pricing!Delegated /\ OnlyPricing
  \/ InPricing /\ Pricing!ProviderFails /\ OnlyPricing
  \/ \E p \in Prices :
       \/ InPricing /\ (\E amount \in Amounts : Pricing!Reprice(p, amount)) /\ OnlyPricing
       \/ InPricing /\ (\E quantity \in 1..MaxPerOrder : Pricing!Update(p, quantity)) /\ OnlyPricing
       \/ InPricing /\ Pricing!TogglePrice(p) /\ OnlyPricing
       \/ InPricing /\ Pricing!Remove(p) /\ OnlyPricing
  \/ \E s \in Sellables :
       \/ InPricing /\ (\E p \in Prices \cup {"any"} : Pricing!Add(s, p)) /\ OnlyPricing
       \/ InPricing /\ (\E row \in StockRows : Pricing!Restock(s, row)) /\ OnlyPricing
       \/ InPricing /\ Pricing!ToggleSellable(s) /\ OnlyPricing
  \/ \E code \in Codes :
       \/ InPricing /\ Pricing!ApplyCoupon(code) /\ OnlyPricing
       \/ InPricing /\ (\E rate \in Rates : Pricing!SetRate(code, rate)) /\ OnlyPricing
  \/ InPricing /\ Pricing!RemoveCoupon /\ OnlyPricing
  \/ InPricing /\ Pricing!Lapse /\ OnlyPricing
  \/ \E e \in 1..3 :
       \/ InEvent(e) /\ Provided!Receive(e) /\ OnlyEvents
       \/ InEvent(e) /\ Provided!Replay(e) /\ OnlyEvents
       \/ InEvent(e) /\ Provided!Find(e) /\ OnlyEvents
       \/ InEvent(e) /\ Provided!Link(e) /\ OnlyEvents
       \/ InEvent(e) /\ Provided!Create(e) /\ OnlyEvents
       \/ InEvent(e) /\ Provided!Update(e) /\ OnlyEvents
       \/ InEvent(e) /\ Provided!Complete(e) /\ OnlyEvents
       \/ InEvent(e) /\ Provided!Refund(e) /\ OnlyEvents
       \/ InEvent(e) /\ Provided!Expire(e) /\ OnlyEvents
       \/ InEvent(e) /\ Provided!Mark(e) /\ OnlyEvents
       \/ InEvent(e) /\ Provided!Refuse(e) /\ OnlyEvents
       \/ InEvent(e) /\ Provided!Throw(e) /\ OnlyEvents
       \/ InEvent(e) /\ Provided!Die(e) /\ OnlyEvents
  \/ InEvents /\ Provided!Make /\ OnlyEvents
  \/ InEvents /\ Provided!Purge /\ OnlyEvents
  \/ \E status \in {"succeeded", "requires_action", "requires_payment_method"} :
       InEvents /\ Provided!StoreCheckout(status) /\ OnlyEvents
  \/ InEvents /\ (\E lock \in locks : Provided!ExpireLock(lock)) /\ OnlyEvents

PurchaseSpec == PurchaseInit /\ [][PurchaseNext]_<<aspect, vars, priceVars, eventVars>>

----------------------------------------------------------------------------
\* A quote that lets the shopper proceed is honoured by a start (Pricing!QuoteIsHonoured).
QuoteIsHonoured == InPricing => Pricing!QuoteIsHonoured

\* The provider charges for the cart that was claimed, and a delegated payment what its
\* preview has shown (Pricing!ChargedAsAgreed).
ChargedAsAgreed == InPricing => Pricing!ChargedAsAgreed

\* The events of one purchase find its order, and reach it (Provided!EventsReachTheirOrder).
EventsReachTheirOrder == InEvents => Provided!EventsReachTheirOrder
=============================================================================
