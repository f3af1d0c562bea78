---------------------------- MODULE PurchaseProofs ----------------------------
(***************************************************************************)
(* Proofs about one purchase: that its events find its order and reach it  *)
(* (ProviderEvents), whatever Stripe may make of the purchase, and that a  *)
(* quote is honoured and what is charged was agreed to (Pricing), whatever *)
(* merchant and shopper change while a checkout is started.                *)
(*                                                                         *)
(* An event is worked on under the lock that its ids name.  Whatever can   *)
(* write the order names the same lock (Subjects), so that an event that   *)
(* found none has missed none, and the copy of the order that a handler    *)
(* writes back is the order (Sound): this holds as long as no lock ended   *)
(* early, and the shape of the documents and of the handlers (RowHolds)    *)
(* whatever becomes of the locks.                                          *)
(*                                                                         *)
(* A start carries what it resolved from step to step (JobHolds).  It is   *)
(* of the lines of the cart as long as the cart's version is the one it    *)
(* was read with, or the claim holds it (Agrees), and what a delegated     *)
(* payment was shown as long as neither the catalogue nor the cart changed *)
(* while it was read and proved (Authorized).                              *)
(***************************************************************************)
EXTENDS MCPurchase, Sequences, FiniteSetTheorems, TLAPS

----------------------------------------------------------------------------
(* The events of one purchase *)

\* What the adapter reads out of an event, and the lock it is worked on under.
Said(e) == Provided!parseStripeWebhookEvent(e)
Subject(e) == Provided!paymentWebhookLockTarget(Said(e))

Subscribes == story.paid = "subscription"

\* The lock of whoever writes the order: a subscription's order has no payment.
WriteLock == IF Subscribes THEN <<"order", "cs">> ELSE <<"payment", "pi">>

\* The names by which an order is found.
OrderNames ==
  [checkout |-> Provided!CheckoutId, payment |-> IF Subscribes THEN Provided!None ELSE "pi",
   order |-> IF Subscribes THEN "cs" ELSE "pi"]

\* An order has one name of each kind, and is refunded when all of its amount is.
Orders ==
  {o \in [status : {"paid", "partially_refunded", "refunded"}, checkout : {OrderNames.checkout},
          payment : {OrderNames.payment}, order : {OrderNames.order},
          reversed : 0..OrderTotal, refs : {<<OrderNames>>}] :
     o.status = "refunded" <=> o.reversed = OrderTotal}

Copies == Orders \cup {Provided!NoOrder}

\* A webhook document: its forms both say what the event says, until the raw one is purged.
NoHook == [status |-> Provided!None, normalized |-> Provided!Nothing, raw |-> Provided!Nothing]
Hooks(e) ==
  [status : {"received", "processed", "failed"}, normalized : {Said(e)},
   raw : {Said(e), Provided!Nothing}]
  \cup {NoHook}

\* The steps of a handler, by what its event says.
StepsOf(e) ==
  CASE Said(e).status = "failed" ->
         IF Provided!Type(e) = "checkout.session.expired" THEN {"expire", "mark", "refuse"}
         ELSE {"refuse"}
    [] Said(e).status = "paid" -> {"find", "link", "create", "update", "complete", "mark", "refuse"}
    [] OTHER -> {"find", "reverse", "mark", "refuse"}

WorkRows(e) == [step : StepsOf(e), event : {Said(e)}, order : Copies]

Busy(e) == work[e] # Provided!Idle

\* A handler that is about to write the order.
Writes(e) == Busy(e) /\ work[e].step \in {"create", "update", "reverse"}

\* What is true of the handler of an event, whatever becomes of its lock.
RowHolds(e) ==
  /\ hooks[e] \in Hooks(e)
  /\ hooks[e] # NoHook => e <= made
  /\ Busy(e) =>
       /\ hooks[e] # NoHook /\ Said(e) # Provided!Unknown /\ work[e] \in WorkRows(e)
       /\ Writes(e) => Subject(e) = WriteLock
       /\ Provided!At(e, "create") =>
            checkout # Provided!None /\ "checkout" \in DOMAIN Said(e)
              /\ Said(e).checkout = Provided!CheckoutId
       /\ work[e].step \in {"update", "reverse"} => work[e].order # Provided!NoOrder
       /\ work[e].step \in {"update", "reverse", "complete"} => order # Provided!NoOrder

\* A handler works under its lock, but for what ends unpaid without a session.
Locked(e) ==
  Busy(e) /\ (Provided!At(e, "refuse") => Provided!IsReversal(Said(e))) =>
    [subject |-> Subject(e), owner |-> e] \in locks

\* What is true of it as long as no lock ended early: its copy is the order, it has missed
\* none, and what counts as done has its effect.
Sound(e) ==
  /\ Locked(e)
  /\ Busy(e) /\ work[e].step \in {"update", "reverse"} => work[e].order = order
  /\ /\ Busy(e) /\ Provided!Traced(e)
     /\ Provided!At(e, "link") \/ Provided!At(e, "create")
        \/ (Provided!At(e, "refuse") /\ Provided!IsReversal(Said(e)))
     => order = Provided!NoOrder
  /\ hooks[e].status = "processed" => Provided!Effect(e)
  /\ Busy(e) /\ Provided!At(e, "mark") => Provided!Effect(e)

\* A lock has one holder.
Documents ==
  /\ story \in Stories /\ made \in Nat
  /\ DOMAIN hooks = Provided!Events /\ DOMAIN work = Provided!Events
  /\ order \in Copies /\ (order # Provided!NoOrder => checkout # Provided!None)
  /\ \A lock \in locks : lock.owner \in Provided!Events
  /\ \A k, l \in locks : k.subject = l.subject => k = l
  /\ late \in BOOLEAN

\* No more is given back than Stripe said.
GivenBack == order # Provided!NoOrder => order.reversed \in Provided!Refunded \cup {0}

\* The inductive invariant of the events.
EventsInv ==
  /\ Documents
  /\ \A e \in Provided!Events : RowHolds(e)
  /\ ~late => GivenBack /\ \A e \in Provided!Events : Sound(e)
----------------------------------------------------------------------------
(* What an event says *)

\* A story's own facts.
LEMMA StoryFacts ==
  ASSUME story \in Stories
  PROVE  /\ story.paid \in {"session", "subscription", "intent"}
         /\ OrderTotal \in Nat \ {0} /\ Provided!Events \subseteq Nat \ {0}
         /\ \A e \in Provided!Events : story.events[e].amount \in 0..OrderTotal
         /\ \A e \in Provided!Events : Provided!Type(e) \in Provided!InvoiceEvents => Subscribes
<1>1. /\ story.paid \in {"session", "subscription", "intent"} /\ OrderTotal \in Nat \ {0}
      /\ story.events \in Seq([type : STRING, paid : BOOLEAN, amount : 0..OrderTotal])
      /\ \A e \in Provided!Events : Provided!Type(e) \in Provided!InvoiceEvents => Subscribes
  BY PurchaseAssumption DEF Provided!EventsAssumption, Provided!Events, Provided!Type, Subscribes
<1>2. Provided!Events = 1..Len(story.events) /\ Len(story.events) \in Nat
  BY <1>1 DEF Provided!Events
<1>3. ASSUME NEW e \in Provided!Events
      PROVE  story.events[e].amount \in 0..OrderTotal
  <2>1. \A S : \A q \in Seq(S) : \A i \in 1..Len(q) : q[i] \in S
    OBVIOUS
  <2>2. story.events[e] \in [type : STRING, paid : BOOLEAN, amount : 0..OrderTotal]
    BY <1>1, <1>2, <2>1, Zenon
  <2> QED
    BY <2>2
<1> QED
  BY <1>1, <1>2, <1>3

\* A record with more fields on a condition.
LEMMA Fields ==
  ASSUME NEW r, NEW condition \in BOOLEAN, NEW more
  PROVE  LET w == Provided!With(r, condition, more)
         IN  /\ w = [f \in DOMAIN w |-> w[f]]
             /\ DOMAIN w = DOMAIN r \cup (IF condition THEN DOMAIN more ELSE {})
             /\ \A f \in DOMAIN r : w[f] = r[f]
             /\ condition => \A f \in DOMAIN more \ DOMAIN r : w[f] = more[f]
BY DEF Provided!With

\* The id of Stripe's object, and whether it names the intent.
ObjectId(e) ==
  CASE Provided!Type(e) \in Provided!SessionEvents -> "cs"
    [] Provided!Type(e) \in Provided!IntentEvents -> "pi"
    [] Provided!Type(e) \in Provided!InvoiceEvents -> "in" [] OTHER -> "ch"

NamesIntent(e) ==
  /\ Provided!Type(e) \notin Provided!IntentEvents \cup {"checkout.session.expired"}
  /\ Provided!Type(e) \in Provided!SessionEvents => ~Subscribes

\* The ids in Stripe's object.
LEMMA Objects ==
  ASSUME story \in Stories, NEW e \in Provided!Events
  PROVE  /\ Provided!Type(e) \in Provided!SessionEvents => Provided!Object(e).id = "cs"
         /\ Provided!Type(e) \in Provided!IntentEvents => Provided!Object(e).id = "pi"
         /\ Provided!Type(e) \in Provided!InvoiceEvents => Provided!Object(e).id = "in"
         /\ Provided!Type(e) = "charge.refunded" => Provided!Object(e).id = "ch"
         /\ "payment_intent" \in DOMAIN Provided!Object(e) <=> NamesIntent(e)
         /\ "payment_intent" \in DOMAIN Provided!Object(e) => /\ Provided!Object(e).payment_intent = "pi"
                                                     /\ Provided!Intent(Provided!Object(e)) = "pi"
         /\ "payment_intent" \notin DOMAIN Provided!Object(e) =>
             Provided!Intent(Provided!Object(e)) = Provided!Object(e).id
<1>1. /\ NamesIntent(e) \in BOOLEAN
      /\ Provided!Object(e) = Provided!With([id |-> ObjectId(e)],
                                                NamesIntent(e), [payment_intent |-> "pi"])
  BY DEF Provided!Object, ObjectId, NamesIntent, Subscribes
<1>2. /\ DOMAIN Provided!Object(e) = {"id"} \cup (IF NamesIntent(e) THEN {"payment_intent"} ELSE {})
      /\ Provided!Object(e)["id"] = ObjectId(e)
      /\ NamesIntent(e) => Provided!Object(e)["payment_intent"] = "pi"
  <2>1. DOMAIN [id |-> ObjectId(e)] = {"id"} /\ DOMAIN [payment_intent |-> "pi"] = {"payment_intent"}
    OBVIOUS
  <2>2. LET w == Provided!With([id |-> ObjectId(e)], NamesIntent(e), [payment_intent |-> "pi"])
        IN  /\ DOMAIN w = {"id"} \cup (IF NamesIntent(e) THEN {"payment_intent"} ELSE {})
            /\ w["id"] = ObjectId(e)
            /\ NamesIntent(e) => w["payment_intent"] = "pi"
    BY <1>1, <2>1 DEF Provided!With
  <2> QED
    BY <1>1, <2>2
<1>3. /\ Provided!Type(e) \in Provided!SessionEvents => ObjectId(e) = "cs"
      /\ Provided!Type(e) \in Provided!IntentEvents => ObjectId(e) = "pi"
      /\ Provided!Type(e) \in Provided!InvoiceEvents => ObjectId(e) = "in"
      /\ Provided!Type(e) = "charge.refunded" => ObjectId(e) = "ch"
  BY DEF Provided!SessionEvents, Provided!IntentEvents, Provided!InvoiceEvents, ObjectId
<1>4. "payment_intent" \in DOMAIN Provided!Object(e) <=> NamesIntent(e)
  BY <1>2
<1>5. Provided!Intent(Provided!Object(e)) = IF NamesIntent(e) THEN "pi" ELSE ObjectId(e)
  BY <1>2, <1>4 DEF Provided!Intent, Provided!stripeObjectId
<1> QED
  BY <1>2, <1>3, <1>4, <1>5 DEF NamesIntent

\* A stored form has all that an event says.
IsForm(p) == p = [f \in DOMAIN p |-> p[f]] /\ DOMAIN p \subseteq Provided!StoredFields

\* A payment that failed; and a session that ended names itself only.
LEMMA SaidOfFailures ==
  ASSUME story \in Stories, NEW e \in Provided!Events, Provided!Type(e) \in Provided!Failures
  PROVE  /\ Said(e).status = "failed" /\ Said(e).type = Provided!Type(e) /\ IsForm(Said(e))
         /\ Provided!Type(e) = "checkout.session.expired" =>
              /\ DOMAIN Said(e) = {"status", "type", "order", "checkout"}
              /\ Said(e).checkout = "cs" /\ Said(e).order = "cs"
<1> DEFINE ids == [status |-> "failed", type |-> Provided!Type(e),
                   order |-> IF Provided!Type(e) \in Provided!InvoiceEvents
                            THEN Provided!Object(e).id ELSE Provided!Intent(Provided!Object(e))]
           session == Provided!Type(e) \in Provided!SessionEvents
           paying == session => "payment_intent" \in DOMAIN Provided!Object(e)
           checked == Provided!With(ids, session, [checkout |-> Provided!Object(e).id])
           whole == Provided!With(checked, paying, [payment |-> Provided!Intent(Provided!Object(e))])
<1>1. Said(e) = whole
  <2>1. Said(e) = Provided!stripePaymentFailureEvent(e)
    BY DEF Said, Provided!parseStripeWebhookEvent, Provided!Failures, Provided!Reversals,
       Provided!stripeInvoiceEventIsPaid
  <2>2. Provided!stripePaymentFailureEvent(e) = whole
    BY Zenon DEF Provided!stripePaymentFailureEvent
  <2> QED
    BY <2>1, <2>2
<1>2. /\ DOMAIN ids = {"status", "type", "order"} /\ ids.status = "failed"
      /\ ids.type = Provided!Type(e)
      /\ ids.order = IF Provided!Type(e) \in Provided!InvoiceEvents
                    THEN Provided!Object(e).id ELSE Provided!Intent(Provided!Object(e))
      /\ session \in BOOLEAN /\ paying \in BOOLEAN
  OBVIOUS
<1> HIDE DEF ids
<1>3. /\ DOMAIN checked = {"status", "type", "order"} \cup (IF session THEN {"checkout"} ELSE {})
      /\ \A f \in {"status", "type", "order"} : checked[f] = ids[f]
      /\ session => checked["checkout"] = Provided!Object(e).id
  BY <1>2 DEF Provided!With
<1> HIDE DEF checked
<1>4. /\ whole = [f \in DOMAIN whole |-> whole[f]]
      /\ DOMAIN whole = DOMAIN checked \cup (IF paying THEN {"payment"} ELSE {})
      /\ \A f \in DOMAIN checked : whole[f] = checked[f]
  BY <1>2 DEF Provided!With
<1> HIDE DEF whole
<1>5. ASSUME Provided!Type(e) = "checkout.session.expired"
      PROVE  session /\ ~paying /\ Provided!Object(e).id = "cs" /\ ids.order = "cs"
  <2>1. Provided!Type(e) \in Provided!SessionEvents
        /\ Provided!Type(e) \notin Provided!InvoiceEvents /\ ~NamesIntent(e)
    BY <1>5 DEF Provided!SessionEvents, Provided!InvoiceEvents, NamesIntent
  <2> QED
    BY <2>1, <1>2, Objects
<1> HIDE DEF session, paying
<1>6. IsForm(whole)
  BY <1>3, <1>4 DEF IsForm, Provided!StoredFields
<1>7. whole.status = "failed" /\ whole.type = Provided!Type(e)
  BY <1>2, <1>3, <1>4
<1>8. ASSUME Provided!Type(e) = "checkout.session.expired"
      PROVE  /\ DOMAIN whole = {"status", "type", "order", "checkout"}
             /\ whole.checkout = "cs" /\ whole.order = "cs"
  BY <1>8, <1>3, <1>4, <1>5
<1> QED
  BY <1>1, <1>6, <1>7, <1>8

\* What was given back.
LEMMA SaidOfReversals ==
  ASSUME story \in Stories, NEW e \in Provided!Events, Provided!Type(e) \in Provided!Reversals
  PROVE  /\ Said(e).status \in {"refunded", "partially_refunded"} /\ IsForm(Said(e))
         /\ {"payment", "order"} \subseteq DOMAIN Said(e)
         /\ DOMAIN Said(e) \cap {"checkout", "subscription"} = {}
         /\ Said(e).payment = "pi" /\ Said(e).order = "pi"
         /\ ~Subscribes => Provided!Type(e) = "charge.refunded"
         /\ Said(e).status = "partially_refunded" => Provided!Type(e) = "charge.refunded"
         /\ Provided!Type(e) = "charge.refunded" =>
              /\ "amount" \in DOMAIN Said(e) /\ Said(e).amount = story.events[e].amount
              /\ Said(e).status = "refunded" => story.events[e].amount = OrderTotal
<1> DEFINE amount == story.events[e].amount
           status == IF Provided!Type(e) # "charge.refunded" \/ amount >= OrderTotal
                     THEN "refunded" ELSE "partially_refunded"
           ids == [status |-> status, type |-> Provided!Type(e),
                   payment |-> Provided!Intent(Provided!Object(e)),
                   order |-> Provided!Intent(Provided!Object(e))]
           refund == Provided!Type(e) = "charge.refunded"
           whole == Provided!With(ids, refund, [amount |-> amount])
<1>1. Said(e) = whole
  <2>1. Said(e) = Provided!stripePaymentReversalEvent(e)
    BY DEF Said, Provided!parseStripeWebhookEvent, Provided!Failures, Provided!Reversals,
       Provided!stripeInvoiceEventIsPaid
  <2>2. Provided!stripePaymentReversalEvent(e) = whole
    BY Zenon DEF Provided!stripePaymentReversalEvent
  <2> QED
    BY <2>1, <2>2
<1>2. Provided!Intent(Provided!Object(e)) = "pi"
       /\ (Provided!Type(e) \in Provided!InvoiceEvents => Subscribes)
  <2> HIDE DEF ids, status, amount, whole
  <2>1. NamesIntent(e)
    BY DEF NamesIntent, Provided!Reversals, Provided!SessionEvents, Provided!IntentEvents
  <2>2. Provided!Intent(Provided!Object(e)) = "pi"
    BY <2>1, Objects
  <2> QED
    BY <2>2, StoryFacts
<1>3. /\ DOMAIN ids = {"status", "type", "payment", "order"} /\ ids.status = status
      /\ ids.payment = "pi" /\ ids.order = "pi" /\ refund \in BOOLEAN
  BY <1>2
<1>4. amount \in 0..OrderTotal /\ OrderTotal \in Nat
  BY StoryFacts
<1>5. /\ status \in {"refunded", "partially_refunded"}
      /\ refund \/ status = "refunded"
      /\ refund /\ status = "refunded" => amount = OrderTotal
  BY <1>4
<1> HIDE DEF ids, status, amount
<1>6. /\ whole = [f \in DOMAIN whole |-> whole[f]]
      /\ DOMAIN whole = DOMAIN ids \cup (IF refund THEN {"amount"} ELSE {})
      /\ \A f \in DOMAIN ids : whole[f] = ids[f]
      /\ refund => whole["amount"] = amount
  BY <1>3 DEF Provided!With
<1> HIDE DEF whole
<1>7. IsForm(whole)
  BY <1>3, <1>6 DEF IsForm, Provided!StoredFields
<1>8. ~Subscribes => refund
  BY <1>2 DEF Provided!Reversals, Provided!InvoiceEvents
<1> HIDE DEF refund
<1>9. /\ whole.status \in {"refunded", "partially_refunded"}
      /\ {"payment", "order"} \subseteq DOMAIN whole
      /\ DOMAIN whole \cap {"checkout", "subscription"} = {}
      /\ whole.payment = "pi" /\ whole.order = "pi"
      /\ whole.status = "partially_refunded" => refund
      /\ refund => /\ "amount" \in DOMAIN whole /\ whole.amount = amount
                   /\ whole.status = "refunded" => amount = OrderTotal
  BY <1>3, <1>5, <1>6
<1> QED
  BY <1>1, <1>7, <1>8, <1>9 DEF refund, amount

\* The events that say a purchase is paid.
Payments == {"invoice.paid", "payment_intent.succeeded", "checkout.session.async_payment_succeeded",
             "checkout.session.completed"}

\* A payment names what its order has, or nothing that an order has.
LEMMA SaidOfPayments ==
  ASSUME story \in Stories, NEW e \in Provided!Events,
         Provided!Type(e) \notin Provided!Failures \cup Provided!Reversals,
         Said(e) # Provided!Unknown
  PROVE  /\ Provided!Type(e) \in Payments
         /\ Said(e).status = "paid" /\ IsForm(Said(e)) /\ "order" \in DOMAIN Said(e)
         /\ Provided!Type(e) = "invoice.paid" =>
              /\ DOMAIN Said(e) = {"status", "type", "payment", "order", "subscription"}
              /\ Said(e).payment = "pi" /\ Said(e).order = "in" /\ Subscribes
         /\ Provided!Type(e) = "payment_intent.succeeded" =>
              /\ DOMAIN Said(e) = {"status", "type", "checkout", "payment", "order"}
              /\ Said(e).checkout = "pi" /\ Said(e).payment = "pi" /\ Said(e).order = "pi"
         /\ Provided!Type(e) \in Provided!SessionEvents =>
              /\ {"checkout", "order"} \subseteq DOMAIN Said(e)
              /\ "subscription" \notin DOMAIN Said(e)
              /\ Said(e).checkout = "cs" /\ Said(e).order = (IF Subscribes THEN "cs" ELSE "pi")
              /\ "payment" \in DOMAIN Said(e) <=> ~Subscribes
              /\ ~Subscribes => Said(e).payment = "pi"
<1>1. CASE Provided!Type(e) = "invoice.paid"
  <2>1. Said(e) = Provided!stripeInvoicePaid(e)
    BY <1>1 DEF Said, Provided!parseStripeWebhookEvent, Provided!Failures, Provided!Reversals,
       Provided!stripeInvoiceEventIsPaid
  <2>2. NamesIntent(e) /\ Provided!Type(e) \in Provided!InvoiceEvents
    BY <1>1 DEF NamesIntent, Provided!InvoiceEvents, Provided!SessionEvents, Provided!IntentEvents
  <2>3. Provided!Intent(Provided!Object(e)) = "pi" /\ Provided!Object(e).id = "in"
    BY <2>2, Objects
  <2>4. Subscribes
    BY <2>2, StoryFacts
  <2>5. Said(e) = [status |-> "paid", type |-> Provided!Type(e), payment |-> "pi", order |-> "in",
                   subscription |-> "sub"]
    BY <2>1, <2>3 DEF Provided!stripeInvoicePaid
  <2>6. IsForm(Said(e))
    BY <2>5 DEF IsForm, Provided!StoredFields
  <2> QED
    BY <1>1, <2>4, <2>5, <2>6 DEF Payments, Provided!SessionEvents
<1>2. CASE Provided!Type(e) = "payment_intent.succeeded"
  <2>1. Said(e) = Provided!stripeIntentSucceeded(e)
    BY <1>2 DEF Said, Provided!parseStripeWebhookEvent, Provided!Failures, Provided!Reversals,
       Provided!stripeInvoiceEventIsPaid
  <2>2. Said(e) = [status |-> "paid", type |-> Provided!Type(e), checkout |-> "pi", payment |-> "pi",
                   order |-> "pi"]
    BY <2>1 DEF Provided!stripeIntentSucceeded
  <2>3. IsForm(Said(e))
    BY <2>2 DEF IsForm, Provided!StoredFields
  <2> QED
    BY <1>2, <2>2, <2>3 DEF Payments, Provided!SessionEvents
<1>3. CASE Provided!Type(e) \in Payments \ {"invoice.paid", "payment_intent.succeeded"}
  <2> DEFINE object == Provided!Object(e)
             ids == [status |-> "paid", type |-> Provided!Type(e), checkout |-> object.id,
                     order |-> Provided!Intent(object)]
             intent == "payment_intent" \in DOMAIN object
             whole == Provided!With(ids, intent, [payment |-> Provided!Intent(object)])
  <2>1. Said(e) = Provided!stripeSessionPaid(e)
    BY <1>3 DEF Said, Provided!parseStripeWebhookEvent, Provided!Failures, Provided!Reversals,
       Provided!stripeInvoiceEventIsPaid, Payments
  <2>2. Said(e) = whole
    <3>1. Provided!stripeSessionPaid(e) = whole
      BY Zenon DEF Provided!stripeSessionPaid
    <3> QED
      BY <2>1, <3>1
  <2>3. Provided!Type(e) \in Provided!SessionEvents /\ (NamesIntent(e) <=> ~Subscribes)
    BY <1>3 DEF NamesIntent, Payments, Provided!SessionEvents, Provided!IntentEvents
  <2>4. /\ object.id = "cs" /\ Provided!Intent(object) = (IF Subscribes THEN "cs" ELSE "pi")
        /\ intent <=> ~Subscribes
    BY <2>3, Objects
  <2>5. /\ DOMAIN ids = {"status", "type", "checkout", "order"} /\ ids.status = "paid"
        /\ ids.checkout = "cs" /\ ids.order = (IF Subscribes THEN "cs" ELSE "pi")
    BY <2>4
  <2>6. intent \in BOOLEAN
    OBVIOUS
  <2> HIDE DEF ids, intent
  <2>7. /\ whole = [f \in DOMAIN whole |-> whole[f]]
        /\ DOMAIN whole = DOMAIN ids \cup (IF intent THEN {"payment"} ELSE {})
        /\ \A f \in DOMAIN ids : whole[f] = ids[f]
        /\ intent => whole["payment"] = Provided!Intent(object)
    BY <2>5, <2>6 DEF Provided!With
  <2> HIDE DEF whole
  <2>8. IsForm(whole)
    BY <2>5, <2>7 DEF IsForm, Provided!StoredFields
  <2>9. /\ {"checkout", "order"} \subseteq DOMAIN whole /\ "subscription" \notin DOMAIN whole
        /\ whole.status = "paid"
        /\ whole.checkout = "cs" /\ whole.order = (IF Subscribes THEN "cs" ELSE "pi")
        /\ "payment" \in DOMAIN whole <=> ~Subscribes
        /\ ~Subscribes => whole.payment = "pi"
    BY <2>4, <2>5, <2>7
  <2> QED
    BY <1>3, <2>2, <2>3, <2>8, <2>9
<1>4. Provided!Type(e) \in Payments
  BY DEF Said, Provided!parseStripeWebhookEvent, Provided!stripeInvoiceEventIsPaid, Payments
<1> QED
  BY <1>1, <1>2, <1>3, <1>4

\* Every event is one of three kinds, by its type and by what it says.
LEMMA Kinds ==
  ASSUME story \in Stories, NEW e \in Provided!Events, Said(e) # Provided!Unknown
  PROVE  /\ IsForm(Said(e))
         /\ Said(e).status \in {"failed", "paid", "refunded", "partially_refunded"}
         /\ Said(e).status = "failed" <=> Provided!Type(e) \in Provided!Failures
         /\ Provided!IsReversal(Said(e)) <=> Provided!Type(e) \in Provided!Reversals
         /\ Said(e).status = "paid" <=> Provided!Type(e) \in Payments
         /\ Said(e).status = "failed" => Said(e).type = Provided!Type(e)
<1>1. Provided!Failures \cap Provided!Reversals = {}
       /\ Payments \cap (Provided!Failures \cup Provided!Reversals) = {}
  BY DEF Provided!Failures, Provided!Reversals, Payments
<1>2. CASE Provided!Type(e) \in Provided!Failures
  BY <1>1, <1>2, SaidOfFailures DEF Provided!IsReversal
<1>3. CASE Provided!Type(e) \in Provided!Reversals
  BY <1>1, <1>3, SaidOfReversals DEF Provided!IsReversal
<1>4. CASE Provided!Type(e) \notin Provided!Failures \cup Provided!Reversals
  BY <1>1, <1>4, SaidOfPayments DEF Provided!IsReversal
<1> QED
  BY <1>2, <1>3, <1>4

\* What is stored of an event, and read back, says what the event says.
LEMMA StoredForm ==
  ASSUME story \in Stories, NEW e \in Provided!Events
  PROVE  IsForm(Said(e)) /\ Provided!webhookEventToJson(Said(e)) = Said(e) /\ Said(e) # Provided!Nothing
<1>1. IsForm(Said(e))
  <2>1. IsForm(Provided!Unknown)
    BY DEF IsForm, Provided!Unknown, Provided!StoredFields
  <2> QED
    BY <2>1, Kinds
<1>2. Provided!webhookEventToJson(Said(e)) = Said(e)
  BY <1>1 DEF IsForm, Provided!webhookEventToJson
<1>3. Said(e) # Provided!Nothing
  <2>1. "nothing" \notin Provided!StoredFields /\ "nothing" \in DOMAIN Provided!Nothing
    BY DEF Provided!StoredFields, Provided!Nothing
  <2> QED
    BY <2>1, <1>1 DEF IsForm
<1> QED
  BY <1>1, <1>2, <1>3

\* What a replay reads back out of a stored event is what the event says.
LEMMA ReadBack ==
  ASSUME story \in Stories, NEW e \in Provided!Events, NEW hook, hook.normalized = Said(e)
  PROVE  Provided!storedWebhookEvent(hook) = Said(e)
BY StoredForm DEF IsForm, Provided!StoredFields, Provided!ReplayedFields,
   Provided!storedWebhookEvent

\* Whatever can find the order, or make it, works under the lock of those that write it.
LEMMA Subjects ==
  ASSUME story \in Stories, NEW e \in Provided!Events, Said(e) # Provided!Unknown,
         Said(e).status # "failed"
  PROVE  /\ Subject(e) = WriteLock => (Subscribes => Provided!Type(e) \in Provided!SessionEvents)
         /\ Provided!Traced(e) => Subject(e) = WriteLock
         /\ ~Subscribes => "payment" \in DOMAIN Said(e) /\ Said(e).payment = "pi"
         /\ Subscribes /\ Provided!Type(e) \notin Provided!SessionEvents =>
              /\ "payment" \in DOMAIN Said(e) => Said(e).payment = "pi"
              /\ "order" \in DOMAIN Said(e) => Said(e).order \in {"pi", "in"}
              /\ "checkout" \in DOMAIN Said(e) => Said(e).checkout = "pi"
         /\ Provided!Type(e) \in Provided!SessionEvents =>
              /\ "order" \in DOMAIN Said(e) /\ Said(e).order = (IF Subscribes THEN "cs" ELSE "pi")
              /\ "checkout" \in DOMAIN Said(e) /\ Said(e).checkout = "cs"
              /\ "payment" \in DOMAIN Said(e) <=> ~Subscribes
<1>1. CASE Provided!Type(e) \in Provided!Reversals
  <2>1. Provided!Type(e) \notin Provided!SessionEvents
    BY <1>1 DEF Provided!Reversals, Provided!SessionEvents
  <2>2. /\ {"payment", "order"} \subseteq DOMAIN Said(e) /\ "checkout" \notin DOMAIN Said(e)
        /\ Said(e).payment = "pi" /\ Said(e).order = "pi"
    BY <1>1, SaidOfReversals
  <2>3. Subject(e) = <<"payment", "pi">>
    BY <2>2 DEF Subject, Provided!paymentWebhookLockTarget
  <2> QED
    BY <2>1, <2>2, <2>3 DEF WriteLock, Provided!Traced, Subscribes
<1>2. CASE Provided!Type(e) \notin Provided!Reversals
  <2>1. Provided!Type(e) \notin Provided!Failures
    BY SaidOfFailures
  <2>2. CASE Provided!Type(e) = "invoice.paid"
    <3>1. /\ DOMAIN Said(e) = {"status", "type", "payment", "order", "subscription"}
          /\ Said(e).payment = "pi" /\ Said(e).order = "in" /\ Subscribes
      BY <1>2, <2>1, <2>2, SaidOfPayments
    <3>2. Subject(e) = <<"payment", "pi">>
      BY <3>1 DEF Subject, Provided!paymentWebhookLockTarget
    <3> QED
      BY <2>2, <3>1, <3>2 DEF WriteLock, Provided!Traced, Subscribes, Provided!SessionEvents
  <2>3. CASE Provided!Type(e) = "payment_intent.succeeded"
    <3>1. /\ DOMAIN Said(e) = {"status", "type", "checkout", "payment", "order"}
          /\ Said(e).checkout = "pi" /\ Said(e).payment = "pi" /\ Said(e).order = "pi"
      BY <1>2, <2>1, <2>3, SaidOfPayments
    <3>2. Subject(e) = <<"payment", "pi">>
      BY <3>1 DEF Subject, Provided!paymentWebhookLockTarget
    <3> QED
      BY <2>3, <3>1, <3>2 DEF WriteLock, Provided!Traced, Subscribes, Provided!SessionEvents
  <2>4. CASE Provided!Type(e) \in Provided!SessionEvents
    <3>1. /\ {"checkout", "order"} \subseteq DOMAIN Said(e)
          /\ Said(e).checkout = "cs" /\ Said(e).order = (IF Subscribes THEN "cs" ELSE "pi")
          /\ "payment" \in DOMAIN Said(e) <=> ~Subscribes
          /\ ~Subscribes => Said(e).payment = "pi"
      BY <1>2, <2>1, <2>4, SaidOfPayments
    <3>2. Subject(e) = WriteLock
      BY <3>1 DEF Subject, Provided!paymentWebhookLockTarget, WriteLock
    <3> QED
      BY <2>4, <3>1, <3>2
  <2> QED
    <3>1. Provided!Type(e) \in Payments
      BY <1>2, <2>1, SaidOfPayments
    <3> QED
      BY <3>1, <2>2, <2>3, <2>4 DEF Payments, Provided!SessionEvents
<1> QED
  BY <1>1, <1>2

\* The ids of the checkout and of the order.
LEMMA NamesOfOrders ==
  ASSUME story \in Stories, NEW o \in Orders
  PROVE  /\ Provided!CheckoutId \in {"cs", "pi"} /\ (Subscribes => Provided!CheckoutId = "cs")
         /\ o.checkout = Provided!CheckoutId
         /\ o.payment = (IF Subscribes THEN Provided!None ELSE "pi")
         /\ o.order = (IF Subscribes THEN "cs" ELSE "pi") /\ o.refs = <<OrderNames>>
         /\ o.status \in {"paid", "partially_refunded", "refunded"} /\ o.reversed \in 0..OrderTotal
         /\ o.status = "refunded" <=> o.reversed = OrderTotal
         /\ o # Provided!NoOrder
<1>1. /\ Provided!CheckoutId \in {"cs", "pi"} /\ (Subscribes => Provided!CheckoutId = "cs")
  BY DEF Provided!CheckoutId, Subscribes
<1>2. /\ OrderNames.checkout = Provided!CheckoutId
      /\ OrderNames.payment = (IF Subscribes THEN Provided!None ELSE "pi")
      /\ OrderNames.order = (IF Subscribes THEN "cs" ELSE "pi")
  BY DEF OrderNames
<1>3. o.status # Provided!NoOrder.status
  BY DEF Orders, Provided!NoOrder, Provided!None
<1> QED
  BY <1>1, <1>2, <1>3 DEF Orders

\* The order is found by those, and by no others.
LEMMA Finding ==
  ASSUME story \in Stories, NEW e \in Provided!Events, Said(e) # Provided!Unknown,
         Said(e).status # "failed",
         work[e].event = Said(e), order \in Copies
  PROVE  /\ Provided!findExistingPaymentOrder(e) => order \in Orders /\ Subject(e) = WriteLock
         /\ Provided!Traced(e) /\ ~Provided!findExistingPaymentOrder(e) => order = Provided!NoOrder
<1>1. CASE order = Provided!NoOrder
  BY <1>1 DEF Provided!findExistingPaymentOrder, Provided!FoundBy
<1>2. CASE order \in Orders
  <2>1. /\ Provided!CheckoutId \in {"cs", "pi"} /\ (Subscribes => Provided!CheckoutId = "cs")
        /\ order["checkout"] = Provided!CheckoutId
        /\ order["payment"] = (IF Subscribes THEN "none" ELSE "pi")
        /\ order["order"] = (IF Subscribes THEN "cs" ELSE "pi") /\ order # Provided!NoOrder
    BY <1>2, NamesOfOrders DEF Provided!None
  <2>2. \A f \in {"payment", "order", "checkout"} :
          Provided!FoundBy(e, f) <=> f \in DOMAIN Said(e) /\ order[f] = Said(e)[f]
    BY <2>1 DEF Provided!FoundBy, Provided!Has, Provided!Field
  <2>3. CASE ~Subscribes
    <3>1. Provided!Traced(e) /\ "payment" \in DOMAIN Said(e) /\ Said(e)["payment"] = "pi"
      BY <2>3, Subjects DEF Provided!Traced, Subscribes
    <3>2. Subject(e) = WriteLock /\ Provided!FoundBy(e, "payment")
      BY <3>1, <2>1, <2>2, <2>3, Subjects
    <3> QED
      BY <3>2, <1>2 DEF Provided!findExistingPaymentOrder
  <2>4. CASE Subscribes /\ Provided!Type(e) \in Provided!SessionEvents
    <3>1. Provided!Traced(e) /\ "order" \in DOMAIN Said(e) /\ Said(e)["order"] = "cs"
      BY <2>4, Subjects DEF Provided!Traced
    <3>2. Subject(e) = WriteLock /\ Provided!FoundBy(e, "order")
      BY <3>1, <2>1, <2>2, <2>4, Subjects
    <3> QED
      BY <3>2, <1>2 DEF Provided!findExistingPaymentOrder
  <2>5. CASE Subscribes /\ Provided!Type(e) \notin Provided!SessionEvents
    <3>1. ~Provided!Traced(e)
      BY <2>5 DEF Provided!Traced, Subscribes
    <3>2. /\ "payment" \in DOMAIN Said(e) => Said(e)["payment"] = "pi"
          /\ "order" \in DOMAIN Said(e) => Said(e)["order"] \in {"pi", "in"}
          /\ "checkout" \in DOMAIN Said(e) => Said(e)["checkout"] = "pi"
      BY <2>5, Subjects
    <3>3. \A f \in {"payment", "order", "checkout"} : ~Provided!FoundBy(e, f)
      BY <3>2, <2>1, <2>2, <2>5
    <3> QED
      BY <3>1, <3>3 DEF Provided!findExistingPaymentOrder
  <2> QED
    BY <2>3, <2>4, <2>5
<1> QED
  BY <1>1, <1>2 DEF Copies

\* Another event of the purchase adds nothing to what the order is called.
LEMMA Updating ==
  ASSUME story \in Stories, NEW e \in Provided!Events, Said(e) # Provided!Unknown,
         Said(e).status # "failed",
         Subject(e) = WriteLock, work[e].event = Said(e), NEW o \in Orders
  PROVE  Provided!updatePaymentOrderFromEvent(o, e) = o
<1>1. /\ Provided!CheckoutId \in {"cs", "pi"} /\ OrderNames.checkout = Provided!CheckoutId
      /\ OrderNames.payment = (IF Subscribes THEN "none" ELSE "pi")
      /\ OrderNames.order = (IF Subscribes THEN "cs" ELSE "pi")
      /\ OrderNames = [checkout |-> OrderNames.checkout, payment |-> OrderNames.payment,
                       order |-> OrderNames.order]
  BY NamesOfOrders DEF OrderNames, Provided!None
<1>2. /\ o.checkout = Provided!CheckoutId /\ o.payment = OrderNames.payment
      /\ o.order = OrderNames.order /\ o.refs = <<OrderNames>>
  BY <1>1, NamesOfOrders DEF Provided!None
<1>3. /\ \/ Provided!Has(e, "payment") /\ OrderNames.payment = Provided!Field(e, "payment")
         \/ Provided!Has(e, "order") /\ OrderNames.order = Provided!Field(e, "order")
      /\ OrderNames.payment = "none" => Provided!Optional(e, "payment") = "none"
  BY <1>1, Subjects DEF Provided!Has, Provided!Field, Provided!Optional, Provided!None
<1>4. /\ Provided!FirstKnown(OrderNames.checkout,
                              IF Provided!Has(e, "checkout") THEN Provided!Field(e, "checkout")
                              ELSE o.checkout)
           = OrderNames.checkout
      /\ Provided!FirstKnown(OrderNames.payment, Provided!Optional(e, "payment")) = OrderNames.payment
      /\ Provided!FirstKnown(OrderNames.order, Provided!Optional(e, "order")) = OrderNames.order
  BY <1>1, <1>3 DEF Provided!FirstKnown, Provided!None
<1>5. Provided!mergePaymentProviderRefs(o, e) = o.refs
  <2> DEFINE id == IF Provided!Has(e, "checkout") THEN Provided!Field(e, "checkout") ELSE o.checkout
             Fits(ref) == \/ ref.checkout = id
                          \/ Provided!Has(e, "payment") /\ ref.payment = Provided!Field(e, "payment")
                          \/ Provided!Has(e, "order") /\ ref.order = Provided!Field(e, "order")
             index == Provided!SelectInSeq(o.refs, Fits)
             existing == IF index > 0 THEN o.refs[index]
                         ELSE [checkout |-> Provided!None,
                                payment |-> Provided!None, order |-> Provided!None]
             merged == [checkout |-> Provided!FirstKnown(existing.checkout, id),
                        payment |-> Provided!FirstKnown(existing.payment,
                                                           Provided!Optional(e, "payment")),
                        order |-> Provided!FirstKnown(existing.order, Provided!Optional(e, "order"))]
  <2>1. Provided!mergePaymentProviderRefs(o, e) =
          IF index > 0 THEN [o.refs EXCEPT ![index] = merged] ELSE Append(o.refs, merged)
    BY Zenon DEF Provided!mergePaymentProviderRefs
  <2>2. Fits(OrderNames)
    BY <1>3
  <2>3. index = 1
    <3>1. Len(o.refs) = 1 /\ o.refs[1] = OrderNames
      BY <1>2
    <3> HIDE DEF Fits
    <3>2. {i \in 1..Len(o.refs) : Fits(o.refs[i])} = {1}
      BY <2>2, <3>1
    <3>3. Provided!Min({1}) = 1
      BY DEF Provided!Min
    <3> QED
      BY <3>2, <3>3 DEF Provided!SelectInSeq
  <2> HIDE DEF index
  <2>4. existing = OrderNames
    BY <1>2, <2>3
  <2> HIDE DEF existing
  <2>5. merged = OrderNames
    BY <1>1, <1>4, <2>4
  <2> HIDE DEF merged
  <2>6. [o.refs EXCEPT ![1] = OrderNames] = o.refs
    BY <1>2
  <2> QED
    BY <2>1, <2>3, <2>5, <2>6
<1>6. Provided!applyPaymentEventToOrder(o, e, o.refs) = o
  <2>1. [o EXCEPT !.payment = o.payment, !.order = o.order, !.refs = o.refs] = o
    BY DEF Orders
  <2> QED
    BY <2>1, <1>2, <1>4 DEF Provided!applyPaymentEventToOrder
<1> QED
  BY <1>5, <1>6 DEF Provided!updatePaymentOrderFromEvent

\* The order that is made has its names from an event of the lock.
LEMMA Creating ==
  ASSUME story \in Stories, NEW e \in Provided!Events, Said(e) # Provided!Unknown,
         Said(e).status = "paid",
         "checkout" \in DOMAIN Said(e), Said(e).checkout = Provided!CheckoutId,
         work[e].event = Said(e)
  PROVE  /\ Subject(e) = WriteLock /\ Provided!createPaymentOrderDocument(e) \in Orders
         /\ Provided!createPaymentOrderDocument(e).reversed = 0
<1>1. Provided!Type(e) \in Payments /\ Provided!Type(e) \notin Provided!Failures \cup Provided!Reversals
  BY Kinds DEF Provided!IsReversal
<1>2. /\ Provided!Type(e) # "invoice.paid"
      /\ Provided!Optional(e, "payment") = OrderNames.payment
      /\ Provided!Optional(e, "order") = OrderNames.order
      /\ Subscribes => Provided!Type(e) \in Provided!SessionEvents
  <2>1. CASE Provided!Type(e) = "invoice.paid"
    BY <1>1, <2>1, SaidOfPayments
  <2>2. CASE Provided!Type(e) = "payment_intent.succeeded"
    <3>1. /\ DOMAIN Said(e) = {"status", "type", "checkout", "payment", "order"}
          /\ Said(e).checkout = "pi" /\ Said(e).payment = "pi" /\ Said(e).order = "pi"
      BY <1>1, <2>2, SaidOfPayments
    <3>2. ~Subscribes
      BY <3>1 DEF Provided!CheckoutId, Subscribes
    <3> QED
      BY <2>2, <3>1, <3>2 DEF Provided!Optional, Provided!Has, Provided!Field, OrderNames
  <2>3. CASE Provided!Type(e) \in Provided!SessionEvents
    <3>1. /\ "order" \in DOMAIN Said(e) /\ Said(e).order = (IF Subscribes THEN "cs" ELSE "pi")
          /\ "payment" \in DOMAIN Said(e) <=> ~Subscribes
          /\ ~Subscribes => Said(e).payment = "pi"
      BY <1>1, <2>3, SaidOfPayments
    <3> QED
      BY <2>3, <3>1 DEF Provided!Optional, Provided!Has, Provided!Field, OrderNames,
         Provided!SessionEvents
  <2> QED
    BY <1>1, <2>1, <2>2, <2>3 DEF Payments, Provided!SessionEvents
<1>3. Subject(e) = WriteLock
  BY <1>2, Subjects DEF Provided!Traced, Subscribes
<1>4. Provided!createPaymentOrderDocument(e) =
        [status |-> "paid", checkout |-> OrderNames.checkout, payment |-> OrderNames.payment,
         order |-> OrderNames.order, reversed |-> 0, refs |-> <<OrderNames>>]
  <2>1. Provided!Field(e, "checkout") = OrderNames.checkout /\ OrderNames.checkout = Provided!CheckoutId
    BY DEF Provided!Field, OrderNames
  <2>2. OrderNames = [checkout |-> OrderNames.checkout, payment |-> OrderNames.payment,
                      order |-> OrderNames.order]
    BY DEF OrderNames
  <2> QED
    BY <1>2, <2>1, <2>2 DEF Provided!createPaymentOrderDocument, Provided!createOrderAggregate
<1>5. OrderTotal \in Nat \ {0}
  BY StoryFacts
<1> QED
  BY <1>3, <1>4, <1>5 DEF Orders

----------------------------------------------------------------------------
(* What every step has in common *)

\* As long as the story is the same, so is what the events say.
LEMMA SameStory ==
  ASSUME story' = story
  PROVE  /\ Provided!Events' = Provided!Events /\ Subscribes' = Subscribes /\ WriteLock' = WriteLock
         /\ Provided!CheckoutId' = Provided!CheckoutId /\ Orders' = Orders /\ Copies' = Copies
<1>1. Provided!Events' = Provided!Events /\ Subscribes' = Subscribes
  BY DEF Provided!Events, Subscribes
<1>2. WriteLock' = WriteLock /\ Provided!CheckoutId' = Provided!CheckoutId
  BY DEF WriteLock, Provided!CheckoutId, Subscribes
<1>3. OrderNames' = OrderNames
  BY <1>1, <1>2 DEF OrderNames
<1>4. Orders' = Orders
  BY <1>3 DEF Orders
<1> QED
  BY <1>1, <1>2, <1>4 DEF Copies

\* What an event says, and what its rows may be, are the story's alone.
LEMMA SameWords ==
  ASSUME story' = story, NEW e
  PROVE  /\ Provided!Type(e)' = Provided!Type(e) /\ Said(e)' = Said(e) /\ Subject(e)' = Subject(e)
         /\ Provided!Traced(e)' = Provided!Traced(e)
         /\ story'.events[e].amount = story.events[e].amount
         /\ StepsOf(e)' = StepsOf(e) /\ Hooks(e)' = Hooks(e) /\ WorkRows(e)' = WorkRows(e)
<1>1. Provided!Type(e)' = Provided!Type(e)
  BY DEF Provided!Type
<1>2. Provided!Object(e)' = Provided!Object(e)
  BY <1>1 DEF Provided!Object
<1>3. /\ Provided!stripePaymentFailureEvent(e)' = Provided!stripePaymentFailureEvent(e)
      /\ Provided!stripePaymentReversalEvent(e)' = Provided!stripePaymentReversalEvent(e)
  BY <1>1, <1>2 DEF Provided!stripePaymentFailureEvent, Provided!stripePaymentReversalEvent
<1>4. /\ Provided!stripeInvoicePaid(e)' = Provided!stripeInvoicePaid(e)
      /\ Provided!stripeIntentSucceeded(e)' = Provided!stripeIntentSucceeded(e)
      /\ Provided!stripeSessionPaid(e)' = Provided!stripeSessionPaid(e)
  BY <1>1, <1>2 DEF Provided!stripeInvoicePaid, Provided!stripeIntentSucceeded,
     Provided!stripeSessionPaid
<1>5. /\ Provided!stripeInvoiceEventIsPaid(e)' = Provided!stripeInvoiceEventIsPaid(e)
      /\ Provided!stripeCheckoutSessionIsPaid(e)' = Provided!stripeCheckoutSessionIsPaid(e)
  BY <1>1 DEF Provided!stripeInvoiceEventIsPaid, Provided!stripeCheckoutSessionIsPaid
<1>6. Said(e)' = Said(e)
  BY <1>1, <1>3, <1>4, <1>5 DEF Said, Provided!parseStripeWebhookEvent
<1>7. Subject(e)' = Subject(e)
  BY <1>6 DEF Subject
<1>8. StepsOf(e)' = StepsOf(e) /\ Hooks(e)' = Hooks(e)
  BY <1>1, <1>6 DEF StepsOf, Hooks
<1>9. WorkRows(e)' = WorkRows(e)
  BY <1>6, <1>8, SameStory DEF WorkRows
<1>10. Provided!Traced(e)' = Provided!Traced(e)
  BY <1>1 DEF Provided!Traced
<1> QED
  BY <1>1, <1>6, <1>7, <1>8, <1>9, <1>10

\* What is there stays there.
Stays == (order # Provided!NoOrder => order' # Provided!NoOrder)
         /\ (checkout # Provided!None => checkout' # Provided!None)

\* What is given back, refunded, ended or completed remains so.
Forward ==
  /\ order # Provided!NoOrder => order.reversed <= order'.reversed
  /\ order # Provided!NoOrder /\ order.status = "refunded" => order'.status = "refunded"
  /\ checkout \notin {Provided!None, "created", "redirected"} =>
       checkout' \notin {Provided!None, "created", "redirected"}
  /\ checkout = "completed" => checkout' = "completed"

\* Each lock has one holder, and nobody but e has lost one.
LocksBut(e) ==
  /\ \A lock \in locks' : lock.owner \in Provided!Events
  /\ \A k, l \in locks' : k.subject = l.subject => k = l
  /\ \A lock \in locks : lock.owner # e => lock \in locks'

\* An effect lasts.
LEMMA EffectStays ==
  ASSUME story' = story, story \in Stories, order \in Copies, order' \in Copies, Stays, Forward,
         NEW e \in Provided!Events, Provided!Effect(e)
  PROVE  Provided!Effect(e)'
<1>1. /\ Provided!Type(e)' = Provided!Type(e) /\ story'.events[e].amount = story.events[e].amount
  BY SameWords
<1>2. story.events[e].amount \in Nat /\ OrderTotal \in Nat
  BY StoryFacts
<1>3. ASSUME order # Provided!NoOrder, order.reversed >= story.events[e].amount
      PROVE  order' # Provided!NoOrder /\ order'.reversed >= story.events[e].amount
  <2>1. order \in Orders /\ order' \in Orders /\ order.reversed <= order'.reversed
    BY <1>3, SameStory DEF Stays, Forward, Copies
  <2>2. order.reversed \in Nat /\ order'.reversed \in Nat
    BY <2>1, <1>2, NamesOfOrders
  <2> QED
    BY <2>1, <2>2, <1>2, <1>3 DEF Stays
<1>4. ASSUME order # Provided!NoOrder, checkout = "completed" \/ order.status = "refunded"
      PROVE  order' # Provided!NoOrder /\ (checkout' = "completed" \/ order'.status = "refunded")
  BY <1>4 DEF Stays, Forward
<1>5. CASE Provided!Type(e) \in Provided!Reversals
  <2>1. order # Provided!NoOrder /\ order.reversed >= story.events[e].amount
    BY <1>5 DEF Provided!Effect, Provided!Reversals
  <2> QED
    BY <1>1, <1>3, <1>5, <2>1 DEF Provided!Effect, Provided!Reversals
<1>6. CASE Provided!Type(e) = "checkout.session.expired"
  <2>1. checkout \notin {Provided!None, "created", "redirected"}
    BY <1>6 DEF Provided!Effect, Provided!Reversals
  <2> QED
    BY <1>1, <1>6, <2>1 DEF Provided!Effect, Provided!Reversals, Forward
<1>7. CASE Provided!Type(e) = "invoice.paid"
  BY <1>1, <1>7 DEF Provided!Effect, Provided!Reversals
<1>8. CASE Provided!Type(e) \notin Provided!Reversals \cup {"checkout.session.expired", "invoice.paid"}
  <2>1. order # Provided!NoOrder /\ (checkout = "completed" \/ order.status = "refunded")
    BY <1>8 DEF Provided!Effect
  <2> QED
    BY <1>1, <1>4, <1>8, <2>1 DEF Provided!Effect
<1> QED
  BY <1>5, <1>6, <1>7, <1>8

\* Two handlers of one lock exclude each other.
LEMMA Exclusion ==
  ASSUME EventsInv, ~late, NEW e \in Provided!Events, NEW f \in Provided!Events, e # f, Busy(e),
         Busy(f),
         Provided!At(e, "refuse") => Provided!IsReversal(Said(e)),
         Provided!At(f, "refuse") => Provided!IsReversal(Said(f)),
         Subject(e) = Subject(f)
  PROVE  FALSE
<1>1. Locked(e) /\ Locked(f) /\ \A k, l \in locks : k.subject = l.subject => k = l
  BY DEF EventsInv, Documents, Sound
<1>2. [subject |-> Subject(e), owner |-> e] \in locks /\ [subject |-> Subject(f), owner |-> f] \in locks
  BY <1>1 DEF Locked
<1> QED
  BY <1>1, <1>2

\* A step of one handler leaves what holds of the others.
LEMMA OtherRows ==
  ASSUME story' = story, story \in Stories, made \in Nat, made' \in Nat, made <= made', Stays,
         NEW f \in Provided!Events, RowHolds(f), work'[f] = work[f],
         hooks'[f] \in Hooks(f), hooks'[f].status = hooks[f].status
  PROVE  RowHolds(f)'
<1>1. /\ Said(f)' = Said(f) /\ Subject(f)' = Subject(f) /\ Hooks(f)' = Hooks(f)
      /\ WorkRows(f)' = WorkRows(f) /\ Provided!CheckoutId' = Provided!CheckoutId
      /\ WriteLock' = WriteLock
  BY SameStory, SameWords
<1>2. hooks'[f] = NoHook <=> hooks[f] = NoHook
  <2>1. \A h \in Hooks(f) : h = NoHook <=> h.status = Provided!None
    BY DEF Hooks, NoHook, Provided!None
  <2> QED
    BY <2>1 DEF RowHolds
<1>3. f \in Nat
  BY StoryFacts
<1> QED
  BY <1>1, <1>2, <1>3 DEF RowHolds, Busy, Writes, Provided!At, Stays

\* A handler that is not the one at work stays sound, as long as the order is written under its lock.
LEMMA OtherSound ==
  ASSUME EventsInv, ~late, story' = story, Stays, Forward, order' \in Copies,
         NEW f \in Provided!Events, work'[f] = work[f], hooks'[f].status = hooks[f].status,
         \A lock \in locks : lock.owner = f => lock \in locks',
         order' = order \/ \E e \in Provided!Events \ {f} : Writes(e)
  PROVE  Sound(f)'
<1>1. story \in Stories /\ order \in Copies /\ Sound(f) /\ RowHolds(f)
  BY DEF EventsInv, Documents
<1>2. Said(f)' = Said(f) /\ Subject(f)' = Subject(f) /\ Provided!Traced(f)' = Provided!Traced(f)
  BY SameWords
<1>3. Locked(f)'
  BY <1>1, <1>2 DEF Sound, Locked, Busy, Provided!At, Provided!IsReversal
<1>4. /\ hooks'[f].status = "processed" => Provided!Effect(f)'
      /\ work'[f] # Provided!Idle /\ work'[f].step = "mark" => Provided!Effect(f)'
  BY <1>1, EffectStays DEF Sound, Busy, Provided!At
<1>5. ASSUME Busy(f), \/ work[f].step \in {"update", "reverse"}
                      \/ Provided!Traced(f) /\ (Provided!At(f, "link") \/ Provided!At(f, "create")
                                       \/ (Provided!At(f, "refuse") /\ Provided!IsReversal(Said(f))))
      PROVE  order' = order
  <2> SUFFICES ASSUME NEW e \in Provided!Events \ {f}, Writes(e)
               PROVE  FALSE
    OBVIOUS
  <2>1. Subject(e) = WriteLock /\ Busy(e) /\ ~Provided!At(e, "refuse")
    BY DEF EventsInv, RowHolds, Writes, Provided!At
  <2>2. /\ Said(f) # Provided!Unknown /\ (Provided!At(f, "refuse") => Provided!IsReversal(Said(f)))
        /\ work[f] \in WorkRows(f) /\ (Writes(f) => Subject(f) = WriteLock)
    BY <1>1, <1>5 DEF RowHolds, Provided!At
  <2>3. Subject(f) = WriteLock
    <3>1. CASE work[f].step \in {"update", "reverse"}
      BY <1>5, <2>2, <3>1 DEF Writes
    <3>2. CASE Provided!Traced(f) /\ work[f].step \in {"link", "create", "refuse"}
      <4>1. Said(f).status # "failed"
        <5>1. CASE Provided!At(f, "refuse")
          BY <5>1, <2>2 DEF Provided!IsReversal
        <5>2. CASE ~Provided!At(f, "refuse")
          BY <5>2, <3>2, <2>2 DEF WorkRows, StepsOf, Provided!At
        <5> QED
          BY <5>1, <5>2
      <4> QED
        BY <4>1, <3>2, <2>2, <1>1, Subjects
    <3> QED
      BY <1>5, <3>1, <3>2 DEF Provided!At
  <2> QED
    BY <1>5, <2>1, <2>2, <2>3, Exclusion
<1>6. Busy(f) /\ work[f].step \in {"update", "reverse"} => work[f].order = order'
  BY <1>1, <1>5 DEF Sound
<1>7. Busy(f) /\ Provided!Traced(f) /\ (Provided!At(f, "link") \/ Provided!At(f, "create")
                              \/ (Provided!At(f, "refuse") /\ Provided!IsReversal(Said(f))))
                               => order' = Provided!NoOrder
  BY <1>1, <1>5 DEF Sound
<1> QED
  BY <1>2, <1>3, <1>4, <1>6, <1>7 DEF Sound, Busy, Provided!At, Provided!IsReversal

\* A step of the handler of e keeps the invariant, when it keeps what e owes to it.
LEMMA Advance ==
  ASSUME EventsInv, NEW e \in Provided!Events, story' = story, made' = made, late' = late,
         DOMAIN hooks' = Provided!Events, DOMAIN work' = Provided!Events,
         \A f \in Provided!Events \ {e} : work'[f] = work[f] /\ hooks'[f] = hooks[f],
         LocksBut(e), order' \in Copies, Stays,
         order' # Provided!NoOrder => checkout' # Provided!None,
         RowHolds(e)',
         ~late => Forward /\ Sound(e)' /\ GivenBack' /\ (order' = order \/ Writes(e))
  PROVE  EventsInv'
<1>1. story \in Stories /\ made \in Nat /\ late \in BOOLEAN /\ \A f \in Provided!Events : RowHolds(f)
  BY DEF EventsInv, Documents
<1>2. Provided!Events' = Provided!Events /\ Copies' = Copies
  BY SameStory
<1>3. Documents'
  BY <1>1, <1>2 DEF Documents, LocksBut
<1>4. ASSUME NEW f \in Provided!Events
      PROVE  RowHolds(f)'
  <2>1. CASE f = e
    BY <2>1
  <2>2. CASE f # e
    <3>1. work'[f] = work[f] /\ hooks'[f] = hooks[f] /\ hooks[f] \in Hooks(f)
      BY <2>2, <1>1 DEF RowHolds
    <3> QED
      BY <3>1, <1>1, OtherRows
  <2> QED
    BY <2>1, <2>2
<1>5. ASSUME ~late, NEW f \in Provided!Events
      PROVE  Sound(f)'
  <2>1. CASE f = e
    BY <2>1, <1>5
  <2>2. CASE f # e
    <3>1. /\ work'[f] = work[f] /\ hooks'[f].status = hooks[f].status
          /\ \A lock \in locks : lock.owner = f => lock \in locks'
      BY <2>2 DEF LocksBut
    <3>2. order' = order \/ \E g \in Provided!Events \ {f} : Writes(g)
      BY <1>5, <2>2
    <3> QED
      BY <3>1, <3>2, <1>5, OtherSound
  <2> QED
    BY <2>1, <2>2
<1> QED
  BY <1>2, <1>3, <1>4, <1>5 DEF EventsInv

\* A step that only goes on: the row has a new step and maybe a copy.
LEMMA LocksSame ==
  ASSUME EventsInv, locks' = locks, NEW e
  PROVE  LocksBut(e)
BY DEF EventsInv, Documents, LocksBut

\* Releasing the locks of one handler leaves those of the others.
LEMMA LocksReleased ==
  ASSUME EventsInv, NEW e, Provided!Release(e)
  PROVE  LocksBut(e)
BY DEF EventsInv, Documents, LocksBut, Provided!Release, Provided!Holds

\* Nothing of the order or the checkout changes.
LEMMA NothingMoves ==
  ASSUME order' = order, checkout' = checkout, order \in Copies, story \in Stories
  PROVE  Stays /\ Forward
<1>1. order # Provided!NoOrder => order.reversed \in Int
  BY NamesOfOrders, StoryFacts DEF Copies
<1> QED
  BY <1>1 DEF Stays, Forward

\* What has been given back stays within what Stripe said.
LEMMA SameGivenBack ==
  ASSUME story' = story, made' = made, order' = order, GivenBack
  PROVE  GivenBack'
<1>1. \A f : Provided!Type(f)' = Provided!Type(f)
  BY SameWords
<1>2. Provided!Refunded' = Provided!Refunded
  BY <1>1 DEF Provided!Refunded
<1> QED
  BY <1>2 DEF GivenBack

\* What a handler at work knows.
LEMMA AtWork ==
  ASSUME EventsInv, NEW e \in Provided!Events, ~Provided!At(e, "idle")
  PROVE  /\ Busy(e) /\ RowHolds(e) /\ work[e] \in WorkRows(e) /\ work[e].event = Said(e)
         /\ Said(e) # Provided!Unknown /\ work[e].step \in StepsOf(e) /\ work[e].order \in Copies
         /\ hooks[e] # NoHook /\ hooks[e].status # Provided!None /\ e \in 1..made
         /\ story \in Stories /\ order \in Copies /\ made \in Nat
         /\ ~late => Sound(e)
<1>1. /\ RowHolds(e) /\ story \in Stories /\ order \in Copies /\ made \in Nat
      /\ ~late => Sound(e)
  BY DEF EventsInv, Documents
<1>2. Busy(e)
  BY DEF Busy, Provided!At, Provided!Idle
<1>3. \A h \in Hooks(e) : h # NoHook => h.status # Provided!None
  BY DEF Hooks, NoHook, Provided!None
<1>4. e \in Nat \ {0}
  BY <1>1, StoryFacts
<1> QED
  BY <1>1, <1>2, <1>3, <1>4 DEF RowHolds, WorkRows

\* The steps of the list.
LEMMA StepNames ==
  ASSUME story \in Stories, NEW e \in Provided!Events, Said(e) # Provided!Unknown
  PROVE  /\ StepsOf(e) \subseteq {"find", "link", "create", "update", "complete", "reverse", "expire",
                                  "mark", "refuse"}
         /\ Said(e).status = "paid" =>
              StepsOf(e) = {"find", "link", "create", "update", "complete", "mark", "refuse"}
         /\ Provided!IsReversal(Said(e)) => StepsOf(e) = {"find", "reverse", "mark", "refuse"}
         /\ Said(e).status = "failed" /\ Provided!Type(e) = "checkout.session.expired" =>
              StepsOf(e) = {"expire", "mark", "refuse"}
         /\ Said(e).status = "failed" /\ Provided!Type(e) # "checkout.session.expired" =>
              StepsOf(e) = {"refuse"}
BY Kinds DEF StepsOf, Provided!IsReversal

\* A row with another step, and with another step and another copy.
LEMMA RowStep ==
  ASSUME EventsInv, NEW e \in Provided!Events, ~Provided!At(e, "idle"), NEW step \in StepsOf(e),
         Provided!Go(e, step)
  PROVE  /\ DOMAIN work' = Provided!Events /\ work'[e] \in WorkRows(e) /\ work'[e].step = step
         /\ work'[e].order = work[e].order /\ work'[e] # Provided!Idle
         /\ \A f \in Provided!Events \ {e} : work'[f] = work[f]
<1>1. DOMAIN work = Provided!Events /\ work[e] \in WorkRows(e)
       /\ story \in Stories /\ Said(e) # Provided!Unknown
  BY AtWork DEF EventsInv, Documents
<1>2. /\ DOMAIN work' = Provided!Events /\ work'[e] = [work[e] EXCEPT !.step = step]
      /\ \A f \in Provided!Events \ {e} : work'[f] = work[f]
  BY <1>1 DEF Provided!Go
<1>3. step # "idle"
  BY <1>1, StepNames
<1> QED
  BY <1>1, <1>2, <1>3 DEF WorkRows, Provided!Idle

\* A step of a handler that keeps a copy of the order as well.
LEMMA RowStepWith ==
  ASSUME EventsInv, NEW e \in Provided!Events, ~Provided!At(e, "idle"), NEW step \in StepsOf(e),
         NEW copy \in Copies,
         Provided!GoWith(e, step, copy)
  PROVE  /\ DOMAIN work' = Provided!Events /\ work'[e] \in WorkRows(e) /\ work'[e].step = step
         /\ work'[e].order = copy /\ work'[e] # Provided!Idle
         /\ \A f \in Provided!Events \ {e} : work'[f] = work[f]
<1>1. DOMAIN work = Provided!Events /\ work[e] \in WorkRows(e)
       /\ story \in Stories /\ Said(e) # Provided!Unknown
  BY AtWork DEF EventsInv, Documents
<1>2. /\ DOMAIN work' = Provided!Events /\ work'[e] = [work[e] EXCEPT !.step = step, !.order = copy]
      /\ \A f \in Provided!Events \ {e} : work'[f] = work[f]
  BY <1>1 DEF Provided!GoWith
<1>3. step # "idle"
  BY <1>1, StepNames
<1> QED
  BY <1>1, <1>2, <1>3 DEF WorkRows, Provided!Idle

\* What a row owes after a step.
LEMMA RowOwes ==
  ASSUME EventsInv, NEW e \in Provided!Events, ~Provided!At(e, "idle"), story' = story,
         made' = made,
         hooks'[e] = hooks[e], work'[e] \in WorkRows(e),
         work'[e].step \in {"create", "update", "reverse"} => Subject(e) = WriteLock,
         work'[e].step = "create" =>
           checkout' # Provided!None /\ "checkout" \in DOMAIN Said(e)
             /\ Said(e).checkout = Provided!CheckoutId,
         work'[e].step \in {"update", "reverse"} => work'[e].order # Provided!NoOrder,
         work'[e].step \in {"update", "reverse", "complete"} => order' # Provided!NoOrder
  PROVE  RowHolds(e)'
<1>1. /\ Said(e)' = Said(e) /\ Subject(e)' = Subject(e) /\ Hooks(e)' = Hooks(e)
      /\ WorkRows(e)' = WorkRows(e) /\ Provided!CheckoutId' = Provided!CheckoutId
      /\ WriteLock' = WriteLock
  BY SameStory, SameWords
<1>2. RowHolds(e) /\ hooks[e] # NoHook /\ Said(e) # Provided!Unknown
  BY AtWork
<1> QED
  BY <1>1, <1>2 DEF RowHolds, Busy, Writes, Provided!At

\* A handler that goes on under its lock owes what its next step says.
LEMMA SoundOwes ==
  ASSUME EventsInv, ~late, NEW e \in Provided!Events, ~Provided!At(e, "idle"),
         ~Provided!At(e, "refuse"),
         story' = story, locks' = locks, hooks'[e] = hooks[e], order' \in Copies, Stays, Forward,
         work'[e].step \in {"update", "reverse"} => work'[e].order = order',
         Provided!Traced(e) /\ (work'[e].step \in {"link", "create"}
                       \/ (work'[e].step = "refuse" /\ Provided!IsReversal(Said(e))))
                        => order' = Provided!NoOrder,
         work'[e].step = "mark" => Provided!Effect(e)'
  PROVE  Sound(e)'
<1>1. Said(e)' = Said(e) /\ Subject(e)' = Subject(e) /\ Provided!Traced(e)' = Provided!Traced(e)
  BY SameWords
<1>2. Busy(e) /\ Sound(e) /\ story \in Stories /\ order \in Copies
  BY AtWork
<1>3. [subject |-> Subject(e), owner |-> e] \in locks
  BY <1>2 DEF Sound, Locked
<1>4. hooks'[e].status = "processed" => Provided!Effect(e)'
  BY <1>2, EffectStays DEF Sound
<1> QED
  BY <1>1, <1>3, <1>4 DEF Sound, Locked, Busy, Provided!At, Provided!IsReversal

\* The order is found, or there is none.
LEMMA FindKeeps ==
  ASSUME EventsInv, NEW e \in Provided!Events, Provided!Find(e)
  PROVE  EventsInv'
<1>1. /\ Provided!At(e, "find") /\ story' = story /\ made' = made /\ late' = late /\ hooks' = hooks
      /\ locks' = locks /\ order' = order /\ checkout' = checkout
      /\ ~Provided!At(e, "idle") /\ ~Provided!At(e, "refuse")
  BY DEF Provided!Find, Provided!At
<1>2. /\ Busy(e) /\ work[e].event = Said(e) /\ work[e].step \in StepsOf(e)
      /\ work[e].order \in Copies /\ Said(e) # Provided!Unknown
      /\ story \in Stories /\ order \in Copies /\ RowHolds(e)
      /\ ~late => Sound(e)
  BY <1>1, AtWork
<1>3. Said(e).status # "failed"
  BY <1>1, <1>2, StepNames DEF Provided!At
<1>4. /\ DOMAIN hooks' = Provided!Events /\ LocksBut(e) /\ Stays /\ Forward
      /\ order' # Provided!NoOrder => checkout' # Provided!None
      /\ ~late => GivenBack /\ GivenBack'
  BY <1>1, <1>2, LocksSame, NothingMoves, SameGivenBack DEF EventsInv, Documents
<1>5. ASSUME NEW step \in StepsOf(e), NEW copy \in Copies,
             (Provided!Go(e, step) /\ copy = work[e].order) \/ Provided!GoWith(e, step, copy),
             step \notin {"create", "complete"},
             step \in {"update", "reverse"} => Provided!findExistingPaymentOrder(e) /\ copy = order,
             Provided!Traced(e)
             /\ (step = "link" \/ (step = "refuse" /\ Provided!IsReversal(Said(e)))) =>
               order = Provided!NoOrder,
             step = "mark" /\ ~late => Provided!Effect(e)'
      PROVE  EventsInv'
  <2>1. /\ DOMAIN work' = Provided!Events /\ work'[e] \in WorkRows(e) /\ work'[e].step = step
        /\ work'[e].order = copy /\ \A f \in Provided!Events \ {e} : work'[f] = work[f]
    <3>1. CASE Provided!Go(e, step) /\ copy = work[e].order
      BY <3>1, <1>1, RowStep
    <3>2. CASE Provided!GoWith(e, step, copy)
      BY <3>2, <1>1, RowStepWith
    <3> QED
      BY <1>5, <3>1, <3>2
  <2>2. Provided!findExistingPaymentOrder(e) =>
        order \in Orders /\ order # Provided!NoOrder /\ Subject(e) = WriteLock
    BY <1>2, <1>3, Finding, NamesOfOrders
  <2>3. RowHolds(e)'
    BY <1>1, <1>2, <1>5, <2>1, <2>2, RowOwes
  <2>4. ~late => Sound(e)'
    BY <1>1, <1>2, <1>4, <1>5, <2>1, SoundOwes
  <2> QED
    BY <1>1, <1>2, <1>4, <2>1, <2>3, <2>4, Advance
<1>6. CASE ~Provided!IsReversal(Said(e)) /\ Provided!findExistingPaymentOrder(e)
  <2>1. Provided!GoWith(e, "update", order)
    BY <1>2, <1>6 DEF Provided!Find
  <2>2. "update" \in StepsOf(e)
    BY <1>2, <1>3, <1>6, StepNames, Kinds DEF Provided!IsReversal
  <2> QED
    BY <1>2, <1>5, <1>6, <2>1, <2>2
<1>7. CASE ~Provided!IsReversal(Said(e)) /\ ~Provided!findExistingPaymentOrder(e)
  <2>1. Provided!Go(e, "link")
    BY <1>2, <1>7 DEF Provided!Find
  <2>2. "link" \in StepsOf(e)
    BY <1>2, <1>3, <1>7, StepNames, Kinds DEF Provided!IsReversal
  <2>3. Provided!Traced(e) => order = Provided!NoOrder
    BY <1>2, <1>3, <1>7, Finding
  <2> QED
    BY <1>2, <1>5, <1>7, <2>1, <2>2, <2>3
<1>8. CASE Provided!IsReversal(Said(e))
  <2>1. /\ StepsOf(e) = {"find", "reverse", "mark", "refuse"}
        /\ Provided!Type(e) \in Provided!Reversals
        /\ {"payment", "order"} \subseteq DOMAIN Said(e)
        /\ Said(e).status = "partially_refunded" => "amount" \in DOMAIN Said(e)
    BY <1>2, <1>8, StepNames, Kinds, SaidOfReversals
  <2>2. Provided!reversalHasStrongOrderIdentity(Said(e))
        /\ (Said(e).status = "partially_refunded" => Provided!Has(e, "amount"))
    BY <2>1, <1>2 DEF Provided!reversalHasStrongOrderIdentity, Provided!Has
  <2>3. CASE ~Provided!findExistingPaymentOrder(e)
    <3>1. Provided!Go(e, "refuse")
      BY <1>2, <1>8, <2>2, <2>3 DEF Provided!Find
    <3>2. Provided!Traced(e) => order = Provided!NoOrder
      BY <1>2, <1>3, <2>3, Finding
    <3> QED
      BY <1>2, <1>5, <2>1, <3>1, <3>2
  <2>4. CASE Provided!findExistingPaymentOrder(e) /\ order.status = "refunded"
    <3>1. Provided!Go(e, "mark")
      BY <1>2, <1>8, <2>4 DEF Provided!Find
    <3>2. order \in Orders
      BY <1>2, <1>3, <2>4, Finding
    <3>3. order # Provided!NoOrder /\ order.reversed = OrderTotal
        /\ story.events[e].amount \in 0..OrderTotal
      BY <1>2, <2>4, <3>2, NamesOfOrders, StoryFacts
    <3>4. Provided!Effect(e)
      BY <2>1, <3>3 DEF Provided!Effect, Provided!Reversals
    <3>5. Provided!Effect(e)'
      BY <1>1, <1>2, <1>4, <3>4, EffectStays
    <3> QED
      BY <1>2, <1>5, <2>1, <3>1, <3>5
  <2>5. CASE Provided!findExistingPaymentOrder(e) /\ order.status # "refunded"
    <3>1. Provided!GoWith(e, "reverse", order)
      BY <1>2, <1>8, <2>2, <2>5 DEF Provided!Find
    <3> QED
      BY <1>2, <1>5, <2>1, <2>5, <3>1
  <2> QED
    BY <2>3, <2>4, <2>5
<1> QED
  BY <1>6, <1>7, <1>8

\* The checkout is found by the session of a paid event, of which there is no order yet.
LEMMA LinkKeeps ==
  ASSUME EventsInv, NEW e \in Provided!Events, Provided!Link(e)
  PROVE  EventsInv'
<1>1. /\ Provided!At(e, "link") /\ story' = story /\ made' = made /\ late' = late /\ hooks' = hooks
      /\ locks' = locks /\ order' = order /\ checkout' = checkout
      /\ ~Provided!At(e, "idle") /\ ~Provided!At(e, "refuse")
  BY DEF Provided!Link, Provided!At
<1>2. /\ Busy(e) /\ work[e].event = Said(e) /\ work[e].step \in StepsOf(e)
      /\ work[e].order \in Copies /\ Said(e) # Provided!Unknown
      /\ story \in Stories /\ order \in Copies /\ RowHolds(e)
      /\ ~late => Sound(e)
  BY <1>1, AtWork
<1>3. /\ Said(e).status = "paid" /\ ~Provided!IsReversal(Said(e)) /\ Provided!Type(e) \in Payments
      /\ {"create", "mark", "refuse"} \subseteq StepsOf(e)
  <2>1. Said(e).status \in {"failed", "paid", "refunded", "partially_refunded"}
    BY <1>2, Kinds
  <2>2. Said(e).status = "paid"
    BY <1>1, <1>2, <2>1, StepNames DEF Provided!At, Provided!IsReversal
  <2> QED
    BY <1>2, <2>2, StepNames, Kinds DEF Provided!IsReversal
<1>4. /\ DOMAIN hooks' = Provided!Events /\ LocksBut(e) /\ Stays /\ Forward
      /\ order' # Provided!NoOrder => checkout' # Provided!None
      /\ ~late => GivenBack /\ GivenBack'
  BY <1>1, <1>2, LocksSame, NothingMoves, SameGivenBack DEF EventsInv, Documents
<1>5. ~late /\ Provided!Traced(e) => order = Provided!NoOrder
  BY <1>1, <1>2 DEF Sound
<1>6. ASSUME NEW step \in {"create", "mark", "refuse"}, Provided!Go(e, step),
             step = "create" => Provided!findPaymentEventCheckout(e),
             step = "mark" => Provided!Type(e) = "invoice.paid"
      PROVE  EventsInv'
  <2>1. /\ DOMAIN work' = Provided!Events /\ work'[e] \in WorkRows(e) /\ work'[e].step = step
        /\ work'[e].order = work[e].order /\ \A f \in Provided!Events \ {e} : work'[f] = work[f]
    BY <1>1, <1>3, <1>6, RowStep
  <2>2. step = "create" => /\ checkout' # Provided!None /\ "checkout" \in DOMAIN Said(e)
                           /\ Said(e).checkout = Provided!CheckoutId /\ Subject(e) = WriteLock
    BY <1>1, <1>2, <1>3, <1>6, Creating DEF Provided!findPaymentEventCheckout, Provided!Has,
       Provided!Field
  <2>3. RowHolds(e)'
    BY <1>1, <1>2, <2>1, <2>2, RowOwes
  <2>4. step = "mark" => Provided!Effect(e)'
    <3>1. Provided!Type(e)' = Provided!Type(e)
      BY <1>1, SameWords
    <3> QED
      BY <1>6, <3>1 DEF Provided!Effect, Provided!Reversals
  <2>5. ~late => Sound(e)'
    BY <1>1, <1>2, <1>3, <1>4, <1>5, <2>1, <2>4, SoundOwes
  <2> QED
    BY <1>1, <1>2, <1>4, <2>1, <2>3, <2>5, Advance
<1>7. CASE Provided!findPaymentEventCheckout(e)
  BY <1>6, <1>7 DEF Provided!Link
<1>8. CASE ~Provided!findPaymentEventCheckout(e) /\ Provided!Has(e, "subscription")
  <2>1. Provided!Go(e, "mark")
    BY <1>8 DEF Provided!Link
  <2>2. Provided!Type(e) = "invoice.paid"
    <3>1. "subscription" \in DOMAIN Said(e)
        /\ Provided!Type(e) \notin Provided!Failures \cup Provided!Reversals
      BY <1>2, <1>3, <1>8, Kinds DEF Provided!Has
    <3> QED
      BY <1>2, <1>3, <3>1, SaidOfPayments DEF Payments, Provided!SessionEvents
  <2> QED
    BY <1>6, <2>1, <2>2
<1>9. CASE ~Provided!findPaymentEventCheckout(e) /\ ~Provided!Has(e, "subscription")
  <2>1. Provided!Go(e, "refuse")
    BY <1>9 DEF Provided!Link
  <2> QED
    BY <1>6, <2>1
<1> QED
  BY <1>7, <1>8, <1>9

\* The order is made, of which nothing is given back.
LEMMA CreateKeeps ==
  ASSUME EventsInv, NEW e \in Provided!Events, Provided!Create(e)
  PROVE  EventsInv'
<1>1. /\ Provided!At(e, "create") /\ story' = story /\ made' = made /\ late' = late
      /\ hooks' = hooks
      /\ locks' = locks /\ checkout' = checkout /\ ~Provided!At(e, "idle")
      /\ ~Provided!At(e, "refuse")
  BY DEF Provided!Create, Provided!At
<1>2. /\ Busy(e) /\ work[e].event = Said(e) /\ work[e].step \in StepsOf(e)
      /\ work[e].order \in Copies /\ Said(e) # Provided!Unknown
      /\ story \in Stories /\ order \in Copies /\ RowHolds(e)
      /\ ~late => Sound(e)
  BY <1>1, AtWork
<1>3. Said(e).status = "paid" /\ {"update", "complete"} \subseteq StepsOf(e)
  <2>1. Said(e).status \in {"failed", "paid", "refunded", "partially_refunded"}
    BY <1>2, Kinds
  <2>2. Said(e).status = "paid"
    BY <1>1, <1>2, <2>1, StepNames DEF Provided!At, Provided!IsReversal
  <2> QED
    BY <1>2, <2>2, StepNames
<1>4. checkout # Provided!None /\ "checkout" \in DOMAIN Said(e)
       /\ Said(e).checkout = Provided!CheckoutId
  BY <1>1, <1>2 DEF RowHolds
<1>5. /\ Subject(e) = WriteLock /\ Provided!createPaymentOrderDocument(e) \in Orders
      /\ Provided!createPaymentOrderDocument(e).reversed = 0
  BY <1>2, <1>3, <1>4, Creating
<1>6. DOMAIN hooks' = Provided!Events /\ LocksBut(e) /\ (~late => GivenBack) /\ Writes(e)
  BY <1>1, <1>2, LocksSame DEF EventsInv, Documents, Writes, Provided!At
<1>7. CASE order # Provided!NoOrder
  <2>1. Provided!GoWith(e, "update", order) /\ order' = order
    BY <1>7 DEF Provided!Create
  <2>2. /\ DOMAIN work' = Provided!Events /\ work'[e] \in WorkRows(e) /\ work'[e].step = "update"
        /\ work'[e].order = order /\ \A f \in Provided!Events \ {e} : work'[f] = work[f]
    BY <1>1, <1>2, <1>3, <2>1, RowStepWith
  <2>3. Stays /\ Forward /\ (~late => GivenBack')
    BY <1>1, <1>2, <1>6, <2>1, NothingMoves, SameGivenBack
  <2>4. RowHolds(e)'
    BY <1>1, <1>2, <1>5, <1>7, <2>1, <2>2, RowOwes
  <2>5. ~late => Sound(e)'
    BY <1>1, <1>2, <2>1, <2>2, <2>3, SoundOwes
  <2> QED
    BY <1>1, <1>2, <1>4, <1>6, <2>1, <2>2, <2>3, <2>4, <2>5, Advance
<1>8. CASE order = Provided!NoOrder
  <2> DEFINE new == Provided!createPaymentOrderDocument(e)
  <2>1. Provided!GoWith(e, "complete", new) /\ order' = new
    BY <1>8 DEF Provided!Create
  <2>2. new \in Copies /\ new # Provided!NoOrder /\ new.reversed = 0
    BY <1>2, <1>5, NamesOfOrders DEF Copies
  <2> HIDE DEF new
  <2>3. /\ DOMAIN work' = Provided!Events /\ work'[e] \in WorkRows(e) /\ work'[e].step = "complete"
        /\ \A f \in Provided!Events \ {e} : work'[f] = work[f]
    BY <1>1, <1>2, <1>3, <2>1, <2>2, RowStepWith
  <2>4. Stays /\ Forward /\ GivenBack'
    BY <1>1, <1>8, <2>1, <2>2 DEF Stays, Forward, GivenBack
  <2>5. RowHolds(e)'
    BY <1>1, <1>2, <2>1, <2>2, <2>3, RowOwes
  <2>6. ~late => Sound(e)'
    BY <1>1, <1>2, <2>1, <2>2, <2>3, <2>4, SoundOwes
  <2> QED
    BY <1>1, <1>2, <1>4, <1>6, <2>1, <2>2, <2>3, <2>4, <2>5, <2>6, Advance
<1> QED
  BY <1>7, <1>8

\* The copy is the order, and stays what it was: nothing that was given back is forgotten.
LEMMA UpdateKeeps ==
  ASSUME EventsInv, NEW e \in Provided!Events, Provided!Update(e)
  PROVE  EventsInv'
<1>1. /\ Provided!At(e, "update") /\ story' = story /\ made' = made /\ late' = late
      /\ hooks' = hooks
      /\ locks' = locks /\ checkout' = checkout /\ ~Provided!At(e, "idle")
      /\ ~Provided!At(e, "refuse")
      /\ order' = Provided!updatePaymentOrderFromEvent(work[e].order, e)
      /\ Provided!GoWith(e, IF order'.status = "refunded" THEN "mark" ELSE "complete", order')
  BY DEF Provided!Update, Provided!At
<1>2. /\ Busy(e) /\ work[e].event = Said(e) /\ work[e].step \in StepsOf(e)
      /\ work[e].order \in Copies /\ Said(e) # Provided!Unknown
      /\ story \in Stories /\ order \in Copies /\ RowHolds(e)
      /\ ~late => Sound(e)
  BY <1>1, AtWork
<1>3. /\ Said(e).status = "paid" /\ ~Provided!IsReversal(Said(e)) /\ Provided!Type(e) \in Payments
      /\ {"mark", "complete"} \subseteq StepsOf(e)
  <2>1. Said(e).status \in {"failed", "paid", "refunded", "partially_refunded"}
    BY <1>2, Kinds
  <2>2. Said(e).status = "paid"
    BY <1>1, <1>2, <2>1, StepNames DEF Provided!At, Provided!IsReversal
  <2> QED
    BY <1>2, <2>2, StepNames, Kinds DEF Provided!IsReversal
<1>4. /\ work[e].order \in Orders /\ work[e].order # Provided!NoOrder /\ Subject(e) = WriteLock
      /\ order # Provided!NoOrder /\ checkout # Provided!None
  BY <1>1, <1>2 DEF RowHolds, Writes, Provided!At, Copies, EventsInv, Documents
<1>5. order' = work[e].order
  BY <1>1, <1>2, <1>3, <1>4, Updating
<1>6. ~late => order' = order
  BY <1>1, <1>2, <1>5 DEF Sound, Provided!At
<1>7. /\ DOMAIN hooks' = Provided!Events /\ LocksBut(e) /\ Writes(e) /\ Stays /\ order' \in Copies
      /\ ~late => Forward /\ GivenBack'
  <2>1. ~late => GivenBack
    BY DEF EventsInv
  <2>2. ~late => Forward /\ GivenBack'
    BY <1>1, <1>2, <1>6, <2>1, NothingMoves, SameGivenBack
  <2> QED
    BY <1>1, <1>2, <1>4, <1>5, <2>2, LocksSame DEF EventsInv, Documents, Writes, Provided!At, Stays
<1> DEFINE step == IF order'.status = "refunded" THEN "mark" ELSE "complete"
<1>8. step \in {"mark", "complete"} /\ (step = "mark" => order'.status = "refunded")
  OBVIOUS
<1>9. PICK s \in {"mark", "complete"} :
         Provided!GoWith(e, s, order') /\ (s = "mark" => order'.status = "refunded")
  BY <1>1, <1>8
<1>10. PICK copy \in Copies : copy = order'
  BY <1>7
<1>11. /\ DOMAIN work' = Provided!Events /\ work'[e] \in WorkRows(e) /\ work'[e].step = s
       /\ \A f \in Provided!Events \ {e} : work'[f] = work[f]
  BY <1>1, <1>3, <1>9, <1>10, RowStepWith
<1>12. RowHolds(e)'
  BY <1>1, <1>2, <1>4, <1>5, <1>11, RowOwes
<1>13. s = "mark" => Provided!Effect(e)'
  <2>1. Provided!Type(e)' = Provided!Type(e)
    BY <1>1, SameWords
  <2>2. Provided!Type(e) \notin Provided!Reversals \cup {"checkout.session.expired"}
    BY <1>3 DEF Payments, Provided!Reversals
  <2> QED
    BY <1>4, <1>5, <1>9, <2>1, <2>2 DEF Provided!Effect
<1>14. ~late => Sound(e)'
  BY <1>1, <1>2, <1>7, <1>11, <1>13, SoundOwes
<1> QED
  BY <1>1, <1>2, <1>4, <1>6, <1>7, <1>11, <1>12, <1>14, Advance

\* The checkout that an order is of is completed.
LEMMA CompleteKeeps ==
  ASSUME EventsInv, NEW e \in Provided!Events, Provided!Complete(e)
  PROVE  EventsInv'
<1>1. /\ Provided!At(e, "complete") /\ story' = story /\ made' = made /\ late' = late
      /\ hooks' = hooks
      /\ locks' = locks /\ order' = order /\ ~Provided!At(e, "idle") /\ ~Provided!At(e, "refuse")
      /\ Provided!Go(e, "mark")
      /\ checkout' = IF checkout = Provided!None THEN Provided!None ELSE "completed"
  BY DEF Provided!Complete, Provided!At
<1>2. /\ Busy(e) /\ work[e].event = Said(e) /\ work[e].step \in StepsOf(e)
      /\ Said(e) # Provided!Unknown /\ story \in Stories /\ order \in Copies /\ RowHolds(e)
      /\ ~late => Sound(e)
  BY <1>1, AtWork
<1>3. Provided!Type(e) \in Payments /\ "mark" \in StepsOf(e)
  <2>1. Said(e).status \in {"failed", "paid", "refunded", "partially_refunded"}
    BY <1>2, Kinds
  <2>2. Said(e).status = "paid"
    BY <1>1, <1>2, <2>1, StepNames DEF Provided!At, Provided!IsReversal
  <2> QED
    BY <1>2, <2>2, StepNames, Kinds
<1>4. order # Provided!NoOrder /\ checkout # Provided!None /\ checkout' = "completed"
  BY <1>1, <1>2 DEF RowHolds, Provided!At, EventsInv, Documents
<1>5. /\ DOMAIN hooks' = Provided!Events /\ LocksBut(e) /\ Stays /\ Forward
      /\ checkout' # Provided!None
      /\ ~late => GivenBack'
  <2>1. order.reversed \in Int
    BY <1>2, <1>4, NamesOfOrders, StoryFacts DEF Copies
  <2>2. Stays /\ Forward
    BY <1>1, <1>4, <2>1 DEF Stays, Forward, Provided!None
  <2> QED
    BY <1>1, <1>4, <2>2, LocksSame, SameGivenBack DEF EventsInv, Documents, Provided!None
<1>6. /\ DOMAIN work' = Provided!Events /\ work'[e] \in WorkRows(e) /\ work'[e].step = "mark"
      /\ \A f \in Provided!Events \ {e} : work'[f] = work[f]
  BY <1>1, <1>3, RowStep
<1>7. RowHolds(e)'
  BY <1>1, <1>2, <1>6, RowOwes
<1>8. Provided!Effect(e)'
  <2>1. Provided!Type(e)' = Provided!Type(e)
    BY <1>1, SameWords
  <2>2. Provided!Type(e) \notin Provided!Reversals \cup {"checkout.session.expired"}
    BY <1>3 DEF Payments, Provided!Reversals
  <2> QED
    BY <1>1, <1>4, <2>1, <2>2 DEF Provided!Effect
<1>9. ~late => Sound(e)'
  BY <1>1, <1>2, <1>5, <1>6, <1>8, SoundOwes
<1> QED
  BY <1>1, <1>2, <1>5, <1>6, <1>7, <1>9, Advance

\* What a refund makes of an order: as much is given back as Stripe said, and no less than before.
LEMMA Refunding ==
  ASSUME story \in Stories, NEW e \in Provided!Events, Provided!Type(e) = "charge.refunded",
         Said(e) # Provided!Unknown,
         work[e].event = Said(e), NEW o \in Orders
  PROVE  /\ Provided!applyOrderRefund(o, e) \in Orders
         /\ Provided!applyOrderRefund(o, e).reversed \in {o.reversed, story.events[e].amount}
         /\ Provided!applyOrderRefund(o, e).reversed >= o.reversed
         /\ Provided!applyOrderRefund(o, e).reversed >= story.events[e].amount
         /\ o.status = "refunded" => Provided!applyOrderRefund(o, e).status = "refunded"
<1>1. /\ Provided!Field(e, "amount") = story.events[e].amount
      /\ Said(e).status = "refunded" => story.events[e].amount = OrderTotal
      /\ Said(e).status \in {"refunded", "partially_refunded"}
  BY SaidOfReversals DEF Provided!Reversals, Provided!Field
<1>2. story.events[e].amount \in 0..OrderTotal /\ OrderTotal \in Nat \ {0}
  BY StoryFacts
<1>3. o.reversed \in 0..OrderTotal /\ (o.status = "refunded" <=> o.reversed = OrderTotal)
  BY NamesOfOrders
<1> DEFINE amount == Provided!Field(e, "amount")
           added == amount - o.reversed
           reversed == IF work[e].event.status = "refunded" THEN OrderTotal
                       ELSE o.reversed + (IF added > 0 THEN added ELSE 0)
           status == IF reversed = OrderTotal THEN "refunded" ELSE "partially_refunded"
<1>4. Provided!applyOrderRefund(o, e) = [o EXCEPT !.reversed = reversed, !.status = status]
  BY Zenon DEF Provided!applyOrderRefund
<1>5. /\ reversed \in {o.reversed, amount} /\ reversed >= o.reversed /\ reversed >= amount
      /\ reversed \in 0..OrderTotal
  BY <1>1, <1>2, <1>3
<1>6. /\ status \in {"refunded", "partially_refunded"}
      /\ (status = "refunded" <=> reversed = OrderTotal)
      /\ o.status = "refunded" => status = "refunded"
  BY <1>1, <1>2, <1>3, <1>5
<1> HIDE DEF reversed, status, amount
<1>7. /\ Provided!applyOrderRefund(o, e) \in Orders
      /\ Provided!applyOrderRefund(o, e).reversed = reversed
      /\ Provided!applyOrderRefund(o, e).status = status
  BY <1>4, <1>5, <1>6 DEF Orders
<1> QED
  BY <1>1, <1>5, <1>6, <1>7 DEF amount

\* A refund is put on the order that was read.
LEMMA RefundKeeps ==
  ASSUME EventsInv, NEW e \in Provided!Events, Provided!Refund(e)
  PROVE  EventsInv'
<1>1. /\ Provided!At(e, "reverse") /\ story' = story /\ made' = made /\ late' = late
      /\ hooks' = hooks
      /\ locks' = locks /\ checkout' = checkout /\ ~Provided!At(e, "idle")
      /\ ~Provided!At(e, "refuse")
      /\ order' = Provided!applyOrderRefund(work[e].order, e) /\ Provided!Go(e, "mark")
  BY DEF Provided!Refund, Provided!At
<1>2. /\ Busy(e) /\ work[e].event = Said(e) /\ work[e].step \in StepsOf(e)
      /\ work[e].order \in Copies /\ Said(e) # Provided!Unknown /\ e \in 1..made
      /\ story \in Stories /\ order \in Copies /\ RowHolds(e)
      /\ ~late => Sound(e)
  BY <1>1, AtWork
<1>3. /\ work[e].order \in Orders /\ Subject(e) = WriteLock /\ order # Provided!NoOrder
      /\ checkout # Provided!None
  BY <1>1, <1>2 DEF RowHolds, Writes, Provided!At, Copies, EventsInv, Documents
<1>4. Provided!Type(e) = "charge.refunded" /\ "mark" \in StepsOf(e)
  <2>1. Said(e).status \in {"failed", "paid", "refunded", "partially_refunded"}
    BY <1>2, Kinds
  <2>2. Provided!IsReversal(Said(e)) /\ Said(e).status # "failed"
    BY <1>1, <1>2, <2>1, StepNames DEF Provided!At, Provided!IsReversal
  <2>3. Provided!Type(e) \in Provided!Reversals /\ "mark" \in StepsOf(e)
    BY <1>2, <2>2, Kinds, StepNames
  <2>4. ~Subscribes
    BY <1>2, <1>3, <2>2, <2>3, Subjects DEF Provided!Reversals, Provided!SessionEvents
  <2> QED
    BY <1>2, <2>3, <2>4, SaidOfReversals
<1>5. PICK copy \in Orders : copy = work[e].order
  BY <1>3
<1>6. PICK new : new = order'
  OBVIOUS
<1>7. /\ new \in Orders /\ new.reversed \in {copy.reversed, story.events[e].amount}
      /\ new.reversed >= copy.reversed /\ new.reversed >= story.events[e].amount
      /\ copy.status = "refunded" => new.status = "refunded"
  BY <1>1, <1>2, <1>4, <1>5, <1>6, Refunding
<1>8. new \in Copies /\ new # Provided!NoOrder /\ copy.reversed \in Nat /\ new.reversed \in Nat
  BY <1>2, <1>7, NamesOfOrders, StoryFacts DEF Copies
<1>9. ~late => copy = order
  BY <1>1, <1>2, <1>5 DEF Sound, Provided!At
<1>10. DOMAIN hooks' = Provided!Events /\ LocksBut(e) /\ Writes(e) /\ Stays /\ (~late => Forward)
  BY <1>1, <1>2, <1>6, <1>7, <1>8, <1>9, LocksSame DEF EventsInv, Documents, Writes, Provided!At,
     Stays, Forward
<1>11. ~late => GivenBack'
  <2>1. \A f : Provided!Type(f)' = Provided!Type(f)
    BY <1>1, SameWords
  <2>2. Provided!Refunded' = Provided!Refunded
    BY <1>1, <2>1 DEF Provided!Refunded
  <2>3. story.events[e].amount \in Provided!Refunded
    BY <1>2, <1>4 DEF Provided!Refunded, Provided!Reversals
  <2>4. ~late => copy.reversed \in Provided!Refunded \cup {0}
    BY <1>3, <1>9 DEF EventsInv, GivenBack
  <2> QED
    BY <1>6, <1>7, <2>2, <2>3, <2>4 DEF GivenBack
<1>12. /\ DOMAIN work' = Provided!Events /\ work'[e] \in WorkRows(e) /\ work'[e].step = "mark"
       /\ \A f \in Provided!Events \ {e} : work'[f] = work[f]
  BY <1>1, <1>4, RowStep
<1>13. RowHolds(e)'
  BY <1>1, <1>2, <1>12, RowOwes
<1>14. Provided!Effect(e)'
  <2>1. Provided!Type(e)' = Provided!Type(e) /\ story'.events[e].amount = story.events[e].amount
    BY <1>1, SameWords
  <2> QED
    BY <1>4, <1>6, <1>7, <1>8, <2>1 DEF Provided!Effect, Provided!Reversals
<1>15. ~late => Sound(e)'
  BY <1>1, <1>2, <1>6, <1>8, <1>10, <1>12, <1>14, SoundOwes
<1> QED
  BY <1>1, <1>2, <1>3, <1>6, <1>8, <1>10, <1>11, <1>12, <1>13, <1>15, Advance

\* A session that ended ends its checkout.
LEMMA ExpireKeeps ==
  ASSUME EventsInv, NEW e \in Provided!Events, Provided!Expire(e)
  PROVE  EventsInv'
<1>1. /\ Provided!At(e, "expire") /\ story' = story /\ made' = made /\ late' = late
      /\ hooks' = hooks
      /\ locks' = locks /\ order' = order /\ ~Provided!At(e, "idle") /\ ~Provided!At(e, "refuse")
      /\ Provided!Go(e, IF Provided!findPaymentEventCheckout(e) THEN "mark" ELSE "refuse")
      /\ checkout' = IF Provided!findPaymentEventCheckout(e) /\ checkout \in {"created", "redirected"}
                     THEN "expired" ELSE checkout
  BY DEF Provided!Expire, Provided!At
<1>2. /\ Busy(e) /\ work[e].event = Said(e) /\ work[e].step \in StepsOf(e)
      /\ Said(e) # Provided!Unknown /\ story \in Stories /\ order \in Copies /\ RowHolds(e)
      /\ ~late => Sound(e)
  BY <1>1, AtWork
<1>3. /\ Provided!Type(e) = "checkout.session.expired" /\ ~Provided!IsReversal(Said(e))
      /\ {"mark", "refuse"} \subseteq StepsOf(e)
  <2>1. Said(e).status \in {"failed", "paid", "refunded", "partially_refunded"}
    BY <1>2, Kinds
  <2>2. Said(e).status = "failed" /\ Provided!Type(e) = "checkout.session.expired"
    BY <1>1, <1>2, <2>1, StepNames DEF Provided!At, Provided!IsReversal
  <2> QED
    BY <1>2, <2>2, StepNames DEF Provided!IsReversal
<1>4. /\ DOMAIN hooks' = Provided!Events /\ LocksBut(e) /\ Stays /\ Forward
      /\ order' # Provided!NoOrder => checkout' # Provided!None
      /\ ~late => GivenBack'
  <2>1. order # Provided!NoOrder => order.reversed \in Int
    BY <1>2, NamesOfOrders, StoryFacts DEF Copies
  <2>2. Stays /\ Forward
    BY <1>1, <2>1 DEF Stays, Forward, Provided!None
  <2> QED
    BY <1>1, <2>2, LocksSame, SameGivenBack DEF EventsInv, Documents, Stays
<1>5. PICK step \in {"mark", "refuse"} :
         Provided!Go(e, step) /\ (step = "mark" <=> Provided!findPaymentEventCheckout(e))
  BY <1>1
<1>6. /\ DOMAIN work' = Provided!Events /\ work'[e] \in WorkRows(e) /\ work'[e].step = step
      /\ \A f \in Provided!Events \ {e} : work'[f] = work[f]
  BY <1>1, <1>3, <1>5, RowStep
<1>7. RowHolds(e)'
  BY <1>1, <1>2, <1>6, RowOwes
<1>8. step = "mark" => Provided!Effect(e)'
  <2>1. Provided!Type(e)' = Provided!Type(e)
    BY <1>1, SameWords
  <2>2. Provided!findPaymentEventCheckout(e) =>
          checkout' \notin {Provided!None, "created", "redirected"}
    BY <1>1 DEF Provided!findPaymentEventCheckout, Provided!None
  <2> QED
    BY <1>3, <1>5, <2>1, <2>2 DEF Provided!Effect, Provided!Reversals
<1>9. ~late => Sound(e)'
  BY <1>1, <1>2, <1>3, <1>4, <1>6, <1>8, SoundOwes
<1> QED
  BY <1>1, <1>2, <1>4, <1>6, <1>7, <1>9, Advance

\* A handler ends, with the webhook's new status and without its lock.
LEMMA EndsKeeps ==
  ASSUME EventsInv, NEW e \in Provided!Events, ~Provided!At(e, "idle"),
         NEW status \in {"received", "processed", "failed"},
         Provided!Ends(e, status), status = "processed" /\ ~late => Provided!Effect(e),
         story' = story, made' = made, late' = late, order' = order, checkout' = checkout
  PROVE  EventsInv'
<1>1. /\ hooks[e] # NoHook /\ story \in Stories /\ order \in Copies /\ RowHolds(e)
      /\ ~late => Sound(e)
  BY AtWork
<1>2. /\ DOMAIN hooks' = Provided!Events /\ DOMAIN work' = Provided!Events
      /\ work'[e] = Provided!Idle
      /\ hooks'[e] = [hooks[e] EXCEPT !.status = status]
      /\ \A f \in Provided!Events \ {e} : work'[f] = work[f] /\ hooks'[f] = hooks[f]
  BY DEF EventsInv, Documents, Provided!Ends
<1>3. LocksBut(e)
  BY LocksReleased DEF Provided!Ends
<1>4. /\ Stays /\ Forward /\ order' \in Copies
      /\ (order' # Provided!NoOrder => checkout' # Provided!None)
      /\ ~late => GivenBack'
  BY <1>1, NothingMoves, SameGivenBack DEF EventsInv, Documents
<1>5. hooks'[e] \in Hooks(e) /\ hooks'[e] # NoHook /\ hooks'[e].status = status
  <2>1. \A h \in Hooks(e) \ {NoHook} : [h EXCEPT !.status = status] \in Hooks(e) \ {NoHook}
                                       /\ [h EXCEPT !.status = status].status = status
    BY DEF Hooks, NoHook, Provided!None
  <2> QED
    BY <1>1, <1>2, <2>1 DEF RowHolds
<1>6. RowHolds(e)'
  <2>1. Hooks(e)' = Hooks(e)
    BY SameWords
  <2> QED
    BY <1>1, <1>2, <1>5, <2>1 DEF RowHolds, Busy, Writes
<1>7. ~late => Sound(e)'
  <2>1. status = "processed" /\ ~late => Provided!Effect(e)'
    BY <1>1, <1>4, EffectStays
  <2> QED
    BY <1>2, <1>5, <2>1 DEF Sound, Locked, Busy
<1> QED
  BY <1>2, <1>3, <1>4, <1>6, <1>7, Advance

\* What is processed has the effect that its handler owed.
LEMMA MarkKeeps ==
  ASSUME EventsInv, NEW e \in Provided!Events, Provided!Mark(e)
  PROVE  EventsInv'
<1>1. ~Provided!At(e, "idle") /\ Provided!At(e, "mark")
  BY DEF Provided!Mark, Provided!At
<1>2. ~late => Provided!Effect(e)
  BY <1>1, AtWork DEF Sound
<1> QED
  BY <1>1, <1>2, EndsKeeps DEF Provided!Mark

\* An event that is refused has failed, and its handler is done.
LEMMA RefuseKeeps ==
  ASSUME EventsInv, NEW e \in Provided!Events, Provided!Refuse(e)
  PROVE  EventsInv'
<1>1. ~Provided!At(e, "idle")
  BY DEF Provided!Refuse, Provided!At
<1> QED
  BY <1>1, EndsKeeps DEF Provided!Refuse

\* A handler that a call failed for leaves its event failed, or a session's end received.
LEMMA ThrowKeeps ==
  ASSUME EventsInv, NEW e \in Provided!Events, Provided!Throw(e)
  PROVE  EventsInv'
<1>1. /\ ~Provided!At(e, "idle") /\ story' = story /\ made' = made /\ late' = late /\ order' = order
      /\ checkout' = checkout
  BY DEF Provided!Throw
<1>2. CASE Provided!At(e, "expire")
  <2>1. PICK status : status = hooks[e].status
    OBVIOUS
  <2>2. status \in {"received", "processed", "failed"}
    <3>1. hooks[e] \in Hooks(e) \ {NoHook}
      BY <1>1, AtWork DEF RowHolds
    <3> QED
      BY <2>1, <3>1 DEF Hooks
  <2>3. status = "processed" /\ ~late => Provided!Effect(e)
    BY <1>1, <2>1, AtWork DEF Sound
  <2>4. Provided!Ends(e, status)
    BY <1>2, <2>1 DEF Provided!Throw
  <2> QED
    BY <1>1, <2>2, <2>3, <2>4, EndsKeeps
<1>3. CASE ~Provided!At(e, "expire")
  <2>1. Provided!Ends(e, "failed")
    BY <1>3 DEF Provided!Throw
  <2> QED
    BY <1>1, <2>1, EndsKeeps
<1> QED
  BY <1>2, <1>3

\* A handler that dies leaves its lock.
LEMMA DieKeeps ==
  ASSUME EventsInv, NEW e \in Provided!Events, Provided!Die(e)
  PROVE  EventsInv'
<1>1. /\ ~Provided!At(e, "idle") /\ story' = story /\ made' = made /\ late' = late /\ order' = order
      /\ checkout' = checkout /\ hooks' = hooks /\ locks' = locks
      /\ work' = [work EXCEPT ![e] = Provided!Idle]
  BY DEF Provided!Die
<1>2. /\ hooks[e] # NoHook /\ story \in Stories /\ order \in Copies /\ RowHolds(e)
      /\ ~late => Sound(e)
  BY <1>1, AtWork
<1>3. /\ DOMAIN hooks' = Provided!Events /\ DOMAIN work' = Provided!Events
      /\ work'[e] = Provided!Idle
      /\ \A f \in Provided!Events \ {e} : work'[f] = work[f] /\ hooks'[f] = hooks[f]
  BY <1>1 DEF EventsInv, Documents
<1>4. /\ LocksBut(e) /\ Stays /\ Forward /\ order' \in Copies
      /\ (order' # Provided!NoOrder => checkout' # Provided!None)
      /\ ~late => GivenBack'
  BY <1>1, <1>2, LocksSame, NothingMoves, SameGivenBack DEF EventsInv, Documents
<1>5. RowHolds(e)'
  <2>1. Hooks(e)' = Hooks(e)
    BY <1>1, SameWords
  <2> QED
    BY <1>1, <1>2, <1>3, <2>1 DEF RowHolds, Busy, Writes
<1>6. ~late => Sound(e)'
  <2>1. hooks[e].status = "processed" /\ ~late => Provided!Effect(e)'
    BY <1>1, <1>2, <1>4, EffectStays DEF Sound
  <2> QED
    BY <1>1, <1>3, <2>1 DEF Sound, Locked, Busy
<1> QED
  BY <1>1, <1>3, <1>4, <1>5, <1>6, Advance

\* The lock of a dead handler ends, or that of one at work, after which nothing is promised.
LEMMA ExpireLockKeeps ==
  ASSUME EventsInv, NEW lock \in locks, Provided!ExpireLock(lock)
  PROVE  EventsInv'
<1>1. /\ story' = story /\ made' = made /\ order' = order /\ checkout' = checkout
      /\ hooks' = hooks /\ work' = work /\ locks' = locks \ {lock}
      /\ lock.owner \in Provided!Events
      /\ IF Provided!At(lock.owner, "idle") THEN late' = late ELSE late' = TRUE
  BY DEF Provided!ExpireLock, EventsInv, Documents
<1>2. PICK e \in Provided!Events : e = lock.owner
  BY <1>1
<1>3. /\ story \in Stories /\ order \in Copies /\ made \in Nat /\ \A f \in Provided!Events : RowHolds(f)
      /\ DOMAIN hooks = Provided!Events /\ DOMAIN work = Provided!Events
      /\ order # Provided!NoOrder => checkout # Provided!None
  BY DEF EventsInv, Documents
<1>4. LocksBut(e)
  BY <1>1, <1>2 DEF EventsInv, Documents, LocksBut
<1>5. Stays /\ Forward
  BY <1>1, <1>3, NothingMoves
<1>6. \A f \in Provided!Events : RowHolds(f)'
  <2> TAKE f \in Provided!Events
  <2>1. hooks'[f] \in Hooks(f) /\ hooks'[f].status = hooks[f].status /\ work'[f] = work[f]
    BY <1>1, <1>3 DEF RowHolds
  <2> QED
    BY <1>1, <1>3, <1>5, <2>1, OtherRows
<1>7. CASE Provided!At(e, "idle")
  <2>1. late' = late
    BY <1>1, <1>2, <1>7
  <2>2. work[e] = Provided!Idle
    <3>1. Busy(e) => work[e].step \in StepsOf(e) /\ Said(e) # Provided!Unknown
      BY <1>3 DEF RowHolds, WorkRows
    <3> QED
      BY <1>3, <1>7, <3>1, StepNames DEF Busy, Provided!At
  <2>3. ~late => GivenBack' /\ Sound(e)'
    <3>1. ~late => GivenBack /\ Sound(e)
      BY DEF EventsInv
    <3>2. ~late /\ hooks[e].status = "processed" => Provided!Effect(e)'
      BY <1>1, <1>3, <1>5, <3>1, EffectStays DEF Sound
    <3> QED
      BY <1>1, <2>2, <3>1, <3>2, SameGivenBack DEF Sound, Locked, Busy
  <2> QED
    BY <1>1, <1>3, <1>4, <1>5, <1>6, <2>1, <2>3, Advance
<1>8. CASE ~Provided!At(e, "idle")
  <2>1. late' = TRUE
    BY <1>1, <1>2, <1>8
  <2>2. Provided!Events' = Provided!Events /\ Copies' = Copies
    BY <1>1, SameStory
  <2>3. Documents'
    BY <1>1, <1>3, <1>4, <2>1, <2>2 DEF Documents, LocksBut
  <2> QED
    BY <1>6, <2>1, <2>2, <2>3 DEF EventsInv
<1> QED
  BY <1>7, <1>8

\* Stripe makes an event, the checkout is stored, raw forms are purged: no handler is concerned.
LEMMA Elsewhere ==
  ASSUME EventsInv, story' = story, made' \in Nat, made <= made', late' = late, order' = order,
         work' = work, locks' = locks, checkout = Provided!None \/ checkout' = checkout,
         DOMAIN hooks' = Provided!Events,
         \A f \in Provided!Events : hooks'[f] \in Hooks(f) /\ hooks'[f].status = hooks[f].status
  PROVE  EventsInv'
<1>1. /\ story \in Stories /\ order \in Copies /\ made \in Nat /\ \A f \in Provided!Events : RowHolds(f)
      /\ DOMAIN work = Provided!Events /\ (order # Provided!NoOrder => checkout # Provided!None)
  BY DEF EventsInv, Documents
<1>2. Provided!Events' = Provided!Events /\ Copies' = Copies
  BY SameStory
<1>3. Stays /\ Forward
  <2>1. order # Provided!NoOrder => order.reversed \in Int
    BY <1>1, NamesOfOrders, StoryFacts DEF Copies
  <2> QED
    BY <2>1 DEF Stays, Forward, Provided!None
<1>4. Documents'
  BY <1>1, <1>2, <1>3 DEF EventsInv, Documents, Stays
<1>5. ASSUME NEW f \in Provided!Events
      PROVE  RowHolds(f)' /\ (~late => Sound(f)')
  <2>1. RowHolds(f) /\ work'[f] = work[f]
        /\ hooks'[f] \in Hooks(f) /\ hooks'[f].status = hooks[f].status
    BY <1>1
  <2>2. RowHolds(f)'
    BY <1>1, <1>3, <2>1, OtherRows
  <2>3. ~late => Sound(f)'
    BY <1>1, <1>3, <2>1, OtherSound
  <2> QED
    BY <2>2, <2>3
<1>6. ~late => GivenBack'
  <2>1. \A f : Provided!Type(f)' = Provided!Type(f)
    BY SameWords
  <2>2. Provided!Refunded \subseteq Provided!Refunded'
    BY <1>1, <2>1 DEF Provided!Refunded
  <2> QED
    BY <2>2 DEF EventsInv, GivenBack
<1> QED
  BY <1>2, <1>4, <1>5, <1>6 DEF EventsInv

\* What the invariant says of the webhook documents.
LEMMA HooksAre ==
  ASSUME EventsInv
  PROVE  /\ DOMAIN hooks = Provided!Events /\ story \in Stories /\ made \in Nat
         /\ \A f \in Provided!Events : hooks[f] \in Hooks(f) /\ RowHolds(f)
BY DEF EventsInv, Documents, RowHolds

\* Stripe makes the next event.
LEMMA MakeKeeps ==
  ASSUME EventsInv, Provided!Make
  PROVE  EventsInv'
BY HooksAre, Elsewhere DEF Provided!Make

\* The checkout is stored as Stripe answered.
LEMMA StoreCheckoutKeeps ==
  ASSUME EventsInv, NEW status, Provided!StoreCheckout(status)
  PROVE  EventsInv'
BY HooksAre, Elsewhere DEF Provided!StoreCheckout

\* A purge leaves the normalised form of what it empties.
LEMMA PurgeKeeps ==
  ASSUME EventsInv, Provided!Purge
  PROVE  EventsInv'
<1>1. ASSUME NEW f \in Provided!Events, NEW h \in Hooks(f)
      PROVE  [h EXCEPT !.raw = Provided!Nothing] \in Hooks(f)
             /\ [h EXCEPT !.raw = Provided!Nothing].status = h.status
  BY DEF Hooks, NoHook
<1>2. DOMAIN hooks' = Provided!Events
  BY DEF Provided!Purge
<1>3. \A f \in Provided!Events : hooks'[f] \in Hooks(f) /\ hooks'[f].status = hooks[f].status
  BY <1>1, HooksAre DEF Provided!Purge
<1> QED
  BY <1>2, <1>3, HooksAre, Elsewhere DEF Provided!Purge

\* The event is taken up: under its lock, unless it is unpaid or somebody holds the lock.
LEMMA ProcessKeeps ==
  ASSUME EventsInv, NEW e \in Provided!Events, Provided!At(e, "idle"), Provided!Process(e, Said(e)),
         e <= made,
         DOMAIN hooks' = Provided!Events, hooks'[e] \in Hooks(e) \ {NoHook},
         hooks'[e].status # "processed",
         \A f \in Provided!Events \ {e} : hooks'[f] = hooks[f],
         story' = story, made' = made, late' = late, order' = order, checkout' = checkout
  PROVE  EventsInv'
<1>1. /\ story \in Stories /\ order \in Copies /\ made \in Nat /\ RowHolds(e)
      /\ DOMAIN work = Provided!Events /\ (order # Provided!NoOrder => checkout # Provided!None)
      /\ \A lock \in locks : lock.owner \in Provided!Events
      /\ \A k, l \in locks : k.subject = l.subject => k = l
  BY DEF EventsInv, Documents
<1>2. work[e] = Provided!Idle
  <2>1. Busy(e) => work[e].step \in StepsOf(e) /\ Said(e) # Provided!Unknown
    BY <1>1 DEF RowHolds, WorkRows
  <2> QED
    BY <1>1, <2>1, StepNames DEF Busy, Provided!At
<1>3. /\ Said(e)' = Said(e) /\ Subject(e)' = Subject(e) /\ Hooks(e)' = Hooks(e)
      /\ WorkRows(e)' = WorkRows(e) /\ Provided!CheckoutId' = Provided!CheckoutId
      /\ WriteLock' = WriteLock
      /\ Provided!Traced(e)' = Provided!Traced(e)
  BY SameStory, SameWords
<1>4. Stays /\ Forward
       /\ (~late => GivenBack') /\ (order' # Provided!NoOrder => checkout' # Provided!None)
  BY <1>1, NothingMoves, SameGivenBack DEF EventsInv
<1>5. ASSUME locks' = locks, work' = work
      PROVE  EventsInv'
  <2>1. RowHolds(e)' /\ Sound(e)'
    BY <1>2, <1>3, <1>5 DEF RowHolds, Sound, Locked, Busy, Writes
  <2> QED
    BY <1>1, <1>4, <1>5, <2>1, LocksSame, Advance
<1>6. ASSUME Said(e) # Provided!Unknown, NEW step \in StepsOf(e),
             step = "refuse" => ~Provided!IsReversal(Said(e)),
             step \in {"find", "expire", "refuse"},
             work' = [work EXCEPT ![e] =
                                     [step |-> step, event |-> Said(e), order |-> Provided!NoOrder]],
             LocksBut(e),
             step # "refuse" => [subject |-> Subject(e), owner |-> e] \in locks'
      PROVE  EventsInv'
  <2>1. /\ DOMAIN work' = Provided!Events /\ \A f \in Provided!Events \ {e} : work'[f] = work[f]
        /\ work'[e] = [step |-> step, event |-> Said(e), order |-> Provided!NoOrder]
    BY <1>1, <1>6
  <2>2. work'[e] \in WorkRows(e) /\ work'[e].step = step
    BY <1>6, <2>1 DEF WorkRows, Copies
  <2>3. RowHolds(e)'
    BY <1>3, <1>6, <2>2 DEF RowHolds, Busy, Writes, Provided!At
  <2>4. Sound(e)'
    BY <1>3, <1>6, <2>2 DEF Sound, Locked, Busy, Provided!At, Provided!IsReversal
  <2> QED
    BY <1>1, <1>4, <1>6, <2>1, <2>3, <2>4, Advance
<1>7. CASE Said(e) = Provided!Unknown
  BY <1>5, <1>7 DEF Provided!Process
<1>8. CASE Said(e) # Provided!Unknown /\ Said(e).status = "failed"
           /\ Said(e).type # "checkout.session.expired"
  <2>1. /\ work' = [work EXCEPT ![e] =
                                        [step |-> "refuse", event |-> Said(e), order |-> Provided!NoOrder]]
        /\ locks' = locks
    BY <1>8 DEF Provided!Process
  <2>2. "refuse" \in StepsOf(e) /\ ~Provided!IsReversal(Said(e))
    BY <1>1, <1>8, Kinds, StepNames DEF Provided!IsReversal
  <2> QED
    BY <1>6, <1>8, <2>1, <2>2, LocksSame
<1>9. CASE /\ Said(e) # Provided!Unknown
           /\ ~(Said(e).status = "failed" /\ Said(e).type # "checkout.session.expired")
           /\ \E lock \in locks : lock.subject = Subject(e)
  BY <1>5, <1>9 DEF Provided!Process, Subject
<1>10. CASE /\ Said(e) # Provided!Unknown
            /\ ~(Said(e).status = "failed" /\ Said(e).type # "checkout.session.expired")
            /\ ~\E lock \in locks : lock.subject = Subject(e)
  <2>1. PICK step \in {"expire", "find"} :
          /\ step = "expire" <=> Said(e).status = "failed"
          /\ locks' = locks \cup {[subject |-> Subject(e), owner |-> e]}
          /\ work' = [work EXCEPT ![e] = [step |-> step, event |-> Said(e), order |-> Provided!NoOrder]]
    BY <1>10 DEF Provided!Process, Subject
  <2>2. step \in StepsOf(e)
    <3>1. Said(e).status \in {"failed", "paid", "refunded", "partially_refunded"}
      BY <1>1, <1>10, Kinds
    <3>2. Said(e).status = "failed" => Provided!Type(e) = "checkout.session.expired"
      BY <1>1, <1>10, Kinds
    <3> QED
      BY <1>1, <1>10, <2>1, <3>1, <3>2, StepNames DEF Provided!IsReversal
  <2>3. LocksBut(e) /\ [subject |-> Subject(e), owner |-> e] \in locks'
    BY <1>1, <1>10, <2>1, SameStory DEF LocksBut
  <2> QED
    BY <1>6, <1>10, <2>1, <2>2, <2>3
<1> QED
  BY <1>7, <1>8, <1>9, <1>10

\* A delivery stores the event, or finds it stored and takes it up again.
LEMMA ReceiveKeeps ==
  ASSUME EventsInv, NEW e \in Provided!Events, Provided!Receive(e)
  PROVE  EventsInv'
<1>1. /\ e <= made /\ Provided!At(e, "idle") /\ Provided!Process(e, Said(e))
      /\ story' = story /\ made' = made /\ late' = late /\ order' = order /\ checkout' = checkout
      /\ hooks[e].status = Provided!None \/ hooks[e].status \in {"received", "failed"}
      /\ hooks' = IF hooks[e].status = Provided!None
                  THEN [hooks EXCEPT ![e] = Provided!createWebhookDocument(Said(e))] ELSE hooks
  BY DEF Provided!Receive, Said, Provided!findWebhookDuplicate,
     Provided!webhookDuplicateCanReprocess
<1>2. Provided!createWebhookDocument(Said(e)) \in Hooks(e) \ {NoHook}
       /\ Provided!createWebhookDocument(Said(e)).status = "received"
  <2>1. Provided!createWebhookDocument(Said(e)) =
          [status |-> "received", normalized |-> Said(e), raw |-> Said(e)]
    BY HooksAre, StoredForm DEF Provided!createWebhookDocument
  <2> QED
    BY <2>1 DEF Hooks, NoHook, Provided!None
<1>3. /\ DOMAIN hooks' = Provided!Events /\ \A f \in Provided!Events \ {e} : hooks'[f] = hooks[f]
      /\ hooks'[e] \in Hooks(e) \ {NoHook} /\ hooks'[e].status # "processed"
  <2>1. CASE hooks[e].status = Provided!None
    BY <1>1, <1>2, <2>1, HooksAre
  <2>2. CASE hooks[e].status \in {"received", "failed"}
    BY <1>1, <2>2, HooksAre DEF NoHook, Provided!None
  <2> QED
    BY <1>1, <2>1, <2>2
<1> QED
  BY <1>1, <1>3, ProcessKeeps

\* A replay takes up what the stored form says.
LEMMA ReplayKeeps ==
  ASSUME EventsInv, NEW e \in Provided!Events, Provided!Replay(e)
  PROVE  EventsInv'
<1>1. /\ Provided!At(e, "idle") /\ hooks[e].status \in {"received", "failed"}
      /\ Provided!Process(e, Provided!storedWebhookEvent(hooks[e]))
      /\ story' = story /\ made' = made /\ late' = late /\ order' = order /\ checkout' = checkout
      /\ hooks' = hooks
  BY DEF Provided!Replay
<1>2. hooks[e] \in Hooks(e) \ {NoHook} /\ RowHolds(e)
  BY <1>1, HooksAre DEF NoHook, Provided!None
<1>3. e <= made /\ hooks[e].normalized = Said(e)
  BY <1>2 DEF RowHolds, Hooks
<1>4. Provided!storedWebhookEvent(hooks[e]) = Said(e)
  BY <1>3, HooksAre, ReadBack
<1> QED
  BY <1>1, <1>2, <1>3, <1>4, HooksAre, ProcessKeeps

----------------------------------------------------------------------------
(* The specification *)

EventStep(e) ==
  \/ Provided!Receive(e) \/ Provided!Replay(e) \/ Provided!Find(e) \/ Provided!Link(e)
  \/ Provided!Create(e) \/ Provided!Update(e) \/ Provided!Complete(e)
  \/ Provided!Refund(e) \/ Provided!Expire(e) \/ Provided!Mark(e)
  \/ Provided!Refuse(e) \/ Provided!Throw(e) \/ Provided!Die(e)

\* A step of one event's handler keeps the invariant.
LEMMA EventStepKeeps ==
  ASSUME EventsInv, NEW e \in Provided!Events, EventStep(e)
  PROVE  EventsInv'
BY ReceiveKeeps, ReplayKeeps, FindKeeps, LinkKeeps, CreateKeeps, UpdateKeeps, CompleteKeeps,
   RefundKeeps, ExpireKeeps, MarkKeeps, RefuseKeeps, ThrowKeeps, DieKeeps, Zenon DEF EventStep

\* A story begins in the invariant.
LEMMA AtFirst ==
  ASSUME Provided!EventsInit
  PROVE  EventsInv
<1>1. /\ story \in Stories /\ made = 0 /\ checkout = Provided!None /\ order = Provided!NoOrder
      /\ locks = {} /\ late = FALSE
      /\ hooks = [e \in Provided!Events |-> NoHook]
      /\ work = [e \in Provided!Events |-> Provided!Idle]
  BY DEF Provided!EventsInit, NoHook
<1>2. Documents
  BY <1>1 DEF Documents, Copies
<1>3. ASSUME NEW e \in Provided!Events
      PROVE  RowHolds(e) /\ Sound(e)
  <2>1. hooks[e] = NoHook /\ work[e] = Provided!Idle /\ hooks[e].status = Provided!None
    BY <1>1 DEF NoHook
  <2> QED
    BY <1>1, <2>1 DEF RowHolds, Sound, Locked, Hooks, Busy, Writes, Provided!None
<1> QED
  BY <1>1, <1>2, <1>3 DEF EventsInv, GivenBack

\* A step that leaves the events alone keeps the invariant.
LEMMA UnchangedKeeps ==
  ASSUME EventsInv, UNCHANGED Provided!eventVars
  PROVE  EventsInv'
BY HooksAre, Elsewhere DEF Provided!eventVars

\* What the invariant says of the property.
LEMMA EventsReach ==
  ASSUME EventsInv
  PROVE  Provided!EventsReachTheirOrder
<1>1. /\ story \in Stories /\ order \in Copies
      /\ ~late => GivenBack /\ \A e \in Provided!Events : Sound(e)
      /\ \A e \in Provided!Events : RowHolds(e)
  BY DEF EventsInv, Documents
<1>2. Provided!EventsFindTheirOrder
  <2> SUFFICES ASSUME NEW e \in Provided!Events, ~late, Provided!Traced(e),
                      Provided!At(e, "link") \/ Provided!At(e, "create")
                        \/ (Provided!At(e, "refuse") /\ Provided!IsReversal(work[e].event))
               PROVE  order = Provided!NoOrder
    BY DEF Provided!EventsFindTheirOrder
  <2>1. ~Provided!At(e, "idle")
    BY DEF Provided!At
  <2>2. Busy(e) /\ work[e].event = Said(e)
    BY <2>1, AtWork
  <2> QED
    BY <1>1, <2>2 DEF Sound
<1>3. Provided!ProcessedHasEffect
  <2>1. order # Provided!NoOrder => Len(order.refs) = 1
    <3>1. order # Provided!NoOrder => order.refs = <<OrderNames>>
      BY <1>1, NamesOfOrders DEF Copies
    <3> QED
      BY <3>1
  <2> QED
    BY <1>1, <2>1 DEF Provided!ProcessedHasEffect, GivenBack, Sound
<1> QED
  BY <1>2, <1>3 DEF Provided!EventsReachTheirOrder

----------------------------------------------------------------------------
(* The price of a purchase *)

\* What carts and lines are made of.
Coupons == [code : Codes \cup {Pricing!Absent}, rate : 0..4]
CartRow == [quantity : Nat \ {0}, unit : Nat]
IsCart(c) ==
  /\ c = [status |-> c.status, expired |-> c.expired, version |-> c.version,
          lines |-> c.lines, coupon |-> c.coupon]
  /\ c.status \in {"none", "open", "checkout_pending"} /\ c.expired \in BOOLEAN
  /\ c.version \in Nat /\ c.coupon \in Coupons
  /\ DOMAIN c.lines \subseteq Prices /\ c.lines \in [DOMAIN c.lines -> CartRow]

Modes == {"one_time", "subscription"}
PriceRow == [on : BOOLEAN, amount : Nat, mode : Modes]

\* The catalogue and the cart keep their shape.
Catalogue ==
  /\ prices \in [Prices -> PriceRow] /\ active \subseteq Sellables
  /\ rows \in [Sellables -> Pricing!StockRow \cup {NoRow}] /\ rates \in [Codes -> Rates]
  /\ IsCart(priced) /\ host \in BOOLEAN /\ drifted \in BOOLEAN

\* A cart that was read is the cart there is now, unless that has a later version.
Follows(c, later) ==
  /\ c.version <= later.version
  /\ c.version = later.version => c.lines = later.lines /\ c.coupon = later.coupon

\* A line that was resolved has the price and the quantity of the line, and a tracked one has
\* a stock row.
ResolvedItem == [price : Prices, quantity : Nat \ {0}, unit : Nat, mode : Modes, tracked : BOOLEAN]
HasRow(item, stock) == item.tracked => stock[SellableOf[item.price]] # NoRow
ReadOf(line, item, stock) ==
  /\ item \in ResolvedItem /\ HasRow(item, stock)
  /\ item.quantity = line.quantity /\ (line.price # Pricing!AnyPrice => item.price = line.price)

\* It is as the catalogue has it.
Fresh(item, catalogue, sold) ==
  /\ catalogue[item.price].on /\ SellableOf[item.price] \in sold
  /\ item.unit = catalogue[item.price].amount

\* A quoted line has the quantity of the line, and an amount.
QuotedOf(line, item) == item.quantity = line.quantity /\ item.unit \in Nat

\* The lines of a request are those of its input and of the cart it read.
Reading(request) ==
  /\ request.ask \in Asks /\ IsCart(request.cart)
  /\ request.lines = Pricing!Lines(request.cart, request.ask)
  /\ DOMAIN request.items \subseteq DOMAIN request.lines

\* A resolution adds up, and its items are of stock rows that are there.
AddsUp(r, ask, fee, stock) ==
  /\ r = [items |-> r.items, coupon |-> r.coupon, discount |-> r.discount, total |-> r.total]
  /\ DOMAIN r.items = {Pricing!Buy} \/ (~Pricing!BuyNow(ask) /\ DOMAIN r.items \subseteq Prices)
  /\ \A id \in DOMAIN r.items : r.items[id] \in ResolvedItem /\ HasRow(r.items[id], stock)
  /\ r.discount \in 0..Pricing!Subtotal(r.items)
  /\ r.total = Pricing!Subtotal(r.items) - r.discount + fee

\* It is of the lines of a cart.
Agrees(r, c) ==
  /\ DOMAIN r.items = DOMAIN c.lines
  /\ \A p \in DOMAIN c.lines :
       r.items[p].quantity = c.lines[p].quantity /\ r.items[p].price = p

\* A quote shows what a resolution has, line by line.
Shown(r, quote) ==
  /\ DOMAIN r.items = DOMAIN quote.items
  /\ \A id \in DOMAIN r.items : Pricing!SameLine(r.items[id], quote.items[id])
  /\ r.total = quote.total

\* While a start resolves, its lines are read of the catalogue that there is, unless it drifted.
ResolvingHolds ==
  /\ job = [pc |-> "resolving", ask |-> job.ask, cart |-> job.cart, items |-> job.items,
            lines |-> job.lines]
  /\ Reading(job)
  /\ IF Pricing!BuyNow(job.ask) THEN job.cart = Pricing!NoCart ELSE Follows(job.cart, priced)
  /\ \A id \in DOMAIN job.items : ReadOf(job.lines[id], job.items[id], rows)
  /\ ~drifted => \A id \in DOMAIN job.items : Fresh(job.items[id], prices, active)

\* A quote that proves a delegated payment: what was resolved is what it shows, as long as
\* neither the catalogue nor the cart changed.
Proving ==
  /\ job.resolution.discount =
       Pricing!Discount(Pricing!CouponFor(job.cart.coupon, job.ask.code), Pricing!Subtotal(job.resolution.items))
  /\ \A id \in DOMAIN job.resolution.items : Fresh(job.resolution.items[id], prices, active)
  /\ \A id \in DOMAIN job.items : Pricing!SameLine(job.resolution.items[id], job.items[id])

QuotingHolds ==
  /\ job = [pc |-> "quoting", after |-> job.after, ask |-> job.ask, cart |-> job.cart,
            items |-> job.items, lines |-> job.lines, resolution |-> job.resolution,
            version |-> job.version]
  /\ Reading(job) /\ Follows(job.cart, priced)
  /\ \A id \in DOMAIN job.items : QuotedOf(job.lines[id], job.items[id])
  /\ job.after \in {"show", IF host THEN "compare" ELSE "prove"}
  /\ job.after # "show" =>
       /\ AddsUp(job.resolution, job.ask, 0, rows)
       /\ ~Pricing!BuyNow(job.ask) =>
            /\ job.version \in Nat /\ job.version <= job.cart.version
            /\ job.version = job.cart.version => Agrees(job.resolution, job.cart)
  /\ job.after = "prove" /\ job.ask.byId /\ ~drifted /\ job.version = job.cart.version => Proving

\* The cart is the one that was resolved: by its version, or by the claim.
Held == job.pc \in {"reserve", "charge"}
Mine == IF Held THEN priced.status = "checkout_pending" ELSE job.version = priced.version

\* What a delegated payment was shown is what it will be charged.
Authorized ==
  /\ job.ask.byId /\ previewed # Pricing!Nothing
  /\ previewed = Pricing!Projection(job.ask, previewed.quote)
  /\ (host \/ ~drifted) /\ Mine => Shown(job.resolution, previewed.quote)

ClaimingHolds ==
  /\ job = [pc |-> job.pc, ask |-> job.ask, version |-> job.version, resolution |-> job.resolution]
  /\ job.ask \in Asks
  /\ AddsUp(job.resolution, job.ask, IF host THEN Fee ELSE 0, rows)
  /\ job.pc = "claim" => ~Pricing!BuyNow(job.ask)
  /\ ~Pricing!BuyNow(job.ask) =>
       /\ job.version \in Nat /\ job.version <= priced.version
       /\ Held => Mine
       /\ Mine => Agrees(job.resolution, priced)
  /\ job.ask.delegated => Authorized

\* What is true of the request at work.
JobHolds ==
  \/ job = Pricing!Idle
  \/ job.pc = "resolving" /\ ResolvingHolds
  \/ job.pc = "quoting" /\ QuotingHolds
  \/ job.pc \in {"dispatch", "claim", "reserve", "charge"} /\ ClaimingHolds

\* The inductive invariant of the prices.
PricingInv == Catalogue /\ JobHolds /\ Pricing!ChargedAsAgreed

\* The library's sets are those of the prices.
LEMMA CountsAreCardinalities ==
  ASSUME NEW S
  PROVE  Pricing!Cardinality(S) = Cardinality(S)
BY DEF Pricing!Cardinality, Cardinality

\* The assumptions on the constants.
LEMMA PricingFacts ==
  /\ SellableOf \in [Prices -> Sellables] /\ Pricing!Buy \notin Prices /\ Pricing!AnyPrice \notin Prices
  /\ IsFiniteSet(Prices) /\ Amounts \subseteq Nat /\ Fee \in Nat /\ MaxPerOrder \in Nat \ {0}
  /\ NoRow \notin Pricing!StockRow /\ StockRows \subseteq Pricing!StockRow \cup {NoRow}
  /\ NoRate \in Rates /\ Rates \ {NoRate} \subseteq 0..4
  /\ Asks \subseteq Pricing!Ask /\ Pricing!Absent \notin Codes /\ Pricing!Blank \notin Codes
<1>1. Pricing!PricingAssumption
  BY PurchaseAssumption
<1>2. {Pricing!Buy, Pricing!AnyPrice} \cap Prices = {} /\ {Pricing!Absent, Pricing!Blank} \cap Codes = {}
  BY <1>1 DEF Pricing!PricingAssumption
<1>3. Pricing!Buy \notin Prices /\ Pricing!AnyPrice \notin Prices /\ Pricing!Absent \notin Codes /\ Pricing!Blank \notin Codes
  BY <1>2
<1> QED
  BY <1>1, <1>3 DEF Pricing!PricingAssumption, Pricing!IsFiniteSet, IsFiniteSet

----------------------------------------------------------------------------
(* Sums *)

\* The units that a sum counts.
UnitsIn(f, S) == UNION {{x} \X (1..f[x]) : x \in S}

\* They are finitely many.
LEMMA UnitsAreFinite ==
  ASSUME NEW S, IsFiniteSet(S), NEW f, \A x \in S : f[x] \in Nat
  PROVE  IsFiniteSet(UnitsIn(f, S))
<1> DEFINE parts == {{x} \X (1..f[x]) : x \in S}
<1> DEFINE g == [x \in S |-> {x} \X (1..f[x])]
<1>1. IsFiniteSet(parts)
  <2>1. g \in Surjection(S, parts)
    BY DEF Surjection
  <2> QED
    BY <2>1, FS_Surjection
<1>2. \A p \in parts : IsFiniteSet(p)
  <2> SUFFICES ASSUME NEW x \in S PROVE IsFiniteSet({x} \X (1..f[x]))
    OBVIOUS
  <2>1. f[x] \in Int
    OBVIOUS
  <2>2. IsFiniteSet(1..f[x])
    BY <2>1, FS_Interval
  <2>3. IsFiniteSet({x})
    BY FS_Singleton
  <2> QED
    BY <2>2, <2>3, FS_Product
<1> QED
  BY <1>1, <1>2, FS_UNION DEF UnitsIn

\* A sum is how many they are.
LEMMA SumCounts ==
  ASSUME NEW S, NEW f
  PROVE  Pricing!SumOver(f, S) = Cardinality(UnitsIn(f, S))
BY CountsAreCardinalities DEF Pricing!SumOver, UnitsIn

\* A sum is a number.
LEMMA SumType ==
  ASSUME NEW S, IsFiniteSet(S), NEW f, \A x \in S : f[x] \in Nat
  PROVE  Pricing!SumOver(f, S) \in Nat
BY SumCounts, UnitsAreFinite, FS_CardinalityType

\* It is of the values of its elements.
LEMMA SumSame ==
  ASSUME NEW S, NEW f, NEW g, \A x \in S : f[x] = g[x]
  PROVE  Pricing!SumOver(f, S) = Pricing!SumOver(g, S)
<1>1. {{x} \X (1..f[x]) : x \in S} = {{x} \X (1..g[x]) : x \in S}
  OBVIOUS
<1> QED
  BY <1>1 DEF Pricing!SumOver

\* Of nothing it is none.
LEMMA SumOfNone ==
  ASSUME NEW f
  PROVE  Pricing!SumOver(f, {}) = 0
<1>1. UnitsIn(f, {}) = {}
  BY DEF UnitsIn
<1> QED
  BY <1>1, SumCounts, FS_EmptySet

\* One element and the others.
LEMMA SumSplit ==
  ASSUME NEW S, IsFiniteSet(S), NEW f, \A x \in S : f[x] \in Nat, NEW y \in S
  PROVE  Pricing!SumOver(f, S) = f[y] + Pricing!SumOver(f, S \ {y})
<1> DEFINE rest == S \ {y}
           own == {y} \X (1..f[y])
<1>1. IsFiniteSet(rest) /\ IsFiniteSet(UnitsIn(f, rest))
  BY FS_RemoveElement, UnitsAreFinite
<1>2. IsFiniteSet(own) /\ Cardinality(own) = f[y]
  <2> DEFINE n == f[y]
  <2>3. n \in Nat
    OBVIOUS
  <2> HIDE DEF n
  <2>4. IsFiniteSet(1..n) /\ Cardinality(1..n) = n
    BY <2>3, FS_Interval
  <2>1. f[y] \in Nat /\ IsFiniteSet(1..f[y]) /\ Cardinality(1..f[y]) = f[y]
    BY <2>3, <2>4 DEF n
  <2>2. IsFiniteSet({y}) /\ Cardinality({y}) = 1
    BY FS_Singleton
  <2> QED
    BY <2>1, <2>2, FS_Product
<1>3. UnitsIn(f, S) = own \cup UnitsIn(f, rest)
  BY DEF UnitsIn
<1>4. own \cap UnitsIn(f, rest) = {}
  BY DEF UnitsIn
<1> DEFINE others == UnitsIn(f, rest)
<1> HIDE DEF others, own
<1>5. Cardinality(own \cup others) = Cardinality(own) + Cardinality(others)
  <2>1. Cardinality(own \cup others)
          = Cardinality(own) + Cardinality(others) - Cardinality(own \cap others)
    BY <1>1, <1>2, FS_Union DEF others
  <2>2. Cardinality(own \cap others) = 0
    BY <1>4, FS_EmptySet DEF others
  <2>3. Cardinality(own) \in Nat /\ Cardinality(others) \in Nat
    BY <1>1, <1>2, FS_CardinalityType DEF others
  <2> QED
    BY <2>1, <2>2, <2>3
<1> QED
  BY <1>2, <1>3, <1>5, SumCounts DEF others

----------------------------------------------------------------------------
(* Lines and resolutions *)

\* The lines of a cart.
LEMMA CartFacts ==
  ASSUME NEW c, IsCart(c)
  PROVE  /\ IsFiniteSet(DOMAIN c.lines) /\ DOMAIN c.lines \subseteq Prices /\ Pricing!Buy \notin DOMAIN c.lines
         /\ \A p \in DOMAIN c.lines : c.lines[p].quantity \in Nat \ {0} /\ c.lines[p].unit \in Nat
         /\ c.coupon \in Coupons /\ c.version \in Nat
<1>1. /\ DOMAIN c.lines \subseteq Prices /\ c.lines \in [DOMAIN c.lines -> CartRow]
      /\ c.coupon \in Coupons /\ c.version \in Nat
  BY DEF IsCart
<1>2. IsFiniteSet(DOMAIN c.lines) /\ Pricing!Buy \notin DOMAIN c.lines
  BY <1>1, PricingFacts, FS_Subset
<1>3. \A p \in DOMAIN c.lines : c.lines[p] \in CartRow
  BY <1>1
<1> QED
  BY <1>1, <1>2, <1>3 DEF CartRow

\* An input.
LEMMA AskFacts ==
  ASSUME NEW ask \in Asks
  PROVE  /\ ask \in Pricing!Ask /\ ask.byId \in BOOLEAN /\ ask.delegated \in BOOLEAN
         /\ ask.sellable \in Sellables \cup {Pricing!NoSellable} /\ ask.price \in Prices \cup {Pricing!AnyPrice}
         /\ ask.quantity \in Nat \ {0} /\ ask.code \in Codes \cup {Pricing!Absent, Pricing!Blank}
<1>1. ask \in Pricing!Ask
  BY PricingFacts
<1> QED
  BY <1>1, PricingFacts DEF Pricing!Ask

\* The lines of a request: those of its cart, and that of an item to buy at once.
LEMMA LinesRead ==
  ASSUME NEW c, IsCart(c), NEW ask \in Asks
  PROVE  /\ DOMAIN Pricing!Lines(c, ask) = DOMAIN c.lines \cup (IF Pricing!BuyNow(ask) THEN {Pricing!Buy} ELSE {})
         /\ \A p \in DOMAIN c.lines : Pricing!Lines(c, ask)[p] = Pricing!CartLine(c, p)
         /\ Pricing!BuyNow(ask) => Pricing!Lines(c, ask)[Pricing!Buy] = Pricing!BuyLine(ask)
<1>1. Pricing!Buy \notin DOMAIN c.lines
  BY CartFacts
<1> QED
  BY <1>1 DEF Pricing!Lines

\* What a line says.
LEMMA LineFacts ==
  ASSUME NEW c, IsCart(c), NEW ask \in Asks, NEW id \in DOMAIN Pricing!Lines(c, ask)
  PROVE  /\ Pricing!Lines(c, ask)[id].quantity \in Nat \ {0}
         /\ Pricing!Lines(c, ask)[id].sellable \in Sellables
         /\ Pricing!Lines(c, ask)[id].unit \in Nat
         /\ Pricing!Lines(c, ask)[id].price \in Prices \cup {Pricing!AnyPrice}
         /\ id \in DOMAIN c.lines =>
              /\ Pricing!Lines(c, ask)[id].price = id /\ Pricing!Lines(c, ask)[id].quantity = c.lines[id].quantity
              /\ Pricing!Lines(c, ask)[id].sellable = SellableOf[id]
<1>1. CASE id \in DOMAIN c.lines
  <2>1. Pricing!Lines(c, ask)[id] = Pricing!CartLine(c, id)
    BY <1>1, LinesRead
  <2>2. id \in Prices /\ c.lines[id].quantity \in Nat \ {0} /\ SellableOf[id] \in Sellables
        /\ c.lines[id].unit \in Nat
    BY <1>1, CartFacts, PricingFacts
  <2> QED
    BY <2>1, <2>2 DEF Pricing!CartLine
<1>2. CASE id \notin DOMAIN c.lines
  <2>1. Pricing!BuyNow(ask) /\ id = Pricing!Buy
    BY <1>2, LinesRead
  <2>2. Pricing!Lines(c, ask)[id] = Pricing!BuyLine(ask)
    BY <2>1, LinesRead
  <2>3. ask.sellable \in Sellables
    BY <2>1, AskFacts DEF Pricing!BuyNow, Pricing!Buys
  <2> QED
    BY <1>2, <2>2, <2>3, AskFacts DEF Pricing!BuyLine
<1> QED
  BY <1>1, <1>2

\* There are finitely many.
LEMMA LinesAreFinite ==
  ASSUME NEW c, IsCart(c), NEW ask \in Asks
  PROVE  IsFiniteSet(DOMAIN Pricing!Lines(c, ask))
<1>1. IsFiniteSet(DOMAIN c.lines)
  BY CartFacts
<1>2. IsFiniteSet(DOMAIN c.lines \cup {Pricing!Buy})
  BY <1>1, FS_AddElement
<1> QED
  BY <1>1, <1>2, LinesRead

\* A discount of some quarters is no more than the whole.
LEMMA DiscountBound ==
  ASSUME NEW coupon \in Coupons, NEW amount \in Nat
  PROVE  Pricing!Discount(coupon, amount) \in 0..amount
<1>1. coupon.rate \in 0..4
  BY DEF Coupons
<1>2. \A n \in Nat : n * 0 = 0 /\ n * 1 = n /\ n * 2 = n + n /\ n * 3 = n + n + n /\ n * 4 = n + n + n + n
  OBVIOUS
<1>3. PICK whole : whole = amount * coupon.rate
  OBVIOUS
<1>4. whole \in Nat /\ whole <= amount + amount + amount + amount
  BY <1>1, <1>2, <1>3
<1>5. whole \div 4 \in 0..amount
  BY <1>4
<1> QED
  BY <1>3, <1>5 DEF Pricing!Discount

\* What the lines cost.
LEMMA SubtotalType ==
  ASSUME NEW items, IsFiniteSet(DOMAIN items),
         \A id \in DOMAIN items : items[id].unit \in Nat /\ items[id].quantity \in Nat
  PROVE  Pricing!Subtotal(items) \in Nat
<1> DEFINE f == [id \in DOMAIN items |-> items[id].unit * items[id].quantity]
<1>0. \A m, n \in Nat : m * n \in Nat
  OBVIOUS
<1>1. \A id \in DOMAIN items : f[id] \in Nat
  BY <1>0
<1> QED
  BY <1>1, SumType DEF Pricing!Subtotal

\* Lines that say the same cost the same.
LEMMA SubtotalSame ==
  ASSUME NEW items, NEW others, DOMAIN items = DOMAIN others,
         \A id \in DOMAIN items : Pricing!SameLine(items[id], others[id])
  PROVE  Pricing!Subtotal(items) = Pricing!Subtotal(others)
<1>1. [id \in DOMAIN items |-> items[id].unit * items[id].quantity]
        = [id \in DOMAIN others |-> others[id].unit * others[id].quantity]
  BY DEF Pricing!SameLine
<1> QED
  BY <1>1 DEF Pricing!Subtotal

\* The coupon of a code is one.
LEMMA CouponType ==
  ASSUME NEW stored \in Coupons, NEW code \in Codes \cup {Pricing!Absent, Pricing!Blank}, rates \in [Codes -> Rates]
  PROVE  Pricing!CouponFor(stored, code) \in Coupons
<1>1. Pricing!NoCoupon \in Coupons
  BY DEF Pricing!NoCoupon, Coupons
<1>2. ASSUME code # Pricing!Absent, code # Pricing!Blank, rates[code] # NoRate
      PROVE  [code |-> code, rate |-> rates[code]] \in Coupons
  <2>1. code \in Codes /\ rates[code] \in Rates
    BY <1>2
  <2>2. rates[code] \in 0..4
    BY <1>2, <2>1, PricingFacts
  <2> QED
    BY <2>1, <2>2 DEF Coupons
<1> QED
  BY <1>1, <1>2 DEF Pricing!CouponFor

\* The items of a resolution.
LEMMA ItemsFacts ==
  ASSUME NEW r, NEW ask, NEW fee, NEW stock, AddsUp(r, ask, fee, stock)
  PROVE  /\ IsFiniteSet(DOMAIN r.items) /\ Pricing!Subtotal(r.items) \in Nat
         /\ \A id \in DOMAIN r.items :
              /\ r.items[id].price \in Prices /\ r.items[id].unit \in Nat
              /\ r.items[id].quantity \in Nat \ {0} /\ SellableOf[r.items[id].price] \in Sellables
<1>1. IsFiniteSet(DOMAIN r.items)
  <2>1. DOMAIN r.items = {Pricing!Buy} => IsFiniteSet(DOMAIN r.items)
    BY FS_Singleton
  <2>2. DOMAIN r.items \subseteq Prices => IsFiniteSet(DOMAIN r.items)
    BY PricingFacts, FS_Subset
  <2> QED
    BY <2>1, <2>2 DEF AddsUp
<1>2. \A id \in DOMAIN r.items : r.items[id] \in ResolvedItem
  BY DEF AddsUp
<1>3. \A id \in DOMAIN r.items :
        /\ r.items[id].price \in Prices /\ r.items[id].unit \in Nat
        /\ r.items[id].quantity \in Nat \ {0} /\ SellableOf[r.items[id].price] \in Sellables
  BY <1>2, PricingFacts DEF ResolvedItem
<1> QED
  BY <1>1, <1>3, SubtotalType

\* A resolution still adds up after a change of stock rows, none of which goes.
LEMMA AddsUpStays ==
  ASSUME NEW r, NEW ask, NEW fee, NEW stock, NEW later, AddsUp(r, ask, fee, stock),
         \A s \in Sellables : stock[s] # NoRow => later[s] # NoRow
  PROVE  AddsUp(r, ask, fee, later)
BY ItemsFacts DEF AddsUp, HasRow

\* The units it takes of a sellable, which has a stock row when it takes some.
LEMMA TakesFacts ==
  ASSUME NEW r, NEW ask, NEW fee, NEW stock, AddsUp(r, ask, fee, stock), NEW s
  PROVE  /\ Pricing!Takes(r.items, s) \in Nat
         /\ Pricing!Takes(r.items, s) # 0 => stock[s] # NoRow
<1> DEFINE f == [id \in DOMAIN r.items |-> r.items[id].quantity]
           ids == {id \in DOMAIN r.items : SellableOf[r.items[id].price] = s /\ r.items[id].tracked}
<1>1. Pricing!Takes(r.items, s) = Pricing!SumOver(f, ids)
  BY DEF Pricing!Takes
<1>2. IsFiniteSet(ids)
  BY ItemsFacts, FS_Subset
<1>3. \A id \in ids : f[id] \in Nat
  BY ItemsFacts
<1>4. ids = {} => Pricing!SumOver(f, ids) = 0
  BY SumOfNone
<1>5. ids # {} => stock[s] # NoRow
  BY DEF AddsUp, HasRow
<1> HIDE DEF f, ids
<1> QED
  BY <1>1, <1>2, <1>3, <1>4, <1>5, SumType

----------------------------------------------------------------------------
(* What merchant and shopper may change *)

\* What an edit leaves of the world of a request.
Edited ==
  /\ host' = host /\ job' = job /\ previewed' = previewed /\ charged' = charged
  /\ \A s \in Sellables : rows[s] # NoRow => rows'[s] # NoRow
  /\ IsCart(priced')
  /\ \/ /\ priced'.version = priced.version /\ priced'.status = priced.status
        /\ priced'.lines = priced.lines /\ priced'.coupon = priced.coupon
     \/ priced'.version = priced.version + 1 /\ priced.status # "checkout_pending"
  /\ ~drifted' => ~drifted
  /\ ~drifted' /\ job.pc \in {"resolving", "quoting"} =>
       prices' = prices /\ active' = active /\ rates' = rates

\* A cart that was read is the one there is, or an older one.
LEMMA FollowsStays ==
  ASSUME IsCart(priced), Edited, NEW c, IsCart(c), Follows(c, priced)
  PROVE  Follows(c, priced')
BY DEF Edited, Follows, IsCart

\* A line that was read has its stock row still.
LEMMA ReadOfStays ==
  ASSUME NEW line, NEW item, NEW stock, NEW later, ReadOf(line, item, stock),
         \A s \in Sellables : stock[s] # NoRow => later[s] # NoRow
  PROVE  ReadOf(line, item, later)
<1>1. item.price \in Prices /\ SellableOf[item.price] \in Sellables
  BY PricingFacts DEF ReadOf, ResolvedItem
<1> QED
  BY <1>1 DEF ReadOf, HasRow

\* An edit while a start resolves.
LEMMA ResolvingStays ==
  ASSUME IsCart(priced), Edited, job.pc = "resolving", ResolvingHolds
  PROVE  ResolvingHolds'
<1>1. job' = job /\ Reading(job) /\ IsCart(job.cart)
  BY DEF Edited, ResolvingHolds, Reading
<1>2. IF Pricing!BuyNow(job.ask) THEN job.cart = Pricing!NoCart ELSE Follows(job.cart, priced')
  BY <1>1, FollowsStays DEF ResolvingHolds
<1>3. \A id \in DOMAIN job.items : ReadOf(job.lines[id], job.items[id], rows')
  BY ReadOfStays DEF ResolvingHolds, Edited
<1>4. ~drifted' => \A id \in DOMAIN job.items : Fresh(job.items[id], prices', active')
  BY DEF ResolvingHolds, Edited
<1>5. job = [pc |-> "resolving", ask |-> job.ask, cart |-> job.cart, items |-> job.items,
             lines |-> job.lines]
  BY DEF ResolvingHolds
<1> QED
  BY <1>1, <1>2, <1>3, <1>4, <1>5 DEF ResolvingHolds

\* An edit while a quote is made.
LEMMA QuotingStays ==
  ASSUME IsCart(priced), Edited, job.pc = "quoting", QuotingHolds
  PROVE  QuotingHolds'
<1>1. job' = job /\ host' = host /\ Reading(job) /\ IsCart(job.cart) /\ Follows(job.cart, priced)
  BY DEF Edited, QuotingHolds, Reading
<1>2. Follows(job.cart, priced')
  BY <1>1, FollowsStays
<1>3. job.after # "show" => AddsUp(job.resolution, job.ask, 0, rows')
  BY AddsUpStays DEF QuotingHolds, Edited
<1>4. ASSUME job.after = "prove", job.ask.byId, ~drifted', job.version = job.cart.version
      PROVE  Proving'
  <2>1. Proving
    BY <1>4 DEF QuotingHolds, Edited
  <2>2. prices' = prices /\ active' = active /\ rates' = rates
    BY <1>4 DEF Edited
  <2>3. Pricing!CouponFor(job.cart.coupon, job.ask.code)' = Pricing!CouponFor(job.cart.coupon, job.ask.code)
    BY <1>1, <2>2 DEF Pricing!CouponFor
  <2> QED
    BY <1>1, <2>1, <2>2, <2>3 DEF Proving
<1> QED
  BY <1>1, <1>2, <1>3, <1>4 DEF QuotingHolds

\* An edit while a start claims, reserves and charges.
LEMMA ClaimingStays ==
  ASSUME IsCart(priced), Edited, ClaimingHolds
  PROVE  ClaimingHolds'
<1>1. job' = job /\ host' = host /\ previewed' = previewed /\ job.ask \in Asks
  BY DEF Edited, ClaimingHolds
<1>2. AddsUp(job.resolution, job.ask, IF host THEN Fee ELSE 0, rows')
  BY AddsUpStays DEF ClaimingHolds, Edited
<1>3. ASSUME ~Pricing!BuyNow(job.ask)
      PROVE  /\ job.version \in Nat /\ job.version <= priced'.version
             /\ Held => Mine'
             /\ Mine' => Mine
             /\ Mine' => priced'.lines = priced.lines
  <2>1. /\ job.version \in Nat /\ job.version <= priced.version
        /\ Held => Mine
        /\ priced.version \in Nat /\ priced'.version \in Nat
    BY <1>3 DEF ClaimingHolds, IsCart, Edited
  <2>2. Held => priced.status = "checkout_pending"
    BY <2>1 DEF Mine
  <2> QED
    BY <1>1, <2>1, <2>2 DEF Edited, Mine, Held
<1>4. job.ask.delegated => Authorized'
  <2>1. ASSUME job.ask.delegated
        PROVE  ~Pricing!BuyNow(job.ask) /\ Authorized
    BY <2>1 DEF ClaimingHolds, Authorized, Pricing!BuyNow
  <2> QED
    BY <1>1, <1>3, <2>1 DEF Authorized, Edited
<1>5. ~Pricing!BuyNow(job.ask) => (Mine' => Agrees(job.resolution, priced'))
  BY <1>3 DEF ClaimingHolds, Agrees
<1>6. Held' <=> Held
  BY <1>1 DEF Held
<1> QED
  BY <1>1, <1>2, <1>3, <1>4, <1>5, <1>6 DEF ClaimingHolds

\* What an edit leaves keeps what is true of the request.
LEMMA EditedKeeps ==
  ASSUME IsCart(priced), Edited, JobHolds
  PROVE  JobHolds'
<1>1. job' = job
  BY DEF Edited
<1>2. CASE job = Pricing!Idle
  BY <1>1, <1>2 DEF JobHolds
<1>3. CASE job.pc = "resolving" /\ ResolvingHolds
  BY <1>1, <1>3, ResolvingStays DEF JobHolds
<1>4. CASE job.pc = "quoting" /\ QuotingHolds
  BY <1>1, <1>4, QuotingStays DEF JobHolds
<1>5. CASE job.pc \in {"dispatch", "claim", "reserve", "charge"} /\ ClaimingHolds
  BY <1>1, <1>5, ClaimingStays DEF JobHolds
<1> QED
  BY <1>2, <1>3, <1>4, <1>5 DEF JobHolds

\* What was charged was charged.
LEMMA ChargedStays ==
  ASSUME Pricing!ChargedAsAgreed, charged' = charged, host' = host
  PROVE  Pricing!ChargedAsAgreed'
BY DEF Pricing!ChargedAsAgreed, Pricing!ChargedIsClaimed, Pricing!AuthorizedIsCharged

----------------------------------------------------------------------------
(* The reads of a request *)

\* A request that reads changes nothing that is charged, nor what it reads.
Reads ==
  /\ UNCHANGED <<prices, active, rows, rates, priced, host, charged>>
  /\ drifted' \in BOOLEAN

\* It keeps the invariant when the request does.
LEMMA ReadsKeep ==
  ASSUME PricingInv, Reads, JobHolds'
  PROVE  PricingInv'
<1>1. Catalogue'
  BY DEF PricingInv, Catalogue, Reads
<1>2. Pricing!ChargedAsAgreed'
  BY ChargedStays DEF PricingInv, Reads
<1> QED
  BY <1>1, <1>2 DEF PricingInv

\* Which case of the invariant a request is in.
LEMMA JobCases ==
  ASSUME JobHolds
  PROVE  /\ job.pc = "resolving" => ResolvingHolds
         /\ job.pc = "quoting" => QuotingHolds
         /\ job.pc \in {"dispatch", "claim", "reserve", "charge"} => ClaimingHolds
BY DEF JobHolds, Pricing!Idle

\* An idle request is in the invariant.
LEMMA IdleHolds ==
  ASSUME job' = Pricing!Idle
  PROVE  JobHolds'
BY DEF JobHolds

\* The lines that a request begins to read.
LEMMA BeginsToRead ==
  ASSUME NEW c, IsCart(c), NEW ask \in Asks, NEW request,
         request.ask = ask, request.cart = c, request.items = Pricing!Empty, request.lines = Pricing!Lines(c, ask)
  PROVE  Reading(request) /\ DOMAIN request.items = {}
BY DEF Reading, Pricing!Empty

\* A quote begins of the cart there is.
LEMMA BeginsToQuote ==
  ASSUME NEW from, NEW ask \in Asks, NEW after \in {"show", IF host THEN "compare" ELSE "prove"},
         Catalogue, rows' = rows, priced' = priced, host' = host, drifted' = drifted,
         prices' = prices, active' = active, rates' = rates,
         job' = Pricing!Quoting(from, ask, after),
         after # "show" =>
           /\ AddsUp(from, ask, 0, rows) /\ from # Pricing!Nothing
           /\ ~Pricing!BuyNow(ask) =>
                /\ job.cart.version \in Nat /\ job.cart.version <= priced.version
                /\ job.cart.version = priced.version => Agrees(from, priced),
         after = "prove" /\ ~drifted /\ ask.byId /\ job.cart.version = priced.version =>
           /\ from.discount = Pricing!Discount(Pricing!CouponFor(priced.coupon, ask.code), Pricing!Subtotal(from.items))
           /\ \A id \in DOMAIN from.items : Fresh(from.items[id], prices, active)
  PROVE  JobHolds'
<1> DEFINE version == IF from = Pricing!Nothing THEN 0 ELSE job.cart.version
<1>1. IsCart(priced)
  BY DEF Catalogue
<1>2. PICK request :
        request = [pc |-> "quoting", after |-> after, ask |-> ask, cart |-> priced, items |-> Pricing!Empty,
                   lines |-> Pricing!Lines(priced, ask), resolution |-> from, version |-> version]
  OBVIOUS
<1>3. job' = request
  BY <1>2 DEF Pricing!Quoting
<1>4. Reading(request) /\ DOMAIN request.items = {}
  BY <1>1, <1>2, BeginsToRead
<1>5. /\ request.pc = "quoting" /\ request.after = after /\ request.ask = ask
      /\ request.cart = priced /\ request.resolution = from /\ request.version = version
      /\ request = [pc |-> "quoting", after |-> request.after, ask |-> request.ask,
                    cart |-> request.cart, items |-> request.items, lines |-> request.lines,
                    resolution |-> request.resolution, version |-> request.version]
  BY <1>2
<1>6. Follows(priced, priced')
  BY <1>1 DEF Follows, IsCart
<1>7. after # "show" => version = job.cart.version
  OBVIOUS
<1>8. Pricing!CouponFor(priced.coupon, ask.code)' = Pricing!CouponFor(priced.coupon, ask.code)
  BY DEF Pricing!CouponFor
<1> HIDE DEF version
<1>9. ASSUME after = "prove", ask.byId, ~drifted, version = priced.version
      PROVE  Proving'
  BY <1>3, <1>4, <1>5, <1>7, <1>8, <1>9 DEF Proving, Pricing!CouponFor
<1>10. QuotingHolds'
  BY <1>3, <1>4, <1>5, <1>6, <1>7, <1>9 DEF QuotingHolds
<1> QED
  BY <1>3, <1>5, <1>10 DEF JobHolds

\* cart.quote and checkout.preview begin to quote.
LEMMA PreviewKeeps ==
  ASSUME PricingInv, NEW ask \in Asks, Pricing!Preview(ask)
  PROVE  PricingInv'
<1>1. Catalogue /\ Reads
  BY DEF PricingInv, Catalogue, Pricing!Preview, Reads
<1>2. JobHolds'
  BY <1>1, BeginsToQuote DEF Pricing!Preview
<1> QED
  BY <1>1, <1>2, ReadsKeep

\* The cart of a start.
LEMMA StartCartFacts ==
  ASSUME IsCart(priced), NEW ask
  PROVE  IsCart(Pricing!StartCart(ask))
<1>1. IsCart(Pricing!NoCart)
  BY DEF IsCart, Pricing!NoCart, Pricing!NoCoupon, Pricing!Empty, Coupons
<1> QED
  BY <1>1 DEF Pricing!StartCart

\* A start begins to resolve.
LEMMA StartKeeps ==
  ASSUME PricingInv, NEW ask \in Asks, Pricing!Start(ask)
  PROVE  PricingInv'
<1>1. IsCart(priced) /\ Reads
  BY DEF PricingInv, Catalogue, Pricing!Start, Reads
<1>2. CASE job' = Pricing!Idle
  BY <1>1, <1>2, IdleHolds, ReadsKeep
<1>3. ASSUME job' # Pricing!Idle
      PROVE  JobHolds'
  <2>1. PICK c : c = Pricing!StartCart(ask)
    OBVIOUS
  <2>2. PICK request : request = [pc |-> "resolving", ask |-> ask, cart |-> c, items |-> Pricing!Empty,
                                  lines |-> Pricing!Lines(c, ask)]
    OBVIOUS
  <2>3. job' = request
    BY <1>3, <2>1, <2>2 DEF Pricing!Start
  <2>4. IsCart(c) /\ Reading(request) /\ DOMAIN request.items = {}
    BY <1>1, <2>1, <2>2, StartCartFacts, BeginsToRead
  <2>5. /\ request.pc = "resolving" /\ request.ask = ask /\ request.cart = c
        /\ request = [pc |-> "resolving", ask |-> request.ask, cart |-> request.cart,
                      items |-> request.items, lines |-> request.lines]
    BY <2>2
  <2>6. IF Pricing!BuyNow(ask) THEN c = Pricing!NoCart ELSE Follows(c, priced')
    BY <1>1, <2>1 DEF Pricing!StartCart, Follows, Reads, IsCart
  <2>7. ResolvingHolds'
    BY <2>3, <2>4, <2>5, <2>6 DEF ResolvingHolds
  <2> QED
    BY <2>3, <2>5, <2>7 DEF JobHolds
<1> QED
  BY <1>1, <1>2, <1>3, ReadsKeep

\* A price that is selected is on sale, and the one that was named.
LEMMA SelectedFacts ==
  ASSUME NEW s, NEW p, NEW q \in Pricing!Selected(s, p)
  PROVE  q \in Prices /\ SellableOf[q] = s /\ prices[q].on /\ (p # Pricing!AnyPrice => q = p)
BY DEF Pricing!Selected, Pricing!OnSale

\* A line that is quoted: its quantity, and what the price says that is its own.
LEMMA QuotedFacts ==
  ASSUME Catalogue, NEW line, line.unit \in Nat
  PROVE  /\ QuotedOf(line, Pricing!Quoted(line))
         /\ line.price \in Prices /\ SellableOf[line.price] = line.sellable
              /\ prices[line.price].on /\ line.sellable \in active
            => Pricing!Quoted(line).price = line.price /\ Pricing!Quoted(line).unit = prices[line.price].amount
<1> DEFINE offered == IF line.sellable \in active THEN Pricing!Selected(line.sellable, line.price) ELSE {}
           chosen == CHOOSE p \in offered : TRUE
<1>1. /\ Pricing!Quoted(line).price = IF offered = {} THEN line.price ELSE chosen
      /\ Pricing!Quoted(line).quantity = line.quantity
      /\ Pricing!Quoted(line).unit = IF offered = {} THEN line.unit ELSE prices[chosen].amount
  BY DEF Pricing!Quoted
<1>2. offered # {} => chosen \in offered
  OBVIOUS
<1>3. offered # {} => chosen \in Prices /\ (line.price # Pricing!AnyPrice => chosen = line.price)
  BY <1>2, SelectedFacts
<1>4. \A p \in Prices : prices[p].amount \in Nat
  BY DEF Catalogue, PriceRow
<1>5. /\ line.price \in Prices /\ SellableOf[line.price] = line.sellable
      /\ prices[line.price].on /\ line.sellable \in active
      => offered # {} /\ chosen = line.price
  BY <1>3, PricingFacts DEF Pricing!Selected, Pricing!OnSale
<1> HIDE DEF offered, chosen
<1> QED
  BY <1>1, <1>3, <1>4, <1>5 DEF QuotedOf

\* What one more read does to the items of a request.
LEMMA ItemsRead ==
  ASSUME NEW request, NEW id, NEW read,
         Reading(job), Pricing!Unread # {}, id = Pricing!NextLine,
         request = [job EXCEPT !.items = Pricing!Put(@, id, read)],
         "items" \in DOMAIN job
  PROVE  /\ id \in DOMAIN job.lines /\ id \notin DOMAIN job.items
         /\ request.items = Pricing!Put(job.items, id, read)
         /\ DOMAIN request.items = DOMAIN job.items \cup {id}
         /\ request.items[id] = read
         /\ \A i \in DOMAIN job.items : request.items[i] = job.items[i]
<1>1. id \in Pricing!Unread
  BY DEF Pricing!NextLine
<1> QED
  BY <1>1 DEF Pricing!Unread, Pricing!Put

\* A line is quoted.
LEMMA QuoteLineKeeps ==
  ASSUME PricingInv, Pricing!QuoteLine
  PROVE  PricingInv'
<1>1. /\ Catalogue /\ Reads /\ QuotingHolds /\ Reading(job) /\ IsCart(job.cart) /\ job.ask \in Asks
      /\ Pricing!Unread # {}
  BY JobCases DEF PricingInv, Catalogue, Pricing!QuoteLine, Pricing!Others, Reads, QuotingHolds,
     Reading
<1>2. PICK id : id = Pricing!NextLine
  OBVIOUS
<1>3. PICK line : line = job.lines[id]
  OBVIOUS
<1>4. PICK read : read = Pricing!Quoted(line)
  OBVIOUS
<1>5. PICK request : request = [job EXCEPT !.items = Pricing!Put(@, id, read)]
  OBVIOUS
<1>6. job' = request
  BY <1>2, <1>3, <1>4, <1>5 DEF Pricing!QuoteLine, Pricing!WithLine
<1>7. job = [pc |-> "quoting", after |-> job.after, ask |-> job.ask, cart |-> job.cart,
             items |-> job.items, lines |-> job.lines, resolution |-> job.resolution,
             version |-> job.version]
  BY <1>1 DEF QuotingHolds
<1>8. /\ request.pc = "quoting" /\ request.after = job.after /\ request.ask = job.ask
      /\ request.cart = job.cart /\ request.lines = job.lines
      /\ request.resolution = job.resolution /\ request.version = job.version
      /\ request = [pc |-> "quoting", after |-> request.after, ask |-> request.ask,
                    cart |-> request.cart, items |-> request.items, lines |-> request.lines,
                    resolution |-> request.resolution, version |-> request.version]
  BY <1>5, <1>7
<1>9. /\ id \in DOMAIN job.lines
      /\ DOMAIN request.items = DOMAIN job.items \cup {id} /\ request.items[id] = read
      /\ \A i \in DOMAIN job.items : request.items[i] = job.items[i]
  <2>1. "items" \in DOMAIN job
    BY <1>7
  <2> QED
    BY <1>1, <1>2, <1>5, <2>1, ItemsRead
<1>10. Reading(request)
  BY <1>1, <1>8, <1>9 DEF Reading
<1>11. job.lines = Pricing!Lines(job.cart, job.ask) /\ line.unit \in Nat
  BY <1>1, <1>3, <1>9, LineFacts DEF Reading
<1>12. QuotedOf(line, read)
  BY <1>1, <1>4, <1>11, QuotedFacts
<1>13. \A i \in DOMAIN request.items : QuotedOf(request.lines[i], request.items[i])
  BY <1>1, <1>3, <1>8, <1>9, <1>12 DEF QuotingHolds
<1>14. /\ host' = host /\ priced' = priced /\ rows' = rows /\ drifted' = drifted /\ prices' = prices
       /\ active' = active /\ rates' = rates
  BY DEF Pricing!QuoteLine, Pricing!Others
<1>15. ASSUME job.after = "prove", job.ask.byId, ~drifted, job.version = job.cart.version
       PROVE  Proving'
  <2>1. Proving /\ ~Pricing!BuyNow(job.ask) /\ Agrees(job.resolution, job.cart)
    BY <1>1, <1>15 DEF QuotingHolds, Pricing!BuyNow
  <2>2. id \in DOMAIN job.cart.lines /\ line.price = id /\ line.sellable = SellableOf[id]
        /\ id \in Prices /\ line.quantity = job.cart.lines[id].quantity
    <3>1. id \in DOMAIN job.cart.lines
      BY <1>1, <1>9, <1>11, <2>1, LinesRead
    <3>2. id \in Prices
      BY <1>1, <3>1, CartFacts
    <3> QED
      BY <1>1, <1>3, <1>9, <1>11, <3>1, <3>2, LineFacts
  <2>3. /\ job.resolution.items[id].price = id
        /\ job.resolution.items[id].quantity = line.quantity
        /\ Fresh(job.resolution.items[id], prices, active)
    BY <2>1, <2>2 DEF Agrees, Proving
  <2>4. prices[id].on /\ SellableOf[id] \in active
        /\ job.resolution.items[id].unit = prices[id].amount
    BY <2>3 DEF Fresh
  <2>5. read.price = id /\ read.unit = prices[id].amount /\ read.quantity = line.quantity
    BY <1>1, <1>4, <1>11, <1>12, <2>2, <2>4, QuotedFacts DEF QuotedOf
  <2>6. Pricing!SameLine(job.resolution.items[id], read)
    BY <2>3, <2>4, <2>5 DEF Pricing!SameLine
  <2>7. Pricing!CouponFor(job.cart.coupon, job.ask.code)' = Pricing!CouponFor(job.cart.coupon, job.ask.code)
    BY <1>6, <1>8, <1>14 DEF Pricing!CouponFor
  <2>8. \A i \in DOMAIN request.items : Pricing!SameLine(job.resolution.items[i], request.items[i])
    BY <1>9, <2>1, <2>6 DEF Proving
  <2> QED
    BY <1>6, <1>8, <1>14, <2>1, <2>7, <2>8 DEF Proving
<1>16. QuotingHolds'
  BY <1>1, <1>6, <1>8, <1>10, <1>13, <1>14, <1>15 DEF QuotingHolds
<1> QED
  BY <1>1, <1>6, <1>8, <1>16, ReadsKeep DEF JobHolds

\* A preview is answered.
LEMMA ShowKeeps ==
  ASSUME PricingInv, Pricing!Show
  PROVE  PricingInv'
<1>1. Reads /\ job' = Pricing!Idle
  BY DEF PricingInv, Catalogue, Pricing!Show, Pricing!Others, Reads
<1> QED
  BY <1>1, IdleHolds, ReadsKeep

\* A line that is resolved.
LEMMA ResolvedFacts ==
  ASSUME Catalogue, NEW line, Pricing!Resolvable(line), line.quantity \in Nat \ {0}
  PROVE  /\ ReadOf(line, Pricing!Resolved(line), rows)
         /\ Fresh(Pricing!Resolved(line), prices, active)
         /\ SellableOf[Pricing!Resolved(line).price] = line.sellable
<1> DEFINE p == CHOOSE q \in Pricing!Selected(line.sellable, line.price) : TRUE
<1>1. line.sellable \in active /\ p \in Pricing!Selected(line.sellable, line.price)
  BY DEF Pricing!Resolvable
<1>2. /\ p \in Prices /\ SellableOf[p] = line.sellable /\ prices[p].on
      /\ line.price # Pricing!AnyPrice => p = line.price
  BY <1>1, SelectedFacts
<1>3. prices[p].amount \in Nat /\ prices[p].mode \in Modes
  BY <1>2 DEF Catalogue, PriceRow
<1>4. Pricing!Resolved(line) =
        [price |-> p, quantity |-> line.quantity, unit |-> prices[p].amount,
         mode |-> prices[p].mode, tracked |-> rows[line.sellable] # NoRow]
  BY DEF Pricing!Resolved
<1> HIDE DEF p
<1>5. PICK item : item = Pricing!Resolved(line)
  OBVIOUS
<1>7. PICK tracked \in BOOLEAN : tracked = (rows[line.sellable] # NoRow)
  OBVIOUS
<1>8. item = [price |-> p, quantity |-> line.quantity, unit |-> prices[p].amount,
              mode |-> prices[p].mode, tracked |-> tracked]
  BY <1>4, <1>5, <1>7
<1>6. item \in ResolvedItem /\ item.price = p /\ item.quantity = line.quantity
      /\ item.unit = prices[p].amount /\ (item.tracked => rows[line.sellable] # NoRow)
  BY <1>2, <1>3, <1>7, <1>8 DEF ResolvedItem
<1> QED
  BY <1>1, <1>2, <1>5, <1>6 DEF ReadOf, HasRow, Fresh

\* A line is resolved.
LEMMA ResolveLineKeeps ==
  ASSUME PricingInv, Pricing!ResolveLine
  PROVE  PricingInv'
<1>1. /\ Catalogue /\ Reads /\ ResolvingHolds /\ Reading(job) /\ IsCart(job.cart)
      /\ job.ask \in Asks /\ Pricing!Unread # {}
  BY JobCases DEF PricingInv, Catalogue, Pricing!ResolveLine, Pricing!Others, Reads, ResolvingHolds,
     Reading
<1>2. CASE job' = Pricing!Idle
  BY <1>1, <1>2, IdleHolds, ReadsKeep
<1>3. PICK id : id = Pricing!NextLine
  OBVIOUS
<1>4. PICK line : line = job.lines[id]
  OBVIOUS
<1>5. PICK read : read = Pricing!Resolved(line)
  OBVIOUS
<1>6. PICK request : request = [job EXCEPT !.items = Pricing!Put(@, id, read)]
  OBVIOUS
<1>7. ASSUME job' # Pricing!Idle
      PROVE  JobHolds'
  <2>1. job' = request /\ Pricing!Resolvable(line)
    BY <1>3, <1>4, <1>5, <1>6, <1>7 DEF Pricing!ResolveLine, Pricing!WithLine
  <2>2. job = [pc |-> "resolving", ask |-> job.ask, cart |-> job.cart, items |-> job.items,
               lines |-> job.lines]
    BY <1>1 DEF ResolvingHolds
  <2>3. /\ request.pc = "resolving" /\ request.ask = job.ask
        /\ request.cart = job.cart /\ request.lines = job.lines
        /\ request = [pc |-> "resolving", ask |-> request.ask, cart |-> request.cart,
                      items |-> request.items, lines |-> request.lines]
    BY <1>6, <2>2
  <2>4. /\ id \in DOMAIN job.lines
        /\ DOMAIN request.items = DOMAIN job.items \cup {id} /\ request.items[id] = read
        /\ \A i \in DOMAIN job.items : request.items[i] = job.items[i]
    <3>1. "items" \in DOMAIN job
      BY <2>2
    <3> QED
      BY <1>1, <1>3, <1>6, <3>1, ItemsRead
  <2>5. Reading(request)
    BY <1>1, <2>3, <2>4 DEF Reading
  <2>6. line.quantity \in Nat \ {0}
    BY <1>1, <1>4, <2>4, LineFacts DEF Reading
  <2>7. ReadOf(line, read, rows) /\ Fresh(read, prices, active)
    BY <1>1, <1>5, <2>1, <2>6, ResolvedFacts
  <2>8. \A i \in DOMAIN request.items : ReadOf(request.lines[i], request.items[i], rows)
    BY <1>1, <1>4, <2>3, <2>4, <2>7 DEF ResolvingHolds
  <2>9. ~drifted => \A i \in DOMAIN request.items : Fresh(request.items[i], prices, active)
    BY <1>1, <2>4, <2>7 DEF ResolvingHolds
  <2>10. /\ priced' = priced /\ rows' = rows /\ drifted' = drifted /\ prices' = prices /\ active' = active
    BY DEF Pricing!ResolveLine, Pricing!Others
  <2>11. ResolvingHolds'
    BY <1>1, <2>1, <2>3, <2>5, <2>8, <2>9, <2>10 DEF ResolvingHolds
  <2> QED
    BY <2>1, <2>3, <2>11 DEF JobHolds
<1> QED
  BY <1>1, <1>2, <1>7, ReadsKeep

\* The resolution of lines that were read.
LEMMA ResolutionFacts ==
  ASSUME Catalogue, ResolvingHolds, Pricing!Unread = {}, NEW r, r = Pricing!Resolution(job.cart, job.ask, job.items)
  PROVE  /\ AddsUp(r, job.ask, 0, rows) /\ r # Pricing!Nothing /\ r.items = job.items
         /\ r.discount = Pricing!Discount(Pricing!CouponFor(job.cart.coupon, job.ask.code), Pricing!Subtotal(r.items))
         /\ ~Pricing!BuyNow(job.ask) => Agrees(r, job.cart)
<1>1. /\ Reading(job) /\ job.ask \in Asks /\ IsCart(job.cart)
      /\ job.lines = Pricing!Lines(job.cart, job.ask) /\ DOMAIN job.items = DOMAIN job.lines
  BY DEF ResolvingHolds, Reading, Pricing!Unread
<1>2. \A id \in DOMAIN job.items : ReadOf(job.lines[id], job.items[id], rows)
  BY DEF ResolvingHolds
<1>3. PICK discount : discount = Pricing!Discount(Pricing!CouponFor(job.cart.coupon, job.ask.code), Pricing!Subtotal(job.items))
  OBVIOUS
<1>4. r = [items |-> job.items, coupon |-> Pricing!CouponFor(job.cart.coupon, job.ask.code),
           discount |-> discount, total |-> Pricing!Subtotal(job.items) - discount]
  BY <1>3 DEF Pricing!Resolution
<1>5. IsFiniteSet(DOMAIN job.items)
  BY <1>1, LinesAreFinite
<1>6. \A id \in DOMAIN job.items : job.items[id] \in ResolvedItem /\ HasRow(job.items[id], rows)
  BY <1>2 DEF ReadOf
<1>7. \A id \in DOMAIN job.items : job.items[id].unit \in Nat /\ job.items[id].quantity \in Nat
  BY <1>6 DEF ResolvedItem
<1>8. Pricing!Subtotal(job.items) \in Nat
  BY <1>5, <1>7, SubtotalType
<1>9. discount \in 0..Pricing!Subtotal(job.items)
  <2>1. job.cart.coupon \in Coupons /\ rates \in [Codes -> Rates]
    BY <1>1, CartFacts DEF Catalogue
  <2>2. Pricing!CouponFor(job.cart.coupon, job.ask.code) \in Coupons
    BY <1>1, <2>1, AskFacts, CouponType
  <2> QED
    BY <1>3, <1>8, <2>2, DiscountBound
<1>10. DOMAIN job.items = {Pricing!Buy} \/ (~Pricing!BuyNow(job.ask) /\ DOMAIN job.items \subseteq Prices)
  <2>1. CASE Pricing!BuyNow(job.ask)
    <3>1. DOMAIN job.cart.lines = {}
      BY <2>1 DEF ResolvingHolds, Pricing!NoCart, Pricing!Empty
    <3> QED
      BY <1>1, <2>1, <3>1, LinesRead
  <2>2. CASE ~Pricing!BuyNow(job.ask)
    <3>1. DOMAIN Pricing!Lines(job.cart, job.ask) = DOMAIN job.cart.lines
      BY <1>1, <2>2, LinesRead
    <3> QED
      BY <1>1, <2>2, <3>1, CartFacts
  <2> QED
    BY <2>1, <2>2
<1>11. r.items = job.items /\ r.discount = discount /\ r.total = Pricing!Subtotal(job.items) - discount
       /\ r = [items |-> r.items, coupon |-> r.coupon, discount |-> r.discount, total |-> r.total]
  BY <1>4
<1>12. r # Pricing!Nothing
  <2>1. "items" \in DOMAIN r /\ "items" \notin DOMAIN Pricing!Nothing
    BY <1>4 DEF Pricing!Nothing
  <2> QED
    BY <2>1
<1>13. AddsUp(r, job.ask, 0, rows)
  BY <1>6, <1>8, <1>9, <1>10, <1>11 DEF AddsUp
<1>14. ASSUME ~Pricing!BuyNow(job.ask)
       PROVE  Agrees(r, job.cart)
  <2>1. DOMAIN job.items = DOMAIN job.cart.lines
    BY <1>1, <1>14, LinesRead
  <2>2. ASSUME NEW p \in DOMAIN job.cart.lines
        PROVE  job.items[p].quantity = job.cart.lines[p].quantity /\ job.items[p].price = p
    <3>1. /\ job.lines[p].price = p /\ job.lines[p].quantity = job.cart.lines[p].quantity
      <4>1. p \in DOMAIN Pricing!Lines(job.cart, job.ask)
        BY <1>1, <2>1
      <4> QED
        BY <1>1, <2>2, <4>1, LineFacts
    <3>2. p # Pricing!AnyPrice
      BY <1>1, <2>2, CartFacts, PricingFacts
    <3> QED
      BY <1>2, <2>1, <3>1, <3>2 DEF ReadOf
  <2> QED
    BY <1>11, <2>1, <2>2 DEF Agrees
<1> QED
  BY <1>3, <1>11, <1>12, <1>13, <1>14

\* A start goes on to claim.
LEMMA BeginsToClaim ==
  ASSUME NEW ask \in Asks, NEW version, NEW r, Catalogue, job' = Pricing!Claiming(ask, version, r),
         rows' = rows, priced' = priced, host' = host, drifted' = drifted, previewed' = previewed,
         AddsUp(r, ask, IF host THEN Fee ELSE 0, rows),
         ~Pricing!BuyNow(ask) =>
           /\ version \in Nat /\ version <= priced.version
           /\ version = priced.version => Agrees(r, priced),
         ask.delegated =>
           /\ ask.byId /\ previewed # Pricing!Nothing
           /\ previewed = Pricing!Projection(ask, previewed.quote)
           /\ (host \/ ~drifted) /\ version = priced.version => Shown(r, previewed.quote)
  PROVE  JobHolds'
<1>1. PICK request :
        request = [pc |-> "dispatch", ask |-> ask, version |-> version, resolution |-> r]
  OBVIOUS
<1>2. job' = request
  BY <1>1 DEF Pricing!Claiming
<1>3. /\ request.pc = "dispatch" /\ request.ask = ask /\ request.version = version
      /\ request.resolution = r
      /\ request = [pc |-> request.pc, ask |-> request.ask, version |-> request.version,
                    resolution |-> request.resolution]
  BY <1>1
<1>4. ~Held' /\ (Mine' <=> version = priced.version)
  BY <1>2, <1>3 DEF Held, Mine
<1>5. ask.delegated => Authorized'
  BY <1>2, <1>3, <1>4 DEF Authorized
<1>6. ClaimingHolds'
  BY <1>2, <1>3, <1>4, <1>5 DEF ClaimingHolds
<1> QED
  BY <1>2, <1>3, <1>6 DEF JobHolds

\* The lines are resolved.
LEMMA ResolveKeeps ==
  ASSUME PricingInv, Pricing!Resolve
  PROVE  PricingInv'
<1>1. /\ Catalogue /\ Reads /\ ResolvingHolds /\ Reading(job) /\ IsCart(job.cart) /\ IsCart(priced)
      /\ job.ask \in Asks /\ Pricing!Unread = {}
  BY JobCases DEF PricingInv, Catalogue, Pricing!Resolve, Pricing!Others, Reads, ResolvingHolds,
     Reading
<1>2. /\ host' = host /\ priced' = priced /\ rows' = rows /\ drifted' = drifted /\ prices' = prices
      /\ active' = active /\ rates' = rates /\ previewed' = previewed /\ host \in BOOLEAN
  BY <1>1 DEF Pricing!Resolve, Pricing!Others, Catalogue
<1>3. PICK r : r = Pricing!Resolution(job.cart, job.ask, job.items)
  OBVIOUS
<1>4. /\ AddsUp(r, job.ask, 0, rows) /\ r # Pricing!Nothing /\ r.items = job.items
      /\ r.discount = Pricing!Discount(Pricing!CouponFor(job.cart.coupon, job.ask.code), Pricing!Subtotal(r.items))
      /\ ~Pricing!BuyNow(job.ask) => Agrees(r, job.cart)
  BY <1>1, <1>3, ResolutionFacts
<1>5. \/ job' = Pricing!Idle
      \/ host /\ job' = Pricing!Quoting(r, job.ask, "compare")
      \/ ~host /\ job.ask.delegated /\ job' = Pricing!Quoting(r, job.ask, "prove")
      \/ ~host /\ ~job.ask.delegated /\ job' = Pricing!Claiming(job.ask, job.cart.version, r)
  BY <1>3 DEF Pricing!Resolve
<1>6. ~Pricing!BuyNow(job.ask) =>
        /\ job.cart.version \in Nat /\ job.cart.version <= priced.version
        /\ job.cart.version = priced.version =>
             job.cart.lines = priced.lines /\ job.cart.coupon = priced.coupon /\ Agrees(r, priced)
  BY <1>1, <1>4 DEF ResolvingHolds, Follows, Agrees, IsCart
<1>7. ~drifted => \A id \in DOMAIN r.items : Fresh(r.items[id], prices, active)
  BY <1>1, <1>4 DEF ResolvingHolds
<1>8. job.ask.byId => ~Pricing!BuyNow(job.ask)
  BY DEF Pricing!BuyNow
<1>9. CASE job' = Pricing!Idle
  BY <1>1, <1>9, IdleHolds, ReadsKeep
<1>10. CASE host /\ job' = Pricing!Quoting(r, job.ask, "compare")
  <2>1. JobHolds'
    BY <1>1, <1>2, <1>4, <1>6, <1>10, BeginsToQuote
  <2> QED
    BY <1>1, <2>1, ReadsKeep
<1>11. CASE ~host /\ job.ask.delegated /\ job' = Pricing!Quoting(r, job.ask, "prove")
  <2>1. JobHolds'
    BY <1>1, <1>2, <1>4, <1>6, <1>7, <1>8, <1>11, BeginsToQuote
  <2> QED
    BY <1>1, <2>1, ReadsKeep
<1>12. CASE ~host /\ ~job.ask.delegated /\ job' = Pricing!Claiming(job.ask, job.cart.version, r)
  <2>1. JobHolds'
    BY <1>1, <1>2, <1>4, <1>6, <1>12, BeginsToClaim
  <2> QED
    BY <1>1, <2>1, ReadsKeep
<1> QED
  BY <1>5, <1>9, <1>10, <1>11, <1>12

\* A quote's items, its discount and its total, before and after the host's resolver.
LEMMA QuoteFacts ==
  ASSUME NEW c, NEW ask, NEW items, NEW quote, quote = Pricing!Quote(c, ask, items)
  PROVE  /\ quote.items = items
         /\ quote.discount = Pricing!Discount(Pricing!CouponFor(c.coupon, ask.code), Pricing!Subtotal(items))
         /\ quote.total = Pricing!Subtotal(items) - quote.discount
         /\ Pricing!Resolver(quote).items = items /\ Pricing!Resolver(quote).total = quote.total + Fee
         /\ Pricing!Resolver(quote).status = quote.status
<1>1. PICK status, coupon, discount :
        /\ quote = [status |-> status, items |-> items, coupon |-> coupon, discount |-> discount,
                    total |-> Pricing!Subtotal(items) - discount]
        /\ discount = Pricing!Discount(Pricing!CouponFor(c.coupon, ask.code), Pricing!Subtotal(items))
  BY Zenon DEF Pricing!Quote
<1>2. quote.items = items /\ quote.discount = discount
      /\ quote.total = Pricing!Subtotal(items) - discount /\ quote.status = status
      /\ {"total", "items", "status"} \subseteq DOMAIN quote
  BY <1>1
<1>3. Pricing!Resolver(quote).items = items /\ Pricing!Resolver(quote).total = quote.total + Fee
      /\ Pricing!Resolver(quote).status = quote.status
  BY <1>2 DEF Pricing!Resolver
<1> QED
  BY <1>1, <1>2, <1>3

\* What a proof says of the preview that was answered.
LEMMA ProofFacts ==
  ASSUME NEW quote, Pricing!Proves(quote)
  PROVE  /\ job.ask.byId /\ previewed # Pricing!Nothing /\ previewed.quote = quote
         /\ previewed = Pricing!Projection(job.ask, previewed.quote)
<1>1. job.ask.byId /\ previewed = Pricing!Projection(job.ask, quote)
  BY DEF Pricing!Proves
<1>2. previewed.quote = quote /\ "quote" \in DOMAIN previewed
  BY <1>1 DEF Pricing!Projection
<1>3. "quote" \notin DOMAIN Pricing!Nothing
  BY DEF Pricing!Nothing
<1> QED
  BY <1>1, <1>2, <1>3

\* The host has its say.
LEMMA CompareKeeps ==
  ASSUME PricingInv, Pricing!Compare
  PROVE  PricingInv'
<1>1. /\ Catalogue /\ Reads /\ QuotingHolds /\ Reading(job) /\ IsCart(job.cart) /\ IsCart(priced)
      /\ job.ask \in Asks /\ job.after = "compare"
  BY JobCases DEF PricingInv, Catalogue, Pricing!Compare, Pricing!Quotes, Pricing!Others, Reads,
     QuotingHolds, Reading
<1>2. /\ host' = host /\ priced' = priced /\ rows' = rows /\ drifted' = drifted
      /\ previewed' = previewed /\ host
  BY <1>1 DEF Pricing!Compare, Pricing!Others, QuotingHolds
<1>3. PICK plain : plain = Pricing!QuoteNow
  OBVIOUS
<1>4. PICK quote : quote = Pricing!Resolver(plain)
  OBVIOUS
<1>5. quote.items = job.items /\ plain.items = job.items /\ quote.total = plain.total + Fee
  <2>1. plain = Pricing!Quote(job.cart, job.ask, job.items)
    BY <1>3 DEF Pricing!QuoteNow
  <2> QED
    BY <1>4, <2>1, QuoteFacts
<1>6. PICK r : r = [job.resolution EXCEPT !.total = quote.total]
  OBVIOUS
<1>7. CASE job' = Pricing!Idle
  BY <1>1, <1>7, IdleHolds, ReadsKeep
<1>8. ASSUME job' # Pricing!Idle
      PROVE  JobHolds'
  <2>1. /\ Pricing!Matches(job.resolution, plain) /\ (job.ask.delegated => Pricing!Proves(quote))
        /\ job' = Pricing!Claiming(job.ask, job.version, r)
    BY <1>3, <1>4, <1>6, <1>8 DEF Pricing!Compare
  <2>2. /\ AddsUp(job.resolution, job.ask, 0, rows)
        /\ ~Pricing!BuyNow(job.ask) =>
             /\ job.version \in Nat /\ job.version <= job.cart.version
             /\ job.version = job.cart.version => Agrees(job.resolution, job.cart)
        /\ Follows(job.cart, priced)
    BY <1>1 DEF QuotingHolds
  <2>3. /\ job.resolution =
             [items |-> job.resolution.items, coupon |-> job.resolution.coupon,
              discount |-> job.resolution.discount, total |-> job.resolution.total]
        /\ job.resolution.total = Pricing!Subtotal(job.resolution.items) - job.resolution.discount
        /\ job.resolution.discount \in Int /\ Pricing!Subtotal(job.resolution.items) \in Nat
    BY <2>2, ItemsFacts DEF AddsUp
  <2>4. /\ r = [items |-> r.items, coupon |-> r.coupon, discount |-> r.discount, total |-> r.total]
        /\ r.items = job.resolution.items /\ r.discount = job.resolution.discount
        /\ r.total = quote.total
    BY <1>6, <2>3
  <2>5. job.resolution.total = plain.total
    BY <2>1 DEF Pricing!Matches
  <2>6. AddsUp(r, job.ask, Fee, rows)
    BY <1>5, <2>2, <2>3, <2>4, <2>5, PricingFacts DEF AddsUp
  <2>7. ~Pricing!BuyNow(job.ask) =>
           /\ job.version \in Nat /\ job.version <= priced.version
           /\ job.version = priced.version => Agrees(r, priced)
    <3>1. job.cart.version \in Nat /\ priced.version \in Nat
      BY <1>1, CartFacts
    <3> QED
      BY <2>2, <2>4, <3>1 DEF Follows, Agrees
  <2>8. job.ask.delegated => Shown(r, quote)
    BY <1>5, <2>1, <2>4 DEF Shown, Pricing!Matches
  <2>9. job.ask.delegated =>
          /\ job.ask.byId /\ previewed # Pricing!Nothing
          /\ previewed = Pricing!Projection(job.ask, previewed.quote)
          /\ Shown(r, previewed.quote)
    BY <2>1, <2>8, ProofFacts
  <2> QED
    BY <1>1, <1>2, <2>1, <2>6, <2>7, <2>9, BeginsToClaim
<1> QED
  BY <1>1, <1>7, <1>8, ReadsKeep

\* A delegated payment proves itself.
LEMMA ProveKeeps ==
  ASSUME PricingInv, Pricing!Prove
  PROVE  PricingInv'
<1>1. /\ Catalogue /\ Reads /\ QuotingHolds /\ Reading(job) /\ IsCart(job.cart) /\ IsCart(priced)
      /\ job.ask \in Asks /\ job.after = "prove" /\ Pricing!Unread = {}
  BY JobCases DEF PricingInv, Catalogue, Pricing!Prove, Pricing!Quotes, Pricing!Others, Reads,
     QuotingHolds, Reading
<1>2. /\ host' = host /\ priced' = priced /\ rows' = rows /\ drifted' = drifted
      /\ previewed' = previewed /\ ~host
  BY <1>1 DEF Pricing!Prove, Pricing!Others, QuotingHolds
<1>3. PICK quote : quote = Pricing!QuoteNow
  OBVIOUS
<1>4. /\ quote.items = job.items /\ quote.total = Pricing!Subtotal(job.items) - quote.discount
      /\ quote.discount = Pricing!Discount(Pricing!CouponFor(job.cart.coupon, job.ask.code), Pricing!Subtotal(job.items))
  <2>1. quote = Pricing!Quote(job.cart, job.ask, job.items)
    BY <1>3 DEF Pricing!QuoteNow
  <2> QED
    BY <2>1, QuoteFacts
<1>5. CASE job' = Pricing!Idle
  BY <1>1, <1>5, IdleHolds, ReadsKeep
<1>6. ASSUME job' # Pricing!Idle
      PROVE  JobHolds'
  <2>1. Pricing!Proves(quote) /\ job' = Pricing!Claiming(job.ask, job.version, job.resolution)
    BY <1>3, <1>6 DEF Pricing!Prove
  <2>2. /\ job.ask.byId /\ previewed # Pricing!Nothing /\ previewed.quote = quote
        /\ previewed = Pricing!Projection(job.ask, previewed.quote)
    BY <2>1, ProofFacts
  <2>3. ~Pricing!BuyNow(job.ask)
    BY <2>2 DEF Pricing!BuyNow
  <2>4. /\ AddsUp(job.resolution, job.ask, 0, rows)
        /\ job.version \in Nat /\ job.version <= job.cart.version
        /\ job.version = job.cart.version => Agrees(job.resolution, job.cart)
        /\ Follows(job.cart, priced)
        /\ ~drifted /\ job.version = job.cart.version => Proving
    BY <1>1, <2>2, <2>3 DEF QuotingHolds
  <2>5. /\ job.cart.version \in Nat /\ priced.version \in Nat
    BY <1>1, CartFacts
  <2>6. job.version <= priced.version /\ (job.version = priced.version => Agrees(job.resolution, priced))
    BY <2>4, <2>5 DEF Follows, Agrees
  <2>7. ASSUME ~drifted, job.version = priced.version
        PROVE  Shown(job.resolution, quote)
    <3>1. job.version = job.cart.version
      BY <2>4, <2>5, <2>7 DEF Follows
    <3>2. Proving /\ Agrees(job.resolution, job.cart)
      BY <2>4, <2>7, <3>1
    <3>3. DOMAIN job.items = DOMAIN job.cart.lines
      <4>1. DOMAIN job.items = DOMAIN job.lines /\ job.lines = Pricing!Lines(job.cart, job.ask)
        BY <1>1 DEF Pricing!Unread, Reading
      <4> QED
        BY <1>1, <2>3, <4>1, LinesRead
    <3>4. /\ DOMAIN job.resolution.items = DOMAIN job.items
          /\ \A id \in DOMAIN job.items : Pricing!SameLine(job.resolution.items[id], job.items[id])
      BY <3>2, <3>3 DEF Agrees, Proving
    <3>5. Pricing!Subtotal(job.resolution.items) = Pricing!Subtotal(job.items)
      BY <3>4, SubtotalSame
    <3>6. job.resolution.total = Pricing!Subtotal(job.resolution.items) - job.resolution.discount
      <4>1. Pricing!Subtotal(job.resolution.items) \in Nat
        BY <2>4, ItemsFacts
      <4> QED
        BY <2>4, <4>1 DEF AddsUp
    <3>7. job.resolution.total = quote.total
      BY <1>4, <3>2, <3>5, <3>6 DEF Proving
    <3> QED
      BY <1>4, <3>4, <3>7 DEF Shown
  <2> QED
    BY <1>1, <1>2, <2>1, <2>2, <2>4, <2>6, <2>7, BeginsToClaim
<1> QED
  BY <1>1, <1>5, <1>6, ReadsKeep

----------------------------------------------------------------------------
(* Claim, reserve and charge *)

\* What is true of a start that claims, and what no step of it changes.
LEMMA AtClaim ==
  ASSUME PricingInv, job.pc \in {"dispatch", "claim", "reserve", "charge"}
  PROVE  /\ Catalogue /\ ClaimingHolds /\ IsCart(priced) /\ job.ask \in Asks
         /\ job = [pc |-> job.pc, ask |-> job.ask, version |-> job.version,
                   resolution |-> job.resolution]
         /\ AddsUp(job.resolution, job.ask, IF host THEN Fee ELSE 0, rows)
         /\ job.ask.delegated => ~Pricing!BuyNow(job.ask)
BY JobCases DEF PricingInv, Catalogue, ClaimingHolds, Authorized, Pricing!BuyNow

\* A start that goes on, whatever it did to the cart and the stock, holds still.
LEMMA GoesOn ==
  ASSUME ClaimingHolds, NEW step \in {"claim", "reserve", "charge"}, job' = [job EXCEPT !.pc = step],
         step = "claim" => ~Pricing!BuyNow(job.ask),
         host' = host, previewed' = previewed, drifted' = drifted,
         \A s \in Sellables : rows[s] # NoRow => rows'[s] # NoRow,
         ~Pricing!BuyNow(job.ask) =>
           /\ job.version <= priced'.version /\ (Mine' => Mine) /\ priced'.lines = priced.lines
           /\ step # "claim" => Mine'
  PROVE  JobHolds'
<1>1. job = [pc |-> job.pc, ask |-> job.ask, version |-> job.version, resolution |-> job.resolution]
  BY DEF ClaimingHolds
<1>2. PICK request : request = [job EXCEPT !.pc = step]
  OBVIOUS
<1>3. /\ request.pc = step /\ request.ask = job.ask /\ request.version = job.version
      /\ request.resolution = job.resolution
      /\ request = [pc |-> request.pc, ask |-> request.ask, version |-> request.version,
                    resolution |-> request.resolution]
  BY <1>1, <1>2
<1>4. job' = request
  BY <1>2
<1>5. AddsUp(job.resolution, job.ask, IF host THEN Fee ELSE 0, rows')
  BY AddsUpStays DEF ClaimingHolds
<1>6. Held' => step # "claim"
  BY <1>3, <1>4 DEF Held
<1>7. job.ask.delegated => Authorized'
  <2>1. ASSUME job.ask.delegated
        PROVE  Authorized /\ ~Pricing!BuyNow(job.ask)
    BY <2>1 DEF ClaimingHolds, Authorized, Pricing!BuyNow
  <2> QED
    BY <1>3, <1>4, <2>1 DEF Authorized
<1>8. ~Pricing!BuyNow(job.ask) => job.version \in Nat /\ (Mine' => Agrees(job.resolution, priced'))
  BY DEF ClaimingHolds, Agrees
<1>9. ClaimingHolds'
  BY <1>3, <1>4, <1>5, <1>6, <1>7, <1>8 DEF ClaimingHolds
<1> QED
  BY <1>3, <1>4, <1>9 DEF JobHolds

\* The method is looked up.
LEMMA DispatchKeeps ==
  ASSUME PricingInv, Pricing!Dispatch
  PROVE  PricingInv'
<1>1. Reads /\ job.pc = "dispatch"
  BY DEF PricingInv, Catalogue, Pricing!Dispatch, Pricing!Others, Reads
<1>2. CASE job' = Pricing!Idle
  BY <1>1, <1>2, IdleHolds, ReadsKeep
<1>3. ASSUME job' # Pricing!Idle
      PROVE  JobHolds'
  <2>1. PICK step : step = IF Pricing!BuyNow(job.ask) THEN "reserve" ELSE "claim"
    OBVIOUS
  <2>2. job' = [job EXCEPT !.pc = step]
    BY <1>3, <2>1 DEF Pricing!Dispatch
  <2>3. ClaimingHolds /\ IsCart(priced) /\ "pc" \in DOMAIN job
    BY <1>1, AtClaim
  <2>4. priced' = priced /\ rows' = rows /\ host' = host /\ previewed' = previewed /\ drifted' = drifted
    BY DEF Pricing!Dispatch, Pricing!Others
  <2>5. ~Pricing!BuyNow(job.ask) => job.version <= priced.version
    BY <2>3 DEF ClaimingHolds
  <2>6. ~Pricing!BuyNow(job.ask) => (Mine' => Mine)
    BY <1>1, <2>1, <2>2, <2>3, <2>4 DEF Mine, Held
  <2>7. job'.pc = step
    BY <2>2, <2>3
  <2>8. step \in {"claim", "reserve", "charge"} /\ (step = "claim" => ~Pricing!BuyNow(job.ask))
        /\ (~Pricing!BuyNow(job.ask) => step = "claim")
    BY <2>1
  <2> QED
    BY <2>2, <2>3, <2>4, <2>5, <2>6, <2>8, GoesOn
<1> QED
  BY <1>1, <1>2, <1>3, ReadsKeep

\* A cart of another status and the next version.
LEMMA CartMoves ==
  ASSUME NEW c, IsCart(c), NEW status \in {"none", "open", "checkout_pending"}, NEW d,
         d = [c EXCEPT !.status = status, !.version = @ + 1]
  PROVE  IsCart(d)
<1>1. d = [status |-> status, expired |-> c.expired, version |-> c.version + 1,
           lines |-> c.lines, coupon |-> c.coupon]
  BY DEF IsCart
<1>2. /\ d.status = status /\ d.expired = c.expired /\ d.version = c.version + 1
      /\ d.lines = c.lines /\ d.coupon = c.coupon
      /\ d = [status |-> d.status, expired |-> d.expired, version |-> d.version,
              lines |-> d.lines, coupon |-> d.coupon]
  BY <1>1
<1>3. d.lines \in [DOMAIN d.lines -> CartRow]
  BY <1>2 DEF IsCart
<1> QED
  BY <1>2, <1>3 DEF IsCart

\* The cart is claimed.
LEMMA ClaimKeeps ==
  ASSUME PricingInv, Pricing!Claim
  PROVE  PricingInv'
<1>1. job.pc = "claim" /\ Catalogue /\ ClaimingHolds /\ IsCart(priced) /\ ~Pricing!BuyNow(job.ask)
      /\ "pc" \in DOMAIN job /\ job.version \in Nat
  BY AtClaim DEF Pricing!Claim, ClaimingHolds
<1>2. /\ rows' = rows /\ host' = host /\ previewed' = previewed /\ drifted' = drifted
      /\ charged' = charged /\ prices' = prices /\ active' = active /\ rates' = rates
  BY DEF Pricing!Claim, Pricing!Others
<1>3. Pricing!ChargedAsAgreed'
  BY <1>2, ChargedStays DEF PricingInv
<1>4. CASE Pricing!Claimable
  <2>1. /\ priced' = [priced EXCEPT !.status = "checkout_pending", !.version = @ + 1]
        /\ job' = [job EXCEPT !.pc = "reserve"]
    BY <1>4 DEF Pricing!Claim
  <2>2. priced.version = job.version
    BY <1>4 DEF Pricing!Claimable
  <2>3. /\ priced'.status = "checkout_pending" /\ priced'.version = priced.version + 1
        /\ priced'.lines = priced.lines /\ IsCart(priced')
    <3>1. PICK d : d = [priced EXCEPT !.status = "checkout_pending", !.version = @ + 1]
      OBVIOUS
    <3>2. IsCart(d)
      BY <1>1, <3>1, CartMoves
    <3>3. d.status = "checkout_pending" /\ d.version = priced.version + 1 /\ d.lines = priced.lines
      BY <1>1, <3>1 DEF IsCart
    <3> QED
      BY <2>1, <3>1, <3>2, <3>3
  <2>4. job'.pc = "reserve"
    BY <1>1, <2>1
  <2>5. Mine /\ Mine'
    BY <1>1, <2>2, <2>3, <2>4 DEF Mine, Held
  <2>6. JobHolds'
    BY <1>1, <1>2, <2>1, <2>2, <2>3, <2>5, GoesOn
  <2>7. Catalogue'
    BY <1>1, <1>2, <2>3 DEF Catalogue
  <2> QED
    BY <1>3, <2>6, <2>7 DEF PricingInv
<1>5. CASE ~Pricing!Claimable
  <2>1. job' = Pricing!Idle /\ priced' = priced
    BY <1>5 DEF Pricing!Claim
  <2>2. Catalogue'
    BY <1>1, <1>2, <2>1 DEF Catalogue
  <2> QED
    BY <1>3, <2>1, <2>2, IdleHolds DEF PricingInv
<1> QED
  BY <1>4, <1>5

\* A cart that is given back.
LEMMA ReleasedFacts ==
  ASSUME IsCart(priced)
  PROVE  IsCart(Pricing!Released)
BY CartMoves DEF Pricing!Released

\* Stock rows of which units are taken, or given back.
LEMMA RowsFacts ==
  ASSUME Catalogue, NEW stock, NEW taken, \A s \in Sellables : taken[s] \in Int,
         stock = [s \in Sellables |-> IF taken[s] = 0 THEN rows[s]
                                      ELSE [rows[s] EXCEPT !.free = @ + taken[s]]],
         \A s \in Sellables : taken[s] # 0 => rows[s] # NoRow
  PROVE  /\ stock \in [Sellables -> Pricing!StockRow \cup {NoRow}]
         /\ \A s \in Sellables : rows[s] # NoRow => stock[s] # NoRow
<1>1. ASSUME NEW s \in Sellables
      PROVE  stock[s] \in Pricing!StockRow \cup {NoRow} /\ (rows[s] # NoRow => stock[s] # NoRow)
  <2>1. rows[s] \in Pricing!StockRow \cup {NoRow} /\ NoRow \notin Pricing!StockRow
    BY PricingFacts DEF Catalogue
  <2>2. CASE taken[s] = 0
    BY <2>1, <2>2
  <2>3. CASE taken[s] # 0
    <3>1. rows[s] \in Pricing!StockRow /\ stock[s] = [rows[s] EXCEPT !.free = @ + taken[s]]
      BY <2>1, <2>3
    <3>2. stock[s] \in Pricing!StockRow
      BY <3>1 DEF Pricing!StockRow
    <3> QED
      BY <2>1, <3>2
  <2> QED
    BY <2>2, <2>3
<1> QED
  BY <1>1

\* The units are reserved.
LEMMA ReserveKeeps ==
  ASSUME PricingInv, Pricing!Reserve
  PROVE  PricingInv'
<1>1. job.pc = "reserve" /\ Catalogue /\ ClaimingHolds /\ IsCart(priced) /\ "pc" \in DOMAIN job
  BY AtClaim DEF Pricing!Reserve
<1>2. /\ host' = host /\ previewed' = previewed /\ drifted' = drifted
      /\ charged' = charged /\ prices' = prices /\ active' = active /\ rates' = rates
  BY DEF Pricing!Reserve, Pricing!Others
<1>3. Pricing!ChargedAsAgreed'
  BY <1>2, ChargedStays DEF PricingInv
<1>4. \A s \in Sellables :
        /\ Pricing!Takes(job.resolution.items, s) \in Nat
        /\ Pricing!Takes(job.resolution.items, s) # 0 => rows[s] # NoRow
  BY <1>1, TakesFacts DEF ClaimingHolds
<1>5. CASE Pricing!Reservable(job.resolution.items)
  <2>1. /\ priced' = priced /\ job' = [job EXCEPT !.pc = "charge"]
        /\ rows' = [s \in Sellables |-> IF Pricing!Takes(job.resolution.items, s) = 0 THEN rows[s]
                     ELSE [rows[s] EXCEPT !.free = @ - Pricing!Takes(job.resolution.items, s)]]
    BY <1>5 DEF Pricing!Reserve
  <2>2. PICK taken : taken = [s \in Sellables |-> 0 - Pricing!Takes(job.resolution.items, s)]
    OBVIOUS
  <2>3. \A s \in Sellables :
          /\ taken[s] \in Int /\ (taken[s] = 0 <=> Pricing!Takes(job.resolution.items, s) = 0)
          /\ \A m \in Int : m + taken[s] = m - Pricing!Takes(job.resolution.items, s)
    BY <1>4, <2>2
  <2>11. \A s \in Sellables : taken[s] # 0 => rows[s] # NoRow
    BY <1>4, <2>3
  <2>4. ASSUME NEW s \in Sellables
        PROVE  rows'[s] = IF taken[s] = 0 THEN rows[s] ELSE [rows[s] EXCEPT !.free = @ + taken[s]]
    <3>1. CASE taken[s] = 0
      BY <2>1, <2>3, <3>1
    <3>2. CASE taken[s] # 0
      <4>1. rows[s] \in Pricing!StockRow
        BY <1>1, <1>4, <2>3, <3>2 DEF Catalogue
      <4>2. rows[s].free + taken[s] = rows[s].free - Pricing!Takes(job.resolution.items, s)
        BY <2>3, <4>1 DEF Pricing!StockRow
      <4> QED
        BY <2>1, <2>3, <3>2, <4>2
    <3> QED
      BY <3>1, <3>2
  <2>5. rows' = [s \in Sellables |-> IF taken[s] = 0 THEN rows[s]
                                      ELSE [rows[s] EXCEPT !.free = @ + taken[s]]]
    BY <2>1, <2>4
  <2>6. /\ rows' \in [Sellables -> Pricing!StockRow \cup {NoRow}]
        /\ \A s \in Sellables : rows[s] # NoRow => rows'[s] # NoRow
    BY <1>1, <2>3, <2>5, <2>11, RowsFacts
  <2>7. job'.pc = "charge"
    BY <1>1, <2>1
  <2>8. ~Pricing!BuyNow(job.ask) => job.version <= priced.version /\ Mine /\ Mine'
    BY <1>1, <2>1, <2>7 DEF ClaimingHolds, Mine, Held
  <2>9. JobHolds'
    BY <1>1, <1>2, <2>1, <2>6, <2>8, GoesOn
  <2>10. Catalogue'
    BY <1>1, <1>2, <2>1, <2>6 DEF Catalogue
  <2> QED
    BY <1>3, <2>9, <2>10 DEF PricingInv
<1>6. CASE ~Pricing!Reservable(job.resolution.items)
  <2>1. job' = Pricing!Idle /\ priced' = Pricing!Released /\ rows' = rows
    BY <1>6 DEF Pricing!Reserve
  <2>2. IsCart(priced')
    BY <1>1, <2>1, ReleasedFacts
  <2>3. Catalogue'
    BY <1>1, <1>2, <2>1, <2>2 DEF Catalogue
  <2> QED
    BY <1>3, <2>1, <2>3, IdleHolds DEF PricingInv
<1> QED
  BY <1>5, <1>6

\* The provider fails.
LEMMA ProviderFailsKeeps ==
  ASSUME PricingInv, Pricing!ProviderFails
  PROVE  PricingInv'
<1>1. job.pc = "charge" /\ Catalogue /\ ClaimingHolds /\ IsCart(priced)
  BY AtClaim DEF Pricing!ProviderFails
<1>2. /\ host' = host /\ previewed' = previewed /\ drifted' = drifted
      /\ charged' = charged /\ prices' = prices /\ active' = active /\ rates' = rates
      /\ job' = Pricing!Idle /\ priced' = Pricing!Released
      /\ rows' = [s \in Sellables |-> IF Pricing!Takes(job.resolution.items, s) = 0 THEN rows[s]
                   ELSE [rows[s] EXCEPT !.free = @ + Pricing!Takes(job.resolution.items, s)]]
  BY DEF Pricing!ProviderFails, Pricing!Others
<1>3. \A s \in Sellables :
        /\ Pricing!Takes(job.resolution.items, s) \in Nat
        /\ Pricing!Takes(job.resolution.items, s) # 0 => rows[s] # NoRow
  BY <1>1, TakesFacts DEF ClaimingHolds
<1>4. PICK taken : taken = [s \in Sellables |-> Pricing!Takes(job.resolution.items, s)]
  OBVIOUS
<1>5. \A s \in Sellables : taken[s] = Pricing!Takes(job.resolution.items, s)
  BY <1>4
<1>6. rows' = [s \in Sellables |-> IF taken[s] = 0 THEN rows[s]
                                    ELSE [rows[s] EXCEPT !.free = @ + taken[s]]]
  BY <1>2, <1>5
<1>7. rows' \in [Sellables -> Pricing!StockRow \cup {NoRow}]
  BY <1>1, <1>3, <1>5, <1>6, RowsFacts
<1>8. IsCart(priced')
  BY <1>1, <1>2, ReleasedFacts
<1>9. Catalogue'
  BY <1>1, <1>2, <1>7, <1>8 DEF Catalogue
<1>10. Pricing!ChargedAsAgreed'
  BY <1>2, ChargedStays DEF PricingInv
<1> QED
  BY <1>2, <1>9, <1>10, IdleHolds DEF PricingInv

\* What the provider is given is what was agreed to.
LEMMA GivenKeeps ==
  ASSUME PricingInv, NEW provided, Pricing!Given(provided), provided = job.resolution.total
  PROVE  PricingInv'
<1>1. /\ job.pc = "charge" /\ Catalogue /\ ClaimingHolds
      /\ AddsUp(job.resolution, job.ask, IF host THEN Fee ELSE 0, rows)
  BY AtClaim DEF Pricing!Given
<1>2. /\ host' = host /\ previewed' = previewed /\ drifted' = drifted /\ priced' = priced /\ rows' = rows
      /\ prices' = prices /\ active' = active /\ rates' = rates /\ job' = Pricing!Idle
  BY DEF Pricing!Given, Pricing!Others
<1>3. Catalogue'
  BY <1>1, <1>2 DEF Catalogue
<1>4. PICK told : told = [ask |-> job.ask, lines |-> job.resolution.items,
                        discount |-> job.resolution.discount, total |-> provided,
                        shown |-> previewed, drifted |-> drifted,
                        bought |-> IF Pricing!BuyNow(job.ask) THEN Pricing!Empty ELSE priced.lines]
  OBVIOUS
<1>5. charged' = told
  BY <1>4 DEF Pricing!Given
<1>6. /\ told.ask = job.ask /\ told.lines = job.resolution.items
      /\ told.discount = job.resolution.discount /\ told.total = job.resolution.total
      /\ told.shown = previewed /\ told.drifted = drifted
      /\ ~Pricing!BuyNow(job.ask) => told.bought = priced.lines
  BY <1>4
<1>7. /\ job.resolution.total
           = Pricing!Subtotal(job.resolution.items) - job.resolution.discount + (IF host THEN Fee ELSE 0)
      /\ job.resolution.discount \in 0..Pricing!Subtotal(job.resolution.items)
      /\ Pricing!Subtotal(job.resolution.items) \in Nat
  BY <1>1, ItemsFacts DEF AddsUp
<1>8. job.resolution.total >= 0
  BY <1>7, PricingFacts
<1>9. ~Pricing!BuyNow(job.ask) => Mine /\ Agrees(job.resolution, priced)
  BY <1>1 DEF ClaimingHolds, Held
<1>10. Pricing!ChargedIsClaimed'
  BY <1>2, <1>5, <1>6, <1>7, <1>8, <1>9 DEF Pricing!ChargedIsClaimed, Agrees
<1>11. ASSUME job.ask.delegated
       PROVE  /\ previewed # Pricing!Nothing /\ previewed = Pricing!Projection(job.ask, previewed.quote)
              /\ host \/ ~drifted => Shown(job.resolution, previewed.quote)
  <2>1. Authorized /\ ~Pricing!BuyNow(job.ask)
    BY <1>1, <1>11 DEF ClaimingHolds, Authorized, Pricing!BuyNow
  <2> QED
    BY <1>9, <2>1 DEF Authorized
<1>12. Pricing!AuthorizedIsCharged'
  BY <1>2, <1>5, <1>6, <1>11 DEF Pricing!AuthorizedIsCharged, Shown
<1>13. Pricing!ChargedAsAgreed'
  BY <1>10, <1>12 DEF Pricing!ChargedAsAgreed
<1> QED
  BY <1>2, <1>3, <1>13, IdleHolds DEF PricingInv

\* Stripe's page shows what was agreed to, or it is not shown.
LEMMA HostedKeeps ==
  ASSUME PricingInv, Pricing!Hosted
  PROVE  PricingInv'
BY GivenKeeps DEF Pricing!Hosted, Pricing!Representable

\* A payment on a token is of the total.
LEMMA DelegatedKeeps ==
  ASSUME PricingInv, Pricing!Delegated
  PROVE  PricingInv'
BY GivenKeeps DEF Pricing!Delegated

----------------------------------------------------------------------------
(* The edits *)

\* An edit keeps the invariant.
LEMMA EditedInv ==
  ASSUME PricingInv, Edited, Catalogue'
  PROVE  PricingInv'
<1>1. IsCart(priced) /\ JobHolds /\ Pricing!ChargedAsAgreed
  BY DEF PricingInv, Catalogue
<1>2. JobHolds'
  BY <1>1, EditedKeeps
<1>3. Pricing!ChargedAsAgreed'
  BY <1>1, ChargedStays DEF Edited
<1> QED
  BY <1>2, <1>3 DEF PricingInv

\* The merchant sets another amount ...
LEMMA RepriceKeeps ==
  ASSUME PricingInv, NEW p \in Prices, NEW amount \in Amounts, Pricing!Reprice(p, amount)
  PROVE  PricingInv'
<1>1. Catalogue /\ amount \in Nat
  BY PricingFacts DEF PricingInv
<1>2. prices' \in [Prices -> PriceRow]
  <2>1. prices[p] \in PriceRow /\ prices \in [Prices -> PriceRow]
    BY <1>1 DEF Catalogue
  <2>2. [prices[p] EXCEPT !.amount = amount] \in PriceRow
    BY <1>1, <2>1 DEF PriceRow
  <2>3. prices' = [prices EXCEPT ![p] = [prices[p] EXCEPT !.amount = amount]]
    BY DEF Pricing!Reprice
  <2> QED
    BY <2>1, <2>2, <2>3
<1>3. Catalogue'
  BY <1>1, <1>2 DEF Catalogue, Pricing!Reprice, Pricing!Elsewhere, Pricing!Drifts
<1>4. Edited
  BY <1>1 DEF Edited, Pricing!Reprice, Pricing!Elsewhere, Pricing!Drifts, Catalogue
<1> QED
  BY <1>3, <1>4, EditedInv

\* ... another rate of a coupon ...
LEMMA SetRateKeeps ==
  ASSUME PricingInv, NEW code \in Codes, NEW rate \in Rates, Pricing!SetRate(code, rate)
  PROVE  PricingInv'
<1>1. Catalogue
  BY DEF PricingInv
<1>2. Catalogue'
  BY <1>1 DEF Catalogue, Pricing!SetRate, Pricing!Elsewhere, Pricing!Drifts
<1>3. Edited
  BY <1>1 DEF Edited, Pricing!SetRate, Pricing!Elsewhere, Pricing!Drifts, Catalogue
<1> QED
  BY <1>2, <1>3, EditedInv

\* ... switches a price on or off ...
LEMMA TogglePriceKeeps ==
  ASSUME PricingInv, NEW p \in Prices, Pricing!TogglePrice(p)
  PROVE  PricingInv'
<1>1. Catalogue
  BY DEF PricingInv
<1>2. prices' \in [Prices -> PriceRow]
  <2>1. prices[p] \in PriceRow /\ prices \in [Prices -> PriceRow]
    BY <1>1 DEF Catalogue
  <2>2. [prices[p] EXCEPT !.on = ~prices[p].on] \in PriceRow
    BY <2>1 DEF PriceRow
  <2>3. prices' = [prices EXCEPT ![p] = [prices[p] EXCEPT !.on = ~prices[p].on]]
    BY DEF Pricing!TogglePrice
  <2> QED
    BY <2>1, <2>2, <2>3
<1>3. Catalogue'
  BY <1>1, <1>2 DEF Catalogue, Pricing!TogglePrice, Pricing!Elsewhere, Pricing!Drifts
<1>4. Edited
  BY <1>1 DEF Edited, Pricing!TogglePrice, Pricing!Elsewhere, Pricing!Drifts, Catalogue
<1> QED
  BY <1>3, <1>4, EditedInv

\* ... or an item ...
LEMMA ToggleSellableKeeps ==
  ASSUME PricingInv, NEW s \in Sellables, Pricing!ToggleSellable(s)
  PROVE  PricingInv'
<1>1. Catalogue
  BY DEF PricingInv
<1>2. active' \subseteq Sellables
  BY <1>1 DEF Catalogue, Pricing!ToggleSellable
<1>3. Catalogue'
  BY <1>1, <1>2 DEF Catalogue, Pricing!ToggleSellable, Pricing!Elsewhere, Pricing!Drifts
<1>4. Edited
  BY <1>1 DEF Edited, Pricing!ToggleSellable, Pricing!Elsewhere, Pricing!Drifts, Catalogue
<1> QED
  BY <1>3, <1>4, EditedInv

\* ... or changes the stock.
LEMMA RestockKeeps ==
  ASSUME PricingInv, NEW s \in Sellables, NEW row \in StockRows, Pricing!Restock(s, row)
  PROVE  PricingInv'
<1>1. Catalogue /\ row \in Pricing!StockRow /\ rows' = [rows EXCEPT ![s] = row]
  BY PricingFacts DEF PricingInv, Pricing!Restock
<1>2. rows' \in [Sellables -> Pricing!StockRow \cup {NoRow}] /\ row # NoRow
  BY <1>1, PricingFacts DEF Catalogue
<1>3. Catalogue'
  BY <1>1, <1>2 DEF Catalogue, Pricing!Restock, Pricing!Elsewhere
<1>4. Edited
  BY <1>1, <1>2 DEF Edited, Pricing!Restock, Pricing!Elsewhere, Catalogue
<1> QED
  BY <1>3, <1>4, EditedInv

\* The shopper's edits give the cart another version.
LEMMA ShopKeeps ==
  ASSUME PricingInv, NEW c, IsCart(c), c.version = priced.version, Pricing!Shop(c)
  PROVE  PricingInv'
<1>1. Catalogue /\ priced.status # "checkout_pending"
  BY DEF PricingInv, Pricing!Shop
<1>2. PICK d : d = [c EXCEPT !.version = @ + 1]
  OBVIOUS
<1>3. priced' = d
  BY <1>2 DEF Pricing!Shop
<1>4. d = [status |-> c.status, expired |-> c.expired, version |-> c.version + 1,
           lines |-> c.lines, coupon |-> c.coupon]
  BY <1>2 DEF IsCart
<1>5. /\ d.status = c.status /\ d.expired = c.expired /\ d.version = c.version + 1
      /\ d.lines = c.lines /\ d.coupon = c.coupon
      /\ d = [status |-> d.status, expired |-> d.expired, version |-> d.version,
              lines |-> d.lines, coupon |-> d.coupon]
  BY <1>4
<1>6. IsCart(d)
  <2>1. d.lines \in [DOMAIN d.lines -> CartRow]
    BY <1>5 DEF IsCart
  <2> QED
    BY <1>5, <2>1 DEF IsCart
<1>7. Catalogue'
  BY <1>1, <1>3, <1>6 DEF Catalogue, Pricing!Shop, Pricing!Elsewhere
<1>8. Edited
  BY <1>1, <1>3, <1>5, <1>6 DEF Edited, Pricing!Shop, Pricing!Elsewhere
<1> QED
  BY <1>7, <1>8, EditedInv

\* A cart with other lines, and a cart with another coupon.
LEMMA CartWith ==
  ASSUME NEW c, IsCart(c), NEW status \in {"none", "open", "checkout_pending"}, NEW lines,
         DOMAIN lines \subseteq Prices, lines \in [DOMAIN lines -> CartRow], NEW coupon \in Coupons,
         NEW d, d = [status |-> status, expired |-> c.expired, version |-> c.version,
                     lines |-> lines, coupon |-> coupon]
  PROVE  IsCart(d)
<1>1. /\ d.status = status /\ d.expired = c.expired /\ d.version = c.version
      /\ d.lines = lines /\ d.coupon = coupon
      /\ d = [status |-> d.status, expired |-> d.expired, version |-> d.version,
              lines |-> d.lines, coupon |-> d.coupon]
  OBVIOUS
<1>2. d.lines \in [DOMAIN d.lines -> CartRow]
  BY <1>1
<1> QED
  BY <1>1, <1>2 DEF IsCart

\* The fields of the cart.
LEMMA CartShape ==
  ASSUME PricingInv
  PROVE  /\ priced = [status |-> priced.status, expired |-> priced.expired, version |-> priced.version,
                    lines |-> priced.lines, coupon |-> priced.coupon]
         /\ IsCart(priced) /\ priced.coupon \in Coupons /\ priced.lines \in [DOMAIN priced.lines -> CartRow]
         /\ priced.status \in {"none", "open", "checkout_pending"} /\ DOMAIN priced.lines \subseteq Prices
BY DEF PricingInv, Catalogue, IsCart

\* cart.add: the line of the price that is selected.
LEMMA AddKeeps ==
  ASSUME PricingInv, NEW s, NEW p, Pricing!Add(s, p)
  PROVE  PricingInv'
<1>1. PICK price : price = CHOOSE q \in Pricing!Selected(s, p) : TRUE
  OBVIOUS
<1>2. PICK had : had = IF price \in DOMAIN priced.lines THEN priced.lines[price]
                       ELSE [quantity |-> 0, unit |-> prices[price].amount]
  OBVIOUS
<1>3. PICK row : row = [had EXCEPT !.quantity = @ + 1]
  OBVIOUS
<1>4. PICK lines : lines = Pricing!Put(priced.lines, price, row)
  OBVIOUS
<1>5. PICK c : c = [priced EXCEPT !.lines = lines, !.status = "open"]
  OBVIOUS
<1>6. Pricing!Selected(s, p) # {} /\ Pricing!Shop(c)
  BY <1>1, <1>2, <1>3, <1>4, <1>5 DEF Pricing!Add
<1>7. price \in Prices
  <2>1. price \in Pricing!Selected(s, p)
    BY <1>1, <1>6
  <2> QED
    BY <2>1, SelectedFacts
<1>8. row \in CartRow
  <2>1. CASE price \in DOMAIN priced.lines
    <3>1. had \in CartRow
      BY <1>2, <2>1, CartShape
    <3> QED
      BY <1>3, <3>1 DEF CartRow
  <2>2. CASE price \notin DOMAIN priced.lines
    <3>1. prices[price].amount \in Nat
      BY <1>7 DEF PricingInv, Catalogue, PriceRow
    <3>2. had = [quantity |-> 0, unit |-> prices[price].amount]
      BY <1>2, <2>2
    <3>3. row = [quantity |-> 1, unit |-> prices[price].amount]
      BY <1>3, <3>2
    <3> QED
      BY <3>1, <3>3 DEF CartRow
  <2> QED
    BY <2>1, <2>2
<1>9. DOMAIN lines \subseteq Prices /\ lines \in [DOMAIN lines -> CartRow]
  <2>1. DOMAIN lines = DOMAIN priced.lines \cup {price}
    BY <1>4 DEF Pricing!Put
  <2>2. lines = [q \in DOMAIN priced.lines \cup {price} |-> IF q = price THEN row ELSE priced.lines[q]]
    BY <1>4 DEF Pricing!Put
  <2>3. \A q \in DOMAIN priced.lines : priced.lines[q] \in CartRow
    BY CartShape
  <2> QED
    BY <1>7, <1>8, <2>1, <2>2, <2>3, CartShape
<1>10. c = [status |-> "open", expired |-> priced.expired, version |-> priced.version,
            lines |-> lines, coupon |-> priced.coupon]
  BY <1>5, CartShape
<1>11. IsCart(c)
  BY <1>9, <1>10, CartShape, CartWith
<1>12. c.version = priced.version
  BY <1>10
<1> QED
  BY <1>6, <1>11, <1>12, ShopKeeps

\* cart.update
LEMMA UpdateLineKeeps ==
  ASSUME PricingInv, NEW p, NEW quantity \in 1..MaxPerOrder, Pricing!Update(p, quantity)
  PROVE  PricingInv'
<1>1. p \in DOMAIN priced.lines /\ quantity \in Nat \ {0}
  BY PricingFacts DEF Pricing!Update
<1>2. PICK lines : lines = [priced.lines EXCEPT ![p].quantity = quantity]
  OBVIOUS
<1>3. PICK c : c = [priced EXCEPT !.lines[p].quantity = quantity]
  OBVIOUS
<1>4. Pricing!Shop(c)
  BY <1>3 DEF Pricing!Update
<1>5. DOMAIN lines = DOMAIN priced.lines /\ lines \in [DOMAIN lines -> CartRow]
  <2>1. priced.lines[p] \in CartRow
    BY <1>1, CartShape
  <2>2. [priced.lines[p] EXCEPT !.quantity = quantity] \in CartRow
    BY <1>1, <2>1 DEF CartRow
  <2>3. lines = [priced.lines EXCEPT ![p] = [priced.lines[p] EXCEPT !.quantity = quantity]]
    BY <1>2
  <2> QED
    BY <2>2, <2>3, CartShape
<1>6. c = [status |-> priced.status, expired |-> priced.expired, version |-> priced.version,
           lines |-> lines, coupon |-> priced.coupon]
  BY <1>2, <1>3, CartShape
<1>7. IsCart(c)
  BY <1>5, <1>6, CartShape, CartWith
<1>8. c.version = priced.version
  BY <1>6
<1> QED
  BY <1>4, <1>7, <1>8, ShopKeeps

\* cart.remove
LEMMA RemoveKeeps ==
  ASSUME PricingInv, NEW p, Pricing!Remove(p)
  PROVE  PricingInv'
<1>1. PICK lines : lines = [q \in DOMAIN priced.lines \ {p} |-> priced.lines[q]]
  OBVIOUS
<1>2. PICK c : c = [priced EXCEPT !.lines = lines]
  OBVIOUS
<1>3. Pricing!Shop(c)
  BY <1>1, <1>2 DEF Pricing!Remove
<1>4. DOMAIN lines \subseteq Prices /\ lines \in [DOMAIN lines -> CartRow]
  BY <1>1, CartShape
<1>5. c = [status |-> priced.status, expired |-> priced.expired, version |-> priced.version,
           lines |-> lines, coupon |-> priced.coupon]
  BY <1>2, CartShape
<1>6. IsCart(c)
  BY <1>4, <1>5, CartShape, CartWith
<1>7. c.version = priced.version
  BY <1>5
<1> QED
  BY <1>3, <1>6, <1>7, ShopKeeps

\* A cart with another coupon.
LEMMA CouponKeeps ==
  ASSUME PricingInv, NEW coupon \in Coupons, Pricing!Shop([priced EXCEPT !.coupon = coupon])
  PROVE  PricingInv'
<1>1. PICK c : c = [priced EXCEPT !.coupon = coupon]
  OBVIOUS
<1>2. c = [status |-> priced.status, expired |-> priced.expired, version |-> priced.version,
           lines |-> priced.lines, coupon |-> coupon]
  BY <1>1, CartShape
<1>3. IsCart(c)
  BY <1>2, CartShape, CartWith
<1>4. c.version = priced.version
  BY <1>2
<1> QED
  BY <1>1, <1>3, <1>4, ShopKeeps

\* cart.applyCoupon: what the resolver says of the code.
LEMMA ApplyCouponKeeps ==
  ASSUME PricingInv, NEW code \in Codes, Pricing!ApplyCoupon(code)
  PROVE  PricingInv'
<1>1. priced.coupon \in Coupons /\ rates \in [Codes -> Rates]
  BY CartShape DEF PricingInv, Catalogue
<1>2. Pricing!CouponFor(priced.coupon, code) \in Coupons
  BY <1>1, CouponType
<1>3. Pricing!Shop([priced EXCEPT !.coupon = Pricing!CouponFor(priced.coupon, code)])
  BY DEF Pricing!ApplyCoupon
<1> QED
  BY <1>2, <1>3, CouponKeeps

\* cart.removeCoupon
LEMMA RemoveCouponKeeps ==
  ASSUME PricingInv, Pricing!RemoveCoupon
  PROVE  PricingInv'
<1>1. Pricing!NoCoupon \in Coupons
  BY DEF Pricing!NoCoupon, Coupons
<1> QED
  BY <1>1, CouponKeeps DEF Pricing!RemoveCoupon

\* A cart that lapses keeps its version.
LEMMA LapseKeeps ==
  ASSUME PricingInv, Pricing!Lapse
  PROVE  PricingInv'
<1>1. PICK d : d = [priced EXCEPT !.expired = TRUE]
  OBVIOUS
<1>2. priced' = d
  BY <1>1 DEF Pricing!Lapse
<1>3. d = [status |-> priced.status, expired |-> TRUE, version |-> priced.version,
           lines |-> priced.lines, coupon |-> priced.coupon]
  BY <1>1, CartShape
<1>4. /\ d.status = priced.status /\ d.expired = TRUE /\ d.version = priced.version
      /\ d.lines = priced.lines /\ d.coupon = priced.coupon
      /\ d = [status |-> d.status, expired |-> d.expired, version |-> d.version,
              lines |-> d.lines, coupon |-> d.coupon]
  BY <1>3
<1>5. IsCart(d)
  <2>1. d.lines \in [DOMAIN d.lines -> CartRow]
    BY <1>4, CartShape
  <2> QED
    BY <1>4, <2>1, CartShape DEF IsCart
<1>6. Catalogue'
  BY <1>2, <1>5 DEF PricingInv, Catalogue, Pricing!Lapse, Pricing!Elsewhere
<1>7. Edited
  BY <1>2, <1>4, <1>5 DEF Edited, Pricing!Lapse, Pricing!Elsewhere
<1> QED
  BY <1>6, <1>7, EditedInv

----------------------------------------------------------------------------
(* The prices begin in their invariant *)

\* Whatever the catalogue, the stock and the cart are at first.
LEMMA PricesAtFirst ==
  ASSUME Pricing!PricingInit
  PROVE  PricingInv
<1>1. /\ prices \in [Prices -> [on : {TRUE}, amount : Amounts, mode : Modes]]
      /\ active = Sellables /\ rows \in [Sellables -> StockRows] /\ rates \in [Codes -> Rates]
      /\ host \in BOOLEAN /\ job = Pricing!Idle /\ charged = Pricing!Nothing /\ drifted = FALSE
  BY DEF Pricing!PricingInit, Modes
<1>2. prices \in [Prices -> PriceRow]
  <2>1. [on : {TRUE}, amount : Amounts, mode : Modes] \subseteq PriceRow
    BY PricingFacts DEF PriceRow
  <2> QED
    BY <1>1, <2>1
<1>3. rows \in [Sellables -> Pricing!StockRow \cup {NoRow}]
  BY <1>1, PricingFacts
<1>4. IsCart(Pricing!NoCart) /\ Pricing!NoCart.coupon \in Coupons
  BY DEF IsCart, Pricing!NoCart, Pricing!NoCoupon, Pricing!Empty, Coupons
<1>5. IsCart(priced)
  <2>1. CASE priced = Pricing!NoCart
    BY <1>4, <2>1
  <2>2. ASSUME NEW ps \in SUBSET Prices,
               priced = [Pricing!NoCart EXCEPT !.status = "open",
                         !.lines = [p \in ps |-> [quantity |-> 1, unit |-> prices[p].amount]]]
        PROVE  IsCart(priced)
    <3>1. PICK lines : lines = [p \in ps |-> [quantity |-> 1, unit |-> prices[p].amount]]
      OBVIOUS
    <3>2. \A p \in ps : [quantity |-> 1, unit |-> prices[p].amount] \in CartRow
      BY <1>2 DEF PriceRow, CartRow
    <3>3. DOMAIN lines \subseteq Prices /\ lines \in [DOMAIN lines -> CartRow]
      BY <3>1, <3>2
    <3>4. priced = [status |-> "open", expired |-> Pricing!NoCart.expired, version |-> Pricing!NoCart.version,
                  lines |-> lines, coupon |-> Pricing!NoCart.coupon]
      BY <2>2, <3>1 DEF Pricing!NoCart
    <3> QED
      BY <1>4, <3>3, <3>4, CartWith
  <2> QED
    BY <2>1, <2>2 DEF Pricing!PricingInit
<1>6. Catalogue
  BY <1>1, <1>2, <1>3, <1>5 DEF Catalogue
<1>7. JobHolds
  BY <1>1 DEF JobHolds
<1>8. Pricing!ChargedAsAgreed
  BY <1>1 DEF Pricing!ChargedAsAgreed, Pricing!ChargedIsClaimed, Pricing!AuthorizedIsCharged
<1> QED
  BY <1>6, <1>7, <1>8 DEF PricingInv

\* A state that is the same is in the invariant still.
LEMMA PricesUnchanged ==
  ASSUME PricingInv, UNCHANGED Pricing!priceVars
  PROVE  PricingInv'
<1>1. Catalogue'
  BY DEF PricingInv, Catalogue, Pricing!priceVars
<1>2. Edited
  BY DEF Edited, Pricing!priceVars, PricingInv, Catalogue
<1> QED
  BY <1>1, <1>2, EditedInv

----------------------------------------------------------------------------
(* What a quote promises *)

\* The lines of an input, when no other stands beside it.
LEMMA StartLines ==
  ASSUME IsCart(priced), NEW ask \in Asks,
         ~(Pricing!BuyNow(ask) /\ (DOMAIN priced.lines # {} \/ priced.coupon # Pricing!NoCoupon \/ priced.expired))
  PROVE  /\ IsCart(Pricing!StartCart(ask)) /\ DOMAIN Pricing!StartCart(ask).lines = DOMAIN priced.lines
         /\ Pricing!StartCart(ask).coupon = priced.coupon
         /\ \A p \in DOMAIN priced.lines : Pricing!Lines(Pricing!StartCart(ask), ask)[p] = Pricing!Lines(priced, ask)[p]
         /\ Pricing!BuyNow(ask) => Pricing!Lines(Pricing!StartCart(ask), ask)[Pricing!Buy] = Pricing!Lines(priced, ask)[Pricing!Buy]
         /\ DOMAIN Pricing!Lines(Pricing!StartCart(ask), ask) = DOMAIN Pricing!Lines(priced, ask)
<1>1. CASE Pricing!BuyNow(ask)
  <2>1. Pricing!StartCart(ask) = Pricing!NoCart /\ DOMAIN Pricing!NoCart.lines = {} /\ Pricing!NoCart.coupon = Pricing!NoCoupon
    BY <1>1 DEF Pricing!StartCart, Pricing!NoCart, Pricing!Empty
  <2>2. DOMAIN priced.lines = {} /\ priced.coupon = Pricing!NoCoupon /\ IsCart(Pricing!NoCart)
    BY <1>1, <2>1, StartCartFacts
  <2> QED
    BY <1>1, <2>1, <2>2, LinesRead
<1>2. CASE ~Pricing!BuyNow(ask)
  <2>1. Pricing!StartCart(ask) = priced
    BY <1>2 DEF Pricing!StartCart
  <2> QED
    BY <1>2, <2>1
<1> QED
  BY <1>1, <1>2

\* A line can be resolved when its quote says that it can be bought, and they read the same.
LEMMA SameVerdict ==
  ASSUME NEW line
  PROVE  /\ Pricing!Quoted(line).ok <=> Pricing!Resolvable(line)
         /\ Pricing!Resolvable(line) => Pricing!SameLine(Pricing!Resolved(line), Pricing!Quoted(line))
<1> DEFINE offered == IF line.sellable \in active THEN Pricing!Selected(line.sellable, line.price) ELSE {}
           chosen == CHOOSE p \in offered : TRUE
<1>1. /\ Pricing!Quoted(line).price = IF offered = {} THEN line.price ELSE chosen
      /\ Pricing!Quoted(line).quantity = line.quantity
      /\ Pricing!Quoted(line).unit = IF offered = {} THEN line.unit ELSE prices[chosen].amount
      /\ Pricing!Quoted(line).ok = (offered # {} /\ Pricing!WithinLimits(line.sellable, line.demand))
  BY DEF Pricing!Quoted
<1>2. Pricing!Resolvable(line) <=> offered # {} /\ Pricing!WithinLimits(line.sellable, line.demand)
  BY DEF Pricing!Resolvable
<1>3. ASSUME Pricing!Resolvable(line)
      PROVE  Pricing!SameLine(Pricing!Resolved(line), Pricing!Quoted(line))
  <2>1. offered = Pricing!Selected(line.sellable, line.price) /\ offered # {}
    BY <1>3 DEF Pricing!Resolvable
  <2>2. Pricing!Resolved(line).price = chosen /\ Pricing!Resolved(line).quantity = line.quantity
        /\ Pricing!Resolved(line).unit = prices[chosen].amount
    BY <2>1, Zenon DEF Pricing!Resolved
  <2> HIDE DEF offered, chosen
  <2> QED
    BY <1>1, <2>1, <2>2 DEF Pricing!SameLine
<1> QED
  BY <1>1, <1>2, <1>3

\* What is within the limits can be reserved.
LEMMA WithinIsReservable ==
  ASSUME Catalogue, NEW s \in Sellables, NEW quantity \in Nat \ {0}, Pricing!WithinLimits(s, quantity),
         rows[s] # NoRow
  PROVE  Pricing!CanReserve(rows[s], quantity)
<1>1. PICK row \in Pricing!StockRow : row = rows[s]
  BY DEF Catalogue
<1>2. /\ row.policy \in {"finite", "manual", "backorder", "untracked"} /\ row.free \in Int
      /\ row.back \in BOOLEAN /\ row.override \in {"none", "on", "off"}
  BY DEF Pricing!StockRow
<1>3. Pricing!Availability(row) # "out_of_stock" /\ (Pricing!Availability(row) = "available" => quantity <= Pricing!Units(row))
  BY <1>1 DEF Pricing!WithinLimits
<1>4. ASSUME row.policy = "finite", ~row.back
      PROVE  row.free >= quantity
  <2>1. Pricing!Availability(row) = "available"
    BY <1>2, <1>3, <1>4 DEF Pricing!Availability
  <2> QED
    BY <1>2, <1>3, <2>1 DEF Pricing!Units
<1> QED
  BY <1>1, <1>4 DEF Pricing!CanReserve

\* The units that the lines of an input take of a sellable are those that its limits were held
\* against, for each of them.
LEMMA DemandIsTaken ==
  ASSUME Catalogue, NEW ask \in Asks, NEW items, NEW s \in Sellables,
         Pricing!BuyNow(ask) => DOMAIN priced.lines = {},
         DOMAIN items = DOMAIN Pricing!Lines(priced, ask),
         \A id \in DOMAIN items : items[id].quantity = Pricing!Lines(priced, ask)[id].quantity,
         NEW id \in DOMAIN items, Pricing!Lines(priced, ask)[id].sellable = s
  PROVE  Pricing!SumOver([i \in DOMAIN items |-> items[i].quantity],
                 {i \in DOMAIN items : Pricing!Lines(priced, ask)[i].sellable = s})
           = Pricing!Lines(priced, ask)[id].demand
<1> DEFINE f == [i \in DOMAIN items |-> items[i].quantity]
           ids == {i \in DOMAIN items : Pricing!Lines(priced, ask)[i].sellable = s}
<1>1. IsCart(priced)
  BY DEF Catalogue
<1>2. IsFiniteSet(ids)
  BY <1>1, LinesAreFinite, FS_Subset
<1>3. \A i \in ids : f[i] \in Nat
  BY <1>1, LineFacts
<1>4. id \in ids
  OBVIOUS
<1>5. Pricing!SumOver(f, ids) = f[id] + Pricing!SumOver(f, ids \ {id})
  <2> HIDE DEF f, ids
  <2> QED
    BY <1>2, <1>3, <1>4, SumSplit
<1>6. CASE Pricing!BuyNow(ask)
  <2>1. DOMAIN items = {Pricing!Buy} /\ id = Pricing!Buy /\ Pricing!Lines(priced, ask)[id] = Pricing!BuyLine(ask)
    BY <1>1, <1>6, LinesRead
  <2>2. ids \ {id} = {}
    BY <2>1
  <2>3. Pricing!SumOver(f, ids \ {id}) = 0
    <3> HIDE DEF f, ids
    <3> QED
      BY <2>2, SumOfNone
  <2>4. f[id] = ask.quantity /\ Pricing!Lines(priced, ask)[id].demand = ask.quantity
    BY <2>1 DEF Pricing!BuyLine
  <2> QED
    BY <1>5, <2>3, <2>4, AskFacts
<1>7. CASE ~Pricing!BuyNow(ask)
  <2>1. DOMAIN items = DOMAIN priced.lines
    BY <1>1, <1>7, LinesRead
  <2>10. \A i \in DOMAIN priced.lines : Pricing!Lines(priced, ask)[i] = Pricing!CartLine(priced, i)
    BY <1>1, LinesRead
  <2>2. Pricing!Lines(priced, ask)[id] = Pricing!CartLine(priced, id) /\ SellableOf[id] = s
    BY <2>1, <2>10 DEF Pricing!CartLine
  <2>3. ASSUME NEW i \in DOMAIN items
        PROVE  Pricing!Lines(priced, ask)[i].sellable = SellableOf[i] /\ f[i] = priced.lines[i].quantity
    <3>1. Pricing!Lines(priced, ask)[i] = Pricing!CartLine(priced, i) /\ items[i].quantity = Pricing!Lines(priced, ask)[i].quantity
      BY <2>1, <2>10
    <3> QED
      BY <3>1 DEF Pricing!CartLine
  <2> DEFINE g == [q \in DOMAIN priced.lines |-> priced.lines[q].quantity]
             siblings == {q \in DOMAIN priced.lines \ {id} : SellableOf[q] = SellableOf[id]}
  <2>4. ids \ {id} = siblings
    BY <2>1, <2>2, <2>3
  <2>5. \A q \in siblings : f[q] = g[q]
    BY <2>1, <2>3
  <2>6. Pricing!SumOver(f, siblings) = Pricing!SumOver(g, siblings)
    <3> HIDE DEF f, g, siblings
    <3> QED
      BY <2>5, SumSame
  <2>7. Pricing!Siblings(priced, id) = Pricing!SumOver(g, siblings)
    BY DEF Pricing!Siblings
  <2>8. Pricing!Lines(priced, ask)[id].demand = priced.lines[id].quantity + Pricing!Siblings(priced, id)
    BY <2>2 DEF Pricing!CartLine
  <2>9. f[id] = priced.lines[id].quantity
    BY <2>3
  <2> HIDE DEF f, g, ids, siblings
  <2> QED
    BY <1>5, <2>4, <2>6, <2>7, <2>8, <2>9 DEF f, ids
<1> QED
  BY <1>6, <1>7

\* What resolves of the lines of an input can be reserved.
LEMMA ResolvedIsReservable ==
  ASSUME Catalogue, NEW ask \in Asks, NEW items,
         Pricing!BuyNow(ask) => DOMAIN priced.lines = {},
         DOMAIN items = DOMAIN Pricing!Lines(priced, ask),
         \A id \in DOMAIN items :
           Pricing!Resolvable(Pricing!Lines(priced, ask)[id]) /\ items[id] = Pricing!Resolved(Pricing!Lines(priced, ask)[id])
  PROVE  Pricing!Reservable(items)
<1>1. IsCart(priced)
  BY DEF Catalogue
<1>2. ASSUME NEW id \in DOMAIN items
      PROVE  /\ items[id].quantity = Pricing!Lines(priced, ask)[id].quantity
             /\ items[id].quantity \in Nat \ {0}
             /\ SellableOf[items[id].price] = Pricing!Lines(priced, ask)[id].sellable
             /\ items[id].tracked <=> rows[Pricing!Lines(priced, ask)[id].sellable] # NoRow
  <2>1. PICK line : line = Pricing!Lines(priced, ask)[id]
    OBVIOUS
  <2>2. line.quantity \in Nat \ {0}
    BY <1>1, <2>1, LineFacts
  <2>3. ReadOf(line, Pricing!Resolved(line), rows) /\ SellableOf[Pricing!Resolved(line).price] = line.sellable
    BY <2>1, <2>2, ResolvedFacts
  <2>4. Pricing!Resolved(line).tracked = (rows[line.sellable] # NoRow)
    BY Zenon DEF Pricing!Resolved
  <2> QED
    BY <2>1, <2>2, <2>3, <2>4 DEF ReadOf
<1>3. ASSUME NEW s \in Sellables, Pricing!Takes(items, s) > 0
      PROVE  Pricing!CanReserve(rows[s], Pricing!Takes(items, s))
  <2> DEFINE f == [id \in DOMAIN items |-> items[id].quantity]
             taking == {id \in DOMAIN items : SellableOf[items[id].price] = s /\ items[id].tracked}
             ids == {id \in DOMAIN items : Pricing!Lines(priced, ask)[id].sellable = s}
  <2>1. Pricing!Takes(items, s) = Pricing!SumOver(f, taking)
    BY DEF Pricing!Takes
  <2>2. PICK id \in taking : TRUE
    <3>1. taking = {} => Pricing!SumOver(f, taking) = 0
      <4> HIDE DEF f
      <4> QED
        BY SumOfNone
    <3> HIDE DEF f, taking
    <3> QED
      BY <1>3, <2>1, <3>1
  <2>3. rows[s] # NoRow /\ id \in DOMAIN items /\ Pricing!Lines(priced, ask)[id].sellable = s
    BY <1>2, <2>2
  <2>4. taking = ids
    BY <1>2, <2>3
  <2>5. Pricing!SumOver(f, ids) = Pricing!Lines(priced, ask)[id].demand
    BY <1>2, <2>3, DemandIsTaken
  <2>6. IsFiniteSet(ids)
    BY <1>1, LinesAreFinite, FS_Subset
  <2>7. \A i \in ids : f[i] \in Nat
    BY <1>2
  <2>8. Pricing!SumOver(f, ids) \in Nat
    <3> HIDE DEF f, ids
    <3> QED
      BY <2>6, <2>7, SumType
  <2>9. Pricing!WithinLimits(s, Pricing!Lines(priced, ask)[id].demand)
    BY <2>3 DEF Pricing!Resolvable
  <2> HIDE DEF f, taking, ids
  <2>10. Pricing!Takes(items, s) = Pricing!Lines(priced, ask)[id].demand /\ Pricing!Takes(items, s) \in Nat \ {0}
    BY <1>3, <2>1, <2>4, <2>5, <2>8
  <2> QED
    BY <2>3, <2>9, <2>10, WithinIsReservable
<1> QED
  BY <1>3 DEF Pricing!Reservable

\* Lines that are there resolve to one mode, that of the cart's prices or of the item.
LEMMA OneMode ==
  ASSUME Catalogue, NEW ask \in Asks, NEW items,
         Pricing!BuyNow(ask) => DOMAIN priced.lines = {},
         DOMAIN items = DOMAIN Pricing!Lines(priced, ask), DOMAIN items # {},
         \A id \in DOMAIN items :
           Pricing!Resolvable(Pricing!Lines(priced, ask)[id]) /\ items[id] = Pricing!Resolved(Pricing!Lines(priced, ask)[id]),
         ~(Pricing!Cardinality({prices[p].mode : p \in DOMAIN priced.lines}) > 1)
  PROVE  Pricing!Cardinality({items[id].mode : id \in DOMAIN items}) = 1
<1> DEFINE modes == {items[id].mode : id \in DOMAIN items}
           paid == {prices[p].mode : p \in DOMAIN priced.lines}
<1>1. IsCart(priced)
  BY DEF Catalogue
<1>2. CASE Pricing!BuyNow(ask)
  <2>1. DOMAIN items = {Pricing!Buy}
    BY <1>1, <1>2, LinesRead
  <2>2. modes = {items[Pricing!Buy].mode}
    BY <2>1
  <2> QED
    BY <2>2, FS_Singleton, CountsAreCardinalities
<1>3. CASE ~Pricing!BuyNow(ask)
  <2>1. DOMAIN items = DOMAIN priced.lines /\ \A p \in DOMAIN priced.lines : Pricing!Lines(priced, ask)[p] = Pricing!CartLine(priced, p)
    BY <1>1, <1>3, LinesRead
  <2>2. ASSUME NEW p \in DOMAIN items
        PROVE  items[p].mode = prices[p].mode
    <3>1. PICK line : line = Pricing!CartLine(priced, p)
      OBVIOUS
    <3>2. line.price = p /\ p \in Prices /\ p # Pricing!AnyPrice
      BY <1>1, <2>1, <2>2, <3>1, CartFacts, PricingFacts DEF Pricing!CartLine
    <3>3. Pricing!Selected(line.sellable, line.price) # {} /\ items[p] = Pricing!Resolved(line)
      BY <2>1, <2>2, <3>1 DEF Pricing!Resolvable
    <3> DEFINE chosen == CHOOSE q \in Pricing!Selected(line.sellable, line.price) : TRUE
    <3>4. chosen = p
      BY <3>2, <3>3, SelectedFacts
    <3>5. Pricing!Resolved(line).mode = prices[chosen].mode
      BY DEF Pricing!Resolved
    <3> HIDE DEF chosen
    <3> QED
      BY <3>3, <3>4, <3>5
  <2>3. modes = paid
    BY <2>1, <2>2
  <2>4. IsFiniteSet(paid)
    <3> DEFINE f == [p \in DOMAIN priced.lines |-> prices[p].mode]
    <3>1. f \in Surjection(DOMAIN priced.lines, paid)
      BY DEF Surjection
    <3>2. IsFiniteSet(DOMAIN priced.lines)
      BY <1>1, CartFacts
    <3> HIDE DEF f, paid
    <3> QED
      BY <3>1, <3>2, FS_Surjection
  <2>5. ~(Cardinality(paid) > 1)
    BY CountsAreCardinalities
  <2>6. paid # {}
    BY <2>1
  <2>7. Cardinality(paid) = 1
    <3> HIDE DEF paid
    <3>1. Cardinality(paid) \in Nat /\ Cardinality(paid) # 0
      BY <2>4, <2>6, FS_CardinalityType, FS_EmptySet
    <3> QED
      BY <2>5, <3>1
  <2> QED
    BY <2>3, <2>7, CountsAreCardinalities
<1> QED
  BY <1>2, <1>3

\* A quote that lets the shopper proceed is honoured, whatever the catalogue, the stock and the
\* cart.
LEMMA QuoteHonoured ==
  ASSUME Catalogue
  PROVE  Pricing!QuoteIsHonoured
<1> SUFFICES ASSUME NEW ask \in Asks,
                    ~(Pricing!BuyNow(ask) /\ (DOMAIN priced.lines # {} \/ priced.coupon # Pricing!NoCoupon \/ priced.expired)),
                    priced.status # "checkout_pending",
                    ~(Pricing!Cardinality({prices[p].mode : p \in DOMAIN priced.lines}) > 1)
             PROVE  /\ (Pricing!QuotedNow(ask).status \in {"valid", "changed"}) <=> (Pricing!StartedNow(ask) # Pricing!Nothing)
                    /\ Pricing!StartedNow(ask) # Pricing!Nothing =>
                         Pricing!Matches(Pricing!StartedNow(ask), Pricing!QuotedNow(ask)) /\ Pricing!Reservable(Pricing!StartedNow(ask).items)
  BY Zenon DEF Pricing!QuoteIsHonoured
<1>1. IsCart(priced) /\ priced.expired \in BOOLEAN /\ priced.status \in {"none", "open"}
  BY DEF Catalogue, IsCart
<1>2. PICK lines : lines = Pricing!Lines(priced, ask)
  OBVIOUS
<1>3. PICK c : c = Pricing!StartCart(ask)
  OBVIOUS
<1>4. /\ DOMAIN Pricing!Lines(c, ask) = DOMAIN lines /\ c.coupon = priced.coupon
      /\ \A id \in DOMAIN lines : Pricing!Lines(c, ask)[id] = lines[id]
  BY <1>1, <1>2, <1>3, StartLines, LinesRead
<1>5. PICK shown : shown = [id \in DOMAIN lines |-> Pricing!Quoted(lines[id])]
  OBVIOUS
<1>6. PICK items : items = [id \in DOMAIN lines |-> Pricing!Resolved(lines[id])]
  OBVIOUS
<1>7. PICK quote : quote = Pricing!Quote(priced, ask, shown)
  OBVIOUS
<1>8. quote = Pricing!QuotedNow(ask)
  BY <1>2, <1>5, <1>7 DEF Pricing!QuotedNow
<1> DEFINE read == \A id \in DOMAIN lines : Pricing!Resolvable(lines[id])
           starts == Pricing!Startable(c, ask) /\ read /\ Pricing!Acceptable(ask, items)
<1>9. Pricing!StartedNow(ask) = IF starts THEN Pricing!Resolution(c, ask, items) ELSE Pricing!Nothing
  <2>1. [id \in DOMAIN Pricing!Lines(c, ask) |-> Pricing!Resolved(Pricing!Lines(c, ask)[id])] = items
    BY <1>4, <1>6
  <2>2. (\A id \in DOMAIN Pricing!Lines(c, ask) : Pricing!Resolvable(Pricing!Lines(c, ask)[id])) <=> read
    BY <1>4
  <2>3. PICK all : all = Pricing!Lines(c, ask)
    OBVIOUS
  <2>4. Pricing!StartedNow(ask) =
          IF /\ Pricing!Startable(c, ask) /\ \A id \in DOMAIN all : Pricing!Resolvable(all[id])
             /\ Pricing!Acceptable(ask, [id \in DOMAIN all |-> Pricing!Resolved(all[id])])
          THEN Pricing!Resolution(c, ask, [id \in DOMAIN all |-> Pricing!Resolved(all[id])]) ELSE Pricing!Nothing
    BY <1>3, <2>3, Zenon DEF Pricing!StartedNow
  <2> HIDE DEF read
  <2> QED
    BY <2>1, <2>2, <2>3, <2>4
\* The verdicts.
<1>10. read <=> \A id \in DOMAIN shown : shown[id].ok
  BY <1>5, SameVerdict
<1>11. Pricing!Startable(c, ask) <=> ~(Pricing!Buys(ask) /\ ask.byId) /\ ~priced.expired
  <2>1. CASE Pricing!BuyNow(ask)
    BY <1>1, <1>3, <2>1 DEF Pricing!StartCart, Pricing!Startable, Pricing!NoCart, Pricing!BuyNow
  <2>2. CASE ~Pricing!BuyNow(ask)
    BY <1>1, <1>3, <2>2 DEF Pricing!StartCart, Pricing!Startable
  <2> QED
    BY <2>1, <2>2
<1>12. Pricing!BuyNow(ask) => DOMAIN priced.lines = {}
  OBVIOUS
<1>13. /\ DOMAIN items = DOMAIN Pricing!Lines(priced, ask)
       /\ read => \A id \in DOMAIN items :
                    /\ Pricing!Resolvable(Pricing!Lines(priced, ask)[id])
                    /\ items[id] = Pricing!Resolved(Pricing!Lines(priced, ask)[id])
  BY <1>2, <1>6
<1>14. read => (Pricing!Acceptable(ask, items) <=> DOMAIN lines # {} /\ ~Pricing!Refused(ask.code))
  <2>1. ASSUME DOMAIN lines = {}
        PROVE  ~Pricing!Acceptable(ask, items)
    <3>1. {items[id].mode : id \in DOMAIN items} = {}
      BY <1>2, <1>13, <2>1
    <3>2. Pricing!Cardinality({items[id].mode : id \in DOMAIN items}) = 0
      BY <3>1, FS_EmptySet, CountsAreCardinalities
    <3> QED
      BY <3>2 DEF Pricing!Acceptable
  <2>2. ASSUME read, DOMAIN lines # {}
        PROVE  Pricing!Cardinality({items[id].mode : id \in DOMAIN items}) = 1
    <3> HIDE DEF read
    <3> QED
      BY <1>2, <1>12, <1>13, <2>2, OneMode
  <2> QED
    BY <2>1, <2>2 DEF Pricing!Acceptable
<1>15. quote.status \in {"valid", "changed"} <=>
         /\ ~priced.expired /\ \A id \in DOMAIN shown : shown[id].ok
         /\ ~(Pricing!Buys(ask) /\ ask.byId) /\ DOMAIN shown # {} /\ ~Pricing!Refused(ask.code)
  <2>1. PICK changed \in BOOLEAN, unavailable \in BOOLEAN :
          /\ quote.status = IF priced.expired THEN "expired" ELSE IF unavailable THEN "unavailable"
                            ELSE IF changed THEN "changed" ELSE "valid"
          /\ unavailable <=> \/ \E id \in DOMAIN shown : ~shown[id].ok
                             \/ Pricing!Buys(ask) /\ ask.byId
                             \/ DOMAIN shown = {}
                             \/ Pricing!Refused(ask.code)
    BY <1>7 DEF Pricing!Quote
  <2> QED
    BY <1>1, <2>1
<1>16. DOMAIN shown = DOMAIN lines
  BY <1>5
<1>17. quote.status \in {"valid", "changed"} <=> starts
  BY <1>10, <1>11, <1>14, <1>15, <1>16
\* What is started is what was quoted.
<1>18. PICK r : r = Pricing!Resolution(c, ask, items)
  OBVIOUS
<1>19. r # Pricing!Nothing /\ r.items = items
  <2>1. "items" \in DOMAIN r /\ "items" \notin DOMAIN Pricing!Nothing /\ r.items = items
    BY <1>18 DEF Pricing!Resolution, Pricing!Nothing
  <2> QED
    BY <2>1
<1>20. ASSUME starts
       PROVE  Pricing!Matches(r, quote) /\ Pricing!Reservable(r.items)
  <2>1. /\ quote.items = shown /\ quote.total = Pricing!Subtotal(shown) - quote.discount
        /\ quote.discount = Pricing!Discount(Pricing!CouponFor(priced.coupon, ask.code), Pricing!Subtotal(shown))
        /\ quote.coupon = Pricing!CouponFor(priced.coupon, ask.code)
    BY <1>7, QuoteFacts DEF Pricing!Quote
  <2>2. /\ r.coupon = Pricing!CouponFor(priced.coupon, ask.code)
        /\ r.discount = Pricing!Discount(Pricing!CouponFor(priced.coupon, ask.code), Pricing!Subtotal(items))
        /\ r.total = Pricing!Subtotal(items) - r.discount
    BY <1>4, <1>18 DEF Pricing!Resolution
  <2>3. /\ DOMAIN items = DOMAIN shown
        /\ \A id \in DOMAIN items : Pricing!SameLine(items[id], shown[id])
    BY <1>5, <1>6, <1>20, SameVerdict
  <2>4. Pricing!Subtotal(items) = Pricing!Subtotal(shown)
    BY <2>3, SubtotalSame
  <2>5. Pricing!Matches(r, quote)
    BY <1>19, <2>1, <2>2, <2>3, <2>4 DEF Pricing!Matches
  <2>6. Pricing!Reservable(items)
    <3>1. read
      BY <1>20
    <3> HIDE DEF read
    <3> QED
      BY <1>12, <1>13, <3>1, ResolvedIsReservable
  <2> QED
    BY <1>19, <2>5, <2>6
<1> HIDE DEF starts
<1> QED
  BY <1>8, <1>9, <1>17, <1>18, <1>19, <1>20

----------------------------------------------------------------------------
(* The prices *)

\* A step of the prices.
PricesMove ==
  \/ \E ask \in Asks : Pricing!Preview(ask) \/ Pricing!Start(ask)
  \/ Pricing!QuoteLine \/ Pricing!Show \/ Pricing!ResolveLine \/ Pricing!Resolve \/ Pricing!Compare \/ Pricing!Prove
  \/ Pricing!Dispatch \/ Pricing!Claim \/ Pricing!Reserve \/ Pricing!Hosted \/ Pricing!Delegated \/ Pricing!ProviderFails
  \/ \E p \in Prices :
       \/ \E amount \in Amounts : Pricing!Reprice(p, amount)
       \/ \E quantity \in 1..MaxPerOrder : Pricing!Update(p, quantity)
       \/ Pricing!TogglePrice(p)
       \/ Pricing!Remove(p)
  \/ \E s \in Sellables :
       \/ \E p \in Prices \cup {Pricing!AnyPrice} : Pricing!Add(s, p)
       \/ \E row \in StockRows : Pricing!Restock(s, row)
       \/ Pricing!ToggleSellable(s)
  \/ \E code \in Codes : Pricing!ApplyCoupon(code) \/ (\E rate \in Rates : Pricing!SetRate(code, rate))
  \/ Pricing!RemoveCoupon \/ Pricing!Lapse

\* It keeps the invariant.
LEMMA PricesMoveKeeps ==
  ASSUME PricingInv, PricesMove
  PROVE  PricingInv'
<1>1. ASSUME NEW ask \in Asks, Pricing!Preview(ask) \/ Pricing!Start(ask)
      PROVE  PricingInv'
  BY <1>1, PreviewKeeps, StartKeeps
<1>2. CASE Pricing!QuoteLine \/ Pricing!Show \/ Pricing!ResolveLine \/ Pricing!Resolve \/ Pricing!Compare \/ Pricing!Prove
  BY <1>2, QuoteLineKeeps, ShowKeeps, ResolveLineKeeps, ResolveKeeps, CompareKeeps, ProveKeeps
<1>3. CASE Pricing!Dispatch \/ Pricing!Claim \/ Pricing!Reserve \/ Pricing!Hosted \/ Pricing!Delegated \/ Pricing!ProviderFails
  BY <1>3, DispatchKeeps, ClaimKeeps, ReserveKeeps, HostedKeeps, DelegatedKeeps, ProviderFailsKeeps
<1>4. ASSUME NEW p \in Prices, Pricing!TogglePrice(p) \/ Pricing!Remove(p)
      PROVE  PricingInv'
  BY <1>4, TogglePriceKeeps, RemoveKeeps
<1>5. ASSUME NEW p \in Prices, NEW amount \in Amounts, Pricing!Reprice(p, amount)
      PROVE  PricingInv'
  BY <1>5, RepriceKeeps
<1>6. ASSUME NEW p \in Prices, NEW quantity \in 1..MaxPerOrder, Pricing!Update(p, quantity)
      PROVE  PricingInv'
  BY <1>6, UpdateLineKeeps
<1>7. ASSUME NEW s \in Sellables, NEW p, Pricing!Add(s, p)
      PROVE  PricingInv'
  BY <1>7, AddKeeps
<1>8. ASSUME NEW s \in Sellables, Pricing!ToggleSellable(s) \/ \E row \in StockRows : Pricing!Restock(s, row)
      PROVE  PricingInv'
  BY <1>8, ToggleSellableKeeps, RestockKeeps
<1>9. ASSUME NEW code \in Codes, Pricing!ApplyCoupon(code) \/ \E rate \in Rates : Pricing!SetRate(code, rate)
      PROVE  PricingInv'
  BY <1>9, ApplyCouponKeeps, SetRateKeeps
<1>10. CASE Pricing!RemoveCoupon \/ Pricing!Lapse
  BY <1>10, RemoveCouponKeeps, LapseKeeps
<1> QED
  BY <1>1, <1>2, <1>3, <1>4, <1>5, <1>6, <1>7, <1>8, <1>9, <1>10, Zenon DEF PricesMove

\* Whatever the catalogue, the stock, the cart and the coupon's rate are at first and become, a
\* quote that lets the shopper proceed is honoured, and what is charged was agreed to
\* (model/cart-quote.ts, model/start.ts, api/backend/start.ts).
THEOREM PricesAreHonoured == Pricing!PricingSpec => [](Pricing!QuoteIsHonoured /\ Pricing!ChargedAsAgreed)
<1>1. Pricing!PricingInit => PricingInv
  BY PricesAtFirst
<1>2. PricingInv /\ [Pricing!PricingNext]_(Pricing!priceVars) => PricingInv'
  <2>1. \A s : Pricing!OnSale(s) \cup {Pricing!AnyPrice} \subseteq Prices \cup {Pricing!AnyPrice}
    BY DEF Pricing!OnSale
  <2>2. \A s : (\E p \in Pricing!OnSale(s) \cup {Pricing!AnyPrice} : Pricing!Add(s, p))
                => \E p \in Prices \cup {Pricing!AnyPrice} : Pricing!Add(s, p)
    BY <2>1
  <2>3. Pricing!PricingNext => PricesMove
    BY <2>2, Zenon DEF Pricing!PricingNext, PricesMove
  <2> QED
    BY <2>3, PricesMoveKeeps, PricesUnchanged
<1>3. PricingInv => Pricing!QuoteIsHonoured /\ Pricing!ChargedAsAgreed
  BY QuoteHonoured DEF PricingInv
<1> QED
  BY <1>1, <1>2, <1>3, PTL DEF Pricing!PricingSpec

----------------------------------------------------------------------------
(* The purchase: its aspects side by side *)

\* The invariant of the purchase: that of its events, or of its prices, when they are what is
\* looked at.
PurchaseInv ==
  /\ aspect \in {"documents", "amounts", "events"}
  /\ InEvents => EventsInv
  /\ InPricing => PricingInv

\* A step of the documents says nothing of the events, nor of the prices.
LEMMA OtherAspectKeeps ==
  ASSUME PurchaseInv, InCheckout, aspect' = aspect
  PROVE  PurchaseInv'
BY DEF PurchaseInv, InCheckout, InPricing, InEvents

\* A step of the aspect of the events that keeps their invariant.
LEMMA EventAspectKeeps ==
  ASSUME PurchaseInv, InEvents, OnlyEvents, EventsInv'
  PROVE  PurchaseInv'
BY DEF PurchaseInv, OnlyEvents, InEvents, InPricing

\* A step of the aspect of the prices that keeps theirs.
LEMMA PricingAspectKeeps ==
  ASSUME PurchaseInv, InPricing, OnlyPricing, PricingInv'
  PROVE  PurchaseInv'
BY DEF PurchaseInv, OnlyPricing, InEvents, InPricing

\* A step of a purchase is one of the documents, of the prices, or of the events.
LEMMA StepOfAnAspect ==
  ASSUME PurchaseNext
  PROVE  \/ InCheckout /\ aspect' = aspect
         \/ InPricing /\ OnlyPricing /\ PricesMove
         \/ /\ InEvents /\ OnlyEvents
            /\ \/ \E e \in Provided!Events : EventStep(e)
               \/ Provided!Make
               \/ Provided!Purge
               \/ \E status \in {"succeeded", "requires_action", "requires_payment_method"} :
                    Provided!StoreCheckout(status)
               \/ \E lock \in locks : Provided!ExpireLock(lock)
<1>1. OnlyCheckout => aspect' = aspect
  BY DEF OnlyCheckout
<1>2. Pricing!AnyPrice = "any"
  BY DEF Pricing!AnyPrice
<1> QED
  BY <1>1, <1>2, Zenon DEF PurchaseNext, InEvent, EventStep, PricesMove

\* A step of a purchase keeps the invariant.
LEMMA PurchaseStep ==
  ASSUME PurchaseInv, [PurchaseNext]_<<aspect, vars, priceVars, eventVars>>
  PROVE  PurchaseInv'
<1>1. CASE UNCHANGED <<aspect, vars, priceVars, eventVars>>
  <2>1. aspect' = aspect /\ UNCHANGED Provided!eventVars /\ UNCHANGED Pricing!priceVars
    BY <1>1 DEF eventVars, Provided!eventVars, priceVars, Pricing!priceVars
  <2>2. (InEvents => EventsInv') /\ (InPricing => PricingInv')
    BY <2>1, UnchangedKeeps, PricesUnchanged DEF PurchaseInv
  <2> QED
    BY <2>1, <2>2 DEF PurchaseInv, InEvents, InPricing
<1>2. CASE InCheckout /\ aspect' = aspect
  BY <1>2, OtherAspectKeeps
<1>4. CASE InPricing /\ OnlyPricing /\ PricesMove
  <2>1. PricingInv'
    BY <1>4, PricesMoveKeeps DEF PurchaseInv
  <2> QED
    BY <1>4, <2>1, PricingAspectKeeps
<1>3. ASSUME InEvents, OnlyEvents,
             \/ \E e \in Provided!Events : EventStep(e)
             \/ Provided!Make
             \/ Provided!Purge
             \/ \E status \in {"succeeded", "requires_action", "requires_payment_method"} :
                  Provided!StoreCheckout(status)
             \/ \E lock \in locks : Provided!ExpireLock(lock)
      PROVE  PurchaseInv'
  <2>1. EventsInv
    BY <1>3 DEF PurchaseInv
  <2>2. EventsInv'
    BY <1>3, <2>1, EventStepKeeps, MakeKeeps, PurgeKeeps, StoreCheckoutKeeps, ExpireLockKeeps, Zenon
  <2> QED
    BY <1>3, <2>2, EventAspectKeeps
<1> QED
  BY <1>1, <1>2, <1>3, <1>4, StepOfAnAspect

\* A purchase begins in it.
LEMMA PurchaseAtFirst ==
  ASSUME PurchaseInit
  PROVE  PurchaseInv
BY AtFirst, PricesAtFirst DEF PurchaseInit, PurchaseInv

\* The invariant of the purchase holds always.
LEMMA PurchaseHolds == PurchaseSpec => []PurchaseInv
<1>1. PurchaseInit => PurchaseInv
  BY PurchaseAtFirst
<1>2. PurchaseInv /\ [PurchaseNext]_<<aspect, vars, priceVars, eventVars>> => PurchaseInv'
  BY PurchaseStep
<1> QED
  BY <1>1, <1>2, PTL DEF PurchaseSpec

\* The events of one purchase find its order and reach it, whatever may happen to a purchase
\* at Stripe, in whatever order the events come, are replayed, purged and given up
\* (webhooks/ingest.ts, webhooks/shared.ts).
THEOREM EventsFindAndReachTheirOrder == PurchaseSpec => []EventsReachTheirOrder
<1>1. PurchaseInv => EventsReachTheirOrder
  BY EventsReach DEF PurchaseInv, EventsReachTheirOrder
<1> QED
  BY <1>1, PurchaseHolds, PTL

\* A quote that lets the shopper proceed is honoured by a start: the two judge lines, limits,
\* stock and coupon in code of their own and agree (model/cart-quote.ts, model/start.ts).
THEOREM QuotesAreHonoured == PurchaseSpec => []QuoteIsHonoured
<1>1. PurchaseInv => QuoteIsHonoured
  BY QuoteHonoured DEF PurchaseInv, PricingInv, QuoteIsHonoured
<1> QED
  BY <1>1, PurchaseHolds, PTL

\* The provider charges what the shopper agreed to: the cart that was claimed, and for a
\* delegated payment the quote that was authorized (api/backend/start.ts).
THEOREM ChargesAreAgreedTo == PurchaseSpec => []ChargedAsAgreed
<1>1. PurchaseInv => ChargedAsAgreed
  BY DEF PurchaseInv, PricingInv, ChargedAsAgreed
<1> QED
  BY <1>1, PurchaseHolds, PTL
=============================================================================
