--------------------------- MODULE ProviderEvents ---------------------------
(***************************************************************************)
(* The events that Stripe makes of one purchase: what the adapter reads    *)
(* out of them, the lock, the checkout and the order they find by the ids  *)
(* they carry, what they change, and the form in which they are stored and *)
(* replayed.                                                               *)
(*                                                                         *)
(* A purchase is paid in a hosted session, by a hosted subscription or by  *)
(* a delegated payment intent.  Its events name different objects (the     *)
(* session, the intent, the invoice, the charge), arrive in any order      *)
(* after they were made and again, and before the checkout is stored.      *)
(* One handler at a time works on an event; the lease, the answer to the   *)
(* provider and the order's lines are in PaymentWebhook.tla.               *)
(***************************************************************************)
EXTENDS Integers, Sequences, SequencesExt

CONSTANTS
  Stories,     \* what may happen to a purchase at Stripe
  OrderTotal,       \* the amount of the order
  MaxTroubles  \* bound: calls that throw, handlers that die, locks that expire

VARIABLES
  story,     \* the way the purchase is paid, and its events in order
  made,      \* how many of the events Stripe has made
  checkout,  \* the status of the checkout document
  order,     \* the order document
  hooks,     \* the webhook document of each event
  locks,     \* the subject locks that are held, with their owners
  work,      \* what the handler of each event remembers
  troubles,
  late       \* history: a lock expired while its owner was at work

eventVars == <<story, made, checkout, order, hooks, locks, work, troubles, late>>

None == "none"
Nothing == [nothing |-> TRUE]
NoOrder == [status |-> None]
Idle == [step |-> "idle"]
Unknown == [status |-> "unknown"]

Events == DOMAIN story.events
Type(e) == story.events[e].type

EventsInit ==
  /\ story \in Stories /\ made = 0
  /\ checkout = None /\ order = NoOrder
  /\ hooks = [e \in Events |-> [status |-> None, normalized |-> Nothing, raw |-> Nothing]]
  /\ locks = {} /\ work = [e \in Events |-> Idle]
  /\ troubles = 0 /\ late = FALSE

----------------------------------------------------------------------------
(* What Stripe says, and what the adapter reads out of it.  A field that   *)
(* is undefined is not in the domain of the record.                        *)

Failures == {"payment_intent.payment_failed", "checkout.session.async_payment_failed",
             "checkout.session.expired", "invoice.payment_failed"}
Reversals == {"charge.refunded", "invoice.marked_uncollectible"}
SessionEvents == {"checkout.session.completed", "checkout.session.async_payment_succeeded",
             "checkout.session.async_payment_failed", "checkout.session.expired"}
IntentEvents == {"payment_intent.succeeded", "payment_intent.payment_failed"}
InvoiceEvents == {"invoice.paid", "invoice.payment_failed", "invoice.marked_uncollectible"}

\* The modules that use this one assume it.
EventsAssumption ==
  /\ OrderTotal \in Nat \ {0}
  /\ \A s \in Stories :
       /\ s.paid \in {"session", "subscription", "intent"}
       /\ s.events \in Seq([type : STRING, paid : BOOLEAN, amount : 0..OrderTotal])
       /\ \A e \in DOMAIN s.events : \* only a subscription has invoices
            s.events[e].type \in InvoiceEvents => s.paid = "subscription"

\* A record with fields that it has on a condition only.
With(record, condition, more) ==
  [f \in DOMAIN record \cup (IF condition THEN DOMAIN more ELSE {}) |->
     IF f \in DOMAIN record THEN record[f] ELSE more[f]]

\* The object of an event.  A session has a payment intent once it was submitted, and a
\* subscription's session never; the charge and the invoice always name theirs.
Object(e) ==
  With([id |-> CASE Type(e) \in SessionEvents -> "cs" [] Type(e) \in IntentEvents -> "pi"
                 [] Type(e) \in InvoiceEvents -> "in" [] OTHER -> "ch"],
       /\ Type(e) \notin IntentEvents \cup {"checkout.session.expired"}
       /\ Type(e) \in SessionEvents => story.paid # "subscription",
       [payment_intent |-> "pi"])

stripeObjectId(object, field, otherwise) ==
  IF field \in DOMAIN object THEN object[field] ELSE otherwise

Intent(object) == stripeObjectId(object, "payment_intent", object.id)

stripePaymentFailureEvent(e) ==
  LET object == Object(e)
      isCheckoutSession == Type(e) \in SessionEvents
      identified == [status |-> "failed", type |-> Type(e),
                     order |-> IF Type(e) \in InvoiceEvents THEN object.id ELSE Intent(object)]
  IN  With(With(identified, isCheckoutSession, [checkout |-> object.id]),
           isCheckoutSession => "payment_intent" \in DOMAIN object, [payment |-> Intent(object)])

stripePaymentReversalEvent(e) ==
  LET object == Object(e)
      amount == story.events[e].amount
      whole == Type(e) # "charge.refunded" \/ amount >= OrderTotal
  IN  With([status |-> IF whole THEN "refunded" ELSE "partially_refunded", type |-> Type(e),
            payment |-> Intent(object), order |-> Intent(object)],
           Type(e) = "charge.refunded", [amount |-> amount])

stripeInvoicePaid(e) ==
  LET object == Object(e)
  IN  [status |-> "paid", type |-> Type(e), payment |-> Intent(object), order |-> object.id,
       subscription |-> "sub"]

stripeIntentSucceeded(e) ==
  [status |-> "paid", type |-> Type(e), checkout |-> "pi", payment |-> "pi", order |-> "pi"]

stripeSessionPaid(e) ==
  LET object == Object(e)
  IN  With([status |-> "paid", type |-> Type(e), checkout |-> object.id, order |-> Intent(object)],
           "payment_intent" \in DOMAIN object, [payment |-> Intent(object)])

stripeInvoiceEventIsPaid(e) == Type(e) = "invoice.paid"

stripeCheckoutSessionIsPaid(e) == story.events[e].paid

\* A session that is submitted and not yet paid says nothing.
parseStripeWebhookEvent(e) ==
  CASE Type(e) \in Failures -> stripePaymentFailureEvent(e)
    [] Type(e) \in Reversals -> stripePaymentReversalEvent(e)
    [] stripeInvoiceEventIsPaid(e) -> stripeInvoicePaid(e)
    [] Type(e) = "payment_intent.succeeded" -> stripeIntentSucceeded(e)
    [] \/ Type(e) = "checkout.session.async_payment_succeeded"
       \/ Type(e) = "checkout.session.completed" /\ stripeCheckoutSessionIsPaid(e)
       -> stripeSessionPaid(e)
    [] OTHER -> Unknown

stripeCheckoutStatus(session) ==
  IF session.payment_status = "paid" \/ session.status = "complete" THEN "completed"
  ELSE IF session.status = "expired" THEN "expired"
  ELSE IF session.status = "open" THEN (IF session.url THEN "redirected" ELSE "created")
  ELSE "pending"

stripePaymentIntentStatus(status) ==
  CASE status = "succeeded" -> "completed"
    [] status = "canceled" -> "cancelled"
    [] status = "requires_payment_method" -> "failed"
    [] OTHER -> "pending"

checkoutDocumentStatus(status) == IF status = "pending" THEN "created" ELSE status

Created == [status |-> "open", payment_status |-> "unpaid", url |-> TRUE]

\* A session is created open; an intent is confirmed at once, and tells how that went.
StartedAs(status) ==
  checkoutDocumentStatus(IF story.paid = "intent" THEN stripePaymentIntentStatus(status)
                         ELSE stripeCheckoutStatus(Created))

----------------------------------------------------------------------------
(* The stored form of an event *)

\* The fields the two JSON forms name, and those that a replay reads back.
StoredFields == {"status", "type", "checkout", "payment", "order", "subscription", "amount"}
ReplayedFields == {"status", "type", "checkout", "payment", "order", "subscription", "amount"}

webhookEventToJson(event) == [f \in DOMAIN event \cap StoredFields |-> event[f]]

createWebhookDocument(event) ==
  [status |-> "received", normalized |-> webhookEventToJson(event),
   raw |-> webhookEventToJson(event)]

storedWebhookEvent(hook) ==
  LET payload == IF hook.normalized # Nothing THEN hook.normalized ELSE hook.raw
  IN  [f \in DOMAIN payload \cap ReplayedFields |-> payload[f]]

webhookRawPayloadIsPurgeable(hook) ==
  hook.raw # Nothing /\ (hook.status = "processed" \/ hook.normalized # Nothing)

----------------------------------------------------------------------------
(* Steps of a handler *)

At(e, step) == work[e].step = step
Has(e, field) == field \in DOMAIN work[e].event
Field(e, field) == work[e].event[field]
Optional(e, field) == IF Has(e, field) THEN Field(e, field) ELSE None
IsReversal(event) == event.status \in {"refunded", "partially_refunded"}

Go(e, step) == work' = [work EXCEPT ![e].step = step]
GoWith(e, step, copy) == work' = [work EXCEPT ![e].step = step, ![e].order = copy]

\* Seeded fault: the session's own id goes before the payment's.
LockByCheckout(event) ==
  IF "checkout" \in DOMAIN event THEN <<"checkout", event.checkout>>
  ELSE IF "payment" \in DOMAIN event THEN <<"payment", event.payment>>
  ELSE <<"order", event.order>>

paymentWebhookLockTarget(event) ==
  IF "payment" \in DOMAIN event THEN <<"payment", event.payment>>
  ELSE IF "order" \in DOMAIN event THEN <<"order", event.order>>
  ELSE <<"checkout", event.checkout>>

Holds(e, lock) == lock.owner = e
Release(e) == locks' = {lock \in locks : ~Holds(e, lock)}

\* The webhook is put with its new status, over the document that was read at first.
Ends(e, status) ==
  /\ hooks' = [hooks EXCEPT ![e].status = status]
  /\ work' = [work EXCEPT ![e] = Idle]
  /\ Release(e)

\* processStoredWebhook: what is unpaid needs no lock, but for the end of a session; under
\* a lock that is held the webhook stays as it is.
Process(e, event) ==
  LET subject == paymentWebhookLockTarget(event)
      Begin(step) == work' = [work EXCEPT ![e] = [step |-> step, event |-> event, order |-> NoOrder]]
      unlocked == event.status = "failed" /\ event.type # "checkout.session.expired"
      first == IF event.status = "failed" THEN "expire" ELSE "find"
  IN  IF event = Unknown THEN UNCHANGED <<locks, work>>
      ELSE IF unlocked THEN Begin("refuse") /\ UNCHANGED locks
      ELSE IF \E lock \in locks : lock.subject = subject THEN UNCHANGED <<locks, work>>
      ELSE locks' = locks \cup {[subject |-> subject, owner |-> e]} /\ Begin(first)

findWebhookDuplicate(e) == hooks[e].status

\* What is neither a payment nor a subscription is not processed again.
webhookDuplicateCanReprocess(e) ==
  parseStripeWebhookEvent(e) # Unknown /\ findWebhookDuplicate(e) \in {"received", "failed"}

\* A delivery: a new event is stored, one that is received or failed is processed again.
Receive(e) ==
  /\ e <= made /\ At(e, "idle")
  /\ findWebhookDuplicate(e) = None \/ webhookDuplicateCanReprocess(e)
  /\ hooks' = IF findWebhookDuplicate(e) = None
              THEN [hooks EXCEPT ![e] = createWebhookDocument(parseStripeWebhookEvent(e))] ELSE hooks
  /\ Process(e, parseStripeWebhookEvent(e))
  /\ UNCHANGED <<story, made, checkout, order, troubles, late>>

\* A replay by maintenance or an administrator.
Replay(e) ==
  /\ At(e, "idle") /\ hooks[e].status \in {"received", "failed"}
  /\ Process(e, storedWebhookEvent(hooks[e]))
  /\ UNCHANGED <<story, made, checkout, order, hooks, troubles, late>>

FoundBy(e, field) == Has(e, field) /\ order # NoOrder /\ order[field] = Field(e, field)

\* By the payment, else by the order at Stripe, else by the session.
findExistingPaymentOrder(e) == \E field \in {"payment", "order", "checkout"} : FoundBy(e, field)

reversalHasStrongOrderIdentity(event) == {"payment", "order"} \cap DOMAIN event # {}

Find(e) ==
  LET event == work[e].event
      found == findExistingPaymentOrder(e)
  IN  /\ At(e, "find")
      /\ IF ~IsReversal(event)
         THEN IF found THEN GoWith(e, "update", order) ELSE Go(e, "link")
         ELSE IF ~found
         THEN Go(e, IF reversalHasStrongOrderIdentity(event) THEN "refuse" ELSE "mark")
         ELSE IF order.status = "refunded" THEN Go(e, "mark")
         ELSE IF event.status = "partially_refunded" /\ ~Has(e, "amount") THEN Go(e, "refuse")
         ELSE GoWith(e, "reverse", order)
      /\ UNCHANGED <<story, made, checkout, order, hooks, locks, troubles, late>>

CheckoutId == IF story.paid = "intent" THEN "pi" ELSE "cs"

findPaymentEventCheckout(e) == checkout # None /\ Has(e, "checkout") /\ Field(e, "checkout") = CheckoutId

Link(e) ==
  /\ At(e, "link")
  /\ Go(e, IF findPaymentEventCheckout(e) THEN "create"
           ELSE IF Has(e, "subscription") THEN "mark" ELSE "refuse")
  /\ UNCHANGED <<story, made, checkout, order, hooks, locks, troubles, late>>

\* The aggregate names the payment as the document does.
createOrderAggregate(e) ==
  <<[checkout |-> CheckoutId, payment |-> Optional(e, "payment"), order |-> Optional(e, "order")]>>

createPaymentOrderDocument(e) ==
  [status |-> "paid", checkout |-> Field(e, "checkout"), payment |-> Optional(e, "payment"),
   order |-> Optional(e, "order"), reversed |-> 0, refs |-> createOrderAggregate(e)]

\* There is one order of a checkout session: it is found, or the put of a second one is
\* refused by the unique index and the first is read and updated.
Create(e) ==
  /\ At(e, "create")
  /\ IF order # NoOrder
     THEN GoWith(e, "update", order) /\ UNCHANGED order
     ELSE /\ order' = createPaymentOrderDocument(e)
          /\ GoWith(e, "complete", createPaymentOrderDocument(e))
  /\ UNCHANGED <<story, made, checkout, hooks, locks, troubles, late>>

FirstKnown(known, new) == IF known = None THEN new ELSE known

mergePaymentProviderRefs(copy, e) ==
  LET id == IF Has(e, "checkout") THEN Field(e, "checkout") ELSE copy.checkout
      Fits(ref) == \/ ref.checkout = id
                   \/ Has(e, "payment") /\ ref.payment = Field(e, "payment")
                   \/ Has(e, "order") /\ ref.order = Field(e, "order")
      index == SelectInSeq(copy.refs, Fits)
      existing == IF index > 0 THEN copy.refs[index]
                  ELSE [checkout |-> None, payment |-> None, order |-> None]
      merged == [checkout |-> FirstKnown(existing.checkout, id),
                 payment |-> FirstKnown(existing.payment, Optional(e, "payment")),
                 order |-> FirstKnown(existing.order, Optional(e, "order"))]
  IN  IF index > 0 THEN [copy.refs EXCEPT ![index] = merged] ELSE Append(copy.refs, merged)

applyPaymentEventToOrder(copy, e, refs) ==
  [copy EXCEPT !.payment = FirstKnown(@, Optional(e, "payment")),
               !.order = FirstKnown(@, Optional(e, "order")),
               !.refs = refs]

updatePaymentOrderFromEvent(copy, e) ==
  applyPaymentEventToOrder(copy, e, mergePaymentProviderRefs(copy, e))

\* A refunded order is not fulfilled; the others complete their checkout.
Update(e) ==
  LET updated == updatePaymentOrderFromEvent(work[e].order, e)
  IN  /\ At(e, "update")
      /\ order' = updated
      /\ GoWith(e, IF updated.status = "refunded" THEN "mark" ELSE "complete", updated)
      /\ UNCHANGED <<story, made, checkout, hooks, locks, troubles, late>>

Complete(e) ==
  /\ At(e, "complete")
  /\ checkout' = IF checkout = None THEN None ELSE "completed"
  /\ Go(e, "mark")
  /\ UNCHANGED <<story, made, order, hooks, locks, troubles, late>>

applyOrderRefund(copy, e) ==
  LET added == Field(e, "amount") - copy.reversed
      reversed == IF work[e].event.status = "refunded" THEN OrderTotal
                  ELSE copy.reversed + (IF added > 0 THEN added ELSE 0)
  IN  [copy EXCEPT !.reversed = reversed,
                   !.status = IF reversed = OrderTotal THEN "refunded" ELSE "partially_refunded"]

Refund(e) ==
  /\ At(e, "reverse")
  /\ order' = applyOrderRefund(work[e].order, e)
  /\ Go(e, "mark")
  /\ UNCHANGED <<story, made, checkout, hooks, locks, troubles, late>>

\* A session that ended unpaid: expireCheckoutDocument leaves a settled or ended checkout.
Expire(e) ==
  /\ At(e, "expire")
  /\ Go(e, IF findPaymentEventCheckout(e) THEN "mark" ELSE "refuse")
  /\ checkout' = IF findPaymentEventCheckout(e) /\ checkout \in {"created", "redirected"}
                 THEN "expired" ELSE checkout
  /\ UNCHANGED <<story, made, order, hooks, locks, troubles, late>>

Mark(e) ==
  /\ At(e, "mark") /\ Ends(e, "processed")
  /\ UNCHANGED <<story, made, checkout, order, troubles, late>>

Refuse(e) ==
  /\ At(e, "refuse") /\ Ends(e, "failed")
  /\ UNCHANGED <<story, made, checkout, order, troubles, late>>

----------------------------------------------------------------------------
(* The rest of the world *)

Make ==
  /\ made < Len(story.events) /\ made' = made + 1
  /\ UNCHANGED <<story, checkout, order, hooks, locks, work, troubles, late>>

\* checkout.start stores what Stripe answered; nothing is stored of a payment that failed.
StoreCheckout(status) ==
  /\ checkout = None /\ StartedAs(status) # "failed"
  /\ checkout' = StartedAs(status)
  /\ UNCHANGED <<story, made, order, hooks, locks, work, troubles, late>>

\* purgeWebhookRawPayloads, with a cutoff that all events so far have passed.
Purge ==
  /\ hooks' = [e \in Events |-> IF webhookRawPayloadIsPurgeable(hooks[e])
                                THEN [hooks[e] EXCEPT !.raw = Nothing] ELSE hooks[e]]
  /\ UNCHANGED <<story, made, checkout, order, locks, work, troubles, late>>

Trouble == troubles < MaxTroubles /\ troubles' = troubles + 1

\* A call throws: a payment's event is marked failed, a session's end stays received.
Throw(e) ==
  /\ Trouble /\ ~At(e, "idle")
  /\ Ends(e, IF At(e, "expire") THEN hooks[e].status ELSE "failed")
  /\ UNCHANGED <<story, made, checkout, order, late>>

Die(e) ==
  /\ Trouble /\ ~At(e, "idle")
  /\ work' = [work EXCEPT ![e] = Idle]
  /\ UNCHANGED <<story, made, checkout, order, hooks, locks, late>>

\* A lock ends after five minutes: that of a dead handler, or of one that is still at work.
ExpireLock(lock) ==
  /\ lock \in locks /\ locks' = locks \ {lock}
  /\ IF At(lock.owner, "idle") THEN UNCHANGED <<troubles, late>> ELSE Trouble /\ late' = TRUE
  /\ UNCHANGED <<story, made, checkout, order, hooks, work>>

----------------------------------------------------------------------------
(* Properties *)

\* The events of a subscription's invoices name nothing that its order has.
Traced(e) == story.paid # "subscription" \/ Type(e) \in SessionEvents

\* An event that has found no order has missed none: no other event of the purchase makes
\* one meanwhile, for they all have one lock (shared.ts, paymentWebhookLockTarget).
EventsFindTheirOrder ==
  \A e \in Events :
    /\ ~late /\ Traced(e)
    /\ At(e, "link") \/ At(e, "create") \/ (At(e, "refuse") /\ IsReversal(work[e].event))
    => order = NoOrder

\* What an event that counts as processed has left.  A refund that comes before the checkout
\* is completed lets nobody complete it.
Effect(e) ==
  CASE Type(e) \in Reversals -> order # NoOrder /\ order.reversed >= story.events[e].amount
    [] Type(e) = "checkout.session.expired" -> checkout \notin {None, "created", "redirected"}
    [] Type(e) = "invoice.paid" -> TRUE
    [] OTHER -> order # NoOrder /\ (checkout = "completed" \/ order.status = "refunded")

Refunded == {story.events[e].amount : e \in {f \in 1..made : Type(f) \in Reversals}}

\* An event that counts as processed has reached the order, of which no more is given back
\* than Stripe said, and which names its payment once (ingest.ts, shared.ts).
ProcessedHasEffect ==
  ~late => /\ \A e \in Events : hooks[e].status = "processed" => Effect(e)
           /\ order # NoOrder => /\ order.reversed \in Refunded \cup {0}
                                 /\ Len(order.refs) = 1

\* The events of one purchase find its order, and reach it.
EventsReachTheirOrder == EventsFindTheirOrder /\ ProcessedHasEffect
=============================================================================
