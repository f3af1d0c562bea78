# A TLA+ model of the Mika commerce backend

Mika is the backend of a shop as a plugin: carts, checkout, stock reservations,
payment webhooks, orders and their fulfilment, refunds, an e-mail outbox,
subscriptions, account deletion and agentic checkout sessions. It runs as
independent requests over a SQL database, without a process that outlives a
request. What can go wrong in it goes wrong between two `await`s: another
request writes the document that was read, the process dies, a lease ends, the
provider delivers an event again.

This directory holds TLA+ modules that model those parts, TLC configurations
that check them on small instances, and proofs that TLAPS checks for every
instance. All paths below are under `src/src/` unless they say otherwise.

## The system

### How state is kept

| Store | What is atomic | Written by |
| --- | --- | --- |
| `mika_stock_items`, `mika_stock_events` | one repository operation: one SQL transaction (`storage/repositories/stock.ts`, `withTransaction`) | checkout, cancel, expiry, webhooks, the maintenance sweep, administrators |
| documents (cart, checkout, order, webhook, workflow, e-mail, ...) | `update(id, f)` is atomic; `put` overwrites what is there, and throws when a unique index is violated (`storage/collections.ts`, `storage/repositories/kit.ts`) | everything |
| ephemeral records (locks, tokens) | one conditional statement (`storage/repositories/ephemeral.ts`) | webhooks, carts, tokens |
| agentic sessions and claims | one call of the session store (`acp/session-store.ts`) | the agent's requests |
| the payment provider | outside | `checkout.start`, administrators, subscription actions; it answers with events |

Two kinds of writer matter: those that check (a version, a lease key, a
status, a unique index), and those that `put` what they read earlier.

### Components

| Component | State | Operations | What makes it correct | Hard because |
| --- | --- | --- | --- | --- |
| Stock (`storage/repositories/stock.ts`, `statements.ts`) | two counters per item, an event row per reservation or movement | reserve, release, expire, consume, sweep, extend, release by customer, adjust, redefine | counters equal what the rows say; no unit promised twice; no row ends twice | counters and rows are written by different statements; consumption after expiry; redefinition under open reservations |
| Checkout (`api/backend/checkout/`) | cart claim, checkout document, reservations, provider session | start, cancel, expire, reopen, complete | who may still pay finds the goods; failures and crashes give units and cart back; a paid checkout stays paid | a start makes nine calls, one to the provider; every failure has its own clean-up; claims and reservations end by time |
| Pricing (`quote.ts`, `checkout/preview.ts`, `checkout/start.ts`, `model/builders.ts`) | catalogue, stock rows, coupon, the quote of a request | quote, preview, resolve, prove, dispatch | what is charged is what was claimed and agreed; a valid quote can be started | every read is at its own moment; quote and start judge in code of their own |
| Cart and wishlist (`cart.ts`, `wishlist.ts`, `repositories/session.ts`) | cart document with version, wishlist with version, lock on the first cart | add, update, remove, coupon, merge, move to cart, save for later | one cart per owner, no unit lost or doubled | version checks next to blind puts; a merge and a move write two documents |
| Webhooks (`api/backend/webhooks/`) | webhook document, subject lock, workflow | receive, process, mark, replay, purge | what is answered or marked is done; what failed is done later | redelivery, duplicates, two events about one payment |
| Stripe adapter (`stripe/`) | none; it decides which ids an event carries | parse an event, map a status | the events of one purchase meet one order under one lock | session, intent, invoice and charge name each other only partly |
| Orders (`fulfillment.ts`, `lifecycle.ts`, `payment-event.ts`) | order, entitlements, licences | create, fulfil per line, refund, cancel, revoke | fulfilled once; refunds add up; revoked access stays revoked | the order is put after each line from memory; administrators take no lock |
| Workflow engine (`workflow-runner.ts`, `repositories/ops.ts`) | workflow document with lease, attempts and steps | lease, start/complete/fail step, complete, fail, reclaim | a runner that lost its lease writes nothing more; every workflow ends; the customer is told once | a runner may outlive its lease or die at any step |
| E-mail outbox (`email-outbox.ts`) | e-mail document with lease and attempts | lease, send, complete, fail, skip, recover, redact, resend | bounded sends, nothing queued for ever, verdicts stay | the send is not transactional |
| Administrator's audit (`admin-audit.ts`) | audit document, unique per action and key | claim, reclaim, complete, fail, replay | one execution per key unless it failed | two requests, one key |
| Subscriptions (`subscriptions.ts`, `webhooks/payment/subscription.ts`) | subscription, entitlement | cancel, renew, change, provider event | an older event changes nothing; an ended one stays ended | events out of order, two writers |
| Account deletion (`account.ts`, `maintenance.ts`) | the request and its recorded steps | ask, run a step, record it, complete, give up | a deletion ends complete and is not given up half way | failures between steps, writers with old copies |
| Agentic sessions (`acp/`) | session record with version, idempotency claims with fencing tokens | create, update, complete, cancel, get, clean up | one completion per session, a payment never lost to an expiry | slow completion against polls and cancels |
| Tokens and magic link (`tokens.ts`, `magic-link.ts`, `repositories/ephemeral.ts`) | ephemeral token, download pointer | mint, present, consume, restore, reuse, purge | one use | a failure after the use |

The rest is adapters without shared state: operation tables and validation,
routes, identity, text and layout. `PROJECT.json` lists every component with the
reason when it is not modelled, and every hazard with its line.

### How they interact

`checkout.start` prices the cart, claims it, reserves stock, opens a provider
session and stores the checkout. The customer pays at the provider, which
delivers a webhook until it is answered 200. The adapter decides which ids the
event carries. The webhook takes the lock on the payment (or the order, or the
checkout), leases a workflow, creates the order, completes the checkout,
converts the cart, consumes the reservations, grants entitlements line by line,
tells the customer under two markers, and marks the webhook processed. A refund
event takes the same lock. An administrator's refund or cancellation does not.
Maintenance releases expired reservations, replays the workflows that are due,
runs the outbox and the queued account deletions and purges raw payloads. A
returning shopper reopens an abandoned cart as a side effect of reading it.

## The modules

| Module | Models | Builds on |
| --- | --- | --- |
| `UnitCount` | the sum of quantities over a set, without recursion | - |
| `Sums` | the same for naturals without a bound | - |
| `Inventory` | abstract: a ledger of holds and movements, no counters | `UnitCount` |
| `Stock` | the stock repository; implements `Inventory` | `UnitCount`, `Inventory` |
| `Checkout` | start, cancel, expiry, reopening, payment of one cart, call by call; uses stock by `Inventory`'s rules | `Inventory` (as the ledger its holds must follow) |
| `Pricing` | what a purchase costs, from catalogue to provider | `Sums` |
| `PaymentWebhook` | webhooks, lock, workflow, order, access of one payment; administrators | - |
| `ProviderEvents` | the events Stripe makes of one purchase, what they find and change | - |
| `Workflow` | the workflow engine, its replay by maintenance, the markers of the confirmation | - |
| `Subscription` | one subscription, its entitlement, events and actions | - |
| `Cart` | the carts and the wishlist of one shopper | `Sums` |
| `AcpSession` | agentic sessions over their store | - |
| `EmailOutbox`, `AccountDeletion`, `AdminAudit`, `CapabilityToken` | the component of that name | - |
| `MCStock`, `MCCheckout`, `MCPaymentWebhook`, `MCAcpSession`, `MCSubscription` | instances for TLC | the module of that name |
| `MCPurchase` | one instance of `Checkout`, `Pricing` and `ProviderEvents` side by side | `MCCheckout`, the others |
| `MCServices` | one instance of `Subscription`, `Cart`, `AdminAudit`, `CapabilityToken` and `Workflow` side by side | `MCSubscription`, the others |
| `MCMaintenance` | one instance of `EmailOutbox`, `AccountDeletion` and `Workflow` side by side | the three |
| `StockProofs` | theorems | `UnitCount`, `Stock` |
| `CheckoutProofs`, `AcpSessionProofs`, `PaymentWebhookProofs` | theorems | the module of that name |
| `PurchaseProofs` | theorems about `ProviderEvents` and `Pricing` | `MCPurchase` |
| `ServicesProofs` | theorems about `Subscription`, `AdminAudit`, `CapabilityToken` and `Cart` | `MCServices` |
| `WorkflowProofs` | theorems about `Workflow` | `MCServices` |
| `MaintenanceProofs` | theorems about `EmailOutbox` and `AccountDeletion` | `MCMaintenance` |

Side by side means: the first state chooses which part runs, and the others keep
one resting state. It is the disjoint sum of the state spaces, for parts that
wait for no document of each other, so that one run answers for several small
modules and has one fairness condition; a property of a part says nothing of the
states of another (`InPricing => ...`, or it holds there because the part rests).

Definitions under a comment "Seeded fault" (`LockByCheckout`, `EndAsDone`,
`PutCancelledBlindly`, ...) are altered copies of an operator of the model, used
to check that each property fails when the code is wrong in that way.
`PROJECT.json` maps every other definition to its lines. Every module has a type
invariant; those of `Stock`, `Checkout`, `AcpSession`, `PaymentWebhook` and
`Subscription` are proved, the others were checked while their module was developed and are kept out of the runs, which
are for the other properties.

### Stock

`items` is the table of counters, `events` the table of rows. One action per
repository operation (`Reserve`, `Release`, `Expire`, `Consume`,
`ReleaseExpiredReservations`, `ExtendReservations`,
`ReleaseActiveReservationsByCustomer`, `AdjustStock`, `PutItemDefinition`),
since each is one transaction; an answer that changes nothing (not found,
replayed, conflict, insufficient) is an action that is not enabled. The
statements of `statements.ts` are functions of an item row, with their WHERE
clauses as guards and `MAX(0, ...)` as `Clamp`. `loosened` is a history
variable: the items whose definition ever allowed overselling.

### Checkout

`cart`, `checkouts`, `holds` (the reservation rows, by checkout and line),
`provider` are the stores; `requests` is what each request in flight remembers,
the cart it read included. Every call to a store or to the provider is an
action, in the order of the code: `ClaimCart` (start.ts 397), `ReserveLine` per
line, `ProviderAnswers`, `Extend`, `PutCheckout`, `PutCart`, and the clean-up of
each failure (`ReleaseLine`, `ReleaseClaim`, `MarkCheckoutPersistenceFailed`).
Cancel and expiry expire the reservations before they write the status, and
write it only over `created` or `redirected` (`putCheckoutIfNotSettled`). Reopening
is one request that reads the cart, reads the checkout, expires the
reservations and puts the cart it read. The payment's part (complete the
checkout, convert the cart, consume each line) is that of the webhook.
`created` and `redirected` are one status here: no code tells them apart after
start. The provider answers with an open session, a paid one or a closed one: only the
answer `failed` ends a start (`start.ts:505`), a session that is cancelled, expired or
bound to something else is stored as ended (`Outcome`). `CleanUpFails` is a failure while
a failure is handled: a release, the claim or the mark `failed`; the last two are passed
over (`start.ts:993`, `start.ts:1019`). `Crash` is a death, or an error that nothing
catches. `slow` and `broken` (starts and cancels that broke off in one of these ways) are
history variables used by the properties only.

### Pricing

The merchant's catalogue (`prices`, `active`, `rows`, `rates`) and the shopper's
`cart` change between any two reads of the one request that is at work (`job`).
`Preview` quotes line after line (`QuoteLine`) and answers (`Show`);
`Start` resolves line after line (`ResolveLine`), applies limits, coupon and the
host's resolver (`Resolve`), compares with the quote (`Compare`), checks the
proof of a delegated payment against a second quote (`Prove`), and then goes on
to `Claim`, `Reserve`, and `Hosted` or `Delegated`, where the provider is told
what to charge. `charged` keeps what it was told, with the cart that was
claimed; `previewed` the last preview. `QuotedNow` and `StartedNow` are the same
operators run on one state, for the property that both agree. `drifted` records that
the catalogue or a coupon's rate changed since the start began; a charge keeps it. A coupon's rate is
in quarters; the Stripe adapter refuses a one-time line beside a subscription.

### PaymentWebhook

`webhooks`, `flows` (workflow documents), `lock`, `order`, `access` (the line's
entitlement), `checkout` are stores; `jobs` what a delivery or replay in flight
remembers; `admins` the same for an administrator's action. The order of the
actions is the order of the calls: `Deliver`/`Replay`, `Store` (the unique
index), `AcquireLock`, `LeaseWorkflow`, `FindOrder`, `PersistOrder`,
`CompleteCheckout`, per line `FulfilLine`, `GrantLine`, `RecordLine`,
`CloseOrder`, `PersistProgress`, `MarkProcessed`, `CompleteWorkflow`,
`ReleaseLock`. `Throw` is any call that rejects, `AfterThrow` where the code's
catch blocks go on; `Crash` is the death of the process; `ReleaseThrows` a lock
left behind.

`Conditions` names what an instance allows: `slow` (requests outlive the
300 s of lock and lease), `early` (the event precedes the checkout), `overlap`
(redelivery before the first answer), `same_instant` (two deliveries with the
same `ctx.now`, hence the same lock owner). Without `slow` the clock waits for
requests that would outlive their lock.

Simplifications, each with its reason:

- The attempt counter and backoff of a workflow are in `Workflow`: a replayable
  webhook forces the lease, and the runs have fewer faults than the five
  attempts `maxAttempts` allows.
- Creating and leasing a workflow is one action: the create is by a fixed id,
  and a creation without a lease leaves a document that any runner may lease.
- `completeWorkflowStep(A)` and `startWorkflowStep(B)` are taken with the last
  call of A; a lost lease shows in `LeaseEnds`, which is what either call
  reports.
- Order lines are entitlements. A licence is looked up, put and revoked the
  same way; a download or an external line leaves nothing to revoke.
- Converting the cart and consuming stock are in `Checkout` and `Stock`; here
  their failure is a `Throw`. The confirmation is in `Workflow`, which ids an
  event carries in `ProviderEvents`, subscription events in `Subscription`.

### ProviderEvents

`story` is what happens to one purchase at Stripe: how it is paid (hosted
session, hosted subscription, delegated intent) and its events in order. `hooks`
are the webhook documents, `checkout` and `order` the documents they find,
`locks` the subject locks, `work` the handlers. `parseStripeWebhookEvent` is the
adapter: which ids, status and amount it reads from a session, an intent, an
invoice or a charge. `paymentWebhookLockTarget`, `findExistingPaymentOrder`,
`findPaymentEventCheckout` and `reversalHasStrongOrderIdentity` say what those
ids lead to; `Create`, `Update`, `Complete`, `Refund` and `Expire` what is then
written, the provider references of the order included. `Make` makes the next
event at Stripe, `Receive` delivers one (again), `Replay` processes it from its
stored form, `Purge` drops raw payloads, `StoreCheckout` is the end of
`checkout.start`, which may come after the events. `Throw`, `Die` and
`ExpireLock` are the faults. One handler at a time works on one event.

### Workflow

`flows` are the workflow documents of the paid events of one order, `markers`
the two that let those events tell the customer once (`confirmed`, `download`),
with status, attempts, next attempt, lease key and end, and steps. The operators
`workflowIsDueForLease`, `tryLeaseWorkflow`, `workflowHasActiveLease`,
`workflowIsExhausted`, `nextWorkflowAttemptAt` are those of the repository and
its helpers. A handler goes through `StartFlow`, `BeginStep`, the work of the
step, `EndStep` and `CompleteFlow`; within `fulfill_order` it acquires each
marker (`AcquireMarker`), looks for an earlier e-mail, runs the hook (`Emit`),
queues the confirmation and completes the marker. `Catch` says which catch block
a call that throws leads to. `RetryDue`, `ReclaimFlow` and `ReclaimMarker` are
maintenance. `late` counts handlers that outlived their leases.

### Cart

One product, so a cart is a quantity, an owner, a version and the marks of the
wishlist items moved to it. A request looks for an open cart (`LookOpen`), then for one in
checkout (`LookPending`; one under the claim of a start blocks, unless the claim is over,
`LookPastClaim`), then at its checkout (`LookCheckout`): a completed one is answered as if
there were no cart (`NoneFound`), one that can be resumed blocks, and else the request puts
the copy it read, opened again, whatever became of the document (`PutReopened`). Without a
cart it makes a first one under the lock (`TryLock`, which looks again, `PutFirstCart`) or
without it (`CreateEmpty`). It puts what it read with one unit more or less if the version
is unchanged (`PutCart`). A merge reads the source, puts the target, abandons the source and,
when the source changed meanwhile, corrects the target by the difference
(`ReadLatest`, `MergeAgain`, `AbandonAgain`); the lines are compared by id, so a line
that was taken out and added again counts as changed at the same quantity
(`Replaceable`). A move writes the cart and then the
wishlist, saving for later the other way round. `Others` are the writers of checkouts: a
start claims the cart (`Claim`), gives it back (`ReleaseClaim`) or puts it as pending, a
cancellation and a payment read it (`ReadCart`); all three put their copy blindly
(`PutOther`). `wanted` is what the shopper was told is in the carts; `left` that a merge
ended without taking from its source what it had given its target; `undone` that a blind
put met another document than its copy.

### Subscription

`sub` and `grant` are the documents, `receipts` the webhook documents, `lock` the
subject lock; events of `told` are delivered in any order and again. An event
reads the subscription, puts it (`ApplyEvent`, with `subscriptionEventIsStale`),
reads and puts the entitlement, and links it; an action of the customer calls the
provider and puts what it read before, without the lock. `Revoke` is the
administrator, `Erase` the deletion of the account.

### AcpSession

`store` are the session records, `claims` the idempotency keys and the session's
completion lock, `carts` and `payments` what the shop knows. A request expires
the record it read when it is due (`Expire`), claims its key
(`BeginIdempotency`), a completion also the lock; then create and update build
the cart (`GetCart`, `RemoveLine`, `AddItem`, `RestoreCart`), complete
authorizes and starts a checkout (`StartCheckout`) and writes it to the record
with a retry past a lazy expiry (`PutCompleted`), cancel stops the checkout
(`CancelCheckout`) first. The end binds or releases the key with the token of
the claim (`BindKey`, `ReleaseKey`). Claims lapse, sessions expire and are purged
(`CleanupExpired`), payments settle later.

### EmailOutbox, AccountDeletion, AdminAudit, CapabilityToken

- `EmailOutbox`: a run lists what is due with one `now`, and per message leases,
  prepares, sends, completes; without its lease it only marks the delivery
  (`MarkEmailDelivered`). `Redact` is the deletion of an account, `PutResend` an
  administrator's put of the document read before, `QueueLate` the put of a payment
  handler that found no message and is overtaken by one that was queued
  (`fulfillment.ts:805-856`); `requeued` counts these.
- `AccountDeletion`: a maintenance run checks that nothing is active, then runs
  and records eight steps; its copy of the request may be stale, the recorded
  steps are merged. `BeginWrite`/`PutWrite` are handlers which write the
  customer's data from what they read earlier (`Sources`), or from what a visitor or a
  payment event gave them, whatever is stored (`Given`). `carries` is what such a
  handler has from before the end of a deletion, or was given.
- `AdminAudit`: `Claim` is the unique index on action and key, `Look` the
  comparison with the holder's input, `Reclaim` the takeover of a failed one,
  `Act`, `Complete` and `Fail` what follows.
- `CapabilityToken`: `HandOut`, `ReadPointer`, `Reuse` and `MintDownload` give
  tokens; a visit reads, checks access, consumes, and signs in, where a throw
  restores the token (`Restore`). `download.resolve` is answered after the access check
  and consumes nothing (`fulfillment.ts:326`). Expiry, purge and erasure run beside it.
  `latecomers` are the visits that present a token after its use.

## What is checked

| Run | Question | Bounds |
| --- | --- | --- |
| `stock` | do the counters agree with the rows, whatever the order of operations and redefinitions? | 2 items of 2 and 1 units, 3 rows, quantities to 2, clock 0..1 |
| `stock_ledger` | is it `Inventory`, and does every hold end? | 1 strict item of 2 units, 3 rows, 1 customer, clock 0..2 |
| `checkout` | may a payable checkout lose its stock, a paid checkout its state; is a valid quote honoured and the agreed amount charged; do the events of a purchase reach its order? | 2 checkouts of the last unit, 2 requests, clock 0..1, 2 edits; 2 prices, 5 kinds of request, 2 edits of the catalogue; 8 stories of up to 3 events, 1 trouble |
| `checkout_stock` | do checkouts keep the ledger's rules? | 2 checkouts of the last unit bought without a cart, 2 requests, 1 key, clock 0..2 |
| `checkout_abandoned` | do failures give units, claim and cart back, also when one request breaks off or the provider answers with a closed session? | 1 checkout of 2 lines, 2 requests, 1 that dies or fails in its clean-up, 1 edit, clock 0..2 |
| `payment` | is what was answered or marked done, also later? | 1 paid event, 2 refunds (half, rest), 2 deliveries, 1 fault, clock 0..1 |
| `payment_admin` | do administrators without the lock leave or bring back access? | 1 administrator, 1 paid and 1 whole refund event, 2 deliveries, 1 fault, event before checkout |
| `payment_slow` | does an event settle when lock and lease are outlived or shared? | 1 paid event, 2 deliveries, 1 fault, clock 0..1 |
| `acp` | do claims exclude, is every payment recorded and stopped when canceled? | 2 requests at a time, 2 sessions to create and 1 that exists, 2 keys, 1 fault, clock 1..2 |
| `services` | are subscription, cart, audit, token and workflow right when requests interleave? | 2 events, 1 action; 2 requests on 4 carts, 2 wishlist items, 1 writer of checkouts, 1 claim, 1 lapse, at most 2 units; 3 requests with 1 key; 3 visits, 2 tokens; 2 events, 2 handlers, 3 deliveries and troubles together |
| `maintenance` | does all that maintenance drives come to an end, with bounded sends? | 1 message, 2 runs, 2 attempts, 2 faults, 1 resend or late queueing; 1 deletion, 2 runs, 1 writer, 1 failure; 2 workflows, 1 handler, 3 deliveries and troubles together |
| `subscription_answered` | *violation*: a failed event is answered 502 and delivered again | 2 events, 1 fault |

Why the bounds are enough. Three event rows on one item are the least at which
one row may end twice while another keeps the clamp from showing it and a third
competes for what was freed. Two requests at a time suffice for a read by one
overtaken by a write of another. Two lines distinguish "the first call failed"
from "a later call failed". One clock tick past each expiry is enough since
expiries are compared, never measured; `checkout_stock` lets a second start
expire too. Two refunds are the least that can arrive in the wrong order; three
events the least at which one is between the payment and its reversal. `payment`
needs one fault for every place a call can fail; two faults in one delivery only
repeat a retry; the outbox has two attempts, and two faults, one for each; a workflow's or
marker's two attempts are used up by two troubles with one event, and two events
meet one trouble. Three
requests with one key are a runner, one that fails and one that takes over.
Four cart documents let both owners have a cart and each of two requests make
one; a blind put needs one writer of a checkout beside a request, or two requests that
read the same cart. Symmetry is used for interchangeable ids in runs without liveness.

Deadlock is checked in the runs of `Stock` only. In all others the clock, the
edits, the events and the faults are bounded and a request runs once, so those
instances really stop when every cart is bought and every event dealt with.

### The properties

| Module | Properties |
| --- | --- |
| Stock | `ReservedIsHeld` (the reserved counter is the sum of active rows), `NoOversell`, `OnHandIsAccounted` (seed plus movements minus sales), `OversoldOnlyShrinks`, `EndedReservationsStayEnded`, `HoldsDrain` (liveness), `ImplementsInventory` (refinement) |
| Checkout | `LiveCheckoutHoldsStock`, `ClaimHasOwner`, `NoAbandonedHold`, `PaidStaysPaid` (with the one way out the code has), `NoTrappedCart` (liveness), `UsesInventory` (refinement) |
| Pricing | `QuoteIsHonoured`, `ChargedAsAgreed` (what was claimed, and what a delegated payment's preview showed) |
| PaymentWebhook | `SettledIsDone` (what is processed or answered 200 is done), `CompletedIsGranted`, `BlockedHasNoAccess`, `RefundIsFinal`, `RevocationIsFinal`, `EventsSettle` (liveness) |
| ProviderEvents | `EventsReachTheirOrder` (an event that finds no order has missed none; a processed one has had its effect, once) |
| Workflow | `CustomerIsTold` (never twice but for a fault, never not at all), `FlowsEnd` (liveness) |
| Cart | `OneCart`, `UnitsAreKept` |
| Subscription | `SettledAgrees`, `NoRevival` |
| AcpSession | `ClaimsExclude`, `PaymentIsRecorded`, `SnapshotIsCharged`, `CanceledStopsPayment` |
| EmailOutbox | `BoundedSends`, `VerdictsStay`, `Drains` (liveness) |
| AccountDeletion | `CompletedIsErased`, `HalfErasedIsResumed`, `DeletionsEnd` (liveness) |
| AdminAudit | `OneRunPerKey` |
| CapabilityToken | `UsedOnce` |

A property that the code does not keep everywhere names its exception by a
history variable (`slow`, `broken`, `late`, `raced`, `undone`, `left`, `apart`, `drifted`,
`contested`, `stranded`, `overlapped`, `carried`, `requeued`, `halves`) or, for the closed
answer of the provider, in the formula, so that every other way to break it is still
reported; each of these exceptions is described below.

### What the violation shows

`AnsweredIsProcessed`: a subscription event whose processing throws is marked
failed and answered 502, which the provider takes for "send it again". The
redelivery meets the duplicate check, which processes a subscription event again
only in status `received` (`webhooks/ingest.ts:145`), and is answered 200. Nothing
but an administrator's replay processes the event then.

### Seen while modelling

These were found by runs that are not kept, or are the exceptions the properties
name. None is a promise of the repository's texts unless quoted.

Checkout and webhooks:

- Two starts of one cart run when a returning shopper's request puts the pending
  cart it read back open over another start's claim (`quote.ts:104`); the stock
  is not sold twice. `cancel.ts:65` reopens a converted cart the same way.
- The last write of a start reuses the version of its claim (`start.ts:934`).
- A provider session that comes back cancelled, expired or bound to something else is
  stored as an ended checkout (`start.ts:505` refuses `failed` only): its reservations
  stay active until the sweep, its cart pending until the shopper comes back.
- A claim whose release fails stays until it lapses (`start.ts:1019`); a checkout whose
  mark `failed` cannot be put stays payable with its lines released (`start.ts:993`): both
  set `broken`.
- The administrator refunds an order between two puts of its fulfilment; the
  order is paid again and the refunded amount forgotten (`admin.ts:309`).
- The loser of the webhook's unique index is answered 200 while the winner dies:
  the provider has no reason to deliver again (`ingest.ts:129`).
- Three simultaneous deliveries with one `ctx.now` put two requests inside one
  lock (`shared.ts:47`).

Pricing:

- A price that changes before the lines are resolved and back before the proof
  is quoted is charged although the authorization named another
  (`drifted`; `start.ts:198`).
- The same when, instead, the price or its item is switched off: the proof quote
  then shows the amount the cart line was stored with, and its status
  `unavailable` is not looked at (`start.ts:177`).
- A quote says that the shopper may proceed and the start refuses: lines of two
  modes, a cart held by a checkout, an item bought at once beside an open cart
  (the quote includes the cart's lines, coupon and expiry; with a resolver it is
  always a conflict).
- An item that allows back orders with one unit left refuses two units and
  accepts two at none left.

Events:

- `payment_intent.succeeded` of a hosted session before
  `checkout.session.completed` is marked failed, since the checkout id it carries
  is the intent's; a later retry finds the order by the payment.
- The order of a hosted subscription carries the session's id, so its invoice
  and charge events never find it: a refund is answered 502 each time, an
  `invoice.paid` is processed without an order.
- `checkout.session.expired` before the checkout is stored is marked failed and
  answered 200, without a workflow; the checkout expires lazily.
- A refund between the put of the order and the completion of the checkout, when
  the handler threw there, leaves a checkout that nobody completes.

Workflow and e-mail:

- A marker that is found taken is skipped in silence: one whose failure could not
  be stored (`stranded`) or whose attempts are used up loses the confirmation.
- A handler that outlived its lease may queue the confirmation over one that was
  sent (`QueueEmail` puts blindly): the customer is told twice.
- A handler that dies between the mark and the end of its workflow leaves a
  workflow that is due for ever and takes a place in each batch.
- An administrator's resend puts back the recipient that a deletion redacted; so does a
  payment handler that queues late (`fulfillment.ts:856`), which also queues a delivered
  message again, its attempts counted from zero. A run that lost its lease sends a message
  once more; `BoundedSends` counts that as an attempt.

Cart, subscription, deletion, tokens, audit, agentic sessions:

- A merge that fails after its first put leaves the units in both carts; merged
  again they count twice (`left`).
- A line that is removed from a guest's cart while it is merged can stay in the
  customer's: the merge has put its target, the line is removed, another merge finds the
  guest's cart empty and abandons it, and the first one finds it not open and
  corrects nothing (`cart.ts:345`, also `left`).
- A cart made without the lock can be an owner's second one (`raced`). So can one made
  under it, when the cart was opened again or paid between the two reads of `findOpenCart`:
  a pending cart whose checkout is completed is answered as none (`quote.ts:91-93`).
- A blind put undoes what was done since its copy was read (`undone`): a shopper's request
  opens the cart of a cancelled checkout and adds a unit, and then the cancellation puts
  the copy it read, without the unit (`cancel.ts:61-65`). Two requests that open the same
  cart do it to each other (`quote.ts:104`). `putCartIfUnchanged` says of its own write
  that "a blind `put` can never silently discard a concurrent write" (`ports.ts:144`);
  these puts go around it.
- An action's put revives a subscription that ended during the provider's call,
  and a grant that was read before a revocation is put over it (`apart`).
- Two overlapping maintenance runs can give up a deletion that one of them has
  begun (`overlapped`). A run that dies between erasing and recording leaves no record, and
  a later run whose check fails gives the request up, half erased.
- Writers bring data of a deleted account back (`carried`): a handler with an old copy; a
  magic link, which stores a token and queues an e-mail for whatever address is typed
  (`magic-link.ts:35`); a payment event, whose e-mail and name go into the order of an
  anonymized customer (`shared.ts:287`). Sent e-mails and the customer's snapshot in
  subscriptions and checkouts stay by design.
- A sign-in that throws after the session was written gives its token back used.
- An action whose audit could not be completed runs again under its key; a dead
  one leaves the key taken.
- A completion repeated with its key after a crash is refused, since the replay
  names another authorization. An update of the buyer or a cancel beside a
  completion can leave a payment the record does not name (`contested`). Sessions
  paid later never become terminal and are purged.

### Fairness

`Stock`: weak fairness of the clock and of the sweep with the current time: the
host schedules maintenance. No fairness of any shopper.

`Checkout`: weak fairness of the clock and of each request's steps (a request
that does not die is served to its end), strong fairness of `BeginReopen` (the
shopper comes back and reads the cart again and again; there is no other way
out of a trapped cart, and a request slot may be taken in between). Crashes,
payments and edits are not fair.

`PaymentWebhook`: weak fairness of each delivery's steps, of the clock, and of
the administrator's last steps; strong fairness of redelivery while the event
has not been answered 200 (providers retry) and of replaying a due workflow
(`retryDuePaymentWebhooks`). Strong, because a free slot and a free lock come
and go.

`MCMaintenance`: weak fairness of one action, `Progress`: that some run of the
scheduled tasks, some handler that is at work, or the clock goes on. It is less
than the fairness each module states for itself. Nothing is assumed of
deliveries, customers, administrators or faults, which are bounded.
`DeletionsEnd` assumes that the customer stops buying, as the code does
(`maintenance.ts:403`).

The other runs check safety only.

## What is proved

TLAPS checks each theorem below for every value of the constants that meets the
named assumptions: any number of items, requests, messages, keys, events, lines,
any lifetime and any clock bound. Each safety theorem follows the same
argument: an inductive invariant `I` with `Init => I`, `I /\ [Next]_vars => I'`,
`I => Inv`; each action property is proved of one step from `I`.

| Module | Theorem | Says |
| --- | --- | --- |
| `StockProofs` | `TypeCorrect` | `Spec => []TypeOK` |
| | `ReservedIsHeldAlways` | the reserved counter is the sum of the active rows |
| | `NoOversellEver` | an item whose definition never allowed it is never oversold |
| | `EveryUnitAccounted` | on hand is seed plus arrivals minus removals and sales |
| | `ShortfallNeverGrows` | no step adds to the shortfall of a guarded item |
| | `EndedForGood` | an ended reservation is never active again |
| | `CountersImplementLedger` | with strict items only, `Stock` implements `Inventory` |
| `CheckoutProofs` | `TypeCorrect` | `Spec => []TypeOK` |
| | `PaidIsNotTurnedBack` | only a start that failed after storing it overwrites a paid checkout |
| | `ClaimIsOwned` | a claimed cart waits for a start that runs or broke off |
| | `NothingAbandoned` | a checkout that is over holds nothing, unless a request on it broke off or the provider answered it as closed |
| | `PayableIsHeld` | who may still pay finds the goods, unless the start outlived its claim or a request broke off |
| | `NoUnitTwice` | the reservations of all checkouts implement `Inventory` |
| `AcpSessionProofs` | `TypeCorrect` | `Spec => []TypeOK` |
| | `ClaimsExcludeOthers` | a claim that has not lapsed is its owner's; a key makes one session |
| | `PaymentRecorded` | a completion that is over is named by its session, unless contested |
| | `SnapshotCharged` | what a record shows as bought is what is charged |
| | `CanceledStops` | a canceled session names no checkout that waits for payment |
| | `TerminalStay` | a completed or canceled session stays so until it is purged |
| `PaymentWebhookProofs` | `TypeCorrect` | `Spec => []TypeOK` |
| | `LockExcludes` | two deliveries are never both past the lock of the payment |
| | `OnlyGrantedCompletes` | a workflow completes only when every line was granted |
| | `RevokedForEver` | revoked access never comes back |
| | `RefundedForEver` | the refunded amount never falls |
| | `SettledStaysDone` | what is marked processed or answered 200 has been done and stays so |
| | `BlockedIsRevoked` | at rest, without faults, a blocked order has no access left |
| `PurchaseProofs` | `EventsFindAndReachTheirOrder` | the events of one purchase find its order, and reach it |
| | `QuotesAreHonoured` | a quote that lets the shopper proceed is honoured, but for the causes the property names |
| | `ChargesAreAgreedTo` | what is charged is what was claimed and, for a delegated payment, shown |
| | `PricesAreHonoured` | both, of `Pricing` alone |
| `ServicesProofs` | `TypeCorrect` | `SubSpec => []SubTypeOK` |
| | `EventsSettle` | when all is processed, subscription and entitlement agree with the provider |
| | `NeverRevived` | without a put that undoes another's, nothing ended comes back |
| | `OneRun` | one request at a time runs the action of a key, and none once it completed |
| | `GivesOnce` | a token is used once, and nobody is answered who comes after |
| | `OneCartEach` | an owner has one cart in use, unless one was made while another was there or was missed, or a blind put brought one back |
| | `UnitsKept` | as long as no blind put undid another write, no unit in a cart is lost, and none counted twice unless a merge left it in both carts |
| `WorkflowProofs` | `CustomerIsToldOfIt` | a customer is told at most once more than something failed, and never not at all |
| `MaintenanceProofs` | `SendsAreBounded` | a message is sent at most `MaxAttempts` times per queueing, resent or late |
| | `VerdictsLast` | only a resend or a late queueing undoes that a message is delivered or redacted |
| | `ErasedWhenCompleted` | after a completed deletion nothing of the customer is stored but what a handler carried |
| | `ResumedWhenHalfErased` | a deletion with a recorded step is not given up, unless runs overlapped |

### Assumptions

Every `ASSUME` of a module is evaluated by TLC in the runs of that module.
`StockAssumption` and `MaxQtyAssumption`: the rows that can exist are finitely
many, the seed is natural, ids differ from the NULLs. `CheckoutAssumption`: the
checkouts are finitely many, a session lives at least as long as a claim, ids
differ from the NULLs, and a cart has a line, since an empty one is refused
(`start.ts:710`). `PaymentAssumption` and
`StampAssumption`: amounts and counts are positive, a refund reports part of the
total, deliveries and paid events are finitely many, so that a request finds a
`ctx.now` no stored lock or lease still carries. `CartAssumption`: the requests, the carts
and the wishlist's items are finitely many, and a cart may hold a unit. `AcpAssumption`,
`SubAssumption`, `AuditAssumption`, `DeletionAssumption`, `OutboxAssumption`:
lifetimes and limits are natural and positive where the code's constants are,
ids differ from the NULLs, runs and messages are finitely many, and a
subscription's last event is of its last period. `EventsAssumption`: no event gives
back more than the total, and only a subscription has invoices. `PricingAssumption`:
the prices are finitely many, amounts are natural, rates are quarters, at least
one unit may be ordered, and a stock row is of the shape the schema gives it.

Some theorems assume more. `CountersImplementLedger`: every definition is finite
and without back orders; without it the refinement is false, as it should be.
`PaymentRecorded`: `Retries > 1`. A completion may lose one write to a lazy
expiry of its record, so one attempt would not do;
`MIKA_ACP_COMPLETE_WRITE_RETRIES` is 3 (`acp/constants.ts:23`).
Five theorems of `PaymentWebhookProofs` assume `Orderly`: no request runs longer
than the five minutes of its lock and no two requests have the same `ctx.now` in
milliseconds. The code does not enforce it; `OnlyGrantedCompletes` and
`TypeCorrect` do without, and `MCPaymentSlow` checks what is left when it fails.
`RefundedForEver` and `SettledStaysDone` assume no administrator, because one
who takes no lock may put an order over a refund that arrived meanwhile;
`OnlyGrantedCompletes` no refunds and no administrator, for a blocked order
completes without its lines; `SettledStaysDone` that no paid event comes before
its checkout, since such a one is answered 200 as failed. Each is the
condition of the run that checks the property, which has one or two of
everything where the theorem has any number.

### Arguments

**Stock.** None of the counter properties is inductive alone: that
`release` keeps the reserved counter right needs the clamp not to bite, which
needs the counter to be at least the quantity of the row that ends, which is
the equation for that item; that no unit is oversold after a consumption needs
the equation for on hand. `IInv` therefore joins the types with `Balanced`,
the two equations for every item, and the bound on guarded items. `RowChange`
says what writing one row does to the four sums of an item, `SweepChange` what
ending a set of rows does; each statement preserves the equations given these
(`BalancedStatements`); one lemma per action follows. The sums are those of
`UnitCount`, which counts pairs instead of recurring over a set, since what a
recursive definition yields for every set is out of the provers' reach;
the first part of `StockProofs` has the facts about them (`TotalStep`: one element's share
changes). The refinement maps active rows to holds and so on, and uses `IInv` to
show that units the counters call available are free in the ledger.

**Checkout.** `CheckoutProofs` first says what each step does to request, cart,
checkout and reservations (`Step`, nineteen cases; `World` for edits, sweep,
provider and clock), and proves that every action is one of them. Five invariants
follow. `Control`: which operation is at which step, with what. `Documents`: a
start is alone with its id, and its checkout is stored from `PutCheckout` on and
not before, so nobody can cancel or pay what a start is still reserving.
`Claiming` strengthens `ClaimHasOwner` by where in its course the claiming start
is: whoever leaves those steps has put the cart, released the claim, or broken off
because the clean-up failed (`broken`). `Freeing`, with these and the checkouts of a closed
provider session excepted: who gives units back has given back the lines behind it, so at the end of the loop
there is nothing left; it yields `NoAbandonedHold`. `Keeping`: a start that is
not late holds the lines behind it, by reservations that last until its claim ends and, from
`Extend` on, until the session ends. The sweep ends only what is due, and a
checkout is payable only until then. A cancel or expiry takes the goods first and the status
after, so in between the checkout is `Stopped`; it stops being so only when the status has changed,
which needs `Documents` (a checkout with an order is completed, hence `putCheckoutIfNotSettled` never leaves a
created one behind). For the refinement, each checkout and line is one entry of
the ledger with one unit; `UnitsCount` and `AvailableIsFree` show that fewer taken
than the capacity means a free unit, and `Freeing` that a line about to be
reserved was never reserved by this id.

**Agentic sessions.** Four invariants, each on top of the one before. *Core*:
`Types`, `Control` (which operation reaches which step with what), `Agreement`
(a record, stored or remembered by any request, names a started checkout with
its items), `Charges` (before its start a completion has no checkout; a cancel
that is about to write has stopped the checkout it read of). It yields
`SnapshotIsCharged` and `CanceledStopsPayment`. *Claiming*: `Owners` (a deadline
that has not passed means the claim carries this request's token, which is why
a lapsed claim may be taken and a live one not), `Timed`, `Punctual`, `Makers`
(the create that made a session is about to bind its key or has bound it). It
yields `ClaimsExclude`. *Reading*: `Versions` (what a request read is older than
the record, or is the record, but for an expiry a retry has seen), `Read`,
`Apart`; it yields `TerminalStays`, since a conditional write with an old version
fails. *Recording*: an uncontested completion has lost at most to one
expiry, which leaves it a retry.

**Payment.** `Control` says which event is at which step and line, `Exclusion`
joins three facts none of which is inductive alone: a `ctx.now` is carried by one
request (`Apart`), a request is younger than its lock (`Timely`), and who is past
the lock holds it until `at + LeaseTime` (`Holding`). `Effect` says once what the
steps of a delivery do, in eighteen cases, a thrown await, a death and a lost
lease among them; each invariant on top is kept by each case. `Granting`: the
lines before the one a runner is at are granted. `GrantsOnce`: access that is
about to be put was not there before, which is why a revocation stays; it holds
because only the one with the lock grants, and administrators only take away.
`Money`: status, payment status and amount of an order agree, and the copy of
who has the lock has the money of the stored order, which is why a blind put takes no
refund back. `Settled` adds what each runner has done so far (`Doing`) and which
results an event can have had when it was read (`Answering`). `Guarded` adds that no
copy of the order records a line that was not granted (`Recorded`), that a runner has its lease
while it needs it (`Leased`, so that it is not stopped between a grant and the
put that records it), and `Covered`: while a blocked order has an active line, an
administrator or a refund is on the way to revoke it, or a runner is about to
put the order back as paid.

**Events of a purchase.** `RowHolds` is true whatever becomes of the locks: the stored
forms of an event say what the event says (so a replay is what the delivery was),
a handler is at a step its event has, and one that is about to write the order works
under the lock of all that write it. The last is the heart of it (`Subjects`): the
adapter may name a session, an intent, an invoice or a charge, yet whatever can find
the order or make it is locked by the one id that the order has too. `Sound` is true as
long as no lock ended early: a handler holds its lock, its copy of the order is the
order, an event that found no order has missed none, and what is marked or about to be has its
effect. What a handler writes leaves the others sound since two handlers under one
lock are one (`Exclusion`), and effects stay: an order is never taken away, the amount given back
never falls, a completed checkout stays completed (`Forward`).

**Prices.** That a quote is honoured follows from the shape of the catalogue alone
(`Catalogue`), and the work is in comparing the two codes: `SameVerdict` (a line
the quote finds available is one the start resolves, at the same amount),
`OneMode`, and `DemandIsTaken` with `WithinIsReservable`: the quote tests each line
against the stock with its siblings counted, the start takes all lines of an item at once, and
the two sums are of the same lines. Sums are cardinalities of sets of pairs (`SumOver`), so that
`SumSame`, `SumSplit` and `SumType` need no induction over data. That the charge was agreed
to is inductive once each step says what it has seen and until when that is true:
`Follows` (a cart that was read is the cart there is, or there is a later version), `Fresh`
(lines resolved as the catalogue has them, while nothing drifted), `Proving` (the lines
quoted so far show what was resolved), `Agrees` (a resolution is of the lines of the
cart, as long as the cart is `Mine`: by its version before the claim, by the claim
after it), and `Authorized`: a delegated payment that passed `Compare` or `Prove`
named a preview, and that shows what will be charged. Each merchant's or shopper's
edit keeps these by ending `Fresh` or `Mine`, which is what `drifted`, the version and the claim are for.

**Subscription.** `Shapes` (types, and what a handler's copy is at each step),
`Periods` (no copy is of a later period than the document, nor that than the
provider's last), `Kept` (once the last event is
told, the subscription is in its period and ended if it ended), `Given`: the
entitlement gives the access of the status, or a handler is `Obliged` to put
it. The last is what makes the property inductive: between the put of the
subscription and that of the entitlement they differ, and somebody is on the way.

**Audit.** `Alone` (who runs the action of a key holds its claim, and nobody else
does), `Honest` (what is completed was run), `Answered` (what was read as
completed still is, and only that is answered as done). **Tokens.** `Spent`: a
token that may still be used was used only as often as half a sign-in gave it
back, nobody is being signed in with it, and who is being signed in is alone. A latecomer, who
presents the token after its use, therefore finds it not pending and gets no answer.

**Cart.** `Kept`: a request that is to put a copy has the id and the owner of a cart that
was stored, one in checkout that is only looked at included; `Meant` says the same of the writers
of a checkout. So a put by id never changes whose cart it is, and only two things can add to an
owner's carts in use: the two actions that create one, and a blind put of a copy read while the
cart was in use. The latter brings a cart back only if another put took it away since,
which is what `undone` records (`BlindPutIsCalm`). `MakesFirst`: while nobody raced and nothing was undone,
whoever is about to put a first cart under a lock it still holds is alone with it. A lapsed
lock is what `raced` records, and also a null answer of `findOpenCart` under the lock to an
owner who has a cart (`NoneFound`), for that request goes on to make a second one.

**Units.** What the shopper was told (`wanted`) is not the units in the carts while a merge
is between its two puts. `UnitsInv` says what the difference is: `Credit` is what a merge gave its
target and has not yet taken from its source, `Owing` the sum of the credits, and `Spare`,
the units that neither was asked for nor will be taken back, is never negative and is zero
unless a merge ended early or died (`Balanced`). Each put is by the version read, so the copy is the
document (`Follows`), and the put changes the units by what it changes `wanted` and
its own credit by (`UnitsPut`, one lemma per action). The blind puts either meet the document
they copied and leave its units alone, or they set `undone`, which ends the invariant. `MergeHolds` says that the target has what it
was given, so that a correction can take it back. `Marked`: an item that was moved is
marked in a cart in use; a merge keeps the mark because it takes over a guest's cart and guests
have no marks, which needs `OneCart`'s invariant: nobody merges the customer's cart with a second one.

**Workflow.** The property has two halves, at most once and not never, and the
inductive invariant pays for each. *At most once*: a marker's `tries` counts its leases, and
`TellInv` says that who was told, is about to be or waits in the queue was so by
one of them. `PaidFor` bounds the leases: each but the first followed an
error or a lease that was outlived. That is not inductive by itself, since two
handlers that outlived different leases could each spend the same one, so it counts, for whoever may lease the
marker next, the leases it will have outlived by then (`Outlived(row, j)`: the clock
is `j` leases past its start). `KeeperInv` says which handlers can still complete or give
back a marker: a marker's runner has `ctx.now` for its clock, so only a later key takes it away. *Not
never*: `BehindInv`, a marker a handler has behind it was made and, when completed, was
told of; and `OwedInv`, a marker that was leased and not completed is owed by
an open workflow that cannot be completed but by way of it (`Owes`), so when all workflows
are completed there is no such marker. It needs `LeaseInv` (at most one handler within
the lease of a workflow) and that workflow and marker are leased at the same key.

**Outbox.** `Leasable` (attempts stay within the limit) and `Counted`: sends,
plus the runs about to send, are at most `attempts + MaxAttempts * Puts`, where `Puts`
are the resends put and the late queueings of a payment handler (`requeued`). Both count from zero again,
which the second term pays for. `VerdictsStay` needs that a run which lost its lease
writes only the delivered mark.
**Deletion.** `Recorded` (what is recorded, in the document or in any run's stale
copy, was erased), `Complete` (a run completes a request by a copy that has all
steps), `Erasure` and `Early` (what was erased is gone, but for what was `carried` back: put by a writer
who was given it, by an event or a form, or who read it before the end), and for `HalfErasedIsResumed` `Fresh`: while runs do not overlap
their copies are what is recorded. `LeastElement` (a finite set of naturals has a
least element, by well-founded induction on its subsets) shows that a run is
always at some request and at some step.

### What the attempts found

`BoundedSends` did not go through for two messages: a run chose "the message it
is at" anew at each step from a table other runs were changing, so it could send
one message under the lease of another. The code holds the list it fetched
(`ops.ts:626`). `EmailOutbox` now keeps that list, in an order fixed when it
is fetched. With one message, which is what the run has, the two are the same.

`ChargedAsAgreed` was false for larger instances than the run's. The model let
only an amount or a rate set `drifted`. But a price or an item that is switched off also
changes what the proof quote shows, as described above under Pricing, and with two more
edits than the run has a start could charge an amount that neither preview nor proof
had shown. `TogglePrice` and `ToggleSellable` now set `drifted` too. Besides, the charge of
one start was judged by the `drifted` of the next; it keeps its own now.

`UnitsAreKept` was false for three requests, where the run has two: a merge
described above under Cart ended without `left`, which asked whether the source still had units
when the merge ended, not whether the merge had given units it did not take. It
asks the latter now. The attempt also showed that `ReadLatest` compared quantities where
the code compares lines by their ids. With the corrections TLC finds no error for three requests
and the operations add, remove and merge either (3.9 million states, not a run: too long).

`NewStamp` of `PaymentWebhook` chose a stamp nobody has, which there need not
be: `StampAssumption` says how many there are and of what. `AfterThrow`,
`Availability` (`Pricing`) and `stripeCheckoutStatus` (`ProviderEvents`) were
`CASE`s whose guards overlap: TLC takes the first, TLA+ any; they are chains
of `IF` now, as in the code.

### Only model-checked

- All liveness, and ENABLED: outside what the installed provers do.
- `AnsweredIsProcessed` is false of the code; the run shows it.
- `RefundIsFinal` and `SettledIsDone` beside administrators, `CompletedIsGranted`
  beside refunds: not true as stated, so neither run nor theorem.
- What a recursive definition or a fold computes for every input.

## Not modelled

- Operations, validation, routes and the plugin surface (`api/validation.ts`,
  `api/operation-definitions.ts`, `api/admin-action-runner.ts`): declarative
  tables and adapters that keep no state.
- Identity and request context: comparisons within one request.
- Text, layout, the mapping of documents to responses, query planning,
  serialisation of documents.
- Requests to Stripe, signature checks: outside, or cryptography.
- Of modelled parts: input hashes, download and external lines, rate counters,
  the views of an account, the content of an export, adding and removing
  wishlist items (one document each), webhooks stored before
  `normalizedPayloadJson` existed, several handlers of one event at a time in
  `ProviderEvents` (they are in `PaymentWebhook`).

Two hazards have no property: a death between grant and record, or between an
administrator's put and the revocation, leaves access that nobody revokes, and
no text promises otherwise; a partial refund event on a cancelled order makes it
`partially_refunded`, which no longer blocks fulfilment, and a run with both
kinds of refund and an administrator is too large.

## Plan

Done: `Stock` with `Inventory` and proofs, `Checkout` with proofs, `PaymentWebhook`,
`AcpSession`, `EmailOutbox`, `AccountDeletion`, `Cart`, `Subscription`,
`AdminAudit`, `CapabilityToken`, `Pricing`, `Workflow`, `ProviderEvents`.

Every safety property of the passing runs is a theorem. Left to model: several handlers of one
event at a time in `ProviderEvents`, and the operations named under "Not modelled".
