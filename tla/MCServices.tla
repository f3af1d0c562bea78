----------------------------- MODULE MCServices -----------------------------
(***************************************************************************)
(* Small instances of Subscription, Cart, AdminAudit, CapabilityToken and  *)
(* Workflow for TLC.  No document of one of them is written by another, so *)
(* they are put side by side and not composed: the first state chooses the *)
(* service that is used, and the others rest.                              *)
(***************************************************************************)
EXTENDS MCSubscription, TLC

CONSTANTS
  Used, \* the services of which one is used
  r1, r2, c1, c2, c3, k1, v1, v2, v3,
  o1, Requests, NoRequest, Others, Operations, Carts, Items, Limit, MaxClaims, MaxLapses,
  Clients, Keys, NoKey, Inputs, MaxBreaks,
  Visits, Tokens, MaxThrows,
  ev1, ev2, h1, h2,
  Paid, Strays, Replayers, MaxTries, Lease, FirstRetry, LastRetry, ClockEnd, MaxDeliveries,
  MaxTroubles

VARIABLES
  service,  \* "subscription", "cart", "audit", "token" or "workflow"
  carts, wishlist, locks, reqs, claims, lapses, wanted, added, dropped, raced, left,
  others, undone, audits, clients, results, ran, breaks,
  tokens, pointer, visits, shown, entitled, erasing, uses, latecomers, halves, throws,
  received, flows, markers, order, email, runners, clock, delivered, errors, late, notified,
  stranded

Cart == INSTANCE Cart
Audit == INSTANCE AdminAudit
Token == INSTANCE CapabilityToken
Flow == INSTANCE Workflow WITH
  Events <- Paid, Handlers <- Replayers, handlers <- runners, told <- notified

ASSUME ServicesAssumption ==
  Cart!CartAssumption /\ Audit!AuditAssumption /\ Flow!WorkflowAssumption

cartVars == <<carts, wishlist, locks, reqs, claims, lapses, wanted, added, dropped, raced, left,
              others, undone>>
auditVars == <<audits, clients, results, ran, breaks>>
tokenVars == <<tokens, pointer, visits, shown, entitled, erasing, uses, latecomers, halves, throws>>
flowVars == <<received, flows, markers, order, email, runners, clock, delivered, errors, late,
              notified, stranded>>

InSubscription == service = "subscription"
InCart == service = "cart"
InAudit == service = "audit"
InToken == service = "token"
InWorkflow == service = "workflow"

OnlySubscription == UNCHANGED <<service, cartVars, auditVars, tokenVars, flowVars>>
OnlyCart == UNCHANGED <<service, subVars, auditVars, tokenVars, flowVars>>
OnlyAudit == UNCHANGED <<service, subVars, cartVars, tokenVars, flowVars>>
OnlyToken == UNCHANGED <<service, subVars, cartVars, auditVars, flowVars>>
OnlyWorkflow == UNCHANGED <<service, subVars, cartVars, auditVars, tokenVars>>

\* A service that rests has no state, but for the subscription that nothing happens to.
Resting == "resting"

CartRests ==
  /\ carts = Resting /\ wishlist = Resting /\ locks = Resting /\ reqs = Resting
  /\ claims = Resting /\ lapses = Resting /\ wanted = Resting /\ added = Resting
  /\ dropped = Resting /\ raced = Resting /\ left = Resting /\ others = Resting
  /\ undone = Resting
AuditRests ==
  /\ audits = Resting /\ clients = Resting /\ results = Resting /\ ran = Resting
  /\ breaks = Resting
TokenRests ==
  /\ tokens = Resting /\ pointer = Resting /\ visits = Resting /\ shown = Resting
  /\ entitled = Resting /\ erasing = Resting /\ uses = Resting /\ latecomers = Resting
  /\ halves = Resting /\ throws = Resting
WorkflowRests ==
  /\ received = Resting /\ flows = Resting /\ markers = Resting /\ order = Resting
  /\ email = Resting /\ runners = Resting /\ clock = Resting /\ delivered = Resting
  /\ errors = Resting /\ late = Resting /\ notified = Resting /\ stranded = Resting

ServicesInit ==
  /\ service \in Used
  /\ SubInit /\ (~InSubscription => told = CHOOSE story \in Timelines : TRUE)
  /\ IF InCart THEN Cart!CartInit ELSE CartRests
  /\ IF InAudit THEN Audit!AuditInit ELSE AuditRests
  /\ IF InToken THEN Token!TokenInit ELSE TokenRests
  /\ IF InWorkflow THEN Flow!WorkflowInit ELSE WorkflowRests

\* The workflows' clock stops before attempts are used up: their reclaiming is in MCMaintenance.
ServicesNext ==
  \/ \E r \in Requests :
       \/ InCart /\ (\E op \in Operations, owner \in Cart!Owners : Cart!Begin(r, op, owner)) /\ OnlyCart
       \/ InCart /\ Cart!ReadItem(r) /\ OnlyCart
       \/ InCart /\ Cart!LookOpen(r) /\ OnlyCart
       \/ InCart /\ Cart!LookPending(r) /\ OnlyCart
       \/ InCart /\ Cart!LookPastClaim(r) /\ OnlyCart
       \/ InCart /\ Cart!LookCheckout(r) /\ OnlyCart
       \/ InCart /\ Cart!PutReopened(r) /\ OnlyCart
       \/ InCart /\ Cart!CreateEmpty(r) /\ OnlyCart
       \/ InCart /\ Cart!TryLock(r) /\ OnlyCart
       \/ InCart /\ Cart!PutFirstCart(r) /\ OnlyCart
       \/ InCart /\ Cart!PutCart(r) /\ OnlyCart
       \/ InCart /\ Cart!Unlist(r) /\ OnlyCart
       \/ InCart /\ Cart!ReadWishlist(r) /\ OnlyCart
       \/ InCart /\ Cart!Enlist(r) /\ OnlyCart
       \/ InCart /\ Cart!TakeLine(r) /\ OnlyCart
       \/ InCart /\ Cart!ReadSource(r) /\ OnlyCart
       \/ InCart /\ Cart!MergeTarget(r) /\ OnlyCart
       \/ InCart /\ Cart!AbandonSource(r) /\ OnlyCart
       \/ InCart /\ Cart!ReadLatest(r) /\ OnlyCart
       \/ InCart /\ Cart!MergeAgain(r) /\ OnlyCart
       \/ InCart /\ Cart!AbandonAgain(r) /\ OnlyCart
       \/ InCart /\ Cart!Die(r) /\ OnlyCart
  \/ \E o \in Others :
       \/ InCart /\ (\E c \in Carts : Cart!Claim(o, c)) /\ OnlyCart
       \/ InCart /\ Cart!ReleaseClaim(o) /\ OnlyCart
       \/ InCart /\ (\E c \in Carts, to \in {"open", "converted"} : Cart!ReadCart(o, c, to)) /\ OnlyCart
       \/ InCart /\ Cart!PutOther(o) /\ OnlyCart
  \/ InCart /\ (\E c \in Carts : Cart!Pay(c)) /\ OnlyCart
  \/ InCart /\ (\E o \in Cart!Owners : Cart!ExpireLock(o)) /\ OnlyCart
  \/ \E e \in Events :
       \/ InSubscription /\ Deliver(e) /\ OnlySubscription
       \/ InSubscription /\ Replay(e) /\ OnlySubscription
       \/ InSubscription /\ Find(e) /\ OnlySubscription
       \/ InSubscription /\ ApplyEvent(e) /\ OnlySubscription
       \/ InSubscription /\ Processed(e) /\ OnlySubscription
       \/ InSubscription /\ Throw(e) /\ OnlySubscription
  \/ \E a \in Actions :
       \/ InSubscription /\ (\E act \in {"cancel", "renew", "change"} : Ask(a, act)) /\ OnlySubscription
       \/ InSubscription /\ CallProvider(a) /\ OnlySubscription
       \/ InSubscription /\ PutAction(a) /\ OnlySubscription
       \/ InSubscription /\ Answer(a) /\ OnlySubscription
  \/ \E h \in Handlers :
       \/ InSubscription /\ ReadGrant(h) /\ OnlySubscription
       \/ InSubscription /\ PutGrant(h) /\ OnlySubscription
       \/ InSubscription /\ Link(h) /\ OnlySubscription
       \/ InSubscription /\ Die(h) /\ OnlySubscription
  \/ InSubscription /\ ExpireLock /\ OnlySubscription
  \/ InSubscription /\ Revoke /\ OnlySubscription
  \/ InSubscription /\ Erase /\ OnlySubscription
  \/ \E c \in Clients :
       \/ InAudit /\ (\E key \in Keys \cup {NoKey}, input \in Inputs : Audit!Submit(c, key, input)) /\ OnlyAudit
       \/ InAudit /\ Audit!Claim(c) /\ OnlyAudit
       \/ InAudit /\ Audit!Look(c) /\ OnlyAudit
       \/ InAudit /\ Audit!Reclaim(c) /\ OnlyAudit
       \/ InAudit /\ Audit!Act(c) /\ OnlyAudit
       \/ InAudit /\ Audit!Complete(c) /\ OnlyAudit
       \/ InAudit /\ Audit!Fail(c) /\ OnlyAudit
       \/ InAudit /\ Audit!Break(c) /\ OnlyAudit
  \/ \E v \in Visits :
       \/ InToken /\ Token!RequestMagicLink(v) /\ OnlyToken
       \/ InToken /\ Token!RequestAccountExport(v) /\ OnlyToken
       \/ InToken /\ Token!CreateOrderInvoiceToken(v) /\ OnlyToken
       \/ InToken /\ Token!GetOrderInvoice(v) /\ OnlyToken
       \/ InToken /\ Token!ReadPointer(v) /\ OnlyToken
       \/ InToken /\ Token!Reuse(v) /\ OnlyToken
       \/ InToken /\ Token!MintDownload(v) /\ OnlyToken
       \/ InToken /\ Token!Point(v) /\ OnlyToken
       \/ InToken /\ (\E t \in Tokens : Token!Present(v, t)) /\ OnlyToken
       \/ InToken /\ Token!ReadToken(v) /\ OnlyToken
       \/ InToken /\ Token!CheckAccess(v) /\ OnlyToken
       \/ InToken /\ Token!Consume(v) /\ OnlyToken
       \/ InToken /\ Token!SignIn(v) /\ OnlyToken
       \/ InToken /\ Token!Restore(v) /\ OnlyToken
       \/ InToken /\ Token!Stop(v) /\ OnlyToken
  \/ InToken /\ (\E t \in Tokens : Token!Expire(t)) /\ OnlyToken
  \/ InToken /\ Token!Purge /\ OnlyToken
  \/ InToken /\ Token!RevokeAccess /\ OnlyToken
  \/ InToken /\ Token!DeleteTokens /\ OnlyToken
  \/ InToken /\ Token!EraseOrders /\ OnlyToken
  \/ \E h \in Replayers :
       \/ InWorkflow /\ Flow!StartFlow(h) /\ OnlyWorkflow
       \/ InWorkflow /\ Flow!FindOrder(h) /\ OnlyWorkflow
       \/ InWorkflow /\ Flow!BeginStep(h) /\ OnlyWorkflow
       \/ InWorkflow /\ Flow!EndStep(h) /\ OnlyWorkflow
       \/ InWorkflow /\ Flow!EndWorkflow(h) /\ OnlyWorkflow
       \/ InWorkflow /\ Flow!LinkCheckout(h) /\ OnlyWorkflow
       \/ InWorkflow /\ Flow!PersistOrder(h) /\ OnlyWorkflow
       \/ InWorkflow /\ Flow!RecordLine(h) /\ OnlyWorkflow
       \/ InWorkflow /\ Flow!CloseOrder(h) /\ OnlyWorkflow
       \/ InWorkflow /\ Flow!MarkWebhook(h) /\ OnlyWorkflow
       \/ InWorkflow /\ Flow!CompleteFlow(h) /\ OnlyWorkflow
       \/ InWorkflow /\ Flow!FailStep(h) /\ OnlyWorkflow
       \/ InWorkflow /\ Flow!FailFlow(h) /\ OnlyWorkflow
       \/ InWorkflow /\ Flow!MarkFailed(h) /\ OnlyWorkflow
       \/ InWorkflow /\ Flow!CallThrows(h) /\ OnlyWorkflow
       \/ InWorkflow /\ Flow!Die(h) /\ OnlyWorkflow
  \/ \E h \in Replayers, k \in Flow!Kinds :
       \/ InWorkflow /\ Flow!AcquireMarker(h, k) /\ OnlyWorkflow
       \/ InWorkflow /\ Flow!LookForEmail(h, k) /\ OnlyWorkflow
       \/ InWorkflow /\ Flow!CheckEmail(h, k) /\ OnlyWorkflow
       \/ InWorkflow /\ Flow!QueueEmail(h, k) /\ OnlyWorkflow
       \/ InWorkflow /\ Flow!CompleteMarker(h, k) /\ OnlyWorkflow
       \/ InWorkflow /\ Flow!FailMarker(h, k) /\ OnlyWorkflow
       \/ InWorkflow /\ (\E handled \in BOOLEAN : Flow!Emit(h, k, handled)) /\ OnlyWorkflow
  \/ \E h \in Replayers, e \in Paid :
       \/ InWorkflow /\ Flow!Deliver(h, e) /\ OnlyWorkflow
       \/ InWorkflow /\ Flow!RetryDue(h, e) /\ OnlyWorkflow
  \/ InWorkflow /\ Flow!SendConfirmation /\ OnlyWorkflow
  \/ InWorkflow /\ Flow!ClockTicks /\ OnlyWorkflow

ServicesSpec ==
  ServicesInit
  /\ [][ServicesNext]_<<service, subVars, cartVars, auditVars, tokenVars, flowVars>>

RequestSymmetry == Permutations(Requests)

----------------------------------------------------------------------------
\* An owner has one cart, unless it was made next to another one, or a blind put brought
\* another back (Cart!OneCart).
OneCart == InCart => Cart!OneCart

\* No unit that a shopper was told is in a cart is lost, or counted twice by a merge or a
\* move from the wishlist, unless a blind put undid another (Cart!UnitsAreKept).
UnitsAreKept == InCart => Cart!UnitsAreKept

\* One request at a time runs the action of an idempotency key, and none once it
\* completed (AdminAudit!OneRunPerKey).
OneRunPerKey == InAudit => Audit!OneRunPerKey

\* A token is used once, and resolved by nobody after that (CapabilityToken!UsedOnce).
UsedOnce == InToken => Token!UsedOnce

\* The customer of an order is told of it, and once (Workflow!CustomerIsTold).
CustomerIsTold == InWorkflow => Flow!CustomerIsTold
=============================================================================
