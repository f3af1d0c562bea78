------------------------------ MODULE Checkout ------------------------------
(***************************************************************************)
(* Checkout of one cart: start, cancel, expiry, reopening of an abandoned  *)
(* cart, and the payment webhook's part in it.                             *)
(*                                                                         *)
(* A request runs between awaits: each action is one call to the store or  *)
(* to the provider, and the record of the request holds what it read       *)
(* before.  The stores are shared.  Stock is kept as the ledger of         *)
(* Inventory.tla, which Stock.tla implements.                              *)
(***************************************************************************)
EXTENDS Integers, FiniteSets

CONSTANTS
  Requests,   \* requests in flight at one time
  Checkouts,  \* ids createId("checkout") may return; one start uses one id
  Nobody,     \* no checkout: the absent claim or session of a cart
  Keys,       \* idempotency keys of checkout.start
  NoKey,      \* a start without a key
  Offers,     \* what is checked out: "cart", or "buy_now", one item without a cart
  Sessions,   \* what the provider answers: "open", a hosted page, "paid" at once, or "closed"
  Unused,     \* the key of an id no start has taken
  LineCount,  \* lines of the cart, each with a stock item of its own
  Capacity,   \* units of each stock item
  TTL,        \* config.checkout.ttlMs
  MaxTTL,     \* the longest life of a provider session
  MaxTime,    \* bound: the clock stops here
  MaxEdits,   \* bound: the cart is edited below this version only
  MaxFaults   \* bound: requests that end without their clean-up

Lines == 1..LineCount

ASSUME CheckoutAssumption ==
  /\ IsFiniteSet(Checkouts)
  /\ LineCount \in Nat \ {0}
  /\ TTL \in Nat \ {0} /\ MaxTTL \in Nat /\ TTL <= MaxTTL /\ MaxTime \in Nat
  /\ Capacity \in [Lines -> Nat]
  /\ Offers \subseteq {"cart", "buy_now"} /\ Sessions \subseteq {"open", "paid", "closed"}
  /\ Nobody \notin Checkouts /\ NoKey \notin Keys /\ Unused \notin Keys \cup {NoKey}

VARIABLES
  cart,       \* the cart document
  checkouts,  \* Checkouts -> the checkout document
  keyOf,      \* Checkouts -> the idempotency key its start was given
  holds,      \* Checkouts -> Lines -> the status of the reservation event
  holdEnds,   \* Checkouts -> expires_at of its reservation events
  provider,   \* Checkouts -> the payment provider's session
  requests,   \* Requests -> what a request in flight remembers
  now,        \* the wall clock
  slow,       \* history: starts that outlived their claim and first reservations
  broken      \* history: starts and cancels that died, or failed in their clean-up

stores == <<cart, checkouts, keyOf, holds, holdEnds, provider>>
history == <<slow, broken>>
vars == <<stores, requests, now, history>>

NoCart == [status |-> "none", version |-> 0, claim |-> Nobody, claimEnds |-> 0, session |-> Nobody]

Idle == [op |-> "idle", step |-> "idle", checkout |-> Nobody, line |-> 0, at |-> 0,
         cart |-> NoCart, expires |-> 0]

NoCheckout == [status |-> "absent", order |-> FALSE, cart |-> FALSE, expires |-> 0]

Live == {"created"}  \* created and redirected: the statuses that are not terminal

Init ==
  /\ cart = [NoCart EXCEPT !.status = "open"]
  /\ checkouts = [c \in Checkouts |-> NoCheckout]
  /\ keyOf = [c \in Checkouts |-> Unused]
  /\ holds = [c \in Checkouts |-> [l \in Lines |-> "absent"]]
  /\ holdEnds = [c \in Checkouts |-> 0]
  /\ provider = [c \in Checkouts |-> "none"]
  /\ requests = [r \in Requests |-> Idle]
  /\ now = 0
  /\ slow = {} /\ broken = {}

----------------------------------------------------------------------------
(* Requests *)

At(r, op, step) == requests[r].op = op /\ requests[r].step = step

Go(r, step) == requests' = [requests EXCEPT ![r].step = step, ![r].line = 1]

NextLine(r) == requests' = [requests EXCEPT ![r].line = @ + 1]

Finish(r) == requests' = [requests EXCEPT ![r] = Idle]

Begin(r, record) == requests[r] = Idle /\ requests' = [requests EXCEPT ![r] = record]

\* The loops over lines: one call to the stock repository each.
SetHold(c, l, status) == holds' = [holds EXCEPT ![c][l] = status]

EndHold(c, l, status) ==
  IF holds[c][l] = "active" THEN SetHold(c, l, status) ELSE UNCHANGED holds

\* The lines of a purchase: a purchase without a cart has one.
LinesOf(hasCart) == IF hasCart THEN Lines ELSE {1}

Wanted(r) == LinesOf(requests[r].cart # NoCart)

Taken(l) == {c \in Checkouts : holds[c][l] \in {"active", "consumed"}}

Available(l) == Cardinality(Taken(l)) < Capacity[l]

Stored(k) == {c \in Checkouts : keyOf[c] = k /\ checkouts[c].status # "absent"}

----------------------------------------------------------------------------
(* checkout.start *)

\* findCheckoutByIdempotencyKey finds nothing (a stored checkout is replayed,
\* and expired first when it is due: BeginExpire), and resolveCheckoutStart
\* reads an open cart, or prices a single item bought without one.  Both reads
\* are one step: each is checked again, by the claim and by the unique index.
BeginStart(r, c, k) ==
  /\ keyOf[c] = Unused
  /\ now + MaxTTL <= MaxTime  \* bound: the clock reaches every expiry
  /\ k # NoKey => Stored(k) = {}
  /\ \/ /\ "cart" \in Offers /\ cart.status = "open"
        /\ Begin(r, [Idle EXCEPT !.op = "start", !.step = "claim", !.checkout = c,
                                 !.at = now, !.cart = cart])
     \/ /\ "buy_now" \in Offers
        /\ Begin(r, [Idle EXCEPT !.op = "start", !.step = "reserve", !.checkout = c,
                                 !.at = now, !.line = 1])
  /\ keyOf' = [keyOf EXCEPT ![c] = k]
  /\ UNCHANGED <<cart, checkouts, holds, holdEnds, provider, now, history>>

ClaimCart(r) ==
  LET c == requests[r].checkout
  IN  /\ At(r, "start", "claim")
      /\ IF cart.status = "open" /\ cart.version = requests[r].cart.version
         THEN /\ cart' = [cart EXCEPT !.status = "checkout_pending", !.version = @ + 1,
                                      !.claim = c, !.claimEnds = requests[r].at + TTL]
              /\ Go(r, "reserve")
         ELSE UNCHANGED cart /\ Finish(r)
      /\ UNCHANGED <<checkouts, keyOf, holds, holdEnds, provider, now, history>>

\* Another start with the same key holds this line: the repository replays.
Replayed(c, l) ==
  keyOf[c] # NoKey /\ \E d \in Taken(l) : d # c /\ keyOf[d] = keyOf[c]

\* Seeded fault: the repository does not look at the stock.
ReserveUnseen(r) ==
  LET c == requests[r].checkout
      l == requests[r].line
  IN  /\ At(r, "start", "reserve") /\ l \in Wanted(r) /\ ~Replayed(c, l)
      /\ SetHold(c, l, "active")
      /\ holdEnds' = [holdEnds EXCEPT ![c] = requests[r].at + TTL]
      /\ NextLine(r)
      /\ UNCHANGED <<cart, checkouts, keyOf, provider, now, history>>

ReserveLine(r) ==
  LET c == requests[r].checkout
      l == requests[r].line
  IN  /\ At(r, "start", "reserve") /\ l \in Wanted(r)
      /\ ~Replayed(c, l) /\ Available(l)
      /\ SetHold(c, l, "active")
      /\ holdEnds' = [holdEnds EXCEPT ![c] = requests[r].at + TTL]
      /\ NextLine(r)
      /\ UNCHANGED <<cart, checkouts, keyOf, provider, now, history>>

\* Seeded fault: the lines reserved before the failing one are forgotten.
ReserveGivesUp(r) ==
  /\ At(r, "start", "reserve") /\ requests[r].line \in Wanted(r)
  /\ requests' = [requests EXCEPT ![r].step = "release", ![r].line = LineCount + 1]
  /\ UNCHANGED <<stores, now, history>>

\* insufficient_stock, replayed, or an error thrown by the repository.
ReserveFails(r) ==
  /\ At(r, "start", "reserve") /\ requests[r].line \in Wanted(r)
  /\ Go(r, "release")
  /\ UNCHANGED <<stores, now, history>>

AllReserved(r) == At(r, "start", "reserve") /\ requests[r].line \notin Wanted(r)

\* A hosted session is open until the customer pays; a delegated payment is
\* completed at once; a session may come back closed, already cancelled, expired
\* or not bound to this checkout.  The provider may let it live longer than TTL.
Expiries(r) == {requests[r].at + TTL, requests[r].at + MaxTTL}

ProviderAnswers(r, session, expires) ==
  LET c == requests[r].checkout
  IN  /\ AllReserved(r)
      /\ provider' = [provider EXCEPT ![c] = session]
      /\ requests' = [requests EXCEPT ![r].step = "extend", ![r].expires = expires]
      /\ UNCHANGED <<cart, checkouts, keyOf, holds, holdEnds, now, history>>

\* The provider throws or returns a failed session.
ProviderFails(r) ==
  /\ AllReserved(r)
  /\ Go(r, "release")
  /\ UNCHANGED <<stores, now, history>>

Extend(r) ==
  LET c == requests[r].checkout
  IN  /\ At(r, "start", "extend")
      /\ holdEnds' = IF requests[r].expires > holdEnds[c]
                     THEN [holdEnds EXCEPT ![c] = requests[r].expires] ELSE holdEnds
      /\ Go(r, "put_checkout")
      /\ UNCHANGED <<cart, checkouts, keyOf, holds, provider, now, history>>

ExtendFails(r) ==
  /\ At(r, "start", "extend")
  /\ Go(r, "release")
  /\ UNCHANGED <<stores, now, history>>

\* checkoutDocumentStatus of the answer: only "failed" itself ended the start.
Outcome(session) ==
  CASE session = "paid"   -> {"completed"}
    [] session = "closed" -> {"cancelled", "expired", "failed"}
    [] OTHER              -> {"created"}

\* persistCheckoutStart, first write.  A second checkout with the same key
\* violates the unique index and throws (PersistFails).
PutCheckout(r) ==
  LET c == requests[r].checkout
  IN  /\ At(r, "start", "put_checkout")
      /\ keyOf[c] # NoKey => Stored(keyOf[c]) = {}
      /\ \E status \in Outcome(provider[c]) :
           checkouts' = [checkouts EXCEPT ![c] =
             [status |-> status, order |-> FALSE,
              cart |-> requests[r].cart # NoCart, expires |-> requests[r].expires]]
      /\ Go(r, "put_cart")
      /\ UNCHANGED <<cart, keyOf, holds, holdEnds, provider, now, history>>

\* The status token, which nothing here reads, and then a blind put of the
\* cart as it was resolved, with the reservations on its lines.
PutCart(r) ==
  /\ At(r, "start", "put_cart")
  /\ cart' = IF requests[r].cart = NoCart THEN cart
             ELSE [status |-> "checkout_pending", version |-> requests[r].cart.version + 1,
                   claim |-> Nobody, claimEnds |-> 0, session |-> requests[r].checkout]
  /\ Finish(r)
  /\ UNCHANGED <<checkouts, keyOf, holds, holdEnds, provider, now, history>>

PersistFails(r) ==
  /\ requests[r].op = "start" /\ requests[r].step \in {"put_checkout", "put_cart"}
  /\ Go(r, "release")
  /\ UNCHANGED <<stores, now, history>>

ReleaseLine(r) ==
  LET l == requests[r].line
  IN  /\ At(r, "start", "release") /\ l \in Lines
      /\ EndHold(requests[r].checkout, l, "released")
      /\ NextLine(r)
      /\ UNCHANGED <<cart, checkouts, keyOf, holdEnds, provider, now, history>>

AllReleased(r) == At(r, "start", "release") /\ requests[r].line \notin Lines

\* Seeded fault: the failed start leaves its claim on the cart.
KeepClaim(r) ==
  /\ AllReleased(r)
  /\ UNCHANGED cart
  /\ IF checkouts[requests[r].checkout].status = "absent" THEN Finish(r) ELSE Go(r, "mark_failed")
  /\ UNCHANGED <<checkouts, keyOf, holds, holdEnds, provider, now, history>>

ReleaseClaim(r) ==
  LET c == requests[r].checkout
  IN  /\ AllReleased(r)
      /\ cart' = IF requests[r].cart # NoCart /\ cart.status = "checkout_pending" /\ cart.claim = c
                 THEN [cart EXCEPT !.status = "open", !.version = @ + 1,
                                   !.claim = Nobody, !.claimEnds = 0]
                 ELSE cart
      /\ IF checkouts[c].status = "absent" THEN Finish(r) ELSE Go(r, "mark_failed")
      /\ UNCHANGED <<checkouts, keyOf, holds, holdEnds, provider, now, history>>

\* A blind put too.
MarkCheckoutPersistenceFailed(r) ==
  /\ At(r, "start", "mark_failed")
  /\ checkouts' = [checkouts EXCEPT ![requests[r].checkout].status = "failed",
                                    ![requests[r].checkout].order = FALSE]
  /\ Finish(r)
  /\ UNCHANGED <<cart, keyOf, holds, holdEnds, provider, now, history>>

\* The failure is handled and the handling fails.  A line that cannot be released
\* ends the release of the others, and here, while the lines were still being
\* reserved, the claim is released all the same; else the start ends there
\* (Crash).  A claim that cannot be released and a mark that cannot be put are
\* passed over: releaseCartCheckoutClaimQuietly, markCheckoutPersistenceFailed.
CleanUpFails(r) ==
  LET c == requests[r].checkout
  IN  /\ Cardinality(broken) < MaxFaults
      /\ broken' = broken \cup {c}
      /\ \/ /\ At(r, "start", "release") /\ requests[r].line \in Lines
            /\ \E l \in Wanted(r) : holds[c][l] = "absent"
            /\ requests' = [requests EXCEPT ![r].line = LineCount + 1]
         \/ /\ AllReleased(r) /\ requests[r].cart # NoCart
            /\ IF checkouts[c].status = "absent" THEN Finish(r) ELSE Go(r, "mark_failed")
         \/ /\ At(r, "start", "mark_failed")
            /\ Finish(r)
      /\ UNCHANGED <<stores, now, slow>>

----------------------------------------------------------------------------
(* checkout.cancel, and expiry by checkout.status, by a replay or by the   *)
(* provider's webhook                                                      *)

Starting(c) == \E r \in Requests : requests[r].op = "start" /\ requests[r].checkout = c

\* The id and the redirect URL are the answer of the start, or of its replay by key.
Known(c) == checkouts[c].status # "absent" /\ (Starting(c) => keyOf[c] # NoKey)

Settled(c) == checkouts[c].status = "completed" \/ checkouts[c].order

BeginCancel(r, c) ==
  /\ Known(c) /\ checkouts[c].status \in Live /\ ~Settled(c)
  /\ Begin(r, [Idle EXCEPT !.op = "cancel", !.step = "expire", !.checkout = c, !.line = 1])
  /\ UNCHANGED <<stores, now, history>>

checkoutIsExpired(c) == checkouts[c].status \in Live /\ checkouts[c].expires <= now

\* A read, or a replay of the start, finds the checkout overdue; or the provider says so.
BeginExpire(r, c) ==
  /\ checkouts[c].status \in Live /\ ~Settled(c)
  /\ (Known(c) /\ checkoutIsExpired(c)) \/ provider[c] = "expired"
  /\ Begin(r, [Idle EXCEPT !.op = "expire", !.step = "expire", !.checkout = c, !.line = 1])
  /\ UNCHANGED <<stores, now, history>>

\* The lines with a reservation; a cart that was only claimed has none yet.
ExpireLine(r) ==
  LET c == requests[r].checkout
      l == requests[r].line
  IN  /\ requests[r].op \in {"cancel", "expire", "reopen"} /\ requests[r].step = "expire"
      /\ c # Nobody /\ l \in Lines
      /\ EndHold(c, l, "expired")
      /\ NextLine(r)
      /\ UNCHANGED <<cart, checkouts, keyOf, holdEnds, provider, now, history>>

AllExpired(r, op) ==
  At(r, op, "expire") /\ (requests[r].checkout = Nobody \/ requests[r].line \notin Lines)

\* putCheckoutIfStatus: the stored document decides, not the copy that was read.
putCheckoutIfNotSettled(c, status, allowed) ==
  checkouts' = IF checkouts[c].status \in allowed /\ ~Settled(c)
               THEN [checkouts EXCEPT ![c].status = status] ELSE checkouts

\* Seeded fault: a blind put, as a host without putCheckoutIfStatus gets.
PutCancelledBlindly(r) ==
  LET c == requests[r].checkout
  IN  /\ AllExpired(r, "cancel")
      /\ checkouts' = [checkouts EXCEPT ![c].status = "cancelled"]
      /\ IF checkouts[c].cart THEN Go(r, "read_cart") ELSE Finish(r)
      /\ UNCHANGED <<cart, keyOf, holds, holdEnds, provider, now, history>>

\* The second read before the put can only stop what the put stops.
PutCancelled(r) ==
  LET c == requests[r].checkout
  IN  /\ AllExpired(r, "cancel")
      /\ putCheckoutIfNotSettled(c, "cancelled", Live)
      /\ IF checkouts[c].cart /\ checkouts[c].status \in Live /\ ~Settled(c)
         THEN Go(r, "read_cart") ELSE Finish(r)
      /\ UNCHANGED <<cart, keyOf, holds, holdEnds, provider, now, history>>

PutExpired(r) ==
  LET c == requests[r].checkout
  IN  /\ AllExpired(r, "expire")
      /\ putCheckoutIfNotSettled(c, "expired", Live \cup {"expired"})
      /\ Finish(r)
      /\ UNCHANGED <<cart, keyOf, holds, holdEnds, provider, now, history>>

\* The cart is reopened when it is pending, whichever checkout it waits for.
ReadCartToReopen(r) ==
  /\ At(r, "cancel", "read_cart")
  /\ IF cart.status = "checkout_pending"
     THEN requests' = [requests EXCEPT ![r].step = "put_open", ![r].cart = cart]
     ELSE Finish(r)
  /\ UNCHANGED <<stores, now, history>>

\* reopenCartDocument of the cart as it was read: a claim on it stays.
PutReopened(r) ==
  /\ At(r, "cancel", "put_open") \/ AllExpired(r, "reopen")
  /\ cart' = [requests[r].cart EXCEPT !.status = "open", !.version = @ + 1, !.session = Nobody]
  /\ Finish(r)
  /\ UNCHANGED <<checkouts, keyOf, holds, holdEnds, provider, now, history>>

----------------------------------------------------------------------------
(* findOpenCart: the shopper comes back to a cart that waits for a checkout *)

\* Seeded fault: the claim is honoured after it lapsed.
ReopenOnlyUnclaimed(r) ==
  /\ cart.status = "checkout_pending" /\ cart.claim = Nobody
  /\ Begin(r, [Idle EXCEPT !.op = "reopen", !.step = "read_checkout",
                           !.checkout = cart.session, !.at = now, !.cart = cart])
  /\ UNCHANGED <<stores, now, history>>

BeginReopen(r) ==
  /\ cart.status = "checkout_pending"
  /\ cart.claim = Nobody \/ cart.claimEnds <= now
  /\ Begin(r, [Idle EXCEPT !.op = "reopen", !.step = "read_checkout",
                           !.checkout = cart.session, !.at = now, !.cart = cart])
  /\ UNCHANGED <<stores, now, history>>

Resumable(c, at) == checkouts[c].status \in Live /\ checkouts[c].expires > at

\* Seeded fault: a live checkout does not keep its cart.
ReopenAnyway(r) ==
  LET c == requests[r].checkout
  IN  /\ At(r, "reopen", "read_checkout")
      /\ IF c # Nobody /\ checkouts[c].status = "completed" THEN Finish(r)
         ELSE Go(r, "expire")
      /\ UNCHANGED <<stores, now, history>>

ReadCheckoutToReopen(r) ==
  LET c == requests[r].checkout
  IN  /\ At(r, "reopen", "read_checkout")
      /\ IF c # Nobody /\ (checkouts[c].status = "completed" \/ Resumable(c, requests[r].at))
         THEN Finish(r) ELSE Go(r, "expire")
      /\ UNCHANGED <<stores, now, history>>

----------------------------------------------------------------------------
(* The payment webhook, once the provider was paid *)

BeginPayment(r, c) ==
  /\ provider[c] = "paid" /\ checkouts[c].status # "absent"
  /\ \E l \in LinesOf(checkouts[c].cart) : holds[c][l] # "consumed"
  /\ Begin(r, [Idle EXCEPT !.op = "pay", !.step = "complete", !.checkout = c])
  /\ UNCHANGED <<stores, now, history>>

\* completeCheckoutForPaymentOrder: a blind put, then the cart.
PutCompleted(r) ==
  LET c == requests[r].checkout
  IN  /\ At(r, "pay", "complete")
      /\ checkouts' = [checkouts EXCEPT ![c].status = "completed", ![c].order = TRUE]
      /\ Go(r, IF checkouts[c].cart THEN "read_cart" ELSE "consume")
      /\ UNCHANGED <<cart, keyOf, holds, holdEnds, provider, now, history>>

ReadCartToConvert(r) ==
  /\ At(r, "pay", "read_cart")
  /\ IF cart.status = "checkout_pending" /\ cart.session = requests[r].checkout
     THEN requests' = [requests EXCEPT ![r].step = "put_cart", ![r].cart = cart]
     ELSE Go(r, "consume")
  /\ UNCHANGED <<stores, now, history>>

PutConverted(r) ==
  /\ At(r, "pay", "put_cart")
  /\ cart' = [requests[r].cart EXCEPT !.status = "converted", !.version = @ + 1]
  /\ Go(r, "consume")
  /\ UNCHANGED <<checkouts, keyOf, holds, holdEnds, provider, now, history>>

\* Fulfilment consumes line by line, and stops at a line it cannot consume.
ConsumeLine(r) ==
  LET c == requests[r].checkout
      l == requests[r].line
      Proceed == IF l + 1 \notin LinesOf(checkouts[c].cart) THEN Finish(r) ELSE NextLine(r)
  IN  /\ At(r, "pay", "consume")
      /\ \/ /\ holds[c][l] = "active" \/ (holds[c][l] = "expired" /\ Available(l))
            /\ SetHold(c, l, "consumed") /\ Proceed
         \/ /\ holds[c][l] = "consumed"
            /\ UNCHANGED holds /\ Proceed
         \/ /\ holds[c][l] = "released" \/ (holds[c][l] = "expired" /\ ~Available(l))
            /\ UNCHANGED holds /\ Finish(r)
      /\ UNCHANGED <<cart, checkouts, keyOf, holdEnds, provider, now, history>>

----------------------------------------------------------------------------
(* The world around *)

\* putCartIfUnchanged, read and compare-and-set: a lost race changes nothing.
EditCart ==
  /\ cart.status = "open" /\ cart.version < MaxEdits
  /\ cart' = [cart EXCEPT !.version = @ + 1]
  /\ UNCHANGED <<checkouts, keyOf, holds, holdEnds, provider, requests, now, history>>

\* The maintenance job's releaseExpiredReservations.
Sweep ==
  /\ \E c \in Checkouts, l \in Lines : holds[c][l] = "active" /\ holdEnds[c] <= now
  /\ holds' = [c \in Checkouts |-> [l \in Lines |->
                 IF holds[c][l] = "active" /\ holdEnds[c] <= now THEN "expired" ELSE holds[c][l]]]
  /\ UNCHANGED <<cart, checkouts, keyOf, holdEnds, provider, requests, now, history>>

CustomerPays(c) ==
  /\ provider[c] = "open" /\ Known(c)
  /\ provider' = [provider EXCEPT ![c] = "paid"]
  /\ UNCHANGED <<cart, checkouts, keyOf, holds, holdEnds, requests, now, history>>

ProviderExpires(c) ==
  /\ provider[c] = "open"
  /\ provider' = [provider EXCEPT ![c] = "expired"]
  /\ UNCHANGED <<cart, checkouts, keyOf, holds, holdEnds, requests, now, history>>

\* The process that serves a request dies between two awaits, or an error goes
\* through that nothing catches: of a release, or of the hash before the put.
Crash(r) ==
  /\ requests[r] # Idle /\ Cardinality(broken) < MaxFaults
  /\ broken' = broken \cup {requests[r].checkout}
  /\ Finish(r)
  /\ UNCHANGED <<stores, now, slow>>

Tick ==
  /\ now < MaxTime
  /\ now' = now + 1
  /\ slow' = slow \cup {requests[r].checkout : r \in {q \in Requests :
                 requests[q].op = "start" /\ requests[q].at + TTL <= now + 1}}
  /\ UNCHANGED <<stores, requests, broken>>

----------------------------------------------------------------------------
Start(r) ==
  \/ ClaimCart(r)
  \/ ReserveLine(r) \/ ReserveFails(r)
  \/ \E session \in Sessions, x \in Expiries(r) : ProviderAnswers(r, session, x)
  \/ ProviderFails(r) \/ Extend(r) \/ ExtendFails(r)
  \/ PutCheckout(r) \/ PutCart(r) \/ PersistFails(r)
  \/ ReleaseLine(r) \/ ReleaseClaim(r) \/ MarkCheckoutPersistenceFailed(r)

Stop(r) ==
  \/ ExpireLine(r) \/ PutCancelled(r) \/ PutExpired(r) \/ ReadCartToReopen(r) \/ PutReopened(r)
  \/ ReadCheckoutToReopen(r)

Pay(r) ==
  \/ PutCompleted(r) \/ ReadCartToConvert(r) \/ PutConverted(r) \/ ConsumeLine(r)

Next ==
  \/ \E r \in Requests :
       \/ \E c \in Checkouts : \/ \E k \in Keys \cup {NoKey} : BeginStart(r, c, k)
                              \/ BeginCancel(r, c) \/ BeginExpire(r, c) \/ BeginPayment(r, c)
       \/ BeginReopen(r) \/ Start(r) \/ Stop(r) \/ Pay(r) \/ CleanUpFails(r) \/ Crash(r)
  \/ \E c \in Checkouts : CustomerPays(c) \/ ProviderExpires(c)
  \/ EditCart \/ Sweep \/ Tick

Spec == Init /\ [][Next]_vars

\* A request that does not break off is served to its end, time passes, and the
\* shopper comes back again and again.
FairSpec ==
  /\ Spec
  /\ WF_vars(Tick)
  /\ \A r \in Requests : WF_vars(Start(r) \/ Stop(r) \/ Pay(r))
  /\ SF_vars(\E r \in Requests : BeginReopen(r))

----------------------------------------------------------------------------
(* Properties *)

Statuses == Live \cup {"absent", "completed", "cancelled", "expired", "failed"}

CartDocument == [status : {"none", "open", "checkout_pending", "converted"}, version : Nat,
                 claim : Checkouts \cup {Nobody}, claimEnds : Nat,
                 session : Checkouts \cup {Nobody}]

CheckoutDocument == [status : Statuses, order : BOOLEAN, cart : BOOLEAN, expires : Nat]

\* The documents and the memory of the requests have their shapes: a pending
\* cart is claimed or names its checkout, a converted one names it, and an
\* open one does not.
TypeOK ==
  /\ cart \in CartDocument
  /\ cart.status = "open" => cart.session = Nobody
  /\ cart.status = "checkout_pending" => cart.claim # Nobody \/ cart.session # Nobody
  /\ cart.status = "converted" => cart.session # Nobody
  /\ checkouts \in [Checkouts -> CheckoutDocument]
  /\ keyOf \in [Checkouts -> Keys \cup {NoKey, Unused}]
  /\ holds \in [Checkouts -> [Lines -> {"absent", "active", "released", "expired", "consumed"}]]
  /\ holdEnds \in [Checkouts -> Nat]
  /\ provider \in [Checkouts -> {"none", "open", "paid", "expired", "closed"}]
  /\ \A r \in Requests : /\ requests[r].checkout \in Checkouts \cup {Nobody}
                         /\ requests[r].line \in 0..(LineCount + 1)
                         /\ requests[r].cart \in CartDocument
  /\ now \in 0..MaxTime
  /\ slow \subseteq Checkouts
  /\ broken \subseteq Checkouts \cup {Nobody}

Working(c) == \E r \in Requests : requests[r].checkout = c

Failing(c) == \E r \in Requests : /\ requests[r].op = "start" /\ requests[r].checkout = c
                                  /\ requests[r].step \in {"release", "mark_failed"}

Stopped(c) == \E r \in Requests : /\ requests[r].op \in {"cancel", "expire"}
                                  /\ requests[r].checkout = c

Payable(c) ==
  /\ checkouts[c].status = "created" /\ now < checkouts[c].expires
  /\ provider[c] # "expired" /\ ~Stopped(c) /\ ~Failing(c)

\* A customer who may still pay finds the goods: as long as a checkout is
\* created and not expired, neither cancelled nor expired by the provider,
\* each of its lines is held or sold, whatever the sweep, other starts and
\* returning shoppers do.  (slow: start.ts goes on when its reservations
\* lapsed while it waited for the provider; extendReservations skips what was
\* swept.  broken: a cancel may die after it gave the stock back, and a start
\* may give it back and fail to mark the checkout it had stored.)
LiveCheckoutHoldsStock ==
  \A c \in Checkouts \ (slow \cup broken) :
    Payable(c) => \A l \in LinesOf(checkouts[c].cart) : holds[c][l] \in {"active", "consumed"}

\* Units do not leak: when every request on a checkout has ended and none broke
\* off, a checkout that was never stored, failed, was cancelled or expired holds
\* nothing any more, whichever step failed.  One that the provider answered as
\* closed is the exception: start.ts stores it as ended and keeps its
\* reservations, which wait for the sweep or for the shopper's return.
NoAbandonedHold ==
  \A c \in Checkouts \ broken :
    ~Working(c) /\ checkouts[c].status \notin {"created", "completed"} /\ provider[c] # "closed"
      => \A l \in Lines : holds[c][l] # "active"

\* A pending cart that is claimed waits for a start that is still running or
\* that broke off: died, ended by an error nothing catches, or passed over the
\* failed release of its claim.  Every other way out of start.ts gives it back.
ClaimHasOwner ==
  cart.status = "checkout_pending" /\ cart.claim # Nobody
    => Starting(cart.claim) \/ cart.claim \in broken

\* A paid checkout is never turned back by a cancel, an expiry or a reopening
\* that read it earlier.  (The start that failed after it had stored the
\* checkout overwrites it: markCheckoutPersistenceFailed.)
PaidStaysPaid ==
  [][\A c \in Checkouts :
       checkouts[c].status = "completed" /\ checkouts'[c].status # "completed"
         => checkouts'[c].status = "failed" /\ Failing(c)]_vars

\* A cart that went to checkout comes back to the shopper, or was bought,
\* also when the start that claimed it died.
NoTrappedCart ==
  cart.status = "checkout_pending"
    ~> \/ cart.status # "checkout_pending"
       \/ cart.session # Nobody /\ checkouts[cart.session].status = "completed"

\* Checkouts take and return units by the rules of Inventory.
Phase(status) ==
  CASE status = "active"   -> "held"
    [] status = "released" -> "returned"
    [] status = "expired"  -> "lapsed"
    [] status = "consumed" -> "sold"
    [] status = "absent"   -> "absent"

Ledger == INSTANCE Inventory
            WITH Items <- Lines, NoItem <- 0, Entries <- Checkouts \X Lines, MaxQty <- 1,
                 Seed <- Capacity,
                 ledger <- [e \in Checkouts \X Lines |->
                   IF holds[e[1]][e[2]] = "absent"
                   THEN [item |-> 0, phase |-> "absent", qty |-> 0]
                   ELSE [item |-> e[2], phase |-> Phase(holds[e[1]][e[2]]), qty |-> 1]]

\* No interleaving of starts, cancels, expiries, sweeps and late payments
\* promises or sells a unit twice.
UsesInventory == Ledger!Spec
=============================================================================
