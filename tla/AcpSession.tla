----------------------------- MODULE AcpSession -----------------------------
(***************************************************************************)
(* Agentic-commerce checkout sessions: create, update, complete, cancel    *)
(* and get over a session store with fenced idempotency claims, and the    *)
(* expiry and purge of sessions.                                           *)
(*                                                                         *)
(* Every request runs once, one call to the store or to the shop at a      *)
(* time, and keeps the record it read at its start.  The shop is seen      *)
(* through the cart of the session and the checkouts paid from it; how a   *)
(* checkout gets there is Checkout.tla.                                    *)
(***************************************************************************)
EXTENDS Integers, FiniteSets

CONSTANTS
  Requests,    \* HTTP requests; one that starts a payment names its checkout
  Nobody,      \* no request: the absent checkout of a record, an unclaimed key
  Ids,         \* session ids createSessionId may return
  Existing,    \* sessions that were created before
  Ops,         \* the operations the agents use
  Keys,        \* values of the Idempotency-Key header
  Items,       \* what the agent may ask for: an update asks for all of it,
  First,       \* the create for this
  Buyers,      \* buyers the agent may name; the first create names Buyer
  Buyer,
  SessionTTL,  \* acpSessionTtlMs
  ClaimTTL,    \* idempotencyClaimTtlMs
  Retention,   \* acpTerminalRetentionMs
  Retries,     \* MIKA_ACP_COMPLETE_WRITE_RETRIES
  MaxTime,     \* bound: the clock stops here
  MaxInFlight, \* bound: requests served at one time
  MaxFaults    \* bound: requests that die or meet a failing store

ASSUME AcpAssumption ==
  /\ Existing \subseteq Ids /\ Nobody \notin Requests /\ Buyer \in Buyers
  /\ First \subseteq Items /\ First # {}
  /\ Ops \subseteq {"create", "update", "complete", "cancel", "get"}
  /\ {SessionTTL, ClaimTTL, Retries, MaxTime} \subseteq Nat \ {0}
  /\ {Retention, MaxInFlight, MaxFaults} \subseteq Nat

VARIABLES
  store,     \* Ids -> the session record
  claims,    \* claim keys -> who holds them, and whether they are bound
  carts,     \* Ids -> the cart of the session
  payments,  \* Requests -> the checkout this request started
  requests,  \* Requests -> what a request remembers
  now,       \* the wall clock
  made,      \* history: Ids -> the create that stored the session
  late,      \* history: creates that outlived their claim
  faulted,   \* history: requests that died or met a failing store
  contested, \* history: completions during which another decision was stored
  purged     \* history: sessions that were purged

shop == <<carts, payments>>
history == <<made, late, faulted, contested, purged>>
vars == <<store, claims, shop, requests, now, history>>

NoRecord == [status |-> "none", cart |-> 0, checkout |-> Nobody, buyer |-> Buyer, items |-> {},
             snapshot |-> {}, expires |-> 0, expired |-> FALSE, purge |-> 0, version |-> 0]

Present(i) == store[i].version > 0

\* Method, path and header; the path of a create is the same for all sessions.
ClaimKeys == ({"create"} \X Keys) \cup ({"update", "complete", "cancel"} \X Ids \X Keys)
               \cup ({"lock"} \X Ids)

Free == [id |-> Nobody, pending |-> FALSE, ends |-> 0, token |-> Nobody]

NoPayment == [status |-> "none", items |-> {}]

New == [op |-> "none", step |-> "new", id |-> Nobody, key |-> Nobody, want |-> {}, buyer |-> Buyer,
        seen |-> NoRecord, original |-> {}, todo |-> {}, tries |-> 0, outcome |-> "none", until |-> 0, lock |-> 0]

Created(i) == [NoRecord EXCEPT !.status = "ready_for_payment", !.cart = 1, !.items = First,
                               !.expires = 1 + SessionTTL, !.version = 1]

Init ==
  /\ store = [i \in Ids |-> IF i \in Existing THEN Created(i) ELSE NoRecord]
  /\ claims = [k \in ClaimKeys |-> Free]
  /\ carts = [i \in Ids |-> IF i \in Existing THEN [number |-> 1, items |-> First, by |-> Nobody]
                                              ELSE [number |-> 0, items |-> {}, by |-> Nobody]]
  /\ payments = [r \in Requests |-> NoPayment]
  /\ requests = [r \in Requests |-> New]
  /\ now = 1  \* 0 is no time
  /\ made = [i \in Ids |-> Nobody]
  /\ late = {} /\ faulted = {} /\ contested = {} /\ purged = {}

----------------------------------------------------------------------------
(* Requests and records *)

InFlight(r) == requests[r].step \notin {"new", "done"}

At(r, op, step) == requests[r].op = op /\ requests[r].step = step

Go(r, step) == requests' = [requests EXCEPT ![r].step = step]

\* What the properties remember of a request that was answered.
Ended(r) == [New EXCEPT !.op = requests[r].op, !.id = requests[r].id, !.key = requests[r].key,
                        !.outcome = requests[r].outcome, !.step = "done"]

Finish(r) == requests' = [requests EXCEPT ![r] = Ended(r)]

Terminal == {"completed", "canceled"}

IsExpired(record, t) ==
  record.status \notin Terminal /\ (record.expired \/ record.expires <= t)

ExpiredRecord(record, t) ==
  [record EXCEPT !.status = "not_ready_for_payment", !.expired = TRUE, !.purge = t + Retention,
                 !.version = @ + 1]

\* putIfUnchanged lets a write through when the record is gone.
Unchanged(i, version) == Present(i) => store[i].version = version

\* Another decision about the session: completions that are under way lose.
Contest(r) ==
  contested' = contested \cup {q \in Requests \ {r} : /\ requests[q].op = "complete"
                                                      /\ requests[q].id = requests[r].id
                                                      /\ InFlight(q)}

----------------------------------------------------------------------------
(* The start of a request: read the record, expire it when it is due, and  *)
(* claim the key *)

\* createSessionId: an id no record and no running create uses.
Fresh(i) == ~Present(i) /\ i \notin purged /\ \A q \in Requests : requests[q].id # i

\* Bound: sessions share nothing, so creates run among themselves, and the other
\* requests are for sessions that exist.
Together(op) ==
  \A q \in Requests : requests[q] # New => (requests[q].op = "create") = (op = "create")

\* A request on an expired session is refused, and a get with nothing to expire
\* only reads: neither changes anything.
Arrive(r, op, i, k, want, buyer) ==
  /\ requests[r] = New
  /\ Cardinality({q \in Requests : InFlight(q)}) < MaxInFlight
  /\ Together(op)
  /\ IF op = "create" THEN Fresh(i) ELSE Present(i) /\ ~store[i].expired
  /\ op = "get" => IsExpired(store[i], now)
  /\ op # "update" \/ want # {} => buyer = store[i].buyer
  /\ op = "update" /\ want = {} => buyer # store[i].buyer
  /\ requests' = [requests EXCEPT ![r] =
       [New EXCEPT !.op = op, !.id = i, !.key = k, !.want = want, !.buyer = buyer,
                   !.step = IF op # "create" /\ IsExpired(store[i], now) THEN "expire" ELSE "claim",
                   !.seen = IF op = "create" THEN NoRecord ELSE store[i]]]
  /\ UNCHANGED <<store, claims, shop, now, history>>

\* expireAcpRecordIfNeeded: on a lost race the stored record is read again.
Expire(r) ==
  LET i == requests[r].id
      seen == requests[r].seen
      won == Unchanged(i, seen.version)
      current == IF won THEN ExpiredRecord(seen, now) ELSE store[i]
  IN  /\ requests[r].step = "expire"
      /\ store' = [store EXCEPT ![i] = current]
      /\ IF requests[r].op = "get" \/ IsExpired(current, now) THEN Finish(r)
         ELSE requests' = [requests EXCEPT ![r].seen = current, ![r].step = "claim"]
      /\ UNCHANGED <<claims, shop, now, history>>

ClaimKey(r) ==
  IF requests[r].op = "create" THEN <<"create", requests[r].key>>
  ELSE <<requests[r].op, requests[r].id, requests[r].key>>

LockKey(r) == <<"lock", requests[r].id>>

\* A pending claim lapses; a bound key never does.
Claimable(k, i) == claims[k] = Free \/ (claims[k].pending /\ claims[k].ends <= now)

Claim(k, r) ==
  claims' = [claims EXCEPT ![k] = [id |-> requests[r].id, pending |-> TRUE,
                                   ends |-> now + ClaimTTL, token |-> r]]

\* A bound key is answered from the record it names, any other with a conflict.
BeginIdempotency(r) ==
  LET k == ClaimKey(r)
  IN  /\ requests[r].step = "claim"
      /\ IF Claimable(k, requests[r].id)
         THEN /\ Claim(k, r)
              /\ requests' = [requests EXCEPT ![r].until = now + ClaimTTL,
                   ![r].step = CASE requests[r].op = "create" -> "cart"
                                 [] requests[r].op = "complete" -> "lock"
                                 [] OTHER -> "check"]
         ELSE UNCHANGED claims /\ Finish(r)
      /\ UNCHANGED <<store, shop, now, history>>

\* The second claim of a completion, on acp_complete_lock of the session.
ClaimCompletionLock(r) ==
  /\ requests[r].step = "lock"
  /\ IF Claimable(LockKey(r), requests[r].id)
     THEN /\ Claim(LockKey(r), r)
          /\ requests' = [requests EXCEPT ![r].lock = now + ClaimTTL, ![r].step = "check"]
     ELSE UNCHANGED claims /\ Go(r, "release")
  /\ UNCHANGED <<store, shop, now, history>>

----------------------------------------------------------------------------
(* The end of a request: bind or release the key, release the lock *)

AfterKey(r) ==
  IF requests[r].lock > 0
  THEN requests' = [requests EXCEPT ![r] = [Ended(r) EXCEPT !.step = "unlock", !.lock = requests[r].lock]]
  ELSE Finish(r)

\* A claim that was taken over in the meantime has another token.
BindKey(r) ==
  LET k == ClaimKey(r)
  IN  /\ requests[r].step = "bind"
      /\ claims' = IF claims[k].token = r
                   THEN [claims EXCEPT ![k].pending = FALSE, ![k].ends = 0] ELSE claims
      /\ AfterKey(r)
      /\ UNCHANGED <<store, shop, now, history>>

\* Seeded fault: whoever ends gives the key back, whoever holds it now.
FreeAnyPending(k, r) == IF claims[k].pending THEN [claims EXCEPT ![k] = Free] ELSE claims

FreeClaim(k, r) ==
  IF claims[k].pending /\ claims[k].token = r /\ claims[k].id = requests[r].id
  THEN [claims EXCEPT ![k] = Free] ELSE claims

ReleaseKey(r) ==
  /\ requests[r].step = "release"
  /\ claims' = FreeClaim(ClaimKey(r), r)
  /\ AfterKey(r)
  /\ UNCHANGED <<store, shop, now, history>>

ReleaseLock(r) ==
  /\ requests[r].step = "unlock"
  /\ claims' = FreeClaim(LockKey(r), r)
  /\ Finish(r)
  /\ UNCHANGED <<store, shop, now, history>>

----------------------------------------------------------------------------
(* The cart of a session: findOrCreateOpenCart, and its rebuilding *)

Unpaid == {"cancelled", "expired"}

\* A cart whose checkout ended unpaid is reopened; after a payment the session
\* gets another one; a cart with a live checkout stays locked.
OpenCart(i) ==
  LET cart == carts[i]
  IN  CASE cart.number = 0 -> [number |-> 1, items |-> {}, by |-> Nobody]
        [] cart.number > 0 /\ cart.by = Nobody -> cart
        [] cart.number > 0 /\ cart.by # Nobody ->
             CASE payments[cart.by].status = "completed" ->
                    [number |-> cart.number + 1, items |-> {}, by |-> Nobody]
               [] payments[cart.by].status \in Unpaid -> [cart EXCEPT !.by = Nobody]
               [] payments[cart.by].status = "pending" -> cart

Locked(cart) == cart.by # Nobody

\* reconcileAcpCart: cart.get, one cart.remove per line, one cart.add per item,
\* in the order of the lists.
Following(todo) == CHOOSE x \in todo : TRUE

Rebuilding(r, step, todo) ==
  IF todo # {} THEN [requests[r] EXCEPT !.step = step, !.todo = todo]
  ELSE IF step = "remove" THEN [requests[r] EXCEPT !.step = "add", !.todo = requests[r].want]
  ELSE [requests[r] EXCEPT !.step = "put", !.todo = {}, !.original = {}]

GetCart(r) ==
  LET cart == OpenCart(requests[r].id)
  IN  /\ requests[r].step = "cart"
      /\ carts' = [carts EXCEPT ![requests[r].id] = cart]
      /\ requests' = [requests EXCEPT
           ![r] = [Rebuilding(r, "remove", cart.items) EXCEPT !.original = cart.items]]
      /\ UNCHANGED <<store, claims, payments, now, history>>

RemoveLine(r) ==
  LET i == requests[r].id
      cart == OpenCart(i)
      line == Following(requests[r].todo)
  IN  /\ requests[r].step = "remove"
      /\ IF Locked(cart) \/ line \notin cart.items
         THEN carts' = [carts EXCEPT ![i] = cart] /\ Go(r, "restore")
         ELSE /\ carts' = [carts EXCEPT ![i] = [cart EXCEPT !.items = @ \ {line}]]
              /\ requests' = [requests EXCEPT
                   ![r] = Rebuilding(r, "remove", requests[r].todo \ {line})]
      /\ UNCHANGED <<store, claims, payments, now, history>>

AddItem(r) ==
  LET i == requests[r].id
      cart == OpenCart(i)
      item == Following(requests[r].todo)
  IN  /\ requests[r].step = "add"
      /\ IF Locked(cart)
         THEN carts' = [carts EXCEPT ![i] = cart] /\ Go(r, "restore")
         ELSE /\ carts' = [carts EXCEPT ![i] = [cart EXCEPT !.items = @ \cup {item}]]
              /\ requests' = [requests EXCEPT
                   ![r] = Rebuilding(r, "add", requests[r].todo \ {item})]
      /\ UNCHANGED <<store, claims, payments, now, history>>

\* cart.add refuses an item: sold out, inactive, too many.
AddRefused(r) ==
  /\ requests[r].step = "add"
  /\ Go(r, "restore")
  /\ UNCHANGED <<store, claims, shop, now, history>>

\* restoreAcpCart, its calls in one step: nothing is put back into a locked cart.
RestoreCart(r) ==
  LET i == requests[r].id
      cart == OpenCart(i)
  IN  /\ requests[r].step = "restore"
      /\ carts' = [carts EXCEPT ![i] = IF Locked(cart) THEN cart
                                       ELSE [cart EXCEPT !.items = requests[r].original]]
      /\ Go(r, "release")
      /\ UNCHANGED <<store, claims, payments, now, history>>

----------------------------------------------------------------------------
(* create and update *)

PutCreated(r) ==
  LET i == requests[r].id
  IN  /\ At(r, "create", "put")
      /\ store' = [store EXCEPT ![i] =
           [NoRecord EXCEPT !.status = "ready_for_payment", !.cart = carts[i].number,
                            !.buyer = requests[r].buyer, !.items = requests[r].want,
                            !.expires = now + SessionTTL, !.version = 1]]
      /\ made' = [made EXCEPT ![i] = r]
      /\ Go(r, "bind")
      /\ UNCHANGED <<claims, shop, now, late, faulted, contested, purged>>

\* acpTerminalStatus: of the record, or of the checkout it names.
TerminalStatus(record) ==
  IF record.status \in Terminal THEN record.status
  ELSE IF record.checkout = Nobody THEN "none"
  ELSE CASE payments[record.checkout].status = "completed" -> "completed"
         [] payments[record.checkout].status = "cancelled" -> "canceled"
         [] payments[record.checkout].status \in {"pending", "expired"} -> "none"

CheckUpdate(r) ==
  LET seen == requests[r].seen
  IN  /\ At(r, "update", "check")
      /\ Go(r, IF \/ TerminalStatus(seen) # "none"
                  \/ seen.checkout # Nobody /\ requests[r].want # {} THEN "release"
               ELSE IF requests[r].want = {} THEN "put" ELSE "cart")
      /\ UNCHANGED <<store, claims, shop, now, history>>

PutUpdated(r) ==
  LET i == requests[r].id
      seen == requests[r].seen
      next == [seen EXCEPT !.buyer = requests[r].buyer, !.expires = now + SessionTTL,
                           !.version = @ + 1]
      rebuilt == [next EXCEPT !.items = requests[r].want, !.cart = carts[i].number,
                              !.status = "ready_for_payment"]
  IN  /\ At(r, "update", "put")
      /\ IF Unchanged(i, seen.version)
         THEN /\ store' = [store EXCEPT ![i] = IF requests[r].want = {} THEN next ELSE rebuilt]
              /\ Contest(r) /\ Go(r, "bind")
         ELSE UNCHANGED <<store, contested>> /\ Go(r, "release")
      /\ UNCHANGED <<claims, shop, now, made, late, faulted, purged>>

----------------------------------------------------------------------------
(* complete *)

\* The record that was read decides; then checkout.preview quotes the cart the
\* record names, locked or not, and an empty one is not ready for payment.
CheckComplete(r) ==
  LET seen == requests[r].seen
      cart == carts[requests[r].id]
  IN  /\ At(r, "complete", "check")
      /\ IF TerminalStatus(seen) = "completed" THEN Go(r, "bind")
         ELSE IF \/ TerminalStatus(seen) = "canceled" \/ seen.checkout # Nobody
                 \/ seen.cart # cart.number \/ cart.items = {} THEN Go(r, "release")
         ELSE requests' = [requests EXCEPT ![r].step = "start", ![r].want = cart.items]
      /\ UNCHANGED <<store, claims, shop, now, history>>

\* A start with this Idempotency-Key was stored: its input named another
\* authorization, so the replay is refused.
KeyIsUsed(r) ==
  \E q \in Requests : payments[q].status # "none" /\ requests[q].key = requests[r].key

\* Seeded fault: the start does not compare the quote with the previewed one.
Startable(r) ==
  LET cart == carts[requests[r].id]
  IN  /\ ~KeyIsUsed(r) /\ cart.by = Nobody
      /\ cart.number = requests[r].seen.cart /\ cart.items # {}

\* The cart is open and is still the one that was previewed: checkout.start
\* compares the hash of its own quote with that of the preview.
Authorized(r) ==
  LET cart == carts[requests[r].id]
  IN  /\ ~KeyIsUsed(r) /\ cart.by = Nobody
      /\ cart.number = requests[r].seen.cart /\ cart.items = requests[r].want

\* checkout.start answers with a checkout that waits for its payment, that is
\* paid, or that the provider ended at once ("expired" stands for them all).
StartCheckout(r, status) ==
  LET i == requests[r].id
  IN  /\ At(r, "complete", "start") /\ Authorized(r)
      /\ payments' = [payments EXCEPT ![r] = [status |-> status, items |-> carts[i].items]]
      /\ carts' = [carts EXCEPT ![i].by = r]
      /\ requests' = [requests EXCEPT ![r].step = "put", ![r].outcome = status]
      /\ UNCHANGED <<store, claims, now, history>>

\* ... or fails, and has undone what it did.
StartFails(r) ==
  /\ At(r, "complete", "start")
  /\ Go(r, "release")
  /\ UNCHANGED <<store, claims, shop, now, history>>

\* acpRecordIsOnlyIncidentallyExpired: status, expiry and version apart, the
\* record is the one that was read.
OnlyExpired(seen, current) ==
  /\ current.status \notin Terminal
  /\ \A f \in {"cart", "checkout", "buyer", "items", "snapshot", "expires"} :
       current[f] = seen[f]

\* What buildCompleted or buildReverted writes over the version read last, by
\* the outcome of the start.
CompletedRecord(r, outcome) ==
  LET base == [requests[r].seen EXCEPT !.buyer = requests[r].buyer, !.version = @ + 1]
  IN  CASE outcome = "expired" -> [base EXCEPT !.status = "not_ready_for_payment"]
        [] outcome = "pending" -> [base EXCEPT !.status = "ready_for_payment", !.checkout = r,
                                               !.snapshot = requests[r].want]
        [] outcome = "completed" -> [base EXCEPT !.status = "completed", !.checkout = r,
                                                 !.snapshot = requests[r].want,
                                                 !.purge = now + Retention]

\* Seeded fault: one attempt only, as a handler without the retry makes.
PutCompletedOnce(r) ==
  LET i == requests[r].id
      seen == requests[r].seen
  IN  /\ At(r, "complete", "put")
      /\ store' = IF Unchanged(i, seen.version)
                  THEN [store EXCEPT ![i] = CompletedRecord(r, requests[r].outcome)]
                  ELSE store
      /\ Contest(r) /\ Go(r, "bind")
      /\ UNCHANGED <<claims, shop, now, made, late, faulted, purged>>

\* putAcpRecordRetryingIncidentalExpiry: an attempt against the version read
\* last; a loss to an expiry sweep is tried again, any other one is final.
PutCompleted(r) ==
  LET i == requests[r].id
      seen == requests[r].seen
      retry == /\ Present(i) /\ OnlyExpired(seen, store[i]) /\ requests[r].tries + 1 < Retries
      ended == requests[r].outcome = "expired"
  IN  /\ At(r, "complete", "put")
      /\ IF Unchanged(i, seen.version)
         THEN /\ store' = [store EXCEPT ![i] =
                             CompletedRecord(r, requests[r].outcome)]
              /\ Contest(r) /\ Go(r, IF ended THEN "release" ELSE "bind")
         ELSE /\ UNCHANGED <<store, contested>>
              /\ requests' = IF retry
                             THEN [requests EXCEPT ![r].seen.version = store[i].version,
                                                   ![r].tries = @ + 1]
                             ELSE [requests EXCEPT ![r].step = "bind"]
      /\ UNCHANGED <<claims, shop, now, made, late, faulted, purged>>

----------------------------------------------------------------------------
(* cancel *)

\* Seeded fault: the payment is left running.
CancelRecordOnly(r) ==
  LET seen == requests[r].seen
  IN  /\ At(r, "cancel", "check")
      /\ Go(r, CASE TerminalStatus(seen) = "completed" -> "release"
                 [] TerminalStatus(seen) = "canceled" -> "bind"
                 [] OTHER -> "put")
      /\ UNCHANGED <<store, claims, shop, now, history>>

CheckCancel(r) ==
  LET seen == requests[r].seen
  IN  /\ At(r, "cancel", "check")
      /\ Go(r, CASE TerminalStatus(seen) = "completed" -> "release"
                 [] TerminalStatus(seen) = "canceled" -> "bind"
                 [] TerminalStatus(seen) = "none" ->
                      IF seen.checkout = Nobody THEN "put" ELSE "stop")
      /\ UNCHANGED <<store, claims, shop, now, history>>

\* checkout.cancel; on a checkout that has ended or was paid it changes
\* nothing and answers with success.
CancelCheckout(r) ==
  LET c == requests[r].seen.checkout
  IN  /\ At(r, "cancel", "stop")
      /\ IF payments[c].status = "pending"
         THEN /\ payments' = [payments EXCEPT ![c].status = "cancelled"]
              /\ carts' = [carts EXCEPT ![requests[r].id].by =
                             IF carts[requests[r].id].by = c THEN Nobody ELSE @]
         ELSE UNCHANGED shop
      /\ Go(r, "put")
      /\ UNCHANGED <<store, claims, now, history>>

PutCanceled(r) ==
  LET i == requests[r].id
      seen == requests[r].seen
      canceled == [seen EXCEPT !.status = "canceled", !.purge = now + Retention, !.version = @ + 1]
  IN  /\ At(r, "cancel", "put")
      /\ IF Unchanged(i, seen.version)
         THEN store' = [store EXCEPT ![i] = canceled] /\ Contest(r)
         ELSE UNCHANGED <<store, contested>>
      /\ Go(r, "bind")
      /\ UNCHANGED <<claims, shop, now, made, late, faulted, purged>>

----------------------------------------------------------------------------
(* The world around *)

\* The maintenance job, in one step over all sessions.
CleanupExpired ==
  LET gone == {i \in Ids : Present(i) /\ store[i].purge # 0 /\ store[i].purge <= now}
      due == {i \in Ids \ gone : Present(i) /\ IsExpired(store[i], now) /\ ~store[i].expired}
  IN  /\ gone \cup due # {}
      /\ store' = [i \in Ids |-> IF i \in gone THEN NoRecord
                                 ELSE IF i \in due THEN ExpiredRecord(store[i], now) ELSE store[i]]
      /\ claims' = [k \in ClaimKeys |-> IF claims[k].id \in gone THEN Free ELSE claims[k]]
      /\ purged' = purged \cup gone
      /\ UNCHANGED <<shop, requests, now, made, late, faulted, contested>>

\* A payment is completed by its webhook, late ones too, or expires.
PaymentSettles(c, status) ==
  /\ payments[c].status \in IF status = "completed" THEN {"pending"} \cup Unpaid ELSE {"pending"}
  /\ payments' = [payments EXCEPT ![c].status = status]
  /\ UNCHANGED <<store, claims, carts, requests, now, history>>

\* The process dies; its claims stay until they lapse.
Crash(r) ==
  /\ InFlight(r) /\ Cardinality(faulted) < MaxFaults
  /\ faulted' = faulted \cup {r}
  /\ Finish(r)
  /\ UNCHANGED <<store, claims, shop, now, made, late, contested, purged>>

\* A call throws: the handler catches it and releases what it claimed.
Throw(r) ==
  /\ requests[r].step \in {"cart", "remove", "add", "put", "check", "start", "stop", "bind"}
  /\ Cardinality(faulted) < MaxFaults
  /\ faulted' = faulted \cup {r}
  /\ Go(r, "release")
  /\ UNCHANGED <<store, claims, shop, now, made, late, contested, purged>>

Outlives(r, t) == InFlight(r) /\ requests[r].until > 0 /\ requests[r].until <= t

Tick ==
  /\ now < MaxTime
  /\ now' = now + 1
  /\ late' = late \cup {r \in Requests : requests[r].op = "create" /\ Outlives(r, now + 1)}
  /\ UNCHANGED <<store, claims, shop, requests, made, faulted, contested, purged>>

----------------------------------------------------------------------------
Rebuild(r) == GetCart(r) \/ RemoveLine(r) \/ AddItem(r) \/ AddRefused(r) \/ RestoreCart(r)

Handle(r) ==
  \/ Expire(r) \/ BeginIdempotency(r) \/ ClaimCompletionLock(r) \/ Rebuild(r)
  \/ PutCreated(r) \/ CheckUpdate(r) \/ PutUpdated(r)
  \/ CheckComplete(r) \/ StartFails(r) \/ PutCompleted(r)
  \/ \E status \in {"pending", "completed", "expired"} : StartCheckout(r, status)
  \/ CheckCancel(r) \/ CancelCheckout(r) \/ PutCanceled(r)
  \/ BindKey(r) \/ ReleaseKey(r) \/ ReleaseLock(r)

\* An update replaces the items or keeps them ({}); a create needs some.
Wants(op) == CASE op = "create" -> {First} [] op = "update" -> {Items, {}} [] OTHER -> {{}}

Next ==
  \/ \E r \in Requests :
       \/ \E op \in Ops, i \in Ids, k \in Keys, b \in Buyers :
            \E want \in Wants(op) : Arrive(r, op, i, k, want, b)
       \/ Handle(r) \/ Crash(r) \/ Throw(r)
  \/ \E c \in Requests, status \in {"completed", "expired"} : PaymentSettles(c, status)
  \/ CleanupExpired \/ Tick

Spec == Init /\ [][Next]_vars

----------------------------------------------------------------------------
(* Properties *)

Record == [status : {"none", "not_ready_for_payment", "ready_for_payment", "completed", "canceled"},
           cart : Nat, checkout : Requests \cup {Nobody}, buyer : Buyers, items : SUBSET Items,
           snapshot : SUBSET Items, expires : Nat, expired : BOOLEAN, purge : Nat, version : Nat]

\* Records, claims, carts and payments have their shapes: a record names a
\* checkout that was started and was captured in its snapshot, an expired or
\* terminal one is due to be purged, and a bound key has no owner to wait for.
TypeOK ==
  /\ store \in [Ids -> Record]
  /\ \A i \in Ids : /\ store[i].checkout # Nobody => /\ payments[store[i].checkout].status # "none"
                                                    /\ store[i].snapshot # {}
                    /\ store[i].expired \/ store[i].status = "canceled" => store[i].purge > 0
  /\ claims \in [ClaimKeys -> [id : Ids \cup {Nobody}, pending : BOOLEAN, ends : Nat,
                               token : Requests \cup {Nobody}]]
  /\ carts \in [Ids -> [number : Nat, items : SUBSET Items, by : Requests \cup {Nobody}]]
  /\ payments \in [Requests -> [status : {"none", "pending", "completed"} \cup Unpaid,
                                items : SUBSET Items]]
  /\ \A r \in Requests : requests[r].seen \in Record /\ requests[r].tries \in 0..Retries
  /\ now \in 1..MaxTime

\* The fencing token: as long as a claim has not lapsed, its request still owns
\* it, whatever requests that outlived theirs bind or release, so that no two
\* completions of a session hold its lock.  (A purge frees all claims.)
Fenced ==
  \A r \in Requests :
    InFlight(r) /\ requests[r].id \notin purged
      => /\ requests[r].until > now => claims[ClaimKey(r)].token = r
         /\ requests[r].lock > now => claims[LockKey(r)].token = r

\* A create that is sent again with its key makes no second session, unless the
\* first one died, met a failing store or outlived its claim.
OneSessionPerKey ==
  \A i, j \in Ids :
    /\ i # j /\ made[i] # Nobody /\ made[j] # Nobody
    /\ requests[made[i]].key = requests[made[j]].key
    => {made[i], made[j]} \cap (late \cup faulted) # {} \/ {i, j} \cap purged # {}

\* The idempotency and session claims shut out who comes second: a claim that has
\* not lapsed is its owner's, and a key makes one session.
ClaimsExclude == Fenced /\ OneSessionPerKey

Over(r) == requests[r].step \in {"unlock", "done"}

\* "A CAS loss against nothing more than expireAcpRecordIfNeeded's lazy sweep
\* isn't a real conflict": when a completion is over, its session names the
\* checkout it started, unless another decision about the session was stored
\* while it ran.
PaymentIsRecorded ==
  \A r \in Requests \ (faulted \cup contested) :
    Over(r) /\ requests[r].outcome \in {"pending", "completed"} /\ requests[r].id \notin purged
      => store[requests[r].id].checkout = r

\* What a record shows as bought is what was bought, although the cart may be
\* rebuilt between the preview and the start.
SnapshotIsCharged ==
  \A i \in Ids : store[i].checkout # Nobody => store[i].snapshot = payments[store[i].checkout].items

\* A canceled session leaves no checkout behind that still waits for payment.
CanceledStopsPayment ==
  \A i \in Ids : store[i].status = "canceled" /\ store[i].checkout # Nobody
                  => payments[store[i].checkout].status # "pending"

\* A completed or canceled session stays what it is until it is purged,
\* whichever request read it before.  (A request that read a session before it
\* was purged puts it back, and its version starts again.)
TerminalStays ==
  [][\A i \in Ids : store[i].status \in Terminal /\ i \notin purged'
                     => store'[i].status = store[i].status]_vars

\* "Checkout session is completed and cannot be canceled."
PaidIsNotCanceled ==
  [][\A i \in Ids : store'[i].status = "canceled" /\ store[i].status # "canceled"
                      /\ store'[i].checkout # Nobody
                     => payments[store'[i].checkout].status # "completed"]_vars

=============================================================================
