-------------------------- MODULE AcpSessionProofs --------------------------
(***************************************************************************)
(* Theorems about AcpSession, for every set of requests, sessions, keys,   *)
(* items and buyers, and every lifetime of a session and of a claim.       *)
(***************************************************************************)
EXTENDS AcpSession, TLAPS

----------------------------------------------------------------------------
(* The inductive invariant of types and control *)

Steps == {"new", "expire", "claim", "lock", "check", "cart", "remove", "add", "restore", "start",
          "stop", "put", "bind", "release", "unlock", "done"}

Outcomes == {"none", "pending", "completed", "expired"}

RequestRow == [op : {"none", "create", "update", "complete", "cancel", "get"}, step : Steps,
               id : Ids \cup {Nobody}, key : Keys \cup {Nobody}, want : SUBSET Items,
               buyer : Buyers, seen : Record, original : SUBSET Items, todo : SUBSET Items,
               tries : 0..Retries, outcome : Outcomes, until : Nat, lock : Nat]

ClaimRow == [id : Ids \cup {Nobody}, pending : BOOLEAN, ends : Nat, token : Requests \cup {Nobody}]

CartRow == [number : Nat, items : SUBSET Items, by : Requests \cup {Nobody}]

PaymentRow == [status : {"none", "pending", "completed"} \cup Unpaid, items : SUBSET Items]

\* The shapes TypeOK gives, and those of what a request remembers.
Types ==
  /\ store \in [Ids -> Record] /\ claims \in [ClaimKeys -> ClaimRow]
  /\ carts \in [Ids -> CartRow] /\ payments \in [Requests -> PaymentRow]
  /\ requests \in [Requests -> RequestRow]
  /\ now \in 1..MaxTime
  /\ made \in [Ids -> Requests \cup {Nobody}]

\* Which operation reaches which step, and what it carries there.
ControlOf(q) ==
  /\ q.step = "new" => q = New
  /\ q.step # "new" => q.op # "none" /\ q.id \in Ids /\ q.key \in Keys
  /\ q.op = "get" => q.step \in {"expire", "done"}
  /\ q.op = "create" => q.seen = NoRecord /\ q.step # "expire"
  /\ q.step \in {"lock", "start", "unlock"} => q.op = "complete"
  /\ q.step = "stop" => q.op = "cancel" /\ q.seen.checkout # Nobody
  /\ q.step \in {"cart", "remove", "add", "restore"} => q.op \in {"create", "update"}
  /\ q.op = "create" => q.step # "check"
  /\ q.step \in {"claim", "cart", "remove", "add"} /\ q.op = "create" => q.want # {}
  /\ q.step \in {"cart", "remove", "add"} => q.want # {}
  /\ q.step \in {"remove", "add"} => q.todo # {}
  /\ q.op = "complete" /\ q.step \in {"start", "put"} => q.want # {}
  /\ q.op = "complete" /\ q.step = "put" => q.outcome # "none"
  /\ q.lock > 0 => q.op = "complete"

Control == \A r \in Requests : ControlOf(requests[r])

\* A record, stored or remembered, names a checkout that was started, with what
\* the checkout charges in its snapshot; if it is canceled the checkout is not
\* waiting for its payment.
Agrees(record, pays) ==
  /\ record.checkout # Nobody => /\ pays[record.checkout].status # "none"
                                 /\ record.snapshot = pays[record.checkout].items
                                 /\ record.snapshot # {}
                                 /\ record.status = "canceled" => pays[record.checkout].status # "pending"
  /\ record.expired \/ record.status = "canceled" => record.purge > 0

Agreement ==
  /\ \A i \in Ids : Agrees(store[i], payments)
  /\ \A r \in Requests : Agrees(requests[r].seen, payments)

\* A completion has no checkout before its start; then it has one for what it
\* carries.  A cancel that is about to write has stopped the checkout it read of.
RequestCharges(r, q, pays) ==
  /\ q.step = "new" => pays[r].status = "none"
  /\ q.op = "complete" =>
       /\ q.step \in {"expire", "claim", "lock", "check", "start"} => pays[r].status = "none"
       /\ q.step = "put" => pays[r].status # "none" /\ pays[r].items = q.want
  /\ q.op = "cancel" /\ q.step = "put" /\ q.seen.checkout # Nobody
       => pays[q.seen.checkout].status # "pending"

Charges ==
  /\ \A r \in Requests : RequestCharges(r, requests[r], payments)
  /\ \A i \in Ids : carts[i].by # Nobody => payments[carts[i].by].status # "none"

----------------------------------------------------------------------------
(* The inductive invariants of claims, of what requests read, and of completions *)

\* A request has a deadline from its claim until its key is done with, and its
\* deadlines are over when it is.
TimesOf(q) ==
  /\ q.step \in {"new", "expire", "claim", "done"} => q.until = 0 /\ q.lock = 0
  /\ q.step = "unlock" => q.until = 0
  /\ q.step \notin {"new", "expire", "claim", "unlock", "done"} => q.until > 0

Timed == \A r \in Requests : TimesOf(requests[r])

\* Claim k is owned by request r until the given time.
Owns(r, k, until) ==
  /\ claims[k].token = r /\ claims[k].id = requests[r].id
  /\ claims[k].pending => claims[k].ends = until

Owners ==
  \A r \in Requests :
    InFlight(r) /\ requests[r].id \notin purged
      => /\ requests[r].until > now => Owns(r, ClaimKey(r), requests[r].until)
         /\ requests[r].lock > now => Owns(r, LockKey(r), requests[r].lock)

\* A create that is not late is still within its deadline.
Punctual ==
  \A r \in Requests \ late :
    requests[r].op = "create" /\ InFlight(r) /\ requests[r].until > 0 => requests[r].until > now

\* The create that made a session is about to bind its key, or has bound it.
Makers ==
  \A i \in Ids : made[i] # Nobody =>
    /\ requests[made[i]].op = "create" /\ requests[made[i]].id = i
    /\ made[i] \notin late \cup faulted /\ i \notin purged =>
         \/ requests[made[i]].step = "bind"
         \/ /\ requests[made[i]].step = "done"
            /\ claims[ClaimKey(made[i])].token = made[i] /\ claims[ClaimKey(made[i])].id = i
            /\ ~claims[ClaimKey(made[i])].pending

\* What a request knows of the record it read.
ReadOf(q) ==
  /\ q.step = "expire" => q.seen.status \notin Terminal /\ ~q.seen.expired
  /\ q.op = "update" /\ q.step \in {"cart", "remove", "add", "put"} => q.seen.status \notin Terminal
  /\ q.op = "cancel" /\ q.step \in {"stop", "put"} => q.seen.status \notin Terminal
  /\ q.op = "complete" /\ q.step \in {"claim", "lock", "check", "start", "put"}
       => q.seen.status \in Terminal \/ ~q.seen.expired
  /\ q.op = "complete" /\ q.step \in {"start", "put"}
       => q.seen.status \notin Terminal /\ q.seen.checkout = Nobody
  /\ q.op # "complete" \/ q.step \in {"expire", "claim", "lock", "check", "start"}
       => q.tries = 0 /\ q.outcome = "none"

Read == \A r \in Requests : ReadOf(requests[r])

\* Creates run among themselves, each for an id of its own that has no record.
Apart ==
  /\ \A i \in Ids : ~Present(i) => store[i] = NoRecord
  /\ \A q, r \in Requests : requests[q].step # "new" /\ requests[r].step # "new"
       => (requests[q].op = "create") = (requests[r].op = "create")
  /\ \A q, r \in Requests : q # r /\ requests[q].op = "create" /\ requests[r].op = "create"
       => requests[q].id # requests[r].id
  /\ \A r \in Requests : requests[r].op = "create" /\ requests[r].step \in {"claim", "cart", "remove", "add", "put"}
       => store[requests[r].id] = NoRecord

Reads(r) == requests[r].op # "create" /\ requests[r].step \notin {"new", "unlock", "done"}

\* Versions: what was read is older than the record, or is the record, but for
\* an expiry that a retry has seen.
Versions ==
  \A r \in Requests :
    Reads(r) /\ requests[r].id \notin purged
      => /\ Present(requests[r].id)
         /\ requests[r].seen.version <= store[requests[r].id].version
         /\ requests[r].seen.version = store[requests[r].id].version
              => \/ requests[r].tries = 0 /\ requests[r].seen = store[requests[r].id]
                 \/ requests[r].tries > 0 /\ OnlyExpired(requests[r].seen, store[requests[r].id])

\* A completion nobody contests loses at most to one expiry.
RecordingOf(r, q, record) ==
  /\ q.step \in {"claim", "lock", "check", "start", "put"} =>
       \/ q.seen.version = record.version /\ (q.tries = 0 \/ record.expired)
       \/ /\ q.seen.version < record.version /\ q.tries = 0
          /\ record.expired /\ OnlyExpired(q.seen, record)
  /\ q.step \in {"bind", "release", "unlock", "done"} /\ q.outcome \in {"pending", "completed"}
       => record.checkout = r

Recording ==
  \A r \in Requests \ (faulted \cup contested) :
    requests[r].op = "complete" /\ requests[r].id \notin purged
      => RecordingOf(r, requests[r], store[requests[r].id])

----------------------------------------------------------------------------
(* Type correctness *)

\* Lifetimes and retries are numbers; there is time for something to happen.
LEMMA Lifetimes ==
  /\ SessionTTL \in Nat \ {0} /\ ClaimTTL \in Nat \ {0} /\ Retries \in Nat \ {0}
  /\ MaxTime \in Nat \ {0} /\ Retention \in Nat
BY AcpAssumption DEF AcpAssumption

\* What the actions make of a request and of a record keeps its shape.
LEMMA RowShapes ==
  /\ NoRecord \in Record /\ New \in RequestRow /\ Free \in ClaimRow
  /\ \A q \in RequestRow, s \in Steps : [q EXCEPT !.step = s] \in RequestRow
  /\ \A record \in Record, t \in Nat : ExpiredRecord(record, t) \in Record
<1>1. NoRecord \in Record
  BY AcpAssumption DEF AcpAssumption, NoRecord, Record
<1>2. New \in RequestRow
  BY <1>1, AcpAssumption DEF AcpAssumption, New, RequestRow, Steps, Outcomes
<1>3. Free \in ClaimRow
  BY DEF Free, ClaimRow
<1>4. \A q \in RequestRow, s \in Steps : [q EXCEPT !.step = s] \in RequestRow
  BY DEF RequestRow
<1>5. \A record \in Record, t \in Nat : ExpiredRecord(record, t) \in Record
  <2> SUFFICES ASSUME NEW record \in Record, NEW t \in Nat
               PROVE  ExpiredRecord(record, t) \in Record
    OBVIOUS
  <2>1. t + Retention \in Nat /\ record.version + 1 \in Nat
    BY Lifetimes DEF Record
  <2> QED
    BY <2>1 DEF Record, ExpiredRecord
<1> QED
  BY <1>1, <1>2, <1>3, <1>4, <1>5

\* The ways a step rewrites the row of a request keep its shape.
LEMMA RequestShapes ==
  ASSUME Types, NEW r \in Requests
  PROVE  /\ requests[r] \in RequestRow
         /\ \A row \in RequestRow : [requests EXCEPT ![r] = row] \in [Requests -> RequestRow]
         /\ \A s \in Steps : Go(r, s) => requests' \in [Requests -> RequestRow]
         /\ Ended(r) \in RequestRow
         /\ Finish(r) => requests' \in [Requests -> RequestRow]
         /\ AfterKey(r) => requests' \in [Requests -> RequestRow]
<1>1. requests[r] \in RequestRow
  BY DEF Types
<1>2. \A row \in RequestRow : [requests EXCEPT ![r] = row] \in [Requests -> RequestRow]
  BY DEF Types
<1>3. ASSUME NEW s \in Steps, Go(r, s)
      PROVE  requests' \in [Requests -> RequestRow]
  <2>1. [requests[r] EXCEPT !.step = s] \in RequestRow
    BY RowShapes, <1>1
  <2>2. requests' = [requests EXCEPT ![r] = [requests[r] EXCEPT !.step = s]]
    BY <1>3 DEF Go
  <2> QED
    BY <2>1, <2>2, <1>2
<1>4. Ended(r) \in RequestRow
  <2>1. New \in RequestRow /\ "done" \in Steps
    BY RowShapes DEF Steps
  <2> QED
    BY <1>1, <2>1 DEF RequestRow, Ended
<1>5. [Ended(r) EXCEPT !.step = "unlock", !.lock = requests[r].lock] \in RequestRow
  BY <1>1, <1>4 DEF RequestRow, Steps
<1> QED
  BY <1>1, <1>2, <1>3, <1>4, <1>5 DEF Finish, AfterKey

\* A request claims keys of its own session.
LEMMA KeysAreKeys ==
  ASSUME Types, Control, NEW r \in Requests
  PROVE  /\ requests[r].step \notin {"new", "expire", "done"} => ClaimKey(r) \in ClaimKeys
         /\ requests[r].step # "new" => LockKey(r) \in ClaimKeys /\ requests[r].id \in Ids
<1>1. ControlOf(requests[r]) /\ requests[r] \in RequestRow
  BY RequestShapes DEF Control
<1>2. CASE requests[r].step # "new" /\ requests[r].op # "get"
  <2>1. requests[r].op \in {"create", "update", "complete", "cancel"}
    BY <1>1, <1>2 DEF ControlOf, RequestRow
  <2>2. requests[r].id \in Ids /\ requests[r].key \in Keys
    BY <1>1, <1>2 DEF ControlOf
  <2> QED
    BY <2>1, <2>2 DEF ClaimKey, LockKey, ClaimKeys
<1> QED
  BY <1>1, <1>2 DEF ControlOf, LockKey, ClaimKeys

\* Claiming a key and giving it back keep the shape of the claims.
LEMMA ClaimShapes ==
  ASSUME Types, NEW r \in Requests
  PROVE  /\ \A k : FreeClaim(k, r) \in [ClaimKeys -> ClaimRow]
         /\ \A k : Claim(k, r) => claims' \in [ClaimKeys -> ClaimRow]
<1>1. Free \in ClaimRow /\ now + ClaimTTL \in Nat /\ requests[r] \in RequestRow
  BY RowShapes, RequestShapes, Lifetimes DEF Types
<1>2. [id |-> requests[r].id, pending |-> TRUE, ends |-> now + ClaimTTL, token |-> r] \in ClaimRow
  BY <1>1 DEF ClaimRow, RequestRow
<1> QED
  BY <1>1, <1>2 DEF FreeClaim, Claim, Types

\* Opening the cart of a session gives a cart.
LEMMA CartShapes ==
  ASSUME Types, Charges, NEW i \in Ids
  PROVE  OpenCart(i) \in CartRow
<1>1. carts[i] \in CartRow
  BY DEF Types
<1>2. carts[i].by # Nobody => payments[carts[i].by].status \in {"completed", "pending"} \cup Unpaid
  BY <1>1 DEF Charges, Types, CartRow, PaymentRow
<1>3. carts[i].number \in Nat /\ carts[i].number + 1 \in Nat
  BY <1>1 DEF CartRow
<1> QED
  BY <1>1, <1>2, <1>3 DEF OpenCart, CartRow, Unpaid

\* Rebuilding a cart keeps the shape of the request that does it.
LEMMA RebuildShapes ==
  ASSUME Types, NEW r \in Requests, NEW step \in {"remove", "add"}, NEW todo \in SUBSET Items
  PROVE  /\ Rebuilding(r, step, todo) \in RequestRow
         /\ \A items \in SUBSET Items :
              [Rebuilding(r, step, todo) EXCEPT !.original = items] \in RequestRow
<1>1. requests[r] \in RequestRow
  BY RequestShapes
<1>2. Rebuilding(r, step, todo) \in RequestRow
  BY <1>1 DEF Rebuilding, RequestRow, Steps
<1> QED
  BY <1>2 DEF RequestRow

\* A step keeps the shapes.
LEMMA TypesStep ==
  ASSUME Types, Control, Agreement, Charges, [Next]_vars
  PROVE  Types'
<1>1. ASSUME NEW r \in Requests, NEW op \in Ops, NEW i \in Ids, NEW k \in Keys, NEW b \in Buyers,
             NEW want \in Wants(op), Arrive(r, op, i, k, want, b)
      PROVE  Types'
  <2>1. want \in SUBSET Items /\ op \in {"create", "update", "complete", "cancel", "get"}
    BY AcpAssumption DEF AcpAssumption, Wants
  <2>2. /\ New \in RequestRow /\ NoRecord \in Record /\ store[i] \in Record
        /\ {"expire", "claim"} \subseteq Steps
    BY RowShapes DEF Types, Steps
  <2>3. requests' \in [Requests -> RequestRow]
    <3> DEFINE row == [New EXCEPT !.op = op, !.id = i, !.key = k, !.want = want, !.buyer = b,
                   !.step = IF op # "create" /\ IsExpired(store[i], now) THEN "expire" ELSE "claim",
                   !.seen = IF op = "create" THEN NoRecord ELSE store[i]]
    <3>1. row \in RequestRow
      BY <2>1, <2>2 DEF RequestRow
    <3>2. requests' = [requests EXCEPT ![r] = row]
      BY <1>1 DEF Arrive
    <3> QED
      BY <3>1, <3>2, RequestShapes
  <2> QED
    BY <1>1, <2>3 DEF Types, Arrive, shop, history
<1>2. ASSUME NEW r \in Requests, Expire(r)
      PROVE  Types'
  <2> DEFINE i == requests[r].id
             current == IF Unchanged(i, requests[r].seen.version)
                        THEN ExpiredRecord(requests[r].seen, now) ELSE store[i]
  <2>1. requests[r] \in RequestRow /\ i \in Ids /\ requests[r].seen \in Record /\ now \in Nat
    BY <1>2, RequestShapes, KeysAreKeys DEF Expire, Types, RequestRow
  <2>2. current \in Record
    BY <2>1, RowShapes DEF Types
  <2>3. [requests[r] EXCEPT !.seen = current, !.step = "claim"] \in RequestRow
    BY <2>1, <2>2 DEF RequestRow, Steps
  <2>4. requests' \in [Requests -> RequestRow]
    <3>1. \/ Finish(r)
          \/ requests' = [requests EXCEPT ![r] =
                            [requests[r] EXCEPT !.seen = current, !.step = "claim"]]
      BY <1>2 DEF Expire
    <3> QED
      BY <3>1, <2>3, RequestShapes
  <2>5. store' = [store EXCEPT ![i] = current]
    BY <1>2 DEF Expire
  <2> QED
    BY <1>2, <2>1, <2>2, <2>4, <2>5 DEF Types, Expire, shop, history
<1>3. ASSUME NEW r \in Requests, BeginIdempotency(r)
      PROVE  Types'
  <2>1. requests[r] \in RequestRow /\ now + ClaimTTL \in Nat
    BY RequestShapes, Lifetimes DEF Types
  <2>2. \A s \in {"cart", "lock", "check"} :
          [requests[r] EXCEPT !.until = now + ClaimTTL, !.step = s] \in RequestRow
    BY <2>1 DEF RequestRow, Steps
  <2>3. \/ Finish(r)
        \/ \E s \in {"cart", "lock", "check"} :
             requests' = [requests EXCEPT ![r] =
                            [requests[r] EXCEPT !.until = now + ClaimTTL, !.step = s]]
    BY <1>3 DEF BeginIdempotency
  <2>4. requests' \in [Requests -> RequestRow]
    BY <2>2, <2>3, RequestShapes
  <2>5. claims' \in [ClaimKeys -> ClaimRow]
    BY <1>3, ClaimShapes DEF BeginIdempotency, Types
  <2> QED
    BY <1>3, <2>4, <2>5 DEF Types, BeginIdempotency, shop, history
<1>4. ASSUME NEW r \in Requests, ClaimCompletionLock(r)
      PROVE  Types'
  <2>1. requests[r] \in RequestRow /\ now + ClaimTTL \in Nat /\ "release" \in Steps
    BY RequestShapes, Lifetimes DEF Types, Steps
  <2>2. [requests[r] EXCEPT !.lock = now + ClaimTTL, !.step = "check"] \in RequestRow
    BY <2>1 DEF RequestRow, Steps
  <2>3. \/ Go(r, "release")
        \/ requests' = [requests EXCEPT ![r] =
                          [requests[r] EXCEPT !.lock = now + ClaimTTL, !.step = "check"]]
    BY <1>4 DEF ClaimCompletionLock
  <2>4. requests' \in [Requests -> RequestRow]
    BY <2>1, <2>2, <2>3, RequestShapes
  <2>5. claims' \in [ClaimKeys -> ClaimRow]
    BY <1>4, ClaimShapes DEF ClaimCompletionLock, Types
  <2> QED
    BY <1>4, <2>4, <2>5 DEF Types, ClaimCompletionLock, shop, history
<1>5. ASSUME NEW r \in Requests, Rebuild(r)
      PROVE  Types'
  <2> DEFINE i == requests[r].id
  <2>1. ControlOf(requests[r]) /\ requests[r] \in RequestRow
    BY RequestShapes DEF Control
  <2>2. i \in Ids /\ requests[r].step # "new"
    BY <1>5, KeysAreKeys DEF Rebuild, GetCart, RemoveLine, AddItem, AddRefused, RestoreCart
  <2>3. OpenCart(i) \in CartRow /\ OpenCart(i).items \in SUBSET Items
    BY <2>2, CartShapes DEF CartRow
  <2>4. requests[r].original \in SUBSET Items /\ requests[r].todo \in SUBSET Items
    BY <2>1 DEF RequestRow
  <2>5. requests[r].todo # {} => Following(requests[r].todo) \in Items
    <3>1. requests[r].todo # {} => \E x \in requests[r].todo : TRUE
      OBVIOUS
    <3> QED
      BY <2>4, <3>1 DEF Following
  <2>6. \A s \in SUBSET Items : [OpenCart(i) EXCEPT !.items = s] \in CartRow
    BY <2>3 DEF CartRow
  <2>7. carts' \in [Ids -> CartRow]
    <3>1. \/ carts' = carts
          \/ \E cart \in CartRow : carts' = [carts EXCEPT ![i] = cart]
      <4>1. CASE GetCart(r)
        BY <4>1, <2>3 DEF GetCart
      <4>2. CASE RemoveLine(r)
        BY <4>2, <2>3, <2>6 DEF RemoveLine
      <4>3. CASE AddItem(r)
        BY <4>3, <2>3, <2>6, <2>5, <2>1 DEF AddItem, ControlOf
      <4>4. CASE AddRefused(r)
        BY <4>4 DEF AddRefused, shop
      <4>5. CASE RestoreCart(r)
        BY <4>5, <2>3, <2>6, <2>4 DEF RestoreCart
      <4> QED
        BY <1>5, <4>1, <4>2, <4>3, <4>4, <4>5 DEF Rebuild
    <3> QED
      BY <3>1, <2>2 DEF Types
  <2>8. requests' \in [Requests -> RequestRow]
    <3>1. {"restore", "release"} \subseteq Steps
      BY DEF Steps
    <3>2. CASE GetCart(r)
      BY <3>2, <2>3, RebuildShapes, RequestShapes DEF GetCart
    <3>3. CASE RemoveLine(r)
      BY <3>3, <3>1, <2>4, RebuildShapes, RequestShapes DEF RemoveLine
    <3>4. CASE AddItem(r)
      BY <3>4, <3>1, <2>4, RebuildShapes, RequestShapes DEF AddItem
    <3>5. CASE AddRefused(r) \/ RestoreCart(r)
      BY <3>5, <3>1, RequestShapes DEF AddRefused, RestoreCart
    <3> QED
      BY <1>5, <3>2, <3>3, <3>4, <3>5 DEF Rebuild
  <2>9. UNCHANGED <<store, claims, payments, now, history>>
    BY <1>5 DEF Rebuild, GetCart, RemoveLine, AddItem, AddRefused, RestoreCart, shop
  <2> QED
    BY <2>7, <2>8, <2>9 DEF Types, history
<1>6. ASSUME NEW r \in Requests, PutCreated(r)
      PROVE  Types'
  <2> DEFINE i == requests[r].id
             record == [NoRecord EXCEPT !.status = "ready_for_payment", !.cart = carts[i].number,
                            !.buyer = requests[r].buyer, !.items = requests[r].want,
                            !.expires = now + SessionTTL, !.version = 1]
  <2>1. i \in Ids
    BY <1>6, KeysAreKeys DEF PutCreated, At
  <2>2. /\ carts[i].number \in Nat /\ requests[r].buyer \in Buyers
        /\ requests[r].want \in SUBSET Items /\ now + SessionTTL \in Nat
    BY <2>1, RequestShapes, Lifetimes DEF Types, CartRow, RequestRow
  <2>3. record \in Record
    BY <2>2, RowShapes DEF Record
  <2>4. store' = [store EXCEPT ![i] = record]
    BY <1>6 DEF PutCreated
  <2>5. requests' \in [Requests -> RequestRow]
    BY <1>6, RequestShapes DEF PutCreated, Steps
  <2> QED
    BY <1>6, <2>1, <2>3, <2>4, <2>5 DEF Types, PutCreated, shop
<1>7. ASSUME NEW r \in Requests,
             CheckUpdate(r) \/ StartFails(r) \/ CheckCancel(r) \/ Throw(r) \/ Crash(r)
      PROVE  Types'
  <2>1. {"release", "put", "cart", "bind", "stop"} \subseteq Steps
    BY DEF Steps
  <2>2. \/ \E s \in {"release", "put", "cart", "bind", "stop"} : Go(r, s)
        \/ Finish(r)
    <3>1. CASE CheckUpdate(r)
      BY <3>1 DEF CheckUpdate
    <3>2. CASE CheckCancel(r)
      <4>1. TerminalStatus(requests[r].seen) \in {"completed", "canceled", "none"}
        <5>1. requests[r].seen \in Record /\ Agrees(requests[r].seen, payments)
          BY RequestShapes DEF RequestRow, Agreement
        <5> QED
          BY <5>1 DEF TerminalStatus, Terminal, Agrees, Record, Types, PaymentRow, Unpaid
      <4> QED
        BY <3>2, <4>1 DEF CheckCancel
    <3> QED
      BY <1>7, <3>1, <3>2 DEF StartFails, Throw, Crash
  <2>3. requests' \in [Requests -> RequestRow]
    BY <2>1, <2>2, RequestShapes
  <2> QED
    BY <1>7, <2>3 DEF Types, CheckUpdate, StartFails, CheckCancel, Throw, Crash, shop, history

<1>8. ASSUME NEW r \in Requests, PutUpdated(r)
      PROVE  Types'
  <2> DEFINE i == requests[r].id
             seen == requests[r].seen
             next == [seen EXCEPT !.buyer = requests[r].buyer, !.expires = now + SessionTTL,
                                  !.version = @ + 1]
             rebuilt == [next EXCEPT !.items = requests[r].want, !.cart = carts[i].number,
                                     !.status = "ready_for_payment"]
  <2>1. i \in Ids
    BY <1>8, KeysAreKeys DEF PutUpdated, At
  <2>2. /\ carts[i].number \in Nat /\ requests[r].buyer \in Buyers /\ seen \in Record
        /\ requests[r].want \in SUBSET Items /\ now + SessionTTL \in Nat
    BY <2>1, RequestShapes, Lifetimes DEF Types, CartRow, RequestRow
  <2>3. seen.version + 1 \in Nat
    BY <2>2 DEF Record
  <2>4. next \in Record
    BY <2>2, <2>3 DEF Record
  <2>5. rebuilt \in Record
    BY <2>2, <2>4 DEF Record
  <2>6. \/ store' = store
        \/ store' = [store EXCEPT ![i] = next]
        \/ store' = [store EXCEPT ![i] = rebuilt]
    BY <1>8 DEF PutUpdated
  <2>7. requests' \in [Requests -> RequestRow]
    BY <1>8, RequestShapes DEF PutUpdated, Steps
  <2> HIDE DEF next, rebuilt
  <2>8. store' \in [Ids -> Record]
    BY <2>1, <2>4, <2>5, <2>6 DEF Types
  <2> QED
    BY <1>8, <2>7, <2>8 DEF Types, PutUpdated, shop
<1>9. ASSUME NEW r \in Requests, CheckComplete(r)
      PROVE  Types'
  <2> DEFINE i == requests[r].id
  <2>1. i \in Ids /\ requests[r] \in RequestRow
    BY <1>9, KeysAreKeys, RequestShapes DEF CheckComplete, At
  <2>2. carts[i].items \in SUBSET Items
    BY <2>1 DEF Types, CartRow
  <2>3. [requests[r] EXCEPT !.step = "start", !.want = carts[i].items] \in RequestRow
    BY <2>1, <2>2 DEF RequestRow, Steps
  <2>4. \/ Go(r, "bind") \/ Go(r, "release")
        \/ requests' = [requests EXCEPT ![r] =
                          [requests[r] EXCEPT !.step = "start", !.want = carts[i].items]]
    BY <1>9 DEF CheckComplete
  <2>5. "bind" \in Steps /\ "release" \in Steps
    BY DEF Steps
  <2>6. requests' \in [Requests -> RequestRow]
    BY <2>3, <2>4, <2>5, RequestShapes
  <2> QED
    BY <1>9, <2>6 DEF Types, CheckComplete, shop, history
<1>10. ASSUME NEW r \in Requests, NEW status \in {"pending", "completed", "expired"},
              StartCheckout(r, status)
      PROVE  Types'
  <2> DEFINE i == requests[r].id
  <2>1. i \in Ids /\ requests[r] \in RequestRow
    BY <1>10, KeysAreKeys, RequestShapes DEF StartCheckout, At
  <2>2. carts[i] \in CartRow /\ carts[i].items \in SUBSET Items
    BY <2>1 DEF Types, CartRow
  <2>3. [requests[r] EXCEPT !.step = "put", !.outcome = status] \in RequestRow
    BY <2>1 DEF RequestRow, Steps, Outcomes
  <2>4. requests' = [requests EXCEPT ![r] =
                       [requests[r] EXCEPT !.step = "put", !.outcome = status]]
    BY <1>10 DEF StartCheckout
  <2>5. requests' \in [Requests -> RequestRow]
    BY <2>3, <2>4, RequestShapes
  <2>6. [status |-> status, items |-> carts[i].items] \in PaymentRow
    BY <2>2 DEF PaymentRow, Unpaid
  <2>7. [carts[i] EXCEPT !.by = r] \in CartRow
    BY <2>2 DEF CartRow
  <2>8. /\ payments' = [payments EXCEPT ![r] = [status |-> status, items |-> carts[i].items]]
        /\ carts' = [carts EXCEPT ![i] = [carts[i] EXCEPT !.by = r]]
    BY <1>10 DEF StartCheckout
  <2> QED
    BY <1>10, <2>1, <2>5, <2>6, <2>7, <2>8 DEF Types, StartCheckout, history
<1>11. ASSUME NEW r \in Requests, PutCompleted(r)
       PROVE  Types'
  <2> DEFINE i == requests[r].id
             seen == requests[r].seen
  <2>1. i \in Ids /\ requests[r] \in RequestRow /\ ControlOf(requests[r])
    BY <1>11, KeysAreKeys, RequestShapes DEF PutCompleted, At, Control
  <2>2. seen \in Record /\ requests[r].buyer \in Buyers /\ requests[r].want \in SUBSET Items
    BY <2>1 DEF RequestRow
  <2>3. seen.version + 1 \in Nat /\ now + Retention \in Nat
    BY <2>2, Lifetimes DEF Record, Types
  <2>4. requests[r].outcome \in {"pending", "completed", "expired"}
    BY <1>11, <2>1 DEF PutCompleted, At, ControlOf, RequestRow, Outcomes
  <2>5. CompletedRecord(r, requests[r].outcome) \in Record
    <3> DEFINE base == [seen EXCEPT !.buyer = requests[r].buyer, !.version = @ + 1]
    <3>1. base \in Record
      BY <2>2, <2>3 DEF Record
    <3> HIDE DEF base
    <3>2. /\ [base EXCEPT !.status = "not_ready_for_payment"] \in Record
          /\ [base EXCEPT !.status = "ready_for_payment", !.checkout = r,
                          !.snapshot = requests[r].want] \in Record
          /\ [base EXCEPT !.status = "completed", !.checkout = r, !.snapshot = requests[r].want,
                          !.purge = now + Retention] \in Record
      BY <2>2, <2>3, <3>1 DEF Record
    <3> QED
      BY <2>4, <3>2 DEF CompletedRecord, base
  <2>6. store' \in [Ids -> Record]
    <3>1. store' = store \/ store' = [store EXCEPT ![i] = CompletedRecord(r, requests[r].outcome)]
      BY <1>11 DEF PutCompleted
    <3> QED
      BY <2>1, <2>5, <3>1 DEF Types
  <2>7. requests' \in [Requests -> RequestRow]
    <3>1. CASE /\ ~Unchanged(i, seen.version)
               /\ requests' = [requests EXCEPT ![r].seen.version = store[i].version,
                                               ![r].tries = @ + 1]
               /\ requests[r].tries + 1 < Retries
      <4>1. requests[r].tries + 1 \in 0..Retries
        BY <2>1, <3>1, Lifetimes DEF RequestRow
      <4>2. [seen EXCEPT !.version = store[i].version] \in Record
        BY <2>1, <2>2 DEF Types, Record
      <4>3. [requests[r] EXCEPT !.seen = [seen EXCEPT !.version = store[i].version],
                                !.tries = requests[r].tries + 1] \in RequestRow
        BY <2>1, <4>1, <4>2 DEF RequestRow
      <4>4. requests' = [requests EXCEPT ![r] =
               [requests[r] EXCEPT !.seen = [seen EXCEPT !.version = store[i].version],
                                   !.tries = requests[r].tries + 1]]
        BY <3>1
      <4> QED
        BY <4>3, <4>4, RequestShapes
    <3>2. CASE Go(r, "release") \/ Go(r, "bind")
      BY <3>2, RequestShapes DEF Steps
    <3> QED
      BY <1>11, <3>1, <3>2 DEF PutCompleted, Go
  <2> QED
    BY <1>11, <2>6, <2>7 DEF Types, PutCompleted, shop
<1>12. ASSUME NEW r \in Requests, CancelCheckout(r)
       PROVE  Types'
  <2> DEFINE i == requests[r].id
             c == requests[r].seen.checkout
  <2>1. i \in Ids /\ requests[r] \in RequestRow /\ ControlOf(requests[r])
    BY <1>12, KeysAreKeys, RequestShapes DEF CancelCheckout, At, Control
  <2>2. c \in Requests
    BY <1>12, <2>1 DEF CancelCheckout, At, ControlOf, RequestRow, Record
  <2>3. [payments[c] EXCEPT !.status = "cancelled"] \in PaymentRow
    BY <2>2 DEF Types, PaymentRow, Unpaid
  <2>4. \/ payments' = payments
        \/ payments' = [payments EXCEPT ![c] = [payments[c] EXCEPT !.status = "cancelled"]]
    BY <1>12 DEF CancelCheckout, shop
  <2>5. carts[i] \in CartRow
    BY <2>1 DEF Types
  <2>6. \A b \in {Nobody, carts[i].by} : [carts[i] EXCEPT !.by = b] \in CartRow
    BY <2>5 DEF CartRow
  <2>7. \/ carts' = carts
        \/ \E b \in {Nobody, carts[i].by} : carts' = [carts EXCEPT ![i] = [carts[i] EXCEPT !.by = b]]
    BY <1>12 DEF CancelCheckout, shop
  <2>8. requests' \in [Requests -> RequestRow]
    BY <1>12, RequestShapes DEF CancelCheckout, Steps
  <2>9. payments' \in [Requests -> PaymentRow] /\ carts' \in [Ids -> CartRow]
    BY <2>2, <2>3, <2>4, <2>6, <2>7 DEF Types
  <2> QED
    BY <1>12, <2>8, <2>9 DEF Types, CancelCheckout, history
<1>13. ASSUME NEW r \in Requests, PutCanceled(r)
       PROVE  Types'
  <2> DEFINE i == requests[r].id
             seen == requests[r].seen
             canceled == [seen EXCEPT !.status = "canceled", !.purge = now + Retention,
                                      !.version = @ + 1]
  <2>1. i \in Ids /\ seen \in Record
    BY <1>13, KeysAreKeys, RequestShapes DEF PutCanceled, At, RequestRow
  <2>2. seen.version + 1 \in Nat /\ now + Retention \in Nat
    BY <2>1, Lifetimes DEF Record, Types
  <2>3. canceled \in Record
    BY <2>1, <2>2 DEF Record
  <2>4. store' = store \/ store' = [store EXCEPT ![i] = canceled]
    BY <1>13 DEF PutCanceled
  <2>5. requests' \in [Requests -> RequestRow]
    BY <1>13, RequestShapes DEF PutCanceled, Steps
  <2> HIDE DEF canceled
  <2>6. store' \in [Ids -> Record]
    BY <2>1, <2>3, <2>4 DEF Types
  <2> QED
    BY <1>13, <2>5, <2>6 DEF Types, PutCanceled, shop
<1>14. ASSUME NEW r \in Requests, BindKey(r) \/ ReleaseKey(r) \/ ReleaseLock(r)
       PROVE  Types'
  <2>1. requests' \in [Requests -> RequestRow]
    BY <1>14, RequestShapes DEF BindKey, ReleaseKey, ReleaseLock
  <2>2. claims' \in [ClaimKeys -> ClaimRow]
    <3>1. CASE BindKey(r)
      <4> DEFINE k == ClaimKey(r)
      <4>1. k \in ClaimKeys
        BY <3>1, KeysAreKeys DEF BindKey
      <4>2. [claims[k] EXCEPT !.pending = FALSE, !.ends = 0] \in ClaimRow
        BY <4>1 DEF Types, ClaimRow
      <4>3. \/ claims' = claims
            \/ claims' = [claims EXCEPT ![k] = [claims[k] EXCEPT !.pending = FALSE, !.ends = 0]]
        BY <3>1 DEF BindKey
      <4> QED
        BY <4>2, <4>3 DEF Types
    <3> QED
      BY <1>14, <3>1, ClaimShapes DEF ReleaseKey, ReleaseLock
  <2> QED
    BY <1>14, <2>1, <2>2 DEF Types, BindKey, ReleaseKey, ReleaseLock, shop, history
<1>15. ASSUME CleanupExpired
       PROVE  Types'
  <2>1. \A i \in Ids : ExpiredRecord(store[i], now) \in Record
    BY RowShapes DEF Types
  <2>2. store' \in [Ids -> Record]
    BY <1>15, <2>1, RowShapes DEF CleanupExpired, Types
  <2>3. claims' \in [ClaimKeys -> ClaimRow]
    BY <1>15, RowShapes DEF CleanupExpired, Types
  <2> QED
    BY <1>15, <2>2, <2>3 DEF CleanupExpired, Types, shop
<1>16. ASSUME NEW c \in Requests, NEW status \in {"completed", "expired"}, PaymentSettles(c, status)
       PROVE  Types'
  <2>1. [payments[c] EXCEPT !.status = status] \in PaymentRow
    BY DEF Types, PaymentRow, Unpaid
  <2>2. payments' = [payments EXCEPT ![c] = [payments[c] EXCEPT !.status = status]]
    BY <1>16 DEF PaymentSettles
  <2> QED
    BY <1>16, <2>1, <2>2 DEF PaymentSettles, Types, history
<1>17. ASSUME Tick
       PROVE  Types'
  BY <1>17, Lifetimes DEF Tick, Types, shop
<1>18. CASE UNCHANGED vars
  BY <1>18 DEF vars, Types, shop, history
<1> QED
  BY <1>1, <1>2, <1>3, <1>4, <1>5, <1>6, <1>7, <1>8, <1>9, <1>10, <1>11, <1>12, <1>13, <1>14,
     <1>15, <1>16, <1>17, <1>18 DEF Next, Handle

----------------------------------------------------------------------------
(* Control *)

\* A step of one request changes no other.
LEMMA OneRequest ==
  ASSUME Types, NEW r \in Requests, Handle(r) \/ Crash(r) \/ Throw(r)
  PROVE  \A q \in Requests \ {r} : requests'[q] = requests[q]
<1>1. requests \in [Requests -> RequestRow]
  BY DEF Types
<1> USE DEF Go, Finish
<1>2. CASE Expire(r) \/ BeginIdempotency(r) \/ ClaimCompletionLock(r)
  BY <1>1, <1>2 DEF Expire, BeginIdempotency, ClaimCompletionLock
<1>3. CASE Rebuild(r)
  BY <1>1, <1>3 DEF Rebuild, GetCart, RemoveLine, AddItem, AddRefused, RestoreCart
<1>4. CASE PutCreated(r) \/ CheckUpdate(r) \/ PutUpdated(r)
  BY <1>1, <1>4 DEF PutCreated, CheckUpdate, PutUpdated
<1>5. CASE CheckComplete(r) \/ StartFails(r) \/ PutCompleted(r)
  BY <1>1, <1>5 DEF CheckComplete, StartFails, PutCompleted
<1>6. CASE \E status \in {"pending", "completed", "expired"} : StartCheckout(r, status)
  BY <1>1, <1>6 DEF StartCheckout
<1>7. CASE CheckCancel(r) \/ CancelCheckout(r) \/ PutCanceled(r)
  BY <1>1, <1>7 DEF CheckCancel, CancelCheckout, PutCanceled
<1>8. CASE BindKey(r) \/ ReleaseKey(r) \/ ReleaseLock(r)
  BY <1>1, <1>8 DEF BindKey, ReleaseKey, ReleaseLock, AfterKey
<1>9. CASE Crash(r) \/ Throw(r)
  BY <1>1, <1>9 DEF Crash, Throw
<1> QED
  BY <1>2, <1>3, <1>4, <1>5, <1>6, <1>7, <1>8, <1>9 DEF Handle

\* A request that is answered, or whose key is done with, carries nothing on.
LEMMA EndedRow ==
  ASSUME Types, NEW r \in Requests
  PROVE  /\ Finish(r) => requests'[r] = Ended(r)
         /\ AfterKey(r) =>
              \/ requests'[r] = Ended(r)
              \/ /\ requests[r].lock > 0
                 /\ requests'[r] = [Ended(r) EXCEPT !.step = "unlock", !.lock = requests[r].lock]
         /\ AfterKey(r) => requests'[r].seen = NoRecord /\ requests'[r].step \in {"unlock", "done"}
         /\ \A s : Go(r, s) => requests'[r] = [requests[r] EXCEPT !.step = s]
         /\ Ended(r).op = requests[r].op /\ Ended(r).id = requests[r].id
         /\ Ended(r).key = requests[r].key /\ Ended(r).outcome = requests[r].outcome
         /\ Ended(r).step = "done" /\ Ended(r).seen = NoRecord /\ Ended(r).until = 0
         /\ Ended(r).lock = 0
<1>1. /\ Finish(r) => requests'[r] = Ended(r)
      /\ AfterKey(r) =>
           \/ requests'[r] = Ended(r)
           \/ /\ requests[r].lock > 0
              /\ requests'[r] = [Ended(r) EXCEPT !.step = "unlock", !.lock = requests[r].lock]
      /\ \A s : Go(r, s) => requests'[r] = [requests[r] EXCEPT !.step = s]
  BY DEF Types, Finish, AfterKey, Go
<1>2. /\ Ended(r).op = requests[r].op /\ Ended(r).id = requests[r].id
      /\ Ended(r).key = requests[r].key /\ Ended(r).outcome = requests[r].outcome
      /\ Ended(r).step = "done" /\ Ended(r).seen = NoRecord /\ Ended(r).until = 0
      /\ Ended(r).lock = 0
      /\ [Ended(r) EXCEPT !.step = "unlock", !.lock = requests[r].lock].seen = NoRecord
      /\ [Ended(r) EXCEPT !.step = "unlock", !.lock = requests[r].lock].step = "unlock"
  BY DEF Ended, New
<1> QED
  BY <1>1, <1>2

\* A step of a request takes it where its operation goes.
LEMMA ControlStep ==
  ASSUME Types, Control, Agreement, Charges, [Next]_vars
  PROVE  Control'
<1>1. ASSUME NEW r \in Requests, NEW op \in Ops, NEW i \in Ids, NEW k \in Keys, NEW b \in Buyers,
             NEW want \in Wants(op), Arrive(r, op, i, k, want, b)
      PROVE  Control'
  <2>1. op \in {"create", "update", "complete", "cancel", "get"} /\ (op = "create" => want # {})
    BY AcpAssumption DEF AcpAssumption, Wants
  <2>2. op = "get" => IsExpired(store[i], now)
    BY <1>1 DEF Arrive
  <2>3. ControlOf([New EXCEPT !.op = op, !.id = i, !.key = k, !.want = want, !.buyer = b,
                   !.step = IF op # "create" /\ IsExpired(store[i], now) THEN "expire" ELSE "claim",
                   !.seen = IF op = "create" THEN NoRecord ELSE store[i]])
    BY <2>1, <2>2 DEF ControlOf, New
  <2> QED
    BY <1>1, <2>3 DEF Arrive, Types, Control
<1>2. ASSUME NEW r \in Requests, Handle(r) \/ Crash(r) \/ Throw(r)
      PROVE  Control'
  <2>1. ControlOf(requests[r]) /\ requests[r] \in RequestRow
    BY RequestShapes DEF Control
  <2>2. requests[r].step # "new" => ControlOf(Ended(r))
    BY <2>1 DEF ControlOf, Ended, New
  <2>3. ControlOf(requests'[r])
    <3>1. CASE Expire(r)
      <4>1. CASE Finish(r)
        BY <3>1, <4>1, <2>2, EndedRow DEF Expire
      <4>2. CASE \E current : requests' = [requests EXCEPT ![r].seen = current, ![r].step = "claim"]
        BY <3>1, <4>2, <2>1 DEF Expire, ControlOf, Types, RequestRow
      <4> QED
        BY <3>1, <4>1, <4>2 DEF Expire
    <3>2. CASE BeginIdempotency(r)
      <4>1. CASE Finish(r)
        BY <3>2, <4>1, <2>2, EndedRow DEF BeginIdempotency
      <4>2. CASE \E s \in {"cart", "lock", "check"} :
                   /\ s = "cart" <=> requests[r].op = "create"
                   /\ s = "lock" <=> requests[r].op = "complete"
                   /\ requests' = [requests EXCEPT ![r].until = now + ClaimTTL, ![r].step = s]
        BY <3>2, <4>2, <2>1 DEF BeginIdempotency, ControlOf, Types, RequestRow
      <4> QED
        BY <3>2, <4>1, <4>2 DEF BeginIdempotency
    <3>3. CASE ClaimCompletionLock(r)
      BY <3>3, <2>1 DEF ClaimCompletionLock, Go, ControlOf, Types, RequestRow
    <3>4. CASE GetCart(r) \/ RemoveLine(r) \/ AddItem(r)
      <4>1. CASE Go(r, "restore")
        BY <3>4, <4>1, <2>1 DEF Go, Types, GetCart, RemoveLine, AddItem, ControlOf, RequestRow
      <4>2. CASE \E s \in {"remove", "add"} : \E todo, items :
                   requests' = [requests EXCEPT ![r] = [Rebuilding(r, s, todo) EXCEPT !.original = items]]
        <5>0. PICK s \in {"remove", "add"} : \E todo, items :
                   requests' = [requests EXCEPT ![r] = [Rebuilding(r, s, todo) EXCEPT !.original = items]]
          BY <4>2
        <5>1. PICK todo, items :
                   requests' = [requests EXCEPT ![r] = [Rebuilding(r, s, todo) EXCEPT !.original = items]]
          BY <5>0
        <5>2. requests'[r] = [Rebuilding(r, s, todo) EXCEPT !.original = items]
          BY <5>1 DEF Types
        <5> QED
          BY <3>4, <5>2, <2>1 DEF GetCart, RemoveLine, AddItem, ControlOf, RequestRow, Rebuilding
      <4>3. CASE \E s \in {"remove", "add"} : \E todo :
                   requests' = [requests EXCEPT ![r] = Rebuilding(r, s, todo)]
        <5>0. PICK s \in {"remove", "add"} : \E todo :
                   requests' = [requests EXCEPT ![r] = Rebuilding(r, s, todo)]
          BY <4>3
        <5>1. PICK todo : requests' = [requests EXCEPT ![r] = Rebuilding(r, s, todo)]
          BY <5>0
        <5>2. requests'[r] = Rebuilding(r, s, todo)
          BY <5>1 DEF Types
        <5> QED
          BY <3>4, <5>2, <2>1 DEF GetCart, RemoveLine, AddItem, ControlOf, RequestRow, Rebuilding
      <4> QED
        BY <3>4, <4>1, <4>2, <4>3 DEF GetCart, RemoveLine, AddItem
    <3>5. CASE AddRefused(r) \/ RestoreCart(r)
      BY <3>5, <2>1 DEF Go, Types, AddRefused, RestoreCart, ControlOf, RequestRow
    <3>6. CASE PutCreated(r) \/ PutUpdated(r) \/ StartFails(r) \/ CancelCheckout(r) \/ PutCanceled(r)
      <4>1. \E s \in {"bind", "release", "put"} : Go(r, s) /\ (s = "put" => requests[r].op = "cancel")
        BY <3>6 DEF PutCreated, PutUpdated, StartFails, CancelCheckout, PutCanceled, At
      <4> QED
        BY <3>6, <4>1, <2>1 DEF Go, Types, PutCreated, PutUpdated, StartFails, CancelCheckout, PutCanceled,
           At, ControlOf, RequestRow
    <3>7. CASE CheckUpdate(r)
      BY <3>7, <2>1 DEF Go, Types, CheckUpdate, At, ControlOf, RequestRow
    <3>8. CASE CheckComplete(r)
      <4>1. CASE Go(r, "bind") \/ Go(r, "release")
        BY <3>8, <4>1, <2>1 DEF Go, Types, CheckComplete, At, ControlOf, RequestRow
      <4>2. CASE /\ carts[requests[r].id].items # {}
                 /\ requests' = [requests EXCEPT ![r].step = "start", ![r].want = carts[requests[r].id].items]
        BY <3>8, <4>2, <2>1 DEF CheckComplete, At, ControlOf, RequestRow, Types
      <4> QED
        BY <3>8, <4>1, <4>2 DEF CheckComplete
    <3>9. CASE PutCompleted(r)
      <4>1. CASE Go(r, "bind") \/ Go(r, "release")
        BY <3>9, <4>1, <2>1 DEF Go, Types, PutCompleted, At, ControlOf, RequestRow
      <4>2. CASE requests' = [requests EXCEPT ![r].seen.version = store[requests[r].id].version,
                                              ![r].tries = @ + 1]
        BY <3>9, <4>2, <2>1 DEF PutCompleted, At, ControlOf, RequestRow, Types
      <4> QED
        BY <3>9, <4>1, <4>2 DEF PutCompleted, Go
    <3>10. ASSUME NEW status \in {"pending", "completed", "expired"}, StartCheckout(r, status)
           PROVE  ControlOf(requests'[r])
      BY <3>10, <2>1 DEF StartCheckout, At, ControlOf, RequestRow, Types
    <3>11. CASE CheckCancel(r)
      <4>1. \E s \in {"release", "bind", "put", "stop"} :
              Go(r, s) /\ (s = "stop" => requests[r].seen.checkout # Nobody)
        <5>1. TerminalStatus(requests[r].seen) \in {"completed", "canceled", "none"}
          <6>1. requests[r].seen \in Record /\ Agrees(requests[r].seen, payments)
            BY <2>1 DEF RequestRow, Agreement
          <6> QED
            BY <6>1 DEF TerminalStatus, Terminal, Agrees, Record, Types, PaymentRow, Unpaid
        <5> QED
          BY <3>11, <5>1 DEF CheckCancel
      <4>2. PICK s \in {"release", "bind", "put", "stop"} :
              Go(r, s) /\ (s = "stop" => requests[r].seen.checkout # Nobody)
        BY <4>1
      <4>3. requests'[r] = [requests[r] EXCEPT !.step = s]
        BY <4>2 DEF Go, Types
      <4> QED
        BY <3>11, <4>2, <4>3, <2>1 DEF CheckCancel, At, ControlOf, RequestRow
    <3>12. CASE BindKey(r) \/ ReleaseKey(r) \/ ReleaseLock(r)
      <4>1. requests[r].step \in {"bind", "release", "unlock"}
        BY <3>12 DEF BindKey, ReleaseKey, ReleaseLock
      <4>2. CASE requests'[r] = Ended(r)
        BY <4>1, <4>2, <2>2
      <4>3. CASE /\ requests[r].lock > 0
                 /\ requests'[r] = [Ended(r) EXCEPT !.step = "unlock", !.lock = requests[r].lock]
        <5>1. requests[r].op = "complete" /\ ControlOf(Ended(r))
          BY <4>1, <4>3, <2>1, <2>2 DEF ControlOf
        <5> QED
          BY <5>1, <4>3 DEF ControlOf, Ended, New
      <4> QED
        BY <3>12, <4>2, <4>3, EndedRow DEF BindKey, ReleaseKey, ReleaseLock
    <3>13. CASE Crash(r)
      BY <3>13, <2>2, EndedRow DEF Crash, InFlight
    <3>14. CASE Throw(r)
      BY <3>14, <2>1 DEF Throw, Go, Types, ControlOf, RequestRow
    <3> QED
      BY <1>2, <3>1, <3>2, <3>3, <3>4, <3>5, <3>6, <3>7, <3>8, <3>9, <3>10, <3>11, <3>12, <3>13, <3>14
         DEF Handle, Rebuild
  <2> QED
    BY <1>2, <2>3, OneRequest DEF Control
<1>3. ASSUME \/ \E c \in Requests, status \in {"completed", "expired"} : PaymentSettles(c, status)
             \/ CleanupExpired \/ Tick \/ UNCHANGED vars
      PROVE  Control'
  <2>1. UNCHANGED requests
    BY <1>3 DEF PaymentSettles, CleanupExpired, Tick, vars
  <2> QED
    BY <2>1 DEF Control
<1> QED
  BY <1>1, <1>2, <1>3 DEF Next

----------------------------------------------------------------------------
(* Records and payments *)

\* A checkout that was started keeps what it charges, and one that has ended or
\* was paid never waits for its payment again.
PaymentKept(c) ==
  /\ payments[c].status # "none" =>
       payments'[c].status # "none" /\ payments'[c].items = payments[c].items
  /\ payments[c].status \notin {"none", "pending"} => payments'[c].status # "pending"

\* The steps that move a payment.
LEMMA PaymentsMove ==
  ASSUME [Next]_vars
  PROVE  \/ UNCHANGED payments
         \/ \E r \in Requests, status \in {"pending", "completed", "expired"} : StartCheckout(r, status)
         \/ \E r \in Requests : CancelCheckout(r)
         \/ \E c \in Requests, status \in {"completed", "expired"} : PaymentSettles(c, status)
<1>1. ASSUME NEW r \in Requests, Handle(r) \/ Crash(r) \/ Throw(r),
             ~(\E status \in {"pending", "completed", "expired"} : StartCheckout(r, status)),
             ~CancelCheckout(r)
      PROVE  UNCHANGED payments
  <2>1. CASE Expire(r) \/ BeginIdempotency(r) \/ ClaimCompletionLock(r) \/ Rebuild(r)
    BY <2>1 DEF Expire, BeginIdempotency, ClaimCompletionLock, Rebuild, GetCart, RemoveLine,
       AddItem, AddRefused, RestoreCart, shop
  <2>2. CASE PutCreated(r) \/ CheckUpdate(r) \/ PutUpdated(r) \/ CheckComplete(r) \/ StartFails(r)
               \/ PutCompleted(r) \/ CheckCancel(r) \/ PutCanceled(r)
    BY <2>2 DEF PutCreated, CheckUpdate, PutUpdated, CheckComplete, StartFails, PutCompleted,
       CheckCancel, PutCanceled, shop
  <2>3. CASE BindKey(r) \/ ReleaseKey(r) \/ ReleaseLock(r) \/ Crash(r) \/ Throw(r)
    BY <2>3 DEF BindKey, ReleaseKey, ReleaseLock, Crash, Throw, shop
  <2> QED
    BY <1>1, <2>1, <2>2, <2>3 DEF Handle
<1>2. ASSUME \/ \E r \in Requests, op \in Ops, i \in Ids, k \in Keys, b \in Buyers :
                  \E want \in Wants(op) : Arrive(r, op, i, k, want, b)
             \/ CleanupExpired \/ Tick \/ UNCHANGED vars
      PROVE  UNCHANGED payments
  <2>1. CASE \E r \in Requests, op \in Ops, i \in Ids, k \in Keys, b \in Buyers :
               \E want \in Wants(op) : Arrive(r, op, i, k, want, b)
    BY <2>1 DEF Arrive, shop
  <2>2. CASE CleanupExpired \/ Tick \/ UNCHANGED vars
    BY <2>2 DEF CleanupExpired, Tick, vars, shop
  <2> QED
    BY <1>2, <2>1, <2>2
<1> QED
  BY <1>1, <1>2 DEF Next

\* No step takes back a start, or sets an ended checkout waiting again.
LEMMA PaymentsKept ==
  ASSUME Types, Control, Agreement, Charges, [Next]_vars
  PROVE  \A c \in Requests : PaymentKept(c)
<1>1. CASE UNCHANGED payments
  BY <1>1 DEF PaymentKept
<1>2. ASSUME NEW r \in Requests, NEW status \in {"pending", "completed", "expired"},
             StartCheckout(r, status)
      PROVE  \A c \in Requests : PaymentKept(c)
  <2>1. payments[r].status = "none"
    BY <1>2 DEF StartCheckout, At, Charges, RequestCharges
  <2> QED
    BY <1>2, <2>1 DEF StartCheckout, Types, PaymentKept
<1>3. ASSUME NEW r \in Requests, CancelCheckout(r)
      PROVE  \A c \in Requests : PaymentKept(c)
  <2> DEFINE c == requests[r].seen.checkout
  <2>1. CASE /\ payments[c].status = "pending"
             /\ payments' = [payments EXCEPT ![c].status = "cancelled"]
    BY <2>1 DEF Types, PaymentRow, PaymentKept
  <2> QED
    BY <1>1, <1>3, <2>1 DEF CancelCheckout, shop
<1>4. ASSUME NEW c \in Requests, NEW status \in {"completed", "expired"}, PaymentSettles(c, status)
      PROVE  \A d \in Requests : PaymentKept(d)
  BY <1>4 DEF PaymentSettles, Types, PaymentRow, PaymentKept, Unpaid
<1> QED
  BY <1>1, <1>2, <1>3, <1>4, PaymentsMove

\* A record that agrees with the payments goes on doing so.
LEMMA AgreesKept ==
  ASSUME Types, Control, Agreement, Charges, [Next]_vars, NEW record \in Record,
         Agrees(record, payments)
  PROVE  Agrees(record, payments')
<1>1. record.checkout # Nobody => PaymentKept(record.checkout)
  BY PaymentsKept DEF Record
<1> QED
  BY <1>1 DEF Agrees, PaymentKept

\* Whatever is written into a record or remembered of one agrees with the payments.
LEMMA AgreementStep ==
  ASSUME Types, Control, Agreement, Charges, [Next]_vars, Types'
  PROVE  Agreement'
<1>1. \A i \in Ids : Agrees(store[i], payments')
  BY AgreesKept DEF Agreement, Types
<1>2. \A r \in Requests : Agrees(requests[r].seen, payments')
  BY AgreesKept DEF Agreement, Types, RequestRow
<1>3. Agrees(NoRecord, payments')
  BY DEF Agrees, NoRecord
<1>4. \A record \in Record : Agrees(record, payments') => Agrees(ExpiredRecord(record, now), payments')
  <2>1. now + Retention > 0
    BY Lifetimes DEF Types
  <2> QED
    BY <2>1 DEF Agrees, ExpiredRecord, Record
<1>5. ASSUME NEW r \in Requests, NEW op \in Ops, NEW i \in Ids, NEW k \in Keys, NEW b \in Buyers,
             NEW want \in Wants(op), Arrive(r, op, i, k, want, b)
      PROVE  Agreement'
  <2>1. requests'[r].seen \in {NoRecord, store[i]} /\ \A q \in Requests \ {r} : requests'[q] = requests[q]
    BY <1>5 DEF Arrive, Types, New
  <2> QED
    BY <1>1, <1>2, <1>3, <1>5, <2>1 DEF Arrive, Agreement
<1>6. ASSUME NEW r \in Requests, Handle(r) \/ Crash(r) \/ Throw(r)
      PROVE  Agreement'
  <2> DEFINE i == requests[r].id
             seen == requests[r].seen
  <2>1. /\ requests[r] \in RequestRow /\ seen \in Record /\ ControlOf(requests[r])
        /\ Agrees(seen, payments')
    BY <1>2, RequestShapes DEF RequestRow, Control
  <2>2. CASE UNCHANGED store /\ requests'[r].seen \in {seen, NoRecord}
    BY <1>1, <1>2, <1>3, <1>6, <2>2, OneRequest DEF Agreement
  <2>3. CASE Expire(r)
    <3>1. i \in Ids
      BY <2>3, KeysAreKeys DEF Expire
    <3>2. PICK current \in {ExpiredRecord(seen, now), store[i]} :
            /\ store' = [store EXCEPT ![i] = current]
            /\ \/ Finish(r)
               \/ requests' = [requests EXCEPT ![r].seen = current, ![r].step = "claim"]
      BY <2>3 DEF Expire
    <3>3. Agrees(current, payments')
      BY <1>1, <1>4, <2>1, <3>1, <3>2
    <3>4. requests'[r].seen \in {NoRecord, current}
      <4>1. CASE Finish(r)
        BY <4>1, EndedRow
      <4>2. CASE requests' = [requests EXCEPT ![r].seen = current, ![r].step = "claim"]
        BY <4>2 DEF Types, RequestRow
      <4> QED
        BY <3>2, <4>1, <4>2
    <3> QED
      BY <1>1, <1>2, <1>3, <1>6, <3>2, <3>3, <3>4, OneRequest DEF Agreement, Types
  <2>4. ASSUME NEW record, store' = [store EXCEPT ![i] = record], Agrees(record, payments'),
               requests'[r].seen = seen
        PROVE  Agreement'
    BY <1>1, <1>2, <1>6, <2>4, OneRequest DEF Agreement, Types
  <2>5. ASSUME NEW s, Go(r, s)
        PROVE  requests'[r].seen = seen
    BY <2>5 DEF Go, Types, RequestRow
  <2>6. CASE PutCreated(r)
    <3> DEFINE record == [NoRecord EXCEPT !.status = "ready_for_payment", !.cart = carts[i].number,
                            !.buyer = requests[r].buyer, !.items = requests[r].want,
                            !.expires = now + SessionTTL, !.version = 1]
    <3>1. Agrees(record, payments')
      BY DEF Agrees, NoRecord
    <3> HIDE DEF record
    <3>2. store' = [store EXCEPT ![i] = record] /\ requests'[r].seen = seen
      BY <2>5, <2>6 DEF PutCreated, record
    <3> QED
      BY <2>4, <3>1, <3>2
  <2>7. CASE PutUpdated(r)
    <3> DEFINE next == [seen EXCEPT !.buyer = requests[r].buyer, !.expires = now + SessionTTL,
                                    !.version = @ + 1]
               rebuilt == [next EXCEPT !.items = requests[r].want, !.cart = carts[i].number,
                                       !.status = "ready_for_payment"]
    <3>1. Agrees(next, payments') /\ Agrees(rebuilt, payments')
      BY <2>1 DEF Agrees, Record
    <3>2. \/ store' = store
          \/ store' = [store EXCEPT ![i] = next]
          \/ store' = [store EXCEPT ![i] = rebuilt]
      BY <2>7 DEF PutUpdated
    <3>3. requests'[r].seen = seen
      BY <2>5, <2>7 DEF PutUpdated
    <3> HIDE DEF next, rebuilt
    <3> QED
      BY <2>2, <2>4, <3>1, <3>2, <3>3
  <2>8. CASE PutCompleted(r)
    <3>1. requests[r].outcome \in {"pending", "completed", "expired"}
      BY <2>1, <2>8 DEF PutCompleted, At, ControlOf, RequestRow, Outcomes
    <3>2. Agrees(CompletedRecord(r, requests[r].outcome), payments')
      <4>1. payments'[r].status # "none" /\ payments'[r].items = requests[r].want
        BY <2>8, PaymentsKept DEF PutCompleted, At, Charges, RequestCharges, PaymentKept
      <4>2. requests[r].want # {} /\ now + Retention > 0
        BY <2>1, <2>8, Lifetimes DEF PutCompleted, At, ControlOf, Types
      <4> QED
        BY <2>1, <3>1, <4>1, <4>2 DEF CompletedRecord, Agrees, Record
    <3>3. CASE Unchanged(i, seen.version)
      <4>1. store' = [store EXCEPT ![i] = CompletedRecord(r, requests[r].outcome)]
        BY <2>8, <3>3 DEF PutCompleted
      <4>2. Go(r, "release") \/ Go(r, "bind")
        BY <2>8, <3>3 DEF PutCompleted, Go
      <4> QED
        BY <2>4, <2>5, <3>2, <4>1, <4>2
    <3>4. CASE ~Unchanged(i, seen.version)
      <4>1. \/ requests'[r].seen = seen
            \/ \E v : requests'[r].seen = [seen EXCEPT !.version = v]
        BY <2>8, <3>4, <2>1 DEF PutCompleted, Types, RequestRow
      <4>2. \A v : Agrees([seen EXCEPT !.version = v], payments')
        BY <2>1 DEF Agrees, Record
      <4>3. Agrees(requests'[r].seen, payments')
        BY <2>1, <4>1, <4>2
      <4> QED
        BY <1>1, <1>2, <1>6, <2>8, <3>4, <4>3, OneRequest DEF Agreement, PutCompleted
    <3> QED
      BY <3>3, <3>4
  <2>9. CASE PutCanceled(r)
    <3> DEFINE canceled == [seen EXCEPT !.status = "canceled", !.purge = now + Retention,
                                        !.version = @ + 1]
    <3>1. Agrees(canceled, payments')
      <4>1. seen.checkout # Nobody => payments[seen.checkout].status # "pending"
        BY <2>9 DEF PutCanceled, At, Charges, RequestCharges
      <4>2. UNCHANGED payments /\ now + Retention > 0
        BY <2>9, Lifetimes DEF PutCanceled, shop, Types
      <4> QED
        BY <2>1, <4>1, <4>2 DEF Agrees, Record
    <3>2. store' = store \/ store' = [store EXCEPT ![i] = canceled]
      BY <2>9 DEF PutCanceled
    <3>3. requests'[r].seen = seen
      BY <2>5, <2>9 DEF PutCanceled
    <3> HIDE DEF canceled
    <3> QED
      BY <2>2, <2>4, <3>1, <3>2, <3>3
  <2>10. CASE BeginIdempotency(r) \/ ClaimCompletionLock(r)
    <3>1. CASE Finish(r) \/ \E s : Go(r, s)
      BY <2>2, <2>5, <2>10, <3>1, EndedRow DEF BeginIdempotency, ClaimCompletionLock
    <3>2. CASE \E t, s : \/ requests' = [requests EXCEPT ![r].until = t, ![r].step = s]
                        \/ requests' = [requests EXCEPT ![r].lock = t, ![r].step = s]
      <4>1. requests'[r].seen = seen
        BY <3>2 DEF Types, RequestRow
      <4> QED
        BY <2>2, <2>10, <4>1 DEF BeginIdempotency, ClaimCompletionLock
    <3> QED
      BY <2>10, <3>1, <3>2 DEF BeginIdempotency, ClaimCompletionLock
  <2>11. CASE Rebuild(r)
    <3>1. UNCHANGED store
      BY <2>11 DEF Rebuild, GetCart, RemoveLine, AddItem, AddRefused, RestoreCart
    <3>2. \A s, todo : Rebuilding(r, s, todo).seen = seen
      BY <2>1 DEF Rebuilding, RequestRow
    <3>3. CASE GetCart(r)
      <4>1. PICK todo, items :
              requests' = [requests EXCEPT ![r] = [Rebuilding(r, "remove", todo) EXCEPT !.original = items]]
        BY <3>3 DEF GetCart
      <4>2. [Rebuilding(r, "remove", todo) EXCEPT !.original = items].seen = seen
        BY <2>1 DEF Rebuilding, RequestRow
      <4> QED
        BY <2>2, <3>1, <4>1, <4>2 DEF Types
    <3>4. CASE RemoveLine(r) \/ AddItem(r)
      <4>1. \/ Go(r, "restore")
            \/ \E s, todo : requests' = [requests EXCEPT ![r] = Rebuilding(r, s, todo)]
        BY <3>4 DEF RemoveLine, AddItem
      <4>2. CASE \E s, todo : requests' = [requests EXCEPT ![r] = Rebuilding(r, s, todo)]
        BY <2>2, <3>1, <3>2, <4>2 DEF Types
      <4> QED
        BY <2>2, <2>5, <3>1, <4>1, <4>2
    <3> QED
      BY <2>2, <2>5, <2>11, <3>1, <3>3, <3>4 DEF Rebuild, AddRefused, RestoreCart
  <2>13. CASE CheckUpdate(r) \/ CheckComplete(r) \/ StartFails(r) \/ CheckCancel(r) \/ CancelCheckout(r)
    <3>1. \/ \E s : Go(r, s)
          \/ requests' = [requests EXCEPT ![r].step = "start", ![r].want = carts[i].items]
      BY <2>13 DEF CheckUpdate, CheckComplete, StartFails, CheckCancel, CancelCheckout
    <3>2. UNCHANGED store
      BY <2>13 DEF CheckUpdate, CheckComplete, StartFails, CheckCancel, CancelCheckout
    <3>3. requests'[r].seen = seen
      BY <2>5, <3>1 DEF Types, RequestRow
    <3> QED
      BY <2>2, <3>2, <3>3
  <2>14. ASSUME NEW status \in {"pending", "completed", "expired"}, StartCheckout(r, status)
         PROVE  Agreement'
    BY <2>2, <2>14 DEF StartCheckout, Types, RequestRow
  <2>12. CASE BindKey(r) \/ ReleaseKey(r) \/ ReleaseLock(r) \/ Crash(r) \/ Throw(r)
    <3>1. UNCHANGED store
      BY <2>12 DEF BindKey, ReleaseKey, ReleaseLock, Crash, Throw
    <3>2. CASE Finish(r) \/ AfterKey(r)
      BY <2>2, <3>1, <3>2, EndedRow
    <3>3. CASE \E s : Go(r, s)
      BY <2>2, <2>5, <3>1, <3>3
    <3> QED
      BY <2>12, <3>2, <3>3 DEF BindKey, ReleaseKey, ReleaseLock, Crash, Throw
  <2> QED
    BY <1>6, <2>3, <2>6, <2>7, <2>8, <2>9, <2>10, <2>11, <2>12, <2>13, <2>14 DEF Handle
<1>7. ASSUME CleanupExpired
      PROVE  Agreement'
  <2>1. \A i \in Ids : store'[i] \in {NoRecord, ExpiredRecord(store[i], now), store[i]}
    BY <1>7 DEF CleanupExpired
  <2> QED
    BY <1>1, <1>2, <1>3, <1>4, <1>7, <2>1 DEF CleanupExpired, Agreement, Types
<1>8. ASSUME \/ \E c \in Requests, status \in {"completed", "expired"} : PaymentSettles(c, status)
             \/ Tick \/ UNCHANGED vars
      PROVE  Agreement'
  <2>1. UNCHANGED <<requests, store>>
    BY <1>8 DEF PaymentSettles, Tick, vars
  <2> QED
    BY <1>1, <1>2, <2>1 DEF Agreement
<1> QED
  BY <1>5, <1>6, <1>7, <1>8 DEF Next

\* Only its own start takes a checkout out of "none".
LEMMA NoneKept ==
  ASSUME Types, Control, [Next]_vars, NEW c \in Requests, payments[c].status = "none",
         ~(\E status \in {"pending", "completed", "expired"} : StartCheckout(c, status))
  PROVE  payments'[c].status = "none"
<1>1. CASE \E r \in Requests, status \in {"pending", "completed", "expired"} : StartCheckout(r, status)
  BY <1>1 DEF StartCheckout, Types
<1>2. CASE \E r \in Requests : CancelCheckout(r)
  BY <1>2 DEF CancelCheckout, Types, shop
<1>3. CASE \E d \in Requests, status \in {"completed", "expired"} : PaymentSettles(d, status)
  BY <1>3 DEF PaymentSettles, Types, Unpaid
<1>4. CASE UNCHANGED payments
  BY <1>4
<1> QED
  BY <1>1, <1>2, <1>3, <1>4, PaymentsMove

\* What holds of a row holds on while the row stays.
LEMMA RequestChargesKept ==
  ASSUME Types, Control, Agreement, Charges, [Next]_vars, NEW q \in Requests,
         requests'[q] = requests[q]
  PROVE  RequestCharges(q, requests'[q], payments')
<1>1. CASE \E status \in {"pending", "completed", "expired"} : StartCheckout(q, status)
  <2>1. PICK status : StartCheckout(q, status)
    BY <1>1
  <2>2. requests'[q] = [requests[q] EXCEPT !.step = "put", !.outcome = status]
    BY <2>1 DEF StartCheckout, Types
  <2>3. requests[q].step = "start" /\ requests'[q].step = "put"
    <3>1. requests[q] \in RequestRow /\ requests[q].step = "start"
      BY <2>1, RequestShapes DEF StartCheckout, At
    <3> QED
      BY <2>2, <3>1 DEF RequestRow
  <2> QED
    BY <2>3
<1>2. CASE ~(\E status \in {"pending", "completed", "expired"} : StartCheckout(q, status))
  <2>1. requests[q].seen.checkout \in Requests \cup {Nobody}
    BY DEF Types, RequestRow, Record
  <2>2. requests[q].seen.checkout # Nobody
          => /\ PaymentKept(requests[q].seen.checkout)
             /\ payments[requests[q].seen.checkout].status # "none"
    BY <2>1, PaymentsKept DEF Agreement, Agrees
  <2>3. PaymentKept(q) /\ (payments[q].status = "none" => payments'[q].status = "none")
    BY <1>2, NoneKept, PaymentsKept
  <2> QED
    BY <2>2, <2>3 DEF Charges, RequestCharges, PaymentKept
<1> QED
  BY <1>1, <1>2

\* Opening a cart leaves its checkout or takes it off.
LEMMA OpenedCart ==
  ASSUME Types, Charges, NEW i \in Ids
  PROVE  OpenCart(i).by \in {carts[i].by, Nobody}
<1>1. carts[i].by # Nobody => payments[carts[i].by].status \in {"completed", "pending"} \cup Unpaid
  BY DEF Charges, Types, CartRow, PaymentRow
<1>2. carts[i] \in CartRow
  BY DEF Types
<1>3. \A n, s : /\ [number |-> n, items |-> s, by |-> Nobody].by = Nobody
                /\ [carts[i] EXCEPT !.by = Nobody].by = Nobody
  BY <1>2 DEF CartRow
<1>4. carts[i].number \in Nat
  BY <1>2 DEF CartRow
<1>5. \/ OpenCart(i) = carts[i]
      \/ OpenCart(i) = [carts[i] EXCEPT !.by = Nobody]
      \/ OpenCart(i) = [number |-> 1, items |-> {}, by |-> Nobody]
      \/ OpenCart(i) = [number |-> carts[i].number + 1, items |-> {}, by |-> Nobody]
  <2>1. CASE carts[i].number = 0
    BY <2>1 DEF OpenCart
  <2>2. CASE carts[i].number > 0 /\ carts[i].by = Nobody
    BY <2>2 DEF OpenCart
  <2>3. CASE carts[i].number > 0 /\ carts[i].by # Nobody
    <3>1. \/ payments[carts[i].by].status = "completed"
          \/ payments[carts[i].by].status = "pending"
          \/ payments[carts[i].by].status \in Unpaid
      BY <1>1, <2>3
    <3>2. CASE payments[carts[i].by].status = "completed"
      BY <2>3, <3>2 DEF OpenCart, Unpaid
    <3>3. CASE payments[carts[i].by].status = "pending"
      BY <2>3, <3>3 DEF OpenCart, Unpaid
    <3>4. CASE payments[carts[i].by].status \in Unpaid
      BY <2>3, <3>4 DEF OpenCart, Unpaid
    <3> QED
      BY <3>1, <3>2, <3>3, <3>4
  <2> QED
    BY <1>4, <2>1, <2>2, <2>3
<1> QED
  BY <1>3, <1>5

\* A start charges what its request carries, and a cancel has stopped what it read of.
LEMMA ChargesStep ==
  ASSUME Types, Control, Agreement, Charges, [Next]_vars, Types'
  PROVE  Charges'
<1>1. \A q \in Requests : requests'[q] = requests[q] => RequestCharges(q, requests'[q], payments')
  BY RequestChargesKept
<1>2. \A i \in Ids : carts[i].by # Nobody => payments'[carts[i].by].status # "none"
  BY PaymentsKept DEF Charges, PaymentKept, Types, CartRow
<1>3. ASSUME NEW r \in Requests, NEW op \in Ops, NEW i \in Ids, NEW k \in Keys, NEW b \in Buyers,
             NEW want \in Wants(op), Arrive(r, op, i, k, want, b)
      PROVE  Charges'
  <2>1. requests[r].step = "new" /\ UNCHANGED <<carts, payments>>
    BY <1>3 DEF Arrive, New, shop
  <2>2. requests'[r].step \in {"expire", "claim"}
    BY <1>3 DEF Arrive, New, Types
  <2>3. payments[r].status = "none"
    BY <2>1 DEF Charges, RequestCharges
  <2>4. RequestCharges(r, requests'[r], payments')
    BY <2>1, <2>2, <2>3 DEF RequestCharges
  <2>5. \A q \in Requests \ {r} : requests'[q] = requests[q]
    BY <1>3 DEF Arrive, Types
  <2> QED
    BY <1>1, <1>2, <2>1, <2>4, <2>5 DEF Charges
<1>4. ASSUME NEW r \in Requests, Handle(r) \/ Crash(r) \/ Throw(r)
      PROVE  Charges'
  <2> DEFINE i == requests[r].id
             seen == requests[r].seen
  <2>1. /\ requests[r] \in RequestRow /\ seen \in Record /\ ControlOf(requests[r])
        /\ RequestCharges(r, requests[r], payments) /\ PaymentKept(r)
    BY PaymentsKept, RequestShapes DEF RequestRow, Control, Charges
  <2>2. ASSUME RequestCharges(r, requests'[r], payments')
        PROVE  \A q \in Requests : RequestCharges(q, requests'[q], payments')
    BY <1>1, <1>4, <2>2, OneRequest
  <2>3. ASSUME requests'[r].step \in {"bind", "release", "unlock", "done", "cart", "remove", "add", "restore"}
        PROVE  \A q \in Requests : RequestCharges(q, requests'[q], payments')
    BY <2>2, <2>3 DEF RequestCharges
  <2>4. ASSUME UNCHANGED payments, requests[r].step \in {"expire", "claim", "lock", "check"},
               requests'[r].op = requests[r].op,
               requests'[r].step \in {"expire", "claim", "lock", "check", "start"}
        PROVE  \A q \in Requests : RequestCharges(q, requests'[q], payments')
    BY <2>1, <2>2, <2>4 DEF RequestCharges
  <2>5. ASSUME NEW s, Go(r, s)
        PROVE  /\ requests'[r].step = s /\ requests'[r].op = requests[r].op
               /\ requests'[r].seen = seen
    BY <2>5 DEF Go, Types, RequestRow
  <2>6. \A q \in Requests : RequestCharges(q, requests'[q], payments')
    <3>1. CASE Expire(r) \/ BeginIdempotency(r) \/ ClaimCompletionLock(r)
      <4>1. CASE Finish(r) \/ Go(r, "release")
        BY <2>3, <2>5, <4>1, EndedRow
      <4>2. CASE \E t : requests' = [requests EXCEPT ![r].seen = t, ![r].step = "claim"]
        <5>1. requests'[r].op = requests[r].op /\ requests'[r].step = "claim"
          BY <4>2 DEF Types, RequestRow
        <5> QED
          BY <2>4, <3>1, <5>1 DEF Expire, BeginIdempotency, ClaimCompletionLock, shop
      <4>3. CASE \E t, s : /\ requests' = [requests EXCEPT ![r].until = t, ![r].step = s]
                           /\ s \in {"cart", "lock", "check"}
        <5>1. requests'[r].op = requests[r].op /\ requests'[r].step \in {"cart", "lock", "check"}
          BY <4>3 DEF Types, RequestRow
        <5> QED
          BY <2>3, <2>4, <3>1, <5>1 DEF Expire, BeginIdempotency, ClaimCompletionLock, shop
      <4>4. CASE \E t : requests' = [requests EXCEPT ![r].lock = t, ![r].step = "check"]
        <5>1. requests'[r].op = requests[r].op /\ requests'[r].step = "check"
          BY <4>4 DEF Types, RequestRow
        <5> QED
          BY <2>4, <3>1, <5>1 DEF Expire, BeginIdempotency, ClaimCompletionLock, shop
      <4> QED
        BY <3>1, <4>1, <4>2, <4>3, <4>4 DEF Expire, BeginIdempotency, ClaimCompletionLock
    <3>2. CASE Rebuild(r)
      <4>1. requests[r].op \in {"create", "update"}
        BY <2>1, <3>2 DEF Rebuild, GetCart, RemoveLine, AddItem, AddRefused, RestoreCart, ControlOf
      <4>2. requests'[r].op = requests[r].op /\ requests'[r].step # "new"
        <5>1. \A s \in {"remove", "add"} : \A todo :
                 Rebuilding(r, s, todo).op = requests[r].op /\ Rebuilding(r, s, todo).step # "new"
          BY <2>1, <3>2 DEF Rebuilding, RequestRow
        <5>2. CASE GetCart(r)
          <6>1. PICK todo, items :
              requests' = [requests EXCEPT ![r] = [Rebuilding(r, "remove", todo) EXCEPT !.original = items]]
            BY <5>2 DEF GetCart
          <6>2. LET row == [Rebuilding(r, "remove", todo) EXCEPT !.original = items]
                IN  row.op = requests[r].op /\ row.step # "new"
            BY <2>1 DEF Rebuilding, RequestRow
          <6> QED
            BY <6>1, <6>2 DEF Types
        <5>3. CASE \E s \in {"remove", "add"} : \E todo : requests' = [requests EXCEPT ![r] = Rebuilding(r, s, todo)]
          BY <5>1, <5>3 DEF Types
        <5>4. CASE Go(r, "restore") \/ Go(r, "release")
          BY <2>5, <5>4
        <5> QED
          BY <3>2, <5>2, <5>3, <5>4 DEF Rebuild, RemoveLine, AddItem, AddRefused, RestoreCart
      <4> QED
        BY <2>2, <4>1, <4>2 DEF RequestCharges
    <3>3. CASE \/ PutCreated(r) \/ CheckUpdate(r) \/ PutUpdated(r) \/ StartFails(r) \/ PutCanceled(r)
      <4>1. CASE CheckUpdate(r) /\ Go(r, "put")
        BY <2>2, <2>5, <4>1 DEF CheckUpdate, At, RequestCharges
      <4> QED
        BY <2>3, <2>5, <3>3, <4>1 DEF PutCreated, CheckUpdate, PutUpdated, StartFails, PutCanceled
    <3>4. CASE CheckComplete(r)
      <4>1. CASE requests' = [requests EXCEPT ![r].step = "start", ![r].want = carts[i].items]
        <5>1. requests'[r].op = requests[r].op /\ requests'[r].step = "start"
          BY <4>1 DEF Types, RequestRow
        <5> QED
          BY <2>4, <3>4, <5>1 DEF CheckComplete, At, shop
      <4> QED
        BY <2>3, <2>5, <3>4, <4>1 DEF CheckComplete
    <3>5. ASSUME NEW status \in {"pending", "completed", "expired"}, StartCheckout(r, status)
          PROVE  \A q \in Requests : RequestCharges(q, requests'[q], payments')
      <4>1. /\ requests'[r].op = "complete" /\ requests'[r].step = "put"
            /\ requests'[r].want = requests[r].want
        BY <3>5 DEF StartCheckout, At, Types, RequestRow
      <4>2. payments'[r].status # "none" /\ payments'[r].items = requests[r].want
        BY <3>5 DEF StartCheckout, Authorized, Types
      <4> QED
        BY <2>2, <4>1, <4>2 DEF RequestCharges
    <3>6. CASE PutCompleted(r)
      <4>1. CASE Go(r, "release") \/ Go(r, "bind")
        BY <2>3, <2>5, <4>1
      <4>2. CASE requests' = [requests EXCEPT ![r].seen.version = store[i].version, ![r].tries = @ + 1]
        <5>1. /\ requests'[r].op = requests[r].op /\ requests'[r].step = requests[r].step
              /\ requests'[r].want = requests[r].want
          BY <4>2 DEF Types, RequestRow
        <5> QED
          BY <2>1, <2>2, <3>6, <5>1 DEF PutCompleted, At, RequestCharges, shop
      <4> QED
        BY <3>6, <4>1, <4>2 DEF PutCompleted, Go
    <3>7. CASE CheckCancel(r)
      <4>1. Agrees(seen, payments)
        BY DEF Agreement
      <4>2. TerminalStatus(seen) \in {"completed", "canceled", "none"}
        BY <2>1, <4>1 DEF TerminalStatus, Terminal, Agrees, Record, Types, PaymentRow, Unpaid
      <4>3. CASE Go(r, "put") /\ seen.checkout = Nobody
        BY <2>2, <2>5, <3>7, <4>3 DEF CheckCancel, At, RequestCharges
      <4>4. CASE Go(r, "stop")
        BY <2>2, <2>5, <3>7, <4>4 DEF CheckCancel, At, RequestCharges
      <4> QED
        BY <2>3, <2>5, <3>7, <4>2, <4>3, <4>4 DEF CheckCancel
    <3>8. CASE CancelCheckout(r)
      <4>1. seen.checkout \in Requests
        BY <2>1, <3>8 DEF CancelCheckout, At, ControlOf, Record
      <4>2. payments'[seen.checkout].status # "pending"
        BY <3>8, <4>1 DEF CancelCheckout, Types, PaymentRow, shop
      <4> QED
        BY <2>2, <2>5, <3>8, <4>2 DEF CancelCheckout, At, RequestCharges
    <3>9. CASE BindKey(r) \/ ReleaseKey(r) \/ ReleaseLock(r) \/ Crash(r) \/ Throw(r)
      BY <2>3, <2>5, <3>9, EndedRow DEF BindKey, ReleaseKey, ReleaseLock, Crash, Throw
    <3> QED
      BY <1>4, <3>1, <3>2, <3>3, <3>4, <3>5, <3>6, <3>7, <3>8, <3>9 DEF Handle
  <2>7. \A j \in Ids : carts'[j].by # Nobody => payments'[carts'[j].by].status # "none"
    <3>1. CASE \A j \in Ids : carts'[j].by \in {carts[j].by, Nobody}
      BY <1>2, <3>1
    <3>2. ASSUME NEW status \in {"pending", "completed", "expired"}, StartCheckout(r, status)
          PROVE  \A j \in Ids : carts'[j].by # Nobody => payments'[carts'[j].by].status # "none"
      <4>1. \A j \in Ids : carts'[j].by \in {carts[j].by, r}
        BY <3>2 DEF StartCheckout, Types, CartRow
      <4>2. payments'[r].status # "none"
        BY <3>2 DEF StartCheckout, Types
      <4> QED
        BY <1>2, <4>1, <4>2
    <3>3. CASE CancelCheckout(r)
      <4>1. \A j \in Ids : carts'[j].by \in {carts[j].by, Nobody}
        BY <3>3 DEF CancelCheckout, Types, CartRow, shop
      <4> QED
        BY <3>1, <4>1
    <3>4. CASE Rebuild(r)
      <4>1. i \in Ids
        BY <3>4, KeysAreKeys DEF Rebuild, GetCart, RemoveLine, AddItem, AddRefused, RestoreCart
      <4>2. OpenCart(i).by \in {carts[i].by, Nobody} /\ OpenCart(i) \in CartRow
        BY <4>1, OpenedCart, CartShapes
      <4>3. \/ UNCHANGED carts
            \/ carts' = [carts EXCEPT ![i] = OpenCart(i)]
            \/ \E items : carts' = [carts EXCEPT ![i] = [OpenCart(i) EXCEPT !.items = items]]
        BY <3>4 DEF Rebuild, GetCart, RemoveLine, AddItem, AddRefused, RestoreCart, shop
      <4>4. \A j \in Ids : carts'[j].by \in {carts[j].by, Nobody}
        <5>1. OpenCart(i) \in CartRow
                => \A items : [OpenCart(i) EXCEPT !.items = items].by = OpenCart(i).by
          BY DEF CartRow
        <5>2. CASE UNCHANGED carts
          BY <5>2
        <5>3. CASE carts' = [carts EXCEPT ![i] = OpenCart(i)]
          BY <4>1, <4>2, <5>3 DEF Types
        <5>4. ASSUME NEW items, carts' = [carts EXCEPT ![i] = [OpenCart(i) EXCEPT !.items = items]]
              PROVE  \A j \in Ids : carts'[j].by \in {carts[j].by, Nobody}
          BY <4>1, <4>2, <5>1, <5>4 DEF Types
        <5> QED
          BY <4>3, <5>2, <5>3, <5>4
      <4> QED
        BY <3>1, <4>4
    <3>5. CASE UNCHANGED carts
      BY <3>1, <3>5
    <3>6. CASE \/ Expire(r) \/ BeginIdempotency(r) \/ ClaimCompletionLock(r) \/ PutCreated(r)
               \/ CheckUpdate(r) \/ PutUpdated(r) \/ CheckComplete(r) \/ StartFails(r)
      BY <3>5, <3>6 DEF Expire, BeginIdempotency, ClaimCompletionLock, PutCreated, CheckUpdate,
         PutUpdated, CheckComplete, StartFails, shop
    <3>7. CASE \/ PutCompleted(r) \/ CheckCancel(r) \/ PutCanceled(r) \/ BindKey(r) \/ ReleaseKey(r)
               \/ ReleaseLock(r) \/ Crash(r) \/ Throw(r)
      BY <3>5, <3>7 DEF PutCompleted, CheckCancel, PutCanceled, BindKey, ReleaseKey, ReleaseLock,
         Crash, Throw, shop
    <3> QED
      BY <1>4, <3>2, <3>3, <3>4, <3>6, <3>7 DEF Handle
  <2> QED
    BY <2>6, <2>7 DEF Charges
<1>5. ASSUME \/ \E c \in Requests, status \in {"completed", "expired"} : PaymentSettles(c, status)
             \/ CleanupExpired \/ Tick \/ UNCHANGED vars
      PROVE  Charges'
  <2>1. UNCHANGED <<requests, carts>>
    BY <1>5 DEF PaymentSettles, CleanupExpired, Tick, vars, shop
  <2> QED
    BY <1>1, <1>2, <2>1 DEF Charges
<1> QED
  BY <1>3, <1>4, <1>5 DEF Next

----------------------------------------------------------------------------
(* What a step leaves of the request that takes it *)

Steady(r) ==
  /\ requests'[r].op = requests[r].op /\ requests'[r].id = requests[r].id
  /\ requests'[r].key = requests[r].key /\ requests'[r].until = requests[r].until
  /\ requests'[r].lock = requests[r].lock /\ requests'[r].seen = requests[r].seen
  /\ requests'[r].tries = requests[r].tries /\ requests'[r].outcome = requests[r].outcome

Quiet(r) ==
  \/ Rebuild(r) \/ PutCreated(r) \/ CheckUpdate(r) \/ PutUpdated(r) \/ CheckComplete(r) \/ StartFails(r)
  \/ CheckCancel(r) \/ CancelCheckout(r) \/ PutCanceled(r) \/ Throw(r)

\* Moving on changes nothing but the step.
LEMMA GoSteady ==
  ASSUME Types, NEW r \in Requests, NEW s, Go(r, s)
  PROVE  Steady(r) /\ requests'[r].step = s
<1>1. requests'[r] = [requests[r] EXCEPT !.step = s] /\ requests[r] \in RequestRow
  BY RequestShapes DEF Go, Types
<1> QED
  BY <1>1 DEF Steady, RequestRow

Working == {"cart", "remove", "add", "restore", "check", "start", "stop", "put", "bind", "release"}

\* Between its claim and the end a request keeps its deadlines and what it read.
LEMMA QuietSteps ==
  ASSUME Types, Control, Agreement, NEW r \in Requests, Quiet(r)
  PROVE  /\ Steady(r) /\ requests[r].step \in Working /\ requests'[r].step \in Working
         /\ UNCHANGED <<claims, now>>
<1>1. requests[r] \in RequestRow
  BY RequestShapes
<1>2. CASE Rebuild(r)
  <2>1. requests[r].step \in Working /\ UNCHANGED <<claims, now>>
    BY <1>2 DEF Rebuild, GetCart, RemoveLine, AddItem, AddRefused, RestoreCart, Working
  <2>2. \A s \in {"remove", "add"} : \A todo :
          LET row == Rebuilding(r, s, todo)
          IN  /\ row.op = requests[r].op /\ row.id = requests[r].id /\ row.key = requests[r].key
              /\ row.until = requests[r].until /\ row.lock = requests[r].lock
              /\ row.seen = requests[r].seen /\ row.tries = requests[r].tries
              /\ row.outcome = requests[r].outcome /\ row.step \in {"remove", "add", "put"}
    BY <1>1 DEF Rebuilding, RequestRow
  <2>3. CASE GetCart(r)
    <3>1. PICK todo, items :
            requests' = [requests EXCEPT ![r] = [Rebuilding(r, "remove", todo) EXCEPT !.original = items]]
      BY <2>3 DEF GetCart
    <3>2. LET row == [Rebuilding(r, "remove", todo) EXCEPT !.original = items]
          IN  /\ row.op = requests[r].op /\ row.id = requests[r].id /\ row.key = requests[r].key
              /\ row.until = requests[r].until /\ row.lock = requests[r].lock
              /\ row.seen = requests[r].seen /\ row.tries = requests[r].tries
              /\ row.outcome = requests[r].outcome /\ row.step \in {"remove", "add", "put"}
      BY <1>1 DEF Rebuilding, RequestRow
    <3>3. requests'[r] = [Rebuilding(r, "remove", todo) EXCEPT !.original = items]
      BY <3>1 DEF Types
    <3> QED
      BY <2>1, <3>2, <3>3 DEF Steady, Working
  <2>4. CASE \E s \in {"remove", "add"} : \E todo :
               requests' = [requests EXCEPT ![r] = Rebuilding(r, s, todo)]
    BY <2>1, <2>2, <2>4 DEF Types, Steady, Working
  <2>5. CASE Go(r, "restore") \/ Go(r, "release")
    BY <2>1, <2>5, GoSteady DEF Working
  <2> QED
    BY <1>2, <2>3, <2>4, <2>5 DEF Rebuild, RemoveLine, AddItem, AddRefused, RestoreCart
<1>3. CASE PutCreated(r) \/ CheckUpdate(r) \/ PutUpdated(r) \/ StartFails(r) \/ CancelCheckout(r)
             \/ PutCanceled(r) \/ Throw(r)
  <2>1. requests[r].step \in Working /\ UNCHANGED <<claims, now>>
    BY <1>3 DEF PutCreated, CheckUpdate, PutUpdated, StartFails, CancelCheckout, PutCanceled, Throw,
       At, Working
  <2>2. Go(r, "bind") \/ Go(r, "release") \/ Go(r, "put") \/ Go(r, "cart")
    BY <1>3 DEF PutCreated, CheckUpdate, PutUpdated, StartFails, CancelCheckout, PutCanceled, Throw
  <2> QED
    BY <2>1, <2>2, GoSteady DEF Working
<1>4. CASE CheckComplete(r)
  <2>1. requests[r].step \in Working /\ UNCHANGED <<claims, now>>
    BY <1>4 DEF CheckComplete, At, Working
  <2>2. CASE Go(r, "bind") \/ Go(r, "release")
    BY <2>1, <2>2, GoSteady DEF Working
  <2>3. CASE requests' = [requests EXCEPT ![r].step = "start", ![r].want = carts[requests[r].id].items]
    <3>1. requests'[r] = [requests[r] EXCEPT !.step = "start", !.want = carts[requests[r].id].items]
      BY <2>3 DEF Types
    <3> QED
      BY <1>1, <2>1, <3>1 DEF Steady, RequestRow, Working
  <2> QED
    BY <1>4, <2>2, <2>3 DEF CheckComplete
<1>5. CASE CheckCancel(r)
  <2>1. requests[r].step \in Working /\ UNCHANGED <<claims, now>>
    BY <1>5 DEF CheckCancel, At, Working
  <2>2. TerminalStatus(requests[r].seen) \in {"completed", "canceled", "none"}
    <3>1. requests[r].seen \in Record /\ Agrees(requests[r].seen, payments)
      BY <1>1 DEF RequestRow, Agreement
    <3> QED
      BY <3>1 DEF TerminalStatus, Terminal, Agrees, Record, Types, PaymentRow, Unpaid
  <2>3. Go(r, "release") \/ Go(r, "bind") \/ Go(r, "put") \/ Go(r, "stop")
    BY <1>5, <2>2 DEF CheckCancel
  <2> QED
    BY <2>1, <2>3, GoSteady DEF Working
<1> QED
  BY <1>2, <1>3, <1>4, <1>5 DEF Quiet

\* The other steps: expiry, the claims, the start, the write of a completion, the end.
LEMMA LoudSteps ==
  ASSUME Types, Control, Agreement, NEW r \in Requests
  PROVE  /\ Expire(r) => /\ requests'[r].op = requests[r].op /\ requests'[r].id = requests[r].id
                         /\ requests'[r].key = requests[r].key
                         /\ \/ requests'[r].step = "done" /\ requests'[r].until = 0 /\ requests'[r].lock = 0
                               /\ requests'[r].outcome = requests[r].outcome
                            \/ /\ requests'[r] = [requests[r] EXCEPT !.seen = store'[requests[r].id],
                                                                     !.step = "claim"]
                               /\ requests[r].op # "get" /\ ~IsExpired(store'[requests[r].id], now)
         /\ BeginIdempotency(r) =>
              \/ UNCHANGED claims /\ requests'[r] = Ended(r)
              \/ /\ Claimable(ClaimKey(r), requests[r].id) /\ Claim(ClaimKey(r), r)
                 /\ \E s \in {"cart", "lock", "check"} :
                      /\ requests'[r] = [requests[r] EXCEPT !.until = now + ClaimTTL, !.step = s]
                      /\ s = "cart" <=> requests[r].op = "create"
                      /\ s = "lock" <=> requests[r].op = "complete"
         /\ ClaimCompletionLock(r) =>
              \/ UNCHANGED claims /\ Steady(r) /\ requests'[r].step = "release"
              \/ /\ Claimable(LockKey(r), requests[r].id) /\ Claim(LockKey(r), r)
                 /\ requests'[r] = [requests[r] EXCEPT !.lock = now + ClaimTTL, !.step = "check"]
         /\ \A status : StartCheckout(r, status) =>
              requests'[r] = [requests[r] EXCEPT !.step = "put", !.outcome = status]
<1>1. ASSUME Expire(r)
      PROVE  /\ requests'[r].op = requests[r].op /\ requests'[r].id = requests[r].id
             /\ requests'[r].key = requests[r].key
             /\ \/ requests'[r].step = "done" /\ requests'[r].until = 0 /\ requests'[r].lock = 0
                   /\ requests'[r].outcome = requests[r].outcome
                \/ /\ requests'[r] = [requests[r] EXCEPT !.seen = store'[requests[r].id], !.step = "claim"]
                   /\ requests[r].op # "get" /\ ~IsExpired(store'[requests[r].id], now)
  <2>1. CASE Finish(r)
    BY <2>1, EndedRow
  <2>2. CASE ~Finish(r)
    <3> DEFINE seen == requests[r].seen
               current == IF Unchanged(requests[r].id, seen.version) THEN ExpiredRecord(seen, now)
                          ELSE store[requests[r].id]
    <3>1. /\ store' = [store EXCEPT ![requests[r].id] = current]
          /\ requests[r].op # "get" /\ ~IsExpired(current, now)
          /\ requests' = [requests EXCEPT ![r].seen = current, ![r].step = "claim"]
      BY <1>1, <2>2 DEF Expire
    <3>2. requests[r].id \in Ids
      BY <1>1, KeysAreKeys DEF Expire
    <3>3. store'[requests[r].id] = current
      BY <3>1, <3>2 DEF Types
    <3>4. requests'[r] = [requests[r] EXCEPT !.seen = current, !.step = "claim"]
      BY <3>1 DEF Types
    <3>5. /\ requests'[r].op = requests[r].op /\ requests'[r].id = requests[r].id
          /\ requests'[r].key = requests[r].key
      BY <3>4, RequestShapes DEF RequestRow
    <3> HIDE DEF current
    <3> QED
      BY <3>1, <3>3, <3>4, <3>5
  <2> QED
    BY <2>1, <2>2
<1>2. ASSUME BeginIdempotency(r)
      PROVE  \/ UNCHANGED claims /\ requests'[r] = Ended(r)
             \/ /\ Claimable(ClaimKey(r), requests[r].id) /\ Claim(ClaimKey(r), r)
                /\ \E s \in {"cart", "lock", "check"} :
                     /\ requests'[r] = [requests[r] EXCEPT !.until = now + ClaimTTL, !.step = s]
                     /\ s = "cart" <=> requests[r].op = "create"
                     /\ s = "lock" <=> requests[r].op = "complete"
  BY <1>2, EndedRow DEF BeginIdempotency, Types
<1>3. ASSUME ClaimCompletionLock(r)
      PROVE  \/ UNCHANGED claims /\ Steady(r) /\ requests'[r].step = "release"
             \/ /\ Claimable(LockKey(r), requests[r].id) /\ Claim(LockKey(r), r)
                /\ requests'[r] = [requests[r] EXCEPT !.lock = now + ClaimTTL, !.step = "check"]
  BY <1>3, GoSteady DEF ClaimCompletionLock, Types
<1>4. \A status : StartCheckout(r, status) =>
              requests'[r] = [requests[r] EXCEPT !.step = "put", !.outcome = status]
  BY DEF StartCheckout, Types
<1> QED
  BY <1>1, <1>2, <1>3, <1>4

\* The write of a completion ends it, or starts another attempt.
LEMMA CompletionSteps ==
  ASSUME Types, Control, Agreement, NEW r \in Requests, PutCompleted(r)
  PROVE  /\ requests[r].step = "put" /\ requests[r].op = "complete" /\ UNCHANGED <<claims, now>>
         /\ \/ Steady(r) /\ requests'[r].step \in {"bind", "release"}
            \/ /\ ~Unchanged(requests[r].id, requests[r].seen.version) /\ UNCHANGED <<store, contested>>
               /\ Present(requests[r].id) /\ OnlyExpired(requests[r].seen, store[requests[r].id])
               /\ requests[r].tries + 1 < Retries
               /\ requests'[r] = [requests[r] EXCEPT !.seen.version = store[requests[r].id].version,
                                                     !.tries = requests[r].tries + 1]
<1>1. requests[r].step = "put" /\ requests[r].op = "complete" /\ UNCHANGED <<claims, now>>
  BY DEF PutCompleted, At
<1>2. CASE Go(r, "bind") \/ Go(r, "release")
  BY <1>1, <1>2, GoSteady
<1>3. CASE /\ ~Unchanged(requests[r].id, requests[r].seen.version) /\ UNCHANGED <<store, contested>>
           /\ Present(requests[r].id) /\ OnlyExpired(requests[r].seen, store[requests[r].id])
           /\ requests[r].tries + 1 < Retries
           /\ requests' = [requests EXCEPT ![r].seen.version = store[requests[r].id].version,
                                           ![r].tries = @ + 1]
  BY <1>1, <1>3 DEF Types
<1> QED
  BY <1>2, <1>3 DEF PutCompleted, Go

----------------------------------------------------------------------------
(* Deadlines *)

\* A request gets its deadline with its claim and loses it with its key.
LEMMA TimedStep ==
  ASSUME Types, Control, Agreement, Timed, [Next]_vars
  PROVE  Timed'
<1>1. ASSUME NEW r \in Requests, NEW op \in Ops, NEW i \in Ids, NEW k \in Keys, NEW b \in Buyers,
             NEW want \in Wants(op), Arrive(r, op, i, k, want, b)
      PROVE  Timed'
  <2>1. /\ requests'[r].step \in {"expire", "claim"} /\ requests'[r].until = 0
        /\ requests'[r].lock = 0 /\ \A q \in Requests \ {r} : requests'[q] = requests[q]
    BY <1>1 DEF Arrive, Types, New
  <2> QED
    BY <2>1 DEF Timed, TimesOf
<1>2. ASSUME NEW r \in Requests, Handle(r) \/ Crash(r) \/ Throw(r)
      PROVE  Timed'
  <2>1. TimesOf(requests[r]) /\ requests[r] \in RequestRow /\ now + ClaimTTL > 0
    BY RequestShapes, Lifetimes DEF Timed, Types
  <2>2. TimesOf(requests'[r])
    <3>1. CASE Quiet(r)
      BY <2>1, <3>1, QuietSteps DEF TimesOf, Steady, Working
    <3>2. CASE Expire(r)
      <4>1. CASE requests'[r] = [requests[r] EXCEPT !.seen = store'[requests[r].id], !.step = "claim"]
        BY <2>1, <3>2, <4>1 DEF Expire, TimesOf, RequestRow
      <4> QED
        BY <3>2, <4>1, LoudSteps DEF TimesOf
    <3>3. CASE BeginIdempotency(r)
      <4>1. CASE requests'[r] = Ended(r)
        BY <4>1, EndedRow DEF TimesOf
      <4>2. ASSUME NEW s \in {"cart", "lock", "check"},
                   requests'[r] = [requests[r] EXCEPT !.until = now + ClaimTTL, !.step = s]
            PROVE  TimesOf(requests'[r])
        BY <2>1, <4>2 DEF TimesOf, RequestRow
      <4> QED
        BY <3>3, <4>1, <4>2, LoudSteps
    <3>4. CASE ClaimCompletionLock(r)
      <4>1. CASE Steady(r) /\ requests'[r].step = "release"
        BY <2>1, <3>4, <4>1 DEF ClaimCompletionLock, TimesOf, Steady
      <4>2. CASE requests'[r] = [requests[r] EXCEPT !.lock = now + ClaimTTL, !.step = "check"]
        BY <2>1, <3>4, <4>2 DEF ClaimCompletionLock, TimesOf, RequestRow
      <4> QED
        BY <3>4, <4>1, <4>2, LoudSteps
    <3>5. ASSUME NEW status \in {"pending", "completed", "expired"}, StartCheckout(r, status)
          PROVE  TimesOf(requests'[r])
      <4>1. requests'[r] = [requests[r] EXCEPT !.step = "put", !.outcome = status]
        BY <3>5, LoudSteps
      <4>2. requests[r].step = "start"
        BY <3>5 DEF StartCheckout, At
      <4> QED
        BY <2>1, <4>1, <4>2 DEF TimesOf, RequestRow
    <3>6. CASE PutCompleted(r)
      <4>1. CASE requests'[r] = [requests[r] EXCEPT !.seen.version = store[requests[r].id].version,
                                                     !.tries = requests[r].tries + 1]
        BY <2>1, <3>6, <4>1, CompletionSteps DEF TimesOf, RequestRow
      <4> QED
        BY <2>1, <3>6, <4>1, CompletionSteps DEF TimesOf, Steady
    <3>7. CASE BindKey(r) \/ ReleaseKey(r) \/ ReleaseLock(r) \/ Crash(r)
      <4>1. Finish(r) \/ AfterKey(r)
        BY <3>7 DEF BindKey, ReleaseKey, ReleaseLock, Crash
      <4>2. CASE requests'[r] = Ended(r)
        BY <4>2, EndedRow DEF TimesOf
      <4>3. CASE requests'[r] = [Ended(r) EXCEPT !.step = "unlock", !.lock = requests[r].lock]
        BY <4>3 DEF TimesOf, Ended, New
      <4> QED
        BY <4>1, <4>2, <4>3, EndedRow
    <3> QED
      BY <1>2, <3>1, <3>2, <3>3, <3>4, <3>5, <3>6, <3>7 DEF Handle, Quiet
  <2> QED
    BY <1>2, <2>2, OneRequest DEF Timed
<1>3. ASSUME \/ \E c \in Requests, status \in {"completed", "expired"} : PaymentSettles(c, status)
             \/ CleanupExpired \/ Tick \/ UNCHANGED vars
      PROVE  Timed'
  <2>1. UNCHANGED requests
    BY <1>3 DEF PaymentSettles, CleanupExpired, Tick, vars
  <2> QED
    BY <2>1 DEF Timed
<1> QED
  BY <1>1, <1>2, <1>3 DEF Next

\* A request keeps what it asks for to the end.
LEMMA Asked ==
  ASSUME Types, Control, Agreement, NEW r \in Requests, Handle(r) \/ Crash(r) \/ Throw(r)
  PROVE  /\ requests'[r].op = requests[r].op /\ requests'[r].id = requests[r].id
         /\ requests'[r].key = requests[r].key /\ requests[r].step \notin {"new", "done"}
         /\ requests'[r].step # "new"
<1>0. requests[r] \in RequestRow
  BY RequestShapes
<1>1. CASE Quiet(r)
  BY <1>1, QuietSteps DEF Steady, Working
<1>2. CASE Expire(r) \/ BeginIdempotency(r) \/ ClaimCompletionLock(r)
  <2>1. requests[r].step \notin {"new", "done"}
    BY <1>2 DEF Expire, BeginIdempotency, ClaimCompletionLock
  <2>2. CASE Expire(r)
    BY <1>0, <2>1, <2>2, LoudSteps DEF RequestRow
  <2>3. CASE BeginIdempotency(r)
    <3>1. ASSUME NEW s \in {"cart", "lock", "check"},
                 requests'[r] = [requests[r] EXCEPT !.until = now + ClaimTTL, !.step = s]
          PROVE  /\ requests'[r].op = requests[r].op /\ requests'[r].id = requests[r].id
                 /\ requests'[r].key = requests[r].key /\ requests'[r].step # "new"
      BY <1>0, <3>1 DEF RequestRow
    <3>2. \/ requests'[r] = Ended(r)
          \/ \E s \in {"cart", "lock", "check"} :
               requests'[r] = [requests[r] EXCEPT !.until = now + ClaimTTL, !.step = s]
      BY <2>3, LoudSteps
    <3> QED
      BY <2>1, <3>1, <3>2, EndedRow
  <2>4. CASE ClaimCompletionLock(r)
    BY <1>0, <2>1, <2>4, LoudSteps DEF Steady, RequestRow
  <2> QED
    BY <1>2, <2>2, <2>3, <2>4
<1>3. ASSUME NEW status \in {"pending", "completed", "expired"}, StartCheckout(r, status)
      PROVE  /\ requests'[r].op = requests[r].op /\ requests'[r].id = requests[r].id
             /\ requests'[r].key = requests[r].key /\ requests[r].step \notin {"new", "done"}
             /\ requests'[r].step # "new"
  <2>1. requests'[r] = [requests[r] EXCEPT !.step = "put", !.outcome = status]
    BY <1>3, LoudSteps
  <2>2. requests[r].step = "start"
    BY <1>3 DEF StartCheckout, At
  <2> QED
    BY <1>0, <2>1, <2>2 DEF RequestRow
<1>4. CASE PutCompleted(r)
  BY <1>0, <1>4, CompletionSteps DEF Steady, RequestRow
<1>5. CASE BindKey(r) \/ ReleaseKey(r) \/ ReleaseLock(r) \/ Crash(r)
  <2>1. (Finish(r) \/ AfterKey(r)) /\ requests[r].step \notin {"new", "done"}
    BY <1>5 DEF BindKey, ReleaseKey, ReleaseLock, Crash, InFlight
  <2>2. CASE requests'[r] = [Ended(r) EXCEPT !.step = "unlock", !.lock = requests[r].lock]
    BY <2>1, <2>2 DEF Ended, New
  <2> QED
    BY <2>1, <2>2, EndedRow
<1> QED
  BY <1>1, <1>2, <1>3, <1>4, <1>5 DEF Handle, Quiet

----------------------------------------------------------------------------
(* Claims *)

\* A step of a request moves neither the clock nor what was purged.
LEMMA ClockKept ==
  ASSUME NEW r \in Requests, Handle(r) \/ Crash(r) \/ Throw(r)
  PROVE  /\ UNCHANGED <<now, late, purged>>
         /\ UNCHANGED made \/ PutCreated(r)
         /\ UNCHANGED faulted \/ Crash(r) \/ Throw(r)
<1>1. CASE Expire(r) \/ BeginIdempotency(r) \/ ClaimCompletionLock(r) \/ Rebuild(r)
  BY <1>1 DEF Expire, BeginIdempotency, ClaimCompletionLock, Rebuild, GetCart, RemoveLine,
     AddItem, AddRefused, RestoreCart, history
<1>2. CASE PutCreated(r) \/ CheckUpdate(r) \/ PutUpdated(r) \/ CheckComplete(r) \/ StartFails(r)
             \/ PutCompleted(r)
  BY <1>2 DEF PutCreated, CheckUpdate, PutUpdated, CheckComplete, StartFails, PutCompleted, history
<1>3. CASE \/ \E status \in {"pending", "completed", "expired"} : StartCheckout(r, status)
           \/ CheckCancel(r) \/ CancelCheckout(r) \/ PutCanceled(r)
  BY <1>3 DEF StartCheckout, CheckCancel, CancelCheckout, PutCanceled, history
<1>4. CASE BindKey(r) \/ ReleaseKey(r) \/ ReleaseLock(r) \/ Crash(r) \/ Throw(r)
  BY <1>4 DEF BindKey, ReleaseKey, ReleaseLock, Crash, Throw, history
<1> QED
  BY <1>1, <1>2, <1>3, <1>4 DEF Handle

\* The key of a request is not the lock of a session.
LEMMA DistinctKeys ==
  ASSUME Types, NEW q \in Requests, NEW r \in Requests
  PROVE  requests[q].op # "none" => ClaimKey(q) # LockKey(r)
<1>1. requests[q].op \in {"none", "create", "update", "complete", "cancel", "get"}
  BY RequestShapes DEF RequestRow
<1>2. CASE requests[q].op = "create"
  BY <1>2 DEF ClaimKey, LockKey
<1>3. CASE requests[q].op \notin {"none", "create"}
  <2>1. \A x, y, z, u : x # "lock" => <<x, y, z>> # <<"lock", u>>
    OBVIOUS
  <2> QED
    BY <1>1, <1>3, <2>1 DEF ClaimKey, LockKey
<1> QED
  BY <1>2, <1>3

\* A claim that is bound, or that has not lapsed, changes only at its owner's hand.
LEMMA ClaimsOfOthers ==
  ASSUME Types, Control, Agreement, NEW q \in Requests, Handle(q) \/ Crash(q) \/ Throw(q),
         NEW k \in ClaimKeys, claims[k].token \in Requests \ {q},
         claims[k].pending => claims[k].ends > now
  PROVE  claims'[k] = claims[k]
<1>1. claims[k] # Free
  BY AcpAssumption DEF AcpAssumption, Free
<1>2. \A i : ~Claimable(k, i)
  BY <1>1 DEF Claimable, Types, ClaimRow
<1>3. CASE UNCHANGED claims
  BY <1>3
<1>4. CASE BeginIdempotency(q) \/ ClaimCompletionLock(q)
  <2>1. \/ UNCHANGED claims
        \/ \E j, i : Claimable(j, i) /\ Claim(j, q)
    BY <1>4, LoudSteps
  <2>2. ASSUME NEW j, NEW i, Claimable(j, i), Claim(j, q)
        PROVE  claims'[k] = claims[k]
    <3>1. j # k
      BY <1>2, <2>2
    <3> QED
      BY <2>2, <3>1 DEF Claim, Types
  <2> QED
    BY <2>1, <2>2
<1>5. CASE BindKey(q)
  BY <1>5 DEF BindKey, Types
<1>6. CASE ReleaseKey(q) \/ ReleaseLock(q)
  BY <1>6 DEF ReleaseKey, ReleaseLock, FreeClaim, Types
<1>7. CASE Quiet(q) \/ PutCompleted(q)
  BY <1>3, <1>7, QuietSteps, CompletionSteps
<1>8. CASE \/ \E status \in {"pending", "completed", "expired"} : StartCheckout(q, status)
           \/ Expire(q) \/ Crash(q)
  BY <1>3, <1>8 DEF StartCheckout, Expire, Crash
<1> QED
  BY <1>4, <1>5, <1>6, <1>7, <1>8 DEF Handle, Quiet

OwnerOf(r) ==
  InFlight(r) /\ requests[r].id \notin purged
    => /\ requests[r].until > now => Owns(r, ClaimKey(r), requests[r].until)
       /\ requests[r].lock > now => Owns(r, LockKey(r), requests[r].lock)

\* Only a request in flight that has a deadline owns anything.
LEMMA DeadlineKeys ==
  ASSUME Types, Control, Timed, NEW r \in Requests
  PROVE  /\ requests[r].until > now => ClaimKey(r) \in ClaimKeys /\ requests[r].op # "none"
         /\ requests[r].lock > now => LockKey(r) \in ClaimKeys
<1>1. TimesOf(requests[r]) /\ ControlOf(requests[r]) /\ now > 0
  BY DEF Timed, Control, Types
<1>2. requests[r].until \in Nat /\ requests[r].lock \in Nat /\ now \in Nat
  BY RequestShapes DEF RequestRow, Types
<1>3. requests[r].until > now => requests[r].step \notin {"new", "expire", "claim", "done", "unlock"}
  BY <1>1, <1>2 DEF TimesOf
<1>4. requests[r].lock > now => requests[r].step \notin {"new", "expire", "claim", "done"}
  BY <1>1, <1>2 DEF TimesOf
<1> QED
  BY <1>1, <1>3, <1>4, KeysAreKeys DEF ControlOf

\* No other request takes, binds or frees a claim before its deadline.
LEMMA OwnersStep ==
  ASSUME Types, Control, Agreement, Timed, Owners, [Next]_vars, Types', Control', Timed'
  PROVE  Owners'
<1>1. ASSUME NEW r \in Requests, requests'[r] = requests[r], UNCHANGED <<now, purged>>,
             \A k \in ClaimKeys : claims[k].token = r /\ (claims[k].pending => claims[k].ends > now)
                                    => claims'[k] = claims[k]
      PROVE  OwnerOf(r)'
  <2>1. ClaimKey(r)' = ClaimKey(r) /\ LockKey(r)' = LockKey(r) /\ (InFlight(r)' => InFlight(r))
    BY <1>1 DEF ClaimKey, LockKey, InFlight
  <2>2. OwnerOf(r)
    BY DEF Owners, OwnerOf
  <2> QED
    BY <1>1, <2>1, <2>2, DeadlineKeys DEF OwnerOf, Owns
<1>2. ASSUME NEW q \in Requests, Handle(q) \/ Crash(q) \/ Throw(q)
      PROVE  Owners'
  <2>1. ASSUME NEW r \in Requests \ {q}
        PROVE  OwnerOf(r)'
    <3>1. requests'[r] = requests[r] /\ UNCHANGED <<now, purged>>
      BY <1>2, OneRequest, ClockKept
    <3> QED
      BY <1>1, <1>2, <3>1, ClaimsOfOthers
  <2>2. OwnerOf(q)'
    <3>1. /\ ClaimKey(q)' = ClaimKey(q) /\ LockKey(q)' = LockKey(q) /\ requests[q].op # "none"
          /\ requests'[q].id = requests[q].id
      BY <1>2, Asked DEF ClaimKey, LockKey, Control, ControlOf
    <3>2. OwnerOf(q) /\ UNCHANGED <<now, purged>> /\ InFlight(q)
      BY <1>2, Asked, ClockKept DEF Owners, OwnerOf, InFlight
    <3>3. CASE UNCHANGED claims /\ requests'[q].until = requests[q].until /\ requests'[q].lock = requests[q].lock
      BY <3>1, <3>2, <3>3 DEF OwnerOf, Owns
    <3>4. CASE requests'[q].step = "done"
      BY <3>4 DEF OwnerOf, InFlight
    <3>5. CASE BeginIdempotency(q)
      <4>1. CASE requests'[q] = Ended(q)
        BY <3>4, <4>1, EndedRow
      <4>2. CASE Claim(ClaimKey(q), q) /\ \E s \in {"cart", "lock", "check"} :
                   requests'[q] = [requests[q] EXCEPT !.until = now + ClaimTTL, !.step = s]
        <5>1. requests'[q].until = now + ClaimTTL /\ requests'[q].lock = requests[q].lock
          BY <4>2, RequestShapes DEF RequestRow
        <5>2. requests[q].lock = 0 /\ ClaimKey(q) \in ClaimKeys /\ now > 0
          BY <3>5, KeysAreKeys DEF BeginIdempotency, Timed, TimesOf, Types
        <5>3. claims'[ClaimKey(q)] = [id |-> requests[q].id, pending |-> TRUE, ends |-> now + ClaimTTL, token |-> q]
          BY <4>2, <5>2 DEF Claim, Types
        <5>4. Owns(q, ClaimKey(q), requests[q].until)'
          <6>1. /\ claims'[ClaimKey(q)'].token = q /\ claims'[ClaimKey(q)'].id = requests'[q].id
                /\ claims'[ClaimKey(q)'].ends = requests'[q].until
            BY <3>1, <5>1, <5>3
          <6> QED
            BY <6>1 DEF Owns
        <5>5. ~(requests[q].lock > now)'
          BY <3>2, <5>1, <5>2 DEF Types
        <5> QED
          BY <5>4, <5>5 DEF OwnerOf
      <4> QED
        BY <3>5, <4>1, <4>2, LoudSteps
    <3>6. CASE ClaimCompletionLock(q)
      <4>1. CASE UNCHANGED claims /\ Steady(q)
        BY <3>3, <4>1 DEF Steady
      <4>2. CASE /\ Claim(LockKey(q), q)
                 /\ requests'[q] = [requests[q] EXCEPT !.lock = now + ClaimTTL, !.step = "check"]
        <5>1. requests'[q].lock = now + ClaimTTL /\ requests'[q].until = requests[q].until
          BY <4>2, RequestShapes DEF RequestRow
        <5>2. LockKey(q) \in ClaimKeys /\ ClaimKey(q) \in ClaimKeys /\ ClaimKey(q) # LockKey(q)
          BY <3>1, <3>6, KeysAreKeys, DistinctKeys DEF ClaimCompletionLock
        <5>3. claims'[LockKey(q)] = [id |-> requests[q].id, pending |-> TRUE, ends |-> now + ClaimTTL, token |-> q]
          BY <4>2, <5>2 DEF Claim, Types
        <5>4. claims'[ClaimKey(q)] = claims[ClaimKey(q)]
          BY <4>2, <5>2 DEF Claim, Types
        <5> QED
          BY <3>1, <3>2, <5>1, <5>3, <5>4 DEF OwnerOf, Owns
      <4> QED
        BY <3>6, <4>1, <4>2, LoudSteps
    <3>7. CASE BindKey(q) \/ ReleaseKey(q)
      <4>1. CASE /\ requests[q].lock > 0
                 /\ requests'[q] = [Ended(q) EXCEPT !.step = "unlock", !.lock = requests[q].lock]
        <5>1. requests'[q].until = 0 /\ requests'[q].lock = requests[q].lock
          BY <4>1 DEF Ended, New
        <5>2. LockKey(q) \in ClaimKeys /\ ClaimKey(q) \in ClaimKeys /\ ClaimKey(q) # LockKey(q)
          BY <3>1, <3>7, KeysAreKeys, DistinctKeys DEF BindKey, ReleaseKey
        <5>3. claims'[LockKey(q)] = claims[LockKey(q)]
          BY <3>7, <5>2 DEF BindKey, ReleaseKey, FreeClaim, Types
        <5> QED
          BY <3>1, <3>2, <5>1, <5>3 DEF OwnerOf, Owns, Types
      <4> QED
        BY <3>4, <3>7, <4>1, EndedRow DEF BindKey, ReleaseKey
    <3>8. CASE ReleaseLock(q) \/ Crash(q)
      BY <3>4, <3>8, EndedRow DEF ReleaseLock, Crash
    <3>9. CASE Quiet(q)
      BY <3>3, <3>9, QuietSteps DEF Steady
    <3>10. CASE PutCompleted(q)
      <4>1. requests'[q].until = requests[q].until /\ requests'[q].lock = requests[q].lock
        <5>1. CASE Steady(q)
          BY <5>1 DEF Steady
        <5>2. CASE requests'[q] = [requests[q] EXCEPT !.seen.version = store[requests[q].id].version,
                                                       !.tries = requests[q].tries + 1]
          BY <5>2, RequestShapes DEF RequestRow
        <5> QED
          BY <3>10, <5>1, <5>2, CompletionSteps
      <4> QED
        BY <3>3, <3>10, <4>1, CompletionSteps
    <3>11. ASSUME NEW status \in {"pending", "completed", "expired"}, StartCheckout(q, status)
           PROVE  OwnerOf(q)'
      <4>1. requests'[q].until = requests[q].until /\ requests'[q].lock = requests[q].lock
        <5>1. requests'[q] = [requests[q] EXCEPT !.step = "put", !.outcome = status]
          BY <3>11, LoudSteps
        <5> QED
          BY <5>1, RequestShapes DEF RequestRow
      <4> QED
        BY <3>3, <3>11, <4>1 DEF StartCheckout
    <3>12. CASE Expire(q)
      <4>1. CASE requests'[q] = [requests[q] EXCEPT !.seen = store'[requests[q].id], !.step = "claim"]
        <5>1. requests'[q].until = requests[q].until /\ requests'[q].lock = requests[q].lock
          BY <4>1, RequestShapes DEF RequestRow
        <5> QED
          BY <3>3, <3>12, <5>1 DEF Expire
      <4> QED
        BY <3>4, <3>12, <4>1, LoudSteps
    <3> QED
      BY <1>2, <3>5, <3>6, <3>7, <3>8, <3>9, <3>10, <3>11, <3>12 DEF Handle, Quiet
  <2> QED
    BY <2>1, <2>2 DEF Owners, OwnerOf
<1>3. ASSUME NEW r \in Requests, NEW op \in Ops, NEW i \in Ids, NEW k \in Keys, NEW b \in Buyers,
             NEW want \in Wants(op), Arrive(r, op, i, k, want, b)
      PROVE  Owners'
  <2>1. /\ requests'[r].until = 0 /\ requests'[r].lock = 0 /\ UNCHANGED <<claims, now, purged>>
        /\ \A q \in Requests \ {r} : requests'[q] = requests[q]
    BY <1>3 DEF Arrive, Types, New, history
  <2>2. OwnerOf(r)'
    BY <2>1 DEF OwnerOf, Types
  <2> QED
    BY <1>1, <2>1, <2>2 DEF Owners, OwnerOf
<1>4. CASE CleanupExpired
  <2>1. ASSUME NEW r \in Requests
        PROVE  OwnerOf(r)'
    <3>1. ClaimKey(r)' = ClaimKey(r) /\ LockKey(r)' = LockKey(r) /\ (InFlight(r)' = InFlight(r))
      BY <1>4 DEF ClaimKey, LockKey, InFlight, CleanupExpired
    <3>2. OwnerOf(r) /\ requests'[r] = requests[r] /\ now' = now
      BY <1>4 DEF Owners, OwnerOf, CleanupExpired
    <3>3. requests[r].id \notin purged' =>
            /\ requests[r].id \notin purged
            /\ \A k \in ClaimKeys : claims[k].id = requests[r].id => claims'[k] = claims[k]
      BY <1>4 DEF CleanupExpired
    <3> QED
      BY <3>1, <3>2, <3>3, DeadlineKeys DEF OwnerOf, Owns
  <2> QED
    BY <2>1 DEF Owners, OwnerOf
<1>5. CASE Tick
  <2>1. ASSUME NEW r \in Requests
        PROVE  OwnerOf(r)'
    <3>1. ClaimKey(r)' = ClaimKey(r) /\ LockKey(r)' = LockKey(r) /\ (InFlight(r)' = InFlight(r))
      BY <1>5 DEF ClaimKey, LockKey, InFlight, Tick
    <3>2. OwnerOf(r) /\ requests'[r] = requests[r] /\ now' = now + 1 /\ UNCHANGED <<claims, purged>>
      BY <1>5 DEF Owners, OwnerOf, Tick
    <3>3. requests[r] \in RequestRow
      BY RequestShapes
    <3>4. /\ requests[r].until > now' => requests[r].until > now
          /\ requests[r].lock > now' => requests[r].lock > now
      BY <3>2, <3>3 DEF RequestRow, Types
    <3> QED
      BY <3>1, <3>2, <3>4 DEF OwnerOf, Owns
  <2> QED
    BY <2>1 DEF Owners, OwnerOf
<1>6. CASE \/ \E c \in Requests, status \in {"completed", "expired"} : PaymentSettles(c, status)
           \/ UNCHANGED vars
  <2>1. UNCHANGED <<requests, claims, now, purged>>
    BY <1>6 DEF PaymentSettles, vars, history
  <2> QED
    BY <1>1, <2>1 DEF Owners, OwnerOf
<1> QED
  BY <1>2, <1>3, <1>4, <1>5, <1>6 DEF Next

\* A create that is late is known to be.
LEMMA PunctualStep ==
  ASSUME Types, Control, Agreement, Timed, Punctual, [Next]_vars
  PROVE  Punctual'
<1> DEFINE PunctualOf(r) ==
      r \notin late /\ requests[r].op = "create" /\ InFlight(r) /\ requests[r].until > 0
        => requests[r].until > now
<1>1. ASSUME NEW r \in Requests, requests'[r] = requests[r], UNCHANGED <<now, late>>
      PROVE  PunctualOf(r)'
  BY <1>1 DEF Punctual, InFlight
<1>2. ASSUME NEW q \in Requests, Handle(q) \/ Crash(q) \/ Throw(q)
      PROVE  \A r \in Requests : PunctualOf(r)'
  <2>1. UNCHANGED <<now, late>> /\ InFlight(q) /\ requests'[q].op = requests[q].op
    BY <1>2, ClockKept, Asked DEF InFlight
  <2>2. \/ requests'[q].until \in {0, requests[q].until}
        \/ requests'[q].until = now + ClaimTTL
    <3>1. requests[q] \in RequestRow
      BY RequestShapes
    <3>2. CASE Quiet(q)
      BY <3>2, QuietSteps DEF Steady
    <3>3. CASE Expire(q)
      BY <3>1, <3>3, LoudSteps DEF RequestRow
    <3>4. CASE BeginIdempotency(q)
      <4>1. CASE requests'[q] = Ended(q)
        BY <4>1, EndedRow
      <4>2. ASSUME NEW s, requests'[q] = [requests[q] EXCEPT !.until = now + ClaimTTL, !.step = s]
            PROVE  requests'[q].until = now + ClaimTTL
        BY <3>1, <4>2 DEF RequestRow
      <4> QED
        BY <3>4, <4>1, <4>2, LoudSteps
    <3>5. CASE ClaimCompletionLock(q)
      <4>1. CASE requests'[q] = [requests[q] EXCEPT !.lock = now + ClaimTTL, !.step = "check"]
        BY <3>1, <4>1 DEF RequestRow
      <4> QED
        BY <3>5, <4>1, LoudSteps DEF Steady
    <3>6. ASSUME NEW status \in {"pending", "completed", "expired"}, StartCheckout(q, status)
          PROVE  requests'[q].until = requests[q].until
      <4>1. requests'[q] = [requests[q] EXCEPT !.step = "put", !.outcome = status]
        BY <3>6, LoudSteps
      <4> QED
        BY <3>1, <4>1 DEF RequestRow
    <3>7. CASE PutCompleted(q)
      <4>1. CASE Steady(q)
        BY <4>1 DEF Steady
      <4>2. CASE requests'[q] = [requests[q] EXCEPT !.seen.version = store[requests[q].id].version,
                                                     !.tries = requests[q].tries + 1]
        BY <3>1, <4>2 DEF RequestRow
      <4> QED
        BY <3>7, <4>1, <4>2, CompletionSteps
    <3>8. CASE BindKey(q) \/ ReleaseKey(q) \/ ReleaseLock(q) \/ Crash(q)
      <4>1. Finish(q) \/ AfterKey(q)
        BY <3>8 DEF BindKey, ReleaseKey, ReleaseLock, Crash
      <4>2. CASE requests'[q] = [Ended(q) EXCEPT !.step = "unlock", !.lock = requests[q].lock]
        BY <4>2 DEF Ended, New
      <4> QED
        BY <4>1, <4>2, EndedRow
    <3> QED
      BY <1>2, <3>2, <3>3, <3>4, <3>5, <3>6, <3>7, <3>8 DEF Handle, Quiet
  <2>3. PunctualOf(q)'
    <3>1. ClaimTTL > 0 /\ now \in Nat /\ ClaimTTL \in Nat /\ requests[q].until \in Nat
      BY Lifetimes, RequestShapes DEF Types, RequestRow
    <3>2. PunctualOf(q)
      BY DEF Punctual
    <3> QED
      BY <2>1, <2>2, <3>1, <3>2
  <2> QED
    BY <1>1, <1>2, <2>1, <2>3, OneRequest
<1>3. ASSUME NEW r \in Requests, NEW op \in Ops, NEW i \in Ids, NEW k \in Keys, NEW b \in Buyers,
             NEW want \in Wants(op), Arrive(r, op, i, k, want, b)
      PROVE  \A q \in Requests : PunctualOf(q)'
  <2>1. /\ requests'[r].until = 0 /\ UNCHANGED <<now, late>>
        /\ \A q \in Requests \ {r} : requests'[q] = requests[q]
    BY <1>3 DEF Arrive, Types, New, history
  <2> QED
    BY <1>1, <2>1
<1>4. ASSUME Tick
      PROVE  \A q \in Requests : PunctualOf(q)'
  <2>1. ASSUME NEW r \in Requests
        PROVE  PunctualOf(r)'
    <3>1. requests[r].until \in Nat /\ now \in Nat
      BY RequestShapes DEF RequestRow, Types
    <3> QED
      BY <1>4, <3>1 DEF Tick, Outlives, InFlight
  <2> QED
    BY <2>1
<1>5. ASSUME \/ \E c \in Requests, status \in {"completed", "expired"} : PaymentSettles(c, status)
             \/ CleanupExpired \/ UNCHANGED vars
      PROVE  \A q \in Requests : PunctualOf(q)'
  <2>1. UNCHANGED <<requests, now, late>>
    BY <1>5 DEF PaymentSettles, CleanupExpired, vars, history
  <2> QED
    BY <1>1, <2>1
<1>6. \A r \in Requests : PunctualOf(r)'
  BY <1>2, <1>3, <1>4, <1>5 DEF Next
<1> QED
  BY <1>6 DEF Punctual

\* The create that stored a session still owns its key when it binds it.
LEMMA MakersStep ==
  ASSUME Types, Control, Agreement, Timed, Owners, Punctual, Makers, [Next]_vars, Types'
  PROVE  Makers'
<1> DEFINE MakerOf(i) ==
      made[i] # Nobody =>
        /\ requests[made[i]].op = "create" /\ requests[made[i]].id = i
        /\ made[i] \notin late \cup faulted /\ i \notin purged =>
             \/ requests[made[i]].step = "bind"
             \/ /\ requests[made[i]].step = "done"
                /\ claims[ClaimKey(made[i])].token = made[i] /\ claims[ClaimKey(made[i])].id = i
                /\ ~claims[ClaimKey(made[i])].pending
<1>1. \A i \in Ids : MakerOf(i)
  BY DEF Makers
<1>2. /\ \A i \in Ids : made[i] \in Requests \cup {Nobody}
      /\ \A r \in Requests : requests[r].op = "create" /\ requests[r].step \notin {"new", "expire"}
           => ClaimKey(r) \in ClaimKeys
  <2>1. ASSUME NEW r \in Requests, requests[r].op = "create", requests[r].step \notin {"new", "expire"}
        PROVE  ClaimKey(r) \in ClaimKeys
    BY <2>1 DEF Control, ControlOf, ClaimKey, ClaimKeys
  <2> QED
    BY <2>1 DEF Types
<1>3. ASSUME NEW i \in Ids, made'[i] = made[i], made[i] # Nobody, requests'[made[i]] = requests[made[i]],
             late \subseteq late', faulted \subseteq faulted', purged \subseteq purged',
             \A k \in ClaimKeys : /\ claims[k].token = made[i] /\ ~claims[k].pending /\ claims[k].id = i
                                  /\ i \notin purged'
                                  => claims'[k] = claims[k]
      PROVE  MakerOf(i)'
  <2>1. ClaimKey(made[i])' = ClaimKey(made[i])
    BY <1>3 DEF ClaimKey
  <2> QED
    BY <1>1, <1>2, <1>3, <2>1
<1>4. ASSUME NEW i \in Ids, made'[i] = Nobody
      PROVE  MakerOf(i)'
  BY <1>4
<1>5. ASSUME NEW q \in Requests, Handle(q) \/ Crash(q) \/ Throw(q), NEW i \in Ids
      PROVE  MakerOf(i)'
  <2>1. /\ UNCHANGED <<late, purged>> /\ faulted \subseteq faulted'
    BY <1>5, ClockKept DEF Crash, Throw
  <2>2. CASE made'[i] = made[i] /\ made[i] \in Requests \ {q}
    BY <1>3, <1>5, <2>1, <2>2, OneRequest, ClaimsOfOthers DEF Types
  <2>3. CASE PutCreated(q) /\ made'[i] # made[i]
    <3>1. i = requests[q].id /\ made'[i] = q /\ requests[q].op = "create"
      BY <2>3 DEF PutCreated, At, Types
    <3>2. requests'[q].step = "bind" /\ requests'[q].op = "create" /\ requests'[q].id = i
      BY <1>5, <2>3, <3>1, Asked, GoSteady DEF PutCreated
    <3> QED
      BY <3>1, <3>2
  <2>4. CASE made'[i] = made[i] /\ made[i] = q
    <3>1. requests[q].op = "create" /\ requests'[q].op = "create" /\ requests[q].id = i /\ requests'[q].id = i
      <4>1. MakerOf(i) /\ made[i] # Nobody
        BY <1>1, <2>4, AcpAssumption DEF AcpAssumption
      <4> QED
        BY <1>5, <2>4, <4>1, Asked
    <3>2. CASE q \in late \cup faulted' \/ i \in purged
      BY <2>1, <2>4, <3>1, <3>2
    <3>3. CASE q \notin late \cup faulted' /\ i \notin purged
      <4>1. requests[q].step = "bind" /\ ~Crash(q) /\ ~Throw(q)
        <5>1. MakerOf(i) /\ made[i] # Nobody
          BY <1>1, <2>4, AcpAssumption DEF AcpAssumption
        <5>2. q \notin faulted /\ requests[q].step # "done"
          BY <1>5, <2>1, <3>3, Asked
        <5>3. q \notin faulted'
          BY <3>3
        <5> QED
          BY <2>4, <3>3, <5>1, <5>2, <5>3 DEF Crash, Throw
      <4>2. BindKey(q)
        <5>1. ~Quiet(q) \/ Throw(q)
          BY <4>1, QuietSteps DEF Quiet, Rebuild, GetCart, RemoveLine, AddItem, AddRefused,
             RestoreCart, PutCreated, CheckUpdate, PutUpdated, CheckComplete, StartFails, CheckCancel,
             CancelCheckout, PutCanceled, At
        <5>2. /\ ~Expire(q) /\ ~BeginIdempotency(q) /\ ~ClaimCompletionLock(q) /\ ~PutCompleted(q)
              /\ ~ReleaseKey(q) /\ ~ReleaseLock(q)
          BY <4>1 DEF Expire, BeginIdempotency, ClaimCompletionLock, PutCompleted, ReleaseKey,
             ReleaseLock, At
        <5>3. \A status : ~StartCheckout(q, status)
          BY <4>1 DEF StartCheckout, At
        <5> QED
          BY <1>5, <4>1, <5>1, <5>2, <5>3 DEF Handle, Quiet
      <4>3. /\ requests[q].until > now /\ requests[q].lock = 0 /\ ClaimKey(q) \in ClaimKeys
        <5>1. requests[q].until > 0 /\ requests[q].until > now
          BY <3>1, <3>3, <4>1 DEF Timed, TimesOf, Punctual, InFlight
        <5>2. requests[q].lock = 0
          BY <3>1, RequestShapes DEF Control, ControlOf, RequestRow
        <5> QED
          BY <1>2, <3>1, <4>1, <5>1, <5>2
      <4>4. Owns(q, ClaimKey(q), requests[q].until)
        BY <3>1, <3>3, <4>1, <4>3 DEF Owners, InFlight
      <4>5. requests'[q].step = "done" /\ ClaimKey(q)' = ClaimKey(q)
        <5>1. Finish(q)
          BY <4>2, <4>3 DEF BindKey, AfterKey
        <5> QED
          BY <1>5, <5>1, Asked, EndedRow DEF ClaimKey
      <4>6. claims'[ClaimKey(q)] = [claims[ClaimKey(q)] EXCEPT !.pending = FALSE, !.ends = 0]
        BY <4>2, <4>3, <4>4 DEF BindKey, Owns, Types
      <4>7. /\ claims'[ClaimKey(q)].token = q /\ claims'[ClaimKey(q)].id = i
            /\ ~claims'[ClaimKey(q)].pending
        <5>1. claims[ClaimKey(q)] \in ClaimRow
          BY <4>3 DEF Types
        <5> QED
          BY <3>1, <4>4, <4>6, <5>1 DEF Owns, ClaimRow
      <4> QED
        BY <2>4, <3>1, <4>5, <4>7
    <3> QED
      BY <2>1, <3>2, <3>3
  <2>5. made'[i] = made[i] \/ PutCreated(q)
    BY <1>5, ClockKept
  <2> QED
    BY <1>2, <1>4, <2>2, <2>3, <2>4, <2>5
<1>6. ASSUME NEW r \in Requests, NEW op \in Ops, NEW i \in Ids, NEW k \in Keys, NEW b \in Buyers,
             NEW want \in Wants(op), Arrive(r, op, i, k, want, b), NEW j \in Ids
      PROVE  MakerOf(j)'
  <2>0. UNCHANGED <<claims, made, late, faulted, purged>> /\ requests[r].op = "none"
    BY <1>6 DEF Arrive, New, history
  <2>1. \A q \in Requests \ {r} : requests'[q] = requests[q]
    BY <1>6 DEF Arrive, Types
  <2>2. made[j] # r
    BY <1>1, <2>0, AcpAssumption DEF AcpAssumption
  <2> QED
    BY <1>2, <1>3, <1>4, <2>0, <2>1, <2>2
<1>7. ASSUME \/ \E c \in Requests, status \in {"completed", "expired"} : PaymentSettles(c, status)
             \/ CleanupExpired \/ Tick \/ UNCHANGED vars, NEW i \in Ids
      PROVE  MakerOf(i)'
  <2>1. /\ UNCHANGED <<requests, made>> /\ late \subseteq late' /\ UNCHANGED faulted
        /\ purged \subseteq purged'
    BY <1>7 DEF PaymentSettles, CleanupExpired, Tick, vars, history
  <2>2. \A k \in ClaimKeys : claims[k].id = i /\ i \notin purged' => claims'[k] = claims[k]
    BY <1>7 DEF PaymentSettles, CleanupExpired, Tick, vars
  <2> QED
    BY <1>2, <1>3, <1>4, <2>1, <2>2
<1>8. \A i \in Ids : MakerOf(i)'
  BY <1>5, <1>6, <1>7 DEF Next
<1> QED
  BY <1>8 DEF Makers

\* Owners is the fencing property, with the deadlines that make it inductive.
LEMMA OwnersFenced ==
  ASSUME Owners
  PROVE  Fenced
BY DEF Owners, Owns, Fenced

\* One key is bound by one create, so two sessions had two keys.
LEMMA MakersOneSession ==
  ASSUME Types, Control, Timed, Owners, Punctual, Makers
  PROVE  OneSessionPerKey
<1> SUFFICES ASSUME NEW i \in Ids, NEW j \in Ids, i # j, made[i] # Nobody, made[j] # Nobody,
                    requests[made[i]].key = requests[made[j]].key,
                    {made[i], made[j]} \cap (late \cup faulted) = {}, {i, j} \cap purged = {}
             PROVE  FALSE
  BY DEF OneSessionPerKey
<1>1. made[i] \in Requests /\ made[j] \in Requests
  BY DEF Types
<1>2. ClaimKey(made[i]) = ClaimKey(made[j])
  BY DEF Makers, ClaimKey
<1>3. ASSUME NEW n \in {i, j}
      PROVE  claims[ClaimKey(made[n])].token = made[n] /\ requests[made[n]].id = n
  <2>1. /\ requests[made[n]].op = "create" /\ requests[made[n]].id = n
        /\ \/ requests[made[n]].step = "bind"
           \/ claims[ClaimKey(made[n])].token = made[n]
    BY DEF Makers
  <2>2. CASE requests[made[n]].step = "bind"
    <3>1. requests[made[n]].until > now
      BY <1>1, <2>1, <2>2 DEF Timed, TimesOf, Punctual, InFlight
    <3> QED
      BY <1>1, <2>1, <2>2, <3>1 DEF Owners, Owns, InFlight
  <2> QED
    BY <2>1, <2>2
<1> QED
  BY <1>2, <1>3

----------------------------------------------------------------------------
(* What a request knows of the record it read *)

\* A request that is over remembers no record.
LEMMA EndRow ==
  ASSUME Types, NEW r \in Requests, Finish(r) \/ AfterKey(r)
  PROVE  /\ requests'[r].step \in {"unlock", "done"} /\ requests'[r].tries = 0
         /\ requests'[r].outcome = requests[r].outcome
<1>1. CASE requests'[r] = Ended(r)
  BY <1>1 DEF Ended, New
<1>2. CASE requests'[r] = [Ended(r) EXCEPT !.step = "unlock", !.lock = requests[r].lock]
  BY <1>2 DEF Ended, New
<1> QED
  BY <1>1, <1>2, EndedRow

\* Where a request goes on to, and what it has found out by then.
LEMMA Routes ==
  ASSUME Types, Control, Agreement, NEW r \in Requests, Quiet(r)
  PROVE  \/ requests'[r].step \in {"bind", "release"}
         \/ /\ requests[r].op \in {"create", "update"} /\ requests[r].step \in {"cart", "remove", "add"}
            /\ requests'[r].step \in {"remove", "add", "restore", "put"}
         \/ /\ requests[r].op = "update" /\ TerminalStatus(requests[r].seen) = "none"
            /\ requests'[r].step \in {"put", "cart"}
         \/ /\ requests[r].op = "complete" /\ requests[r].step = "check"
            /\ TerminalStatus(requests[r].seen) \notin Terminal /\ requests[r].seen.checkout = Nobody
            /\ requests'[r].step = "start"
         \/ /\ requests[r].op = "cancel" /\ TerminalStatus(requests[r].seen) = "none"
            /\ requests'[r].step \in {"put", "stop"}
         \/ requests[r].op = "cancel" /\ requests[r].step = "stop" /\ requests'[r].step = "put"
<1>1. requests[r] \in RequestRow /\ ControlOf(requests[r])
  BY RequestShapes DEF Control
<1>2. CASE Rebuild(r)
  <2>1. requests[r].step \in {"cart", "remove", "add", "restore"} /\ requests[r].op \in {"create", "update"}
    BY <1>1, <1>2 DEF Rebuild, GetCart, RemoveLine, AddItem, AddRefused, RestoreCart, ControlOf
  <2>2. \A s \in {"remove", "add"} : \A todo : Rebuilding(r, s, todo).step \in {"remove", "add", "put"}
    BY <1>1 DEF Rebuilding, RequestRow
  <2>3. CASE GetCart(r)
    <3>1. PICK todo, items :
            requests' = [requests EXCEPT ![r] = [Rebuilding(r, "remove", todo) EXCEPT !.original = items]]
      BY <2>3 DEF GetCart
    <3>2. [Rebuilding(r, "remove", todo) EXCEPT !.original = items].step \in {"remove", "add", "put"}
      BY <1>1 DEF Rebuilding, RequestRow
    <3>3. requests'[r] = [Rebuilding(r, "remove", todo) EXCEPT !.original = items]
      BY <3>1 DEF Types
    <3> QED
      BY <2>1, <2>3, <3>2, <3>3 DEF GetCart
  <2>4. CASE \E s \in {"remove", "add"} : \E todo :
               /\ requests' = [requests EXCEPT ![r] = Rebuilding(r, s, todo)]
               /\ requests[r].step # "restore"
    BY <2>1, <2>2, <2>4 DEF Types
  <2>5. CASE Go(r, "restore") /\ requests[r].step # "restore"
    BY <2>1, <2>5, GoSteady
  <2>6. CASE Go(r, "release")
    BY <2>6, GoSteady
  <2> QED
    BY <1>2, <2>3, <2>4, <2>5, <2>6 DEF Rebuild, RemoveLine, AddItem, AddRefused, RestoreCart
<1>3. CASE PutCreated(r) \/ PutUpdated(r) \/ StartFails(r) \/ PutCanceled(r) \/ Throw(r)
  <2>1. Go(r, "bind") \/ Go(r, "release")
    BY <1>3 DEF PutCreated, PutUpdated, StartFails, PutCanceled, Throw
  <2> QED
    BY <2>1, GoSteady
<1>4. CASE CheckUpdate(r)
  <2>1. /\ requests[r].op = "update"
        /\ \/ Go(r, "release")
           \/ TerminalStatus(requests[r].seen) = "none" /\ (Go(r, "put") \/ Go(r, "cart"))
    BY <1>4 DEF CheckUpdate, At
  <2> QED
    BY <2>1, GoSteady
<1>5. CASE CheckComplete(r)
  <2>1. CASE Go(r, "bind") \/ Go(r, "release")
    BY <2>1, GoSteady
  <2>2. CASE /\ TerminalStatus(requests[r].seen) \notin Terminal /\ requests[r].seen.checkout = Nobody
             /\ requests' = [requests EXCEPT ![r].step = "start", ![r].want = carts[requests[r].id].items]
    <3>1. requests'[r] = [requests[r] EXCEPT !.step = "start", !.want = carts[requests[r].id].items]
      BY <2>2 DEF Types
    <3>2. requests'[r].step = "start"
      BY <1>1, <3>1 DEF RequestRow
    <3> QED
      BY <1>5, <2>2, <3>2 DEF CheckComplete, At
  <2> QED
    BY <1>5, <2>1, <2>2 DEF CheckComplete, Terminal
<1>6. CASE CheckCancel(r)
  <2>1. TerminalStatus(requests[r].seen) \in {"completed", "canceled", "none"}
    <3>1. requests[r].seen \in Record /\ Agrees(requests[r].seen, payments)
      BY <1>1 DEF RequestRow, Agreement
    <3> QED
      BY <3>1 DEF TerminalStatus, Terminal, Agrees, Record, Types, PaymentRow, Unpaid
  <2>2. /\ requests[r].op = "cancel"
        /\ \/ Go(r, "release") \/ Go(r, "bind")
           \/ TerminalStatus(requests[r].seen) = "none" /\ (Go(r, "put") \/ Go(r, "stop"))
    BY <1>6, <2>1 DEF CheckCancel, At
  <2> QED
    BY <2>2, GoSteady
<1>7. CASE CancelCheckout(r)
  BY <1>7, GoSteady DEF CancelCheckout, At
<1> QED
  BY <1>2, <1>3, <1>4, <1>5, <1>6, <1>7 DEF Quiet

\* A record is not terminal by its status alone.
LEMMA NotTerminal ==
  ASSUME NEW record, TerminalStatus(record) \notin Terminal
  PROVE  record.status \notin Terminal
BY DEF TerminalStatus

\* A request writes only after the record it read let it.
LEMMA ReadStep ==
  ASSUME Types, Control, Agreement, Read, [Next]_vars
  PROVE  Read'
<1>1. ASSUME NEW r \in Requests, NEW op \in Ops, NEW i \in Ids, NEW k \in Keys, NEW b \in Buyers,
             NEW want \in Wants(op), Arrive(r, op, i, k, want, b)
      PROVE  Read'
  <2>1. /\ requests'[r].step \in {"expire", "claim"} /\ requests'[r].tries = 0
        /\ requests'[r].outcome = "none" /\ requests'[r].op = op
        /\ requests'[r].step = "expire" => op # "create" /\ IsExpired(store[i], now)
        /\ op # "create" => requests'[r].seen = store[i] /\ ~store[i].expired
    BY <1>1 DEF Arrive, Types, New
  <2>2. \A q \in Requests \ {r} : requests'[q] = requests[q]
    BY <1>1 DEF Arrive, Types
  <2>3. ReadOf(requests'[r])
    BY <2>1 DEF ReadOf, IsExpired
  <2> QED
    BY <2>2, <2>3 DEF Read
<1>2. ASSUME NEW r \in Requests, Handle(r) \/ Crash(r) \/ Throw(r)
      PROVE  Read'
  <2>1. ReadOf(requests[r]) /\ requests[r] \in RequestRow /\ requests'[r].op = requests[r].op
    BY <1>2, RequestShapes, Asked DEF Read
  <2>2. ReadOf(requests'[r])
    <3>1. CASE Quiet(r)
      <4>1. /\ requests'[r].op = requests[r].op /\ requests'[r].seen = requests[r].seen
            /\ requests'[r].tries = requests[r].tries /\ requests'[r].outcome = requests[r].outcome
        BY <3>1, QuietSteps DEF Steady
      <4>2. TerminalStatus(requests[r].seen) = "none" => requests[r].seen.status \notin Terminal
        BY NotTerminal DEF Terminal
      <4> QED
        BY <2>1, <3>1, <4>1, <4>2, NotTerminal, Routes DEF ReadOf
    <3>2. CASE Expire(r)
      <4>1. CASE /\ requests'[r] = [requests[r] EXCEPT !.seen = store'[requests[r].id], !.step = "claim"]
                 /\ ~IsExpired(store'[requests[r].id], now)
        <5>1. /\ requests'[r].step = "claim" /\ requests'[r].seen = store'[requests[r].id]
              /\ requests'[r].tries = requests[r].tries /\ requests'[r].outcome = requests[r].outcome
          BY <2>1, <4>1 DEF RequestRow
        <5>2. requests[r].step = "expire"
          BY <3>2 DEF Expire
        <5> QED
          BY <2>1, <4>1, <5>1, <5>2 DEF ReadOf, IsExpired
      <4>2. CASE Finish(r)
        BY <2>1, <4>2, EndRow DEF ReadOf
      <4>3. Finish(r) \/ requests'[r].step = "claim"
        <5>1. \/ Finish(r)
              \/ \E record : requests' = [requests EXCEPT ![r].seen = record, ![r].step = "claim"]
          BY <3>2 DEF Expire
        <5>2. ASSUME NEW record, requests' = [requests EXCEPT ![r].seen = record, ![r].step = "claim"]
              PROVE  requests'[r].step = "claim"
          BY <2>1, <5>2 DEF Types, RequestRow
        <5> QED
          BY <5>1, <5>2
      <4> QED
        BY <3>2, <4>1, <4>2, <4>3, LoudSteps
    <3>3. CASE BeginIdempotency(r)
      <4>1. CASE Finish(r)
        BY <2>1, <4>1, EndRow DEF ReadOf
      <4>2. ASSUME NEW s \in {"cart", "lock", "check"},
                   requests'[r] = [requests[r] EXCEPT !.until = now + ClaimTTL, !.step = s],
                   s = "cart" <=> requests[r].op = "create"
            PROVE  ReadOf(requests'[r])
        <5>1. /\ requests'[r].step = s /\ requests'[r].seen = requests[r].seen
              /\ requests'[r].tries = requests[r].tries /\ requests'[r].outcome = requests[r].outcome
          BY <2>1, <4>2 DEF RequestRow
        <5>2. requests[r].step = "claim"
          BY <3>3 DEF BeginIdempotency
        <5> QED
          BY <2>1, <4>2, <5>1, <5>2 DEF ReadOf
      <4>3. requests'[r] = Ended(r) => ReadOf(requests'[r])
        BY <2>1 DEF ReadOf, Ended, New
      <4> QED
        BY <3>3, <4>2, <4>3, LoudSteps
    <3>4. CASE ClaimCompletionLock(r)
      <4>1. requests[r].step = "lock"
        BY <3>4 DEF ClaimCompletionLock
      <4>2. CASE Steady(r) /\ requests'[r].step = "release"
        BY <2>1, <4>1, <4>2 DEF ReadOf, Steady
      <4>3. CASE requests'[r] = [requests[r] EXCEPT !.lock = now + ClaimTTL, !.step = "check"]
        <5>1. /\ requests'[r].step = "check" /\ requests'[r].seen = requests[r].seen
              /\ requests'[r].tries = requests[r].tries /\ requests'[r].outcome = requests[r].outcome
          BY <2>1, <4>3 DEF RequestRow
        <5> QED
          BY <2>1, <4>1, <5>1 DEF ReadOf
      <4> QED
        BY <3>4, <4>2, <4>3, LoudSteps
    <3>5. ASSUME NEW status \in {"pending", "completed", "expired"}, StartCheckout(r, status)
          PROVE  ReadOf(requests'[r])
      <4>1. requests'[r] = [requests[r] EXCEPT !.step = "put", !.outcome = status]
        BY <3>5, LoudSteps
      <4>2. requests[r].step = "start" /\ requests[r].op = "complete"
        BY <3>5 DEF StartCheckout, At
      <4>3. /\ requests'[r].step = "put" /\ requests'[r].seen = requests[r].seen
            /\ requests'[r].tries = requests[r].tries
        BY <2>1, <4>1 DEF RequestRow
      <4> QED
        BY <2>1, <4>2, <4>3 DEF ReadOf
    <3>6. CASE PutCompleted(r)
      <4>1. requests[r].step = "put" /\ requests[r].op = "complete"
        BY <3>6, CompletionSteps
      <4>2. CASE Steady(r) /\ requests'[r].step \in {"bind", "release"}
        BY <2>1, <4>1, <4>2 DEF ReadOf
      <4>3. CASE requests'[r] = [requests[r] EXCEPT !.seen.version = store[requests[r].id].version,
                                                     !.tries = requests[r].tries + 1]
        <5>1. requests[r].seen \in Record
          BY <2>1 DEF RequestRow
        <5>2. /\ requests'[r].step = "put" /\ requests'[r].seen.status = requests[r].seen.status
              /\ requests'[r].seen.expired = requests[r].seen.expired
              /\ requests'[r].seen.checkout = requests[r].seen.checkout
          BY <2>1, <4>1, <4>3, <5>1 DEF RequestRow, Record
        <5> QED
          BY <2>1, <4>1, <5>2 DEF ReadOf
      <4> QED
        BY <3>6, <4>2, <4>3, CompletionSteps
    <3>7. CASE BindKey(r) \/ ReleaseKey(r) \/ ReleaseLock(r) \/ Crash(r)
      <4>1. Finish(r) \/ AfterKey(r)
        BY <3>7 DEF BindKey, ReleaseKey, ReleaseLock, Crash
      <4> QED
        BY <2>1, <4>1, EndRow DEF ReadOf
    <3> QED
      BY <1>2, <3>1, <3>2, <3>3, <3>4, <3>5, <3>6, <3>7 DEF Handle, Quiet
  <2> QED
    BY <1>2, <2>2, OneRequest DEF Read
<1>3. ASSUME \/ \E c \in Requests, status \in {"completed", "expired"} : PaymentSettles(c, status)
             \/ CleanupExpired \/ Tick \/ UNCHANGED vars
      PROVE  Read'
  <2>1. UNCHANGED requests
    BY <1>3 DEF PaymentSettles, CleanupExpired, Tick, vars
  <2> QED
    BY <2>1 DEF Read
<1> QED
  BY <1>1, <1>2, <1>3 DEF Next

----------------------------------------------------------------------------
(* Who writes a record *)

\* The steps that change records, and what they leave of them.
Writes(r) == Expire(r) \/ PutUpdated(r) \/ PutCompleted(r) \/ PutCanceled(r)

\* The steps of a request that change records.
LEMMA OwnStore ==
  ASSUME NEW r \in Requests, Handle(r) \/ Crash(r) \/ Throw(r)
  PROVE  UNCHANGED store \/ Writes(r) \/ PutCreated(r)
<1>1. CASE BeginIdempotency(r) \/ ClaimCompletionLock(r) \/ Rebuild(r)
  BY <1>1 DEF BeginIdempotency, ClaimCompletionLock, Rebuild, GetCart, RemoveLine, AddItem,
     AddRefused, RestoreCart
<1>2. CASE CheckUpdate(r) \/ CheckComplete(r) \/ StartFails(r) \/ CheckCancel(r) \/ CancelCheckout(r)
  BY <1>2 DEF CheckUpdate, CheckComplete, StartFails, CheckCancel, CancelCheckout
<1>3. CASE \/ \E status \in {"pending", "completed", "expired"} : StartCheckout(r, status)
           \/ BindKey(r) \/ ReleaseKey(r) \/ ReleaseLock(r) \/ Crash(r) \/ Throw(r)
  BY <1>3 DEF StartCheckout, BindKey, ReleaseKey, ReleaseLock, Crash, Throw
<1> QED
  BY <1>1, <1>2, <1>3 DEF Handle, Writes

\* The steps that change records.
LEMMA Writers ==
  ASSUME [Next]_vars
  PROVE  \/ UNCHANGED store
         \/ \E r \in Requests : Writes(r) \/ PutCreated(r)
         \/ CleanupExpired
<1>1. CASE \E r \in Requests, op \in Ops, i \in Ids, k \in Keys, b \in Buyers :
             \E want \in Wants(op) : Arrive(r, op, i, k, want, b)
  BY <1>1 DEF Arrive
<1>2. CASE \/ \E c \in Requests, status \in {"completed", "expired"} : PaymentSettles(c, status)
           \/ Tick \/ UNCHANGED vars
  BY <1>2 DEF PaymentSettles, Tick, vars
<1> QED
  BY <1>1, <1>2, OwnStore DEF Next

\* A write is of the writer's session, over the version it read last.
LEMMA WriteShapes ==
  ASSUME Types, Control, NEW r \in Requests, Writes(r)
  PROVE  /\ requests[r].id \in Ids /\ requests[r].op # "create"
         /\ requests[r].step = "expire" \/ requests[r].step = "put"
         /\ \A i \in Ids \ {requests[r].id} : store'[i] = store[i]
         /\ \/ store'[requests[r].id] = store[requests[r].id]
            \/ /\ Unchanged(requests[r].id, requests[r].seen.version)
               /\ store'[requests[r].id].version = requests[r].seen.version + 1
<1> DEFINE i == requests[r].id
           seen == requests[r].seen
<1>1. /\ requests[r].op # "create" /\ requests[r].step \in {"expire", "put"} /\ i \in Ids
  <2>1. requests[r].op # "create" /\ requests[r].step \in {"expire", "put"}
    BY DEF Writes, Expire, PutUpdated, PutCompleted, PutCanceled, At, Control, ControlOf
  <2> QED
    BY <2>1, KeysAreKeys
<1>2. seen \in Record /\ requests[r] \in RequestRow /\ seen.version + 1 \in Nat
  BY RequestShapes DEF RequestRow, Record
<1>3. ASSUME NEW record, store' = [store EXCEPT ![i] = record], record.version = seen.version + 1,
             Unchanged(i, seen.version)
      PROVE  /\ \A j \in Ids \ {i} : store'[j] = store[j]
             /\ Unchanged(i, seen.version) /\ store'[i].version = seen.version + 1
  BY <1>1, <1>3 DEF Types
<1>4. ASSUME store' = [store EXCEPT ![i] = store[i]] \/ UNCHANGED store
      PROVE  /\ \A j \in Ids \ {i} : store'[j] = store[j]
             /\ store'[i] = store[i]
  BY <1>1, <1>4 DEF Types
<1>5. CASE Expire(r)
  <2>1. ExpiredRecord(seen, now).version = seen.version + 1
    BY <1>2 DEF ExpiredRecord, Record
  <2>2. \/ store' = [store EXCEPT ![i] = store[i]]
        \/ store' = [store EXCEPT ![i] = ExpiredRecord(seen, now)] /\ Unchanged(i, seen.version)
    BY <1>5 DEF Expire
  <2> QED
    BY <1>1, <1>3, <1>4, <2>1, <2>2
<1>6. CASE PutUpdated(r)
  <2> DEFINE next == [seen EXCEPT !.buyer = requests[r].buyer, !.expires = now + SessionTTL,
                                  !.version = @ + 1]
             rebuilt == [next EXCEPT !.items = requests[r].want, !.cart = carts[i].number,
                                     !.status = "ready_for_payment"]
  <2>1. next.version = seen.version + 1 /\ rebuilt.version = seen.version + 1
    BY <1>2 DEF Record
  <2>2. \/ UNCHANGED store
        \/ /\ Unchanged(i, seen.version)
           /\ store' = [store EXCEPT ![i] = next] \/ store' = [store EXCEPT ![i] = rebuilt]
    BY <1>6 DEF PutUpdated
  <2> HIDE DEF next, rebuilt
  <2> QED
    BY <1>1, <1>3, <1>4, <2>1, <2>2
<1>7. CASE PutCompleted(r)
  <2>1. requests[r].outcome \in {"expired", "pending", "completed"}
    <3>1. requests[r].outcome # "none" /\ requests[r].outcome \in Outcomes
      BY <1>2, <1>7 DEF Control, ControlOf, PutCompleted, At, RequestRow
    <3> QED
      BY <3>1 DEF Outcomes
  <2>2. CompletedRecord(r, requests[r].outcome).version = seen.version + 1
    BY <1>2, <2>1 DEF CompletedRecord, Record
  <2>3. \/ UNCHANGED store
        \/ /\ Unchanged(i, seen.version)
           /\ store' = [store EXCEPT ![i] = CompletedRecord(r, requests[r].outcome)]
    BY <1>7 DEF PutCompleted
  <2> QED
    BY <1>1, <1>3, <1>4, <2>2, <2>3
<1>8. CASE PutCanceled(r)
  <2> DEFINE canceled == [seen EXCEPT !.status = "canceled", !.purge = now + Retention,
                                      !.version = @ + 1]
  <2>1. canceled.version = seen.version + 1
    BY <1>2 DEF Record
  <2>2. UNCHANGED store \/ (Unchanged(i, seen.version) /\ store' = [store EXCEPT ![i] = canceled])
    BY <1>8 DEF PutCanceled
  <2> HIDE DEF canceled
  <2> QED
    BY <1>1, <1>3, <1>4, <2>1, <2>2
<1> QED
  BY <1>1, <1>5, <1>6, <1>7, <1>8 DEF Writes

\* The maintenance job purges a record, expires it, or leaves it.
LEMMA CleanupShapes ==
  ASSUME Types, CleanupExpired
  PROVE  /\ UNCHANGED requests
         /\ \A i \in Ids : \/ i \in purged' /\ store'[i] = NoRecord
                           \/ store'[i] = store[i]
                           \/ /\ Present(i) /\ IsExpired(store[i], now) /\ ~store[i].expired
                              /\ store'[i] = ExpiredRecord(store[i], now)
         /\ purged \subseteq purged'
BY DEF CleanupExpired

\* A create is given an id that no record and no other create has.
LEMMA ApartStep ==
  ASSUME Types, Control, Agreement, Apart, [Next]_vars, Types'
  PROVE  Apart'
<1> DEFINE AmongThemselves == \A q, r \in Requests : requests[q].step # "new" /\ requests[r].step # "new"
               => (requests[q].op = "create") = (requests[r].op = "create")
           OwnIds == \A q, r \in Requests : q # r /\ requests[q].op = "create" /\ requests[r].op = "create"
               => requests[q].id # requests[r].id
           Early == {"claim", "cart", "remove", "add", "put"}
           NotYet(r) == requests[r].op = "create" /\ requests[r].step \in Early
                          => store[requests[r].id] = NoRecord
           Absent(i) == ~Present(i) => store[i] = NoRecord
<1>1. AmongThemselves /\ OwnIds /\ (\A r \in Requests : NotYet(r)) /\ \A i \in Ids : Absent(i)
  BY DEF Apart
<1>2. \A r \in Requests : requests[r].op # "none" => requests[r].step # "new"
  BY DEF Control, ControlOf, New
<1>3. ASSUME NEW r \in Requests, NEW op \in Ops, NEW i \in Ids, NEW k \in Keys, NEW b \in Buyers,
             NEW want \in Wants(op), Arrive(r, op, i, k, want, b)
      PROVE  Apart'
  <2>1. requests'[r].op = op /\ requests'[r].id = i /\ UNCHANGED store
    BY <1>3 DEF Arrive, Types, New
  <2>2. \A q \in Requests \ {r} : requests'[q] = requests[q]
    BY <1>3 DEF Arrive, Types
  <2>3. \A q \in Requests \ {r} : requests[q].step # "new" => (requests[q].op = "create") = (op = "create")
    BY <1>3 DEF Arrive, Together, New
  <2>4. op = "create" => Fresh(i)
    BY <1>3 DEF Arrive
  <2>5. AmongThemselves'
    BY <1>1, <2>1, <2>2, <2>3
  <2>6. OwnIds'
    BY <1>1, <2>1, <2>2, <2>4 DEF Fresh
  <2>7. \A q \in Requests : NotYet(q)'
    BY <1>1, <2>1, <2>2, <2>4 DEF Fresh
  <2>8. \A j \in Ids : Absent(j)'
    BY <1>1, <2>1 DEF Present
  <2> QED
    BY <2>5, <2>6, <2>7, <2>8 DEF Apart
<1>4. ASSUME NEW r \in Requests, Handle(r) \/ Crash(r) \/ Throw(r)
      PROVE  Apart'
  <2>1. /\ requests'[r].op = requests[r].op /\ requests'[r].id = requests[r].id
        /\ requests[r].step # "new" /\ \A q \in Requests \ {r} : requests'[q] = requests[q]
    BY <1>4, Asked, OneRequest
  <2>2. AmongThemselves' /\ OwnIds'
    BY <1>1, <2>1
  <2>3. CASE Writes(r)
    <3>1. requests[r].op # "create" /\ \A q \in Requests : requests'[q].op # "create"
      BY <1>1, <1>2, <2>1, <2>3, WriteShapes
    <3>2. requests[r].seen.version \in Nat
      BY RequestShapes DEF RequestRow, Record
    <3>3. \A i \in Ids : Absent(i)'
      BY <1>1, <2>3, <3>2, WriteShapes DEF Present
    <3> QED
      BY <2>2, <3>1, <3>3 DEF Apart
  <2>4. CASE PutCreated(r)
    <3> DEFINE i == requests[r].id
    <3>1. i \in Ids /\ requests[r].op = "create" /\ requests'[r].step = "bind"
      BY <2>4, KeysAreKeys, GoSteady DEF PutCreated, At
    <3>2. store'[i].version = 1 /\ \A j \in Ids \ {i} : store'[j] = store[j]
      BY <2>4, <3>1 DEF PutCreated, Types, NoRecord
    <3>3. \A q \in Requests \ {r} : NotYet(q)'
      <4>1. ASSUME NEW q \in Requests \ {r}, requests[q].op = "create", requests[q].step \in Early
            PROVE  requests[q].id \in Ids /\ requests[q].id # i
        BY <1>1, <3>1, <4>1, KeysAreKeys
      <4> QED
        BY <1>1, <2>1, <3>2, <4>1
    <3>4. \A j \in Ids : Absent(j)'
      BY <1>1, <3>2 DEF Present
    <3> QED
      BY <2>2, <3>1, <3>3, <3>4 DEF Apart
  <2>5. CASE UNCHANGED store
    <3>1. requests[r].op = "create" /\ requests'[r].step \in Early => requests[r].step \in Early
      <4>1. CASE Quiet(r)
        BY <4>1, Routes
      <4>2. CASE BeginIdempotency(r)
        BY <4>2 DEF BeginIdempotency
      <4>3. CASE Expire(r) \/ ClaimCompletionLock(r) \/ PutCompleted(r)
        BY <4>3 DEF Control, ControlOf, Expire, ClaimCompletionLock, PutCompleted, At
      <4>4. CASE \E status \in {"pending", "completed", "expired"} : StartCheckout(r, status)
        BY <4>4 DEF StartCheckout, At
      <4>5. CASE BindKey(r) \/ ReleaseKey(r) \/ ReleaseLock(r) \/ Crash(r)
        <5>1. Finish(r) \/ AfterKey(r)
          BY <4>5 DEF BindKey, ReleaseKey, ReleaseLock, Crash
        <5> QED
          BY <5>1, EndRow
      <4> QED
        BY <1>4, <4>1, <4>2, <4>3, <4>4, <4>5 DEF Handle, Quiet
    <3>2. \A q \in Requests : NotYet(q)'
      BY <1>1, <2>1, <2>5, <3>1
    <3>3. \A j \in Ids : Absent(j)'
      BY <1>1, <2>5 DEF Present
    <3> QED
      BY <2>2, <3>2, <3>3 DEF Apart
  <2>6. UNCHANGED store \/ Writes(r) \/ PutCreated(r)
    BY <1>4, OwnStore
  <2> QED
    BY <2>3, <2>4, <2>5, <2>6
<1>5. CASE CleanupExpired
  <2>1. UNCHANGED requests
    BY <1>5, CleanupShapes
  <2>2. \A i \in Ids : Absent(i)' /\ (store[i] = NoRecord => store'[i] = NoRecord)
    <3>1. \A i \in Ids : Present(i) => ExpiredRecord(store[i], now).version > 0 /\ store[i] # NoRecord
      <4>1. ASSUME NEW i \in Ids, Present(i)
            PROVE  ExpiredRecord(store[i], now).version > 0 /\ store[i] # NoRecord
        <5>1. store[i] \in Record
          BY DEF Types
        <5> QED
          BY <4>1, <5>1 DEF ExpiredRecord, Record, Present, NoRecord
      <4> QED
        BY <4>1
    <3> QED
      BY <1>1, <1>5, <3>1, CleanupShapes DEF Present
  <2>3. \A r \in Requests : requests[r].op = "create" /\ requests[r].step \in Early => requests[r].id \in Ids
    BY KeysAreKeys
  <2> QED
    BY <1>1, <2>1, <2>2, <2>3 DEF Apart
<1>6. CASE \/ \E c \in Requests, status \in {"completed", "expired"} : PaymentSettles(c, status)
           \/ Tick \/ UNCHANGED vars
  <2>1. UNCHANGED <<requests, store>>
    BY <1>6 DEF PaymentSettles, Tick, vars
  <2> QED
    BY <2>1 DEF Apart, Present
<1> QED
  BY <1>3, <1>4, <1>5, <1>6 DEF Next

----------------------------------------------------------------------------
(* Versions *)

VersionOf(r) ==
  Reads(r) /\ requests[r].id \notin purged
    => /\ Present(requests[r].id)
       /\ requests[r].seen.version <= store[requests[r].id].version
       /\ requests[r].seen.version = store[requests[r].id].version
            => \/ requests[r].tries = 0 /\ requests[r].seen = store[requests[r].id]
               \/ requests[r].tries > 0 /\ OnlyExpired(requests[r].seen, store[requests[r].id])

\* A request that reads its session goes on with the record it read, but for an
\* expiry it has stored itself or seen in a retry.
LEMMA SeenKept ==
  ASSUME Types, Control, Agreement, Read, NEW r \in Requests, Handle(r) \/ Crash(r) \/ Throw(r),
         Reads(r)'
  PROVE  /\ Reads(r)
         /\ \/ requests'[r].seen = requests[r].seen /\ requests'[r].tries = requests[r].tries
            \/ requests'[r].seen = store'[requests[r].id] /\ requests'[r].tries = 0
            \/ /\ UNCHANGED store /\ OnlyExpired(requests[r].seen, store[requests[r].id])
               /\ Present(requests[r].id) /\ requests'[r].tries = requests[r].tries + 1
               /\ requests'[r].seen = [requests[r].seen EXCEPT !.version = store[requests[r].id].version]
               /\ requests[r].op = "complete" /\ requests[r].step = "put"
<1>1. requests[r] \in RequestRow /\ requests'[r].step \notin {"unlock", "done"}
  BY RequestShapes DEF Reads
<1>2. CASE Quiet(r)
  BY <1>2, QuietSteps DEF Reads, Steady, Working
<1>3. CASE Expire(r)
  <2>1. requests[r].step = "expire" /\ requests[r].op # "create" /\ requests[r].tries = 0
    BY <1>3 DEF Expire, Control, ControlOf, Read, ReadOf
  <2>2. requests'[r] = [requests[r] EXCEPT !.seen = store'[requests[r].id], !.step = "claim"]
    BY <1>1, <1>3, LoudSteps
  <2> QED
    BY <1>1, <2>1, <2>2 DEF Reads, RequestRow
<1>4. CASE BeginIdempotency(r)
  <2>1. requests'[r] # Ended(r)
    BY <1>1, EndedRow
  <2>2. PICK s \in {"cart", "lock", "check"} :
          requests'[r] = [requests[r] EXCEPT !.until = now + ClaimTTL, !.step = s]
    BY <1>4, <2>1, LoudSteps
  <2>3. /\ requests'[r].seen = requests[r].seen /\ requests'[r].tries = requests[r].tries
        /\ requests'[r].op = requests[r].op
    BY <1>1, <2>2 DEF RequestRow
  <2> QED
    BY <1>4, <2>3 DEF BeginIdempotency, Reads
<1>5. CASE ClaimCompletionLock(r)
  <2>1. CASE Steady(r)
    BY <1>5, <2>1 DEF ClaimCompletionLock, Reads, Steady
  <2>2. CASE requests'[r] = [requests[r] EXCEPT !.lock = now + ClaimTTL, !.step = "check"]
    <3>1. /\ requests'[r].seen = requests[r].seen /\ requests'[r].tries = requests[r].tries
          /\ requests'[r].op = requests[r].op
      BY <1>1, <2>2 DEF RequestRow
    <3> QED
      BY <1>5, <3>1 DEF ClaimCompletionLock, Reads
  <2> QED
    BY <1>5, <2>1, <2>2, LoudSteps
<1>6. ASSUME NEW status \in {"pending", "completed", "expired"}, StartCheckout(r, status)
      PROVE  /\ Reads(r) /\ requests'[r].seen = requests[r].seen
             /\ requests'[r].tries = requests[r].tries
  <2>1. requests'[r] = [requests[r] EXCEPT !.step = "put", !.outcome = status]
    BY <1>6, LoudSteps
  <2> QED
    <3>1. requests'[r].seen = requests[r].seen /\ requests'[r].tries = requests[r].tries
      BY <1>1, <2>1 DEF RequestRow
    <3> QED
      BY <1>6, <3>1 DEF StartCheckout, At, Reads
<1>7. CASE PutCompleted(r)
  <2>1. Reads(r) /\ requests[r].op = "complete" /\ requests[r].step = "put"
    BY <1>7 DEF PutCompleted, At, Reads
  <2>2. CASE Steady(r)
    BY <2>1, <2>2 DEF Steady
  <2>3. CASE /\ UNCHANGED store /\ Present(requests[r].id)
             /\ OnlyExpired(requests[r].seen, store[requests[r].id])
             /\ requests'[r] = [requests[r] EXCEPT !.seen.version = store[requests[r].id].version,
                                                   !.tries = requests[r].tries + 1]
    <3>1. /\ requests'[r].seen = [requests[r].seen EXCEPT !.version = store[requests[r].id].version]
          /\ requests'[r].tries = requests[r].tries + 1
      BY <1>1, <2>3 DEF RequestRow
    <3> QED
      BY <2>1, <2>3, <3>1
  <2> QED
    BY <1>7, <2>2, <2>3, CompletionSteps
<1>8. ~(BindKey(r) \/ ReleaseKey(r) \/ ReleaseLock(r) \/ Crash(r))
  <2>1. ASSUME BindKey(r) \/ ReleaseKey(r) \/ ReleaseLock(r) \/ Crash(r)
        PROVE  Finish(r) \/ AfterKey(r)
    BY <2>1 DEF BindKey, ReleaseKey, ReleaseLock, Crash
  <2> QED
    BY <1>1, <2>1, EndRow
<1> QED
  BY <1>2, <1>3, <1>4, <1>5, <1>6, <1>7, <1>8 DEF Handle, Quiet

\* Whoever writes a record that was not purged has read it as it is, but for an
\* expiry that a retry has seen, and makes every version that was read an older one.
LEMMA WritesAge ==
  ASSUME Types, Control, Versions, NEW q \in Requests, Writes(q), requests[q].id \notin purged,
         store'[requests[q].id] # store[requests[q].id]
  PROVE  /\ store'[requests[q].id].version = store[requests[q].id].version + 1
         /\ requests[q].seen.version = store[requests[q].id].version
         /\ \/ requests[q].tries = 0 /\ requests[q].seen = store[requests[q].id]
            \/ requests[q].tries > 0 /\ OnlyExpired(requests[q].seen, store[requests[q].id])
<1>1. Reads(q) /\ Unchanged(requests[q].id, requests[q].seen.version)
  BY WriteShapes DEF Reads
<1>2. Present(requests[q].id) /\ requests[q].seen.version = store[requests[q].id].version
  BY <1>1 DEF Versions, Unchanged
<1> QED
  BY <1>1, <1>2, WriteShapes DEF Versions

\* No step makes a record older than what a request read of it.
LEMMA VersionsStep ==
  ASSUME Types, Control, Agreement, Read, Apart, Versions, [Next]_vars, Types'
  PROVE  Versions'
<1>1. \A r \in Requests : VersionOf(r)
  BY DEF Versions, VersionOf
<1>2. \A i \in Ids : store[i].version \in Nat /\ store'[i].version \in Nat
  <2>1. \A i \in Ids : store[i] \in Record /\ store'[i] \in Record
    BY DEF Types
  <2> QED
    BY <2>1 DEF Record
<1>3. \A r \in Requests : requests[r].seen.version \in Nat
  BY RequestShapes DEF RequestRow, Record
<1>4. \A r \in Requests : Reads(r) => requests[r].id \in Ids
  BY KeysAreKeys DEF Reads
\* A request whose row stays, while its record stays or gets a new version.
<1>5. ASSUME NEW r \in Requests, requests'[r] = requests[r], purged \subseteq purged',
             requests[r].id \notin purged' /\ Reads(r)
               => \/ store'[requests[r].id] = store[requests[r].id]
                  \/ store'[requests[r].id].version = store[requests[r].id].version + 1
      PROVE  VersionOf(r)'
  <2> SUFFICES ASSUME Reads(r)', requests[r].id \notin purged'
               PROVE  VersionOf(r)'
    BY <1>5 DEF VersionOf
  <2>1. Reads(r) /\ requests[r].id \in Ids
    BY <1>4, <1>5 DEF Reads
  <2>2. CASE store'[requests[r].id] = store[requests[r].id]
    BY <1>1, <1>5, <2>1, <2>2 DEF VersionOf, Present
  <2>3. CASE store'[requests[r].id].version = store[requests[r].id].version + 1
    BY <1>1, <1>2, <1>3, <1>5, <2>1, <2>3 DEF VersionOf, Present
  <2> QED
    BY <1>5, <2>1, <2>2, <2>3
<1>6. ASSUME NEW q \in Requests, Handle(q) \/ Crash(q) \/ Throw(q)
      PROVE  \A r \in Requests : VersionOf(r)'
  <2>1. /\ requests'[q].op = requests[q].op /\ requests'[q].id = requests[q].id
        /\ UNCHANGED purged /\ \A r \in Requests \ {q} : requests'[r] = requests[r]
    BY <1>6, Asked, ClockKept, OneRequest
  <2>2. ASSUME NEW r \in Requests, Reads(r), requests[r].id \notin purged
        PROVE  \/ store'[requests[r].id] = store[requests[r].id]
               \/ /\ store'[requests[r].id].version = store[requests[r].id].version + 1
                  /\ r = q => requests[q].step \in {"expire", "put"}
    <3>1. CASE PutCreated(q)
      <4>1. requests[q].op = "create" /\ requests[q].step = "put"
        BY <3>1 DEF PutCreated, At
      <4> QED
        BY <2>2, <4>1 DEF Apart, Reads
    <3>2. CASE Writes(q)
      BY <1>4, <2>2, <3>2, WriteShapes, WritesAge
    <3> QED
      BY <1>6, <3>1, <3>2, OwnStore
  <2>3. \A r \in Requests \ {q} : VersionOf(r)'
    BY <1>5, <2>1, <2>2
  <2>4. ASSUME Reads(q)', requests[q].id \notin purged
        PROVE  VersionOf(q)'
    <3> DEFINE i == requests[q].id
    <3>1. Reads(q) /\ i \in Ids /\ VersionOf(q)
      BY <1>1, <1>4, <1>6, <2>4, SeenKept
    <3>2. Present(i) /\ requests[q].seen.version <= store[i].version /\ Present(i)'
      BY <1>2, <2>1, <2>2, <2>4, <3>1 DEF VersionOf, Present
    <3>3. CASE requests'[q].seen = requests[q].seen /\ requests'[q].tries = requests[q].tries
      <4>1. CASE store'[i] = store[i]
        BY <2>1, <2>4, <3>1, <3>2, <3>3, <4>1 DEF VersionOf
      <4>2. CASE store'[i].version = store[i].version + 1
        BY <1>2, <1>3, <2>1, <3>1, <3>2, <3>3, <4>2 DEF VersionOf
      <4> QED
        BY <2>2, <2>4, <3>1, <4>1, <4>2
    <3>4. CASE requests'[q].seen = store'[i] /\ requests'[q].tries = 0
      BY <1>2, <2>1, <3>1, <3>2, <3>4 DEF VersionOf
    <3>5. CASE /\ UNCHANGED store /\ OnlyExpired(requests[q].seen, store[i])
               /\ requests'[q].tries = requests[q].tries + 1
               /\ requests'[q].seen = [requests[q].seen EXCEPT !.version = store[i].version]
      <4>1. requests[q].seen \in Record /\ requests[q].tries \in Nat
        BY RequestShapes, Lifetimes DEF RequestRow
      <4>2. requests'[q].seen.version = store[i].version /\ requests'[q].tries > 0
        BY <3>5, <4>1 DEF Record
      <4>3. OnlyExpired(requests'[q].seen, store[i])
        BY <3>5, <4>1 DEF OnlyExpired, Record
      <4> QED
        BY <1>2, <2>1, <3>1, <3>2, <3>5, <4>2, <4>3 DEF VersionOf, OnlyExpired
    <3> QED
      BY <1>6, <2>4, <3>3, <3>4, <3>5, SeenKept
  <2> QED
    BY <2>1, <2>3, <2>4 DEF VersionOf
<1>7. ASSUME NEW r \in Requests, NEW op \in Ops, NEW i \in Ids, NEW k \in Keys, NEW b \in Buyers,
             NEW want \in Wants(op), Arrive(r, op, i, k, want, b)
      PROVE  \A q \in Requests : VersionOf(q)'
  <2>1. /\ requests'[r].op = op /\ requests'[r].id = i /\ requests'[r].tries = 0
        /\ UNCHANGED <<store, purged>>
        /\ op # "create" => requests'[r].seen = store[i] /\ Present(i)
    BY <1>7 DEF Arrive, Types, New, history
  <2>2. \A q \in Requests \ {r} : requests'[q] = requests[q]
    BY <1>7 DEF Arrive, Types
  <2>3. VersionOf(r)'
    BY <1>2, <2>1 DEF VersionOf, Reads, Present
  <2> QED
    BY <1>5, <2>1, <2>2, <2>3
<1>8. ASSUME CleanupExpired
      PROVE  \A q \in Requests : VersionOf(q)'
  <2>1. \A i \in Ids : ExpiredRecord(store[i], now).version = store[i].version + 1
    <3>1. \A i \in Ids : store[i] \in Record
      BY DEF Types
    <3> QED
      BY <3>1 DEF ExpiredRecord, Record
  <2> QED
    BY <1>4, <1>5, <1>8, <2>1, CleanupShapes
<1>9. ASSUME \/ \E c \in Requests, status \in {"completed", "expired"} : PaymentSettles(c, status)
             \/ Tick \/ UNCHANGED vars
      PROVE  \A q \in Requests : VersionOf(q)'
  <2>1. UNCHANGED <<requests, store, purged>>
    BY <1>9 DEF PaymentSettles, Tick, vars, history
  <2> QED
    BY <1>5, <2>1
<1>10. \A r \in Requests : VersionOf(r)'
  BY <1>6, <1>7, <1>8, <1>9 DEF Next
<1> QED
  BY <1>10 DEF Versions, VersionOf

\* A session that is completed or canceled was not read as such by whoever writes it.
LEMMA TerminalKept ==
  ASSUME Types, Control, Agreement, Read, Apart, Versions, [Next]_vars
  PROVE  \A i \in Ids : store[i].status \in Terminal /\ i \notin purged'
                         => store'[i].status = store[i].status
<1> SUFFICES ASSUME NEW i \in Ids, store[i].status \in Terminal, i \notin purged'
             PROVE  store'[i].status = store[i].status
  OBVIOUS
<1>1. ASSUME NEW q \in Requests, Writes(q)
      PROVE  store'[i] = store[i]
  <2>1. /\ \A j \in Ids \ {requests[q].id} : store'[j] = store[j]
        /\ requests[q].op # "create" /\ requests[q].step \in {"expire", "put"}
        /\ requests[q].op \in {"none", "create", "update", "complete", "cancel", "get"}
    BY <1>1, WriteShapes, RequestShapes DEF RequestRow
  <2>2. requests[q].step = "expire" \/ requests[q].op \in {"update", "complete", "cancel"}
    BY <1>1 DEF Writes, Expire, PutUpdated, PutCompleted, PutCanceled, At
  <2>3. requests[q].seen.status \notin Terminal
    BY <2>1, <2>2 DEF Read, ReadOf
  <2>4. UNCHANGED purged
    <3>1. Handle(q)
      BY <1>1 DEF Writes, Handle
    <3> QED
      BY <3>1, ClockKept
  <2>5. requests[q].id = i => store'[i] = store[i]
    BY <1>1, <2>3, <2>4, WritesAge DEF OnlyExpired
  <2> QED
    BY <2>1, <2>5
<1>2. ASSUME NEW q \in Requests, PutCreated(q)
      PROVE  store'[i] = store[i]
  <2>1. store[requests[q].id] = NoRecord
    BY <1>2 DEF PutCreated, At, Apart
  <2>2. requests[q].id # i
    BY <2>1 DEF NoRecord, Terminal
  <2> QED
    BY <1>2, <2>2 DEF PutCreated, Types
<1>3. CASE CleanupExpired
  BY <1>3, CleanupShapes DEF IsExpired
<1> QED
  BY <1>1, <1>2, <1>3, Writers

----------------------------------------------------------------------------
(* The record of a completion *)

\* An expiry leaves what a completion knows of its record true.
LEMMA ExpiryRecorded ==
  ASSUME Types, NEW r \in Requests, NEW i \in Ids, ~store[i].expired, store[i].status \notin Terminal,
         requests[r].seen.version = store[i].version /\ requests[r].tries = 0
           => requests[r].seen = store[i],
         RecordingOf(r, requests[r], store[i])
  PROVE  RecordingOf(r, requests[r], ExpiredRecord(store[i], now))
<1> DEFINE old == store[i]
           record == ExpiredRecord(old, now)
<1>1. old \in Record /\ old.version \in Nat
  BY DEF Types, Record
<1>2. /\ record.version = old.version + 1 /\ record.expired /\ record.checkout = old.checkout
      /\ OnlyExpired(old, record)
  BY <1>1 DEF ExpiredRecord, Record, OnlyExpired, Terminal
<1> QED
  BY <1>1, <1>2 DEF RecordingOf

\* Whoever decides about a session contests the completions that are under way,
\* and keeps the checkout the record names if it names one.
LEMMA Decisions ==
  ASSUME Types, Control, Read, NEW q \in Requests, PutUpdated(q) \/ PutCompleted(q) \/ PutCanceled(q),
         store'[requests[q].id] # store[requests[q].id]
  PROVE  /\ Contest(q)
         /\ \/ store'[requests[q].id].checkout = requests[q].seen.checkout
            \/ requests[q].seen.checkout = Nobody
<1> DEFINE i == requests[q].id
           seen == requests[q].seen
<1>1. i \in Ids /\ seen \in Record /\ ~UNCHANGED store
  BY WriteShapes, RequestShapes DEF Writes, RequestRow
<1>2. CASE PutUpdated(q)
  <2> DEFINE next == [seen EXCEPT !.buyer = requests[q].buyer, !.expires = now + SessionTTL,
                                  !.version = @ + 1]
             rebuilt == [next EXCEPT !.items = requests[q].want, !.cart = carts[i].number,
                                     !.status = "ready_for_payment"]
  <2>1. next.checkout = seen.checkout /\ rebuilt.checkout = seen.checkout
    BY <1>1 DEF Record
  <2>2. Contest(q) /\ (store' = [store EXCEPT ![i] = next] \/ store' = [store EXCEPT ![i] = rebuilt])
    BY <1>1, <1>2 DEF PutUpdated
  <2> HIDE DEF next, rebuilt
  <2> QED
    BY <1>1, <2>1, <2>2 DEF Types
<1>3. CASE PutCompleted(q)
  BY <1>1, <1>3 DEF PutCompleted, At, Read, ReadOf
<1>4. CASE PutCanceled(q)
  <2> DEFINE canceled == [seen EXCEPT !.status = "canceled", !.purge = now + Retention,
                                      !.version = @ + 1]
  <2>1. canceled.checkout = seen.checkout
    BY <1>1 DEF Record
  <2>2. Contest(q) /\ store' = [store EXCEPT ![i] = canceled]
    BY <1>1, <1>4 DEF PutCanceled
  <2> HIDE DEF canceled
  <2> QED
    BY <1>1, <2>1, <2>2 DEF Types
<1> QED
  BY <1>2, <1>3, <1>4

\* The histories only grow.
LEMMA ContestedKept ==
  ASSUME [Next]_vars
  PROVE  contested \subseteq contested' /\ faulted \subseteq faulted' /\ purged \subseteq purged'
<1>1. ASSUME NEW r \in Requests, Handle(r) \/ Crash(r) \/ Throw(r)
      PROVE  contested \subseteq contested' /\ faulted \subseteq faulted' /\ purged \subseteq purged'
  <2>1. faulted \subseteq faulted' /\ purged \subseteq purged'
    BY <1>1, ClockKept DEF Crash, Throw
  <2>2. contested \subseteq contested'
    <3>1. CASE Expire(r) \/ BeginIdempotency(r) \/ ClaimCompletionLock(r) \/ Rebuild(r)
      BY <3>1 DEF Expire, BeginIdempotency, ClaimCompletionLock, Rebuild, GetCart, RemoveLine, AddItem,
         AddRefused, RestoreCart, history
    <3>2. CASE PutCreated(r) \/ CheckUpdate(r) \/ CheckComplete(r) \/ StartFails(r) \/ CheckCancel(r)
               \/ CancelCheckout(r)
      BY <3>2 DEF PutCreated, CheckUpdate, CheckComplete, StartFails, CheckCancel, CancelCheckout, history
    <3>3. CASE PutUpdated(r) \/ PutCompleted(r) \/ PutCanceled(r)
      BY <3>3 DEF PutUpdated, PutCompleted, PutCanceled, Contest
    <3>4. CASE \/ \E status \in {"pending", "completed", "expired"} : StartCheckout(r, status)
               \/ BindKey(r) \/ ReleaseKey(r) \/ ReleaseLock(r) \/ Crash(r) \/ Throw(r)
      BY <3>4 DEF StartCheckout, BindKey, ReleaseKey, ReleaseLock, Crash, Throw, history
    <3> QED
      BY <1>1, <3>1, <3>2, <3>3, <3>4 DEF Handle
  <2> QED
    BY <2>1, <2>2
<1>2. CASE \E r \in Requests, op \in Ops, i \in Ids, k \in Keys, b \in Buyers :
             \E want \in Wants(op) : Arrive(r, op, i, k, want, b)
  BY <1>2 DEF Arrive, history
<1>3. CASE \/ \E c \in Requests, status \in {"completed", "expired"} : PaymentSettles(c, status)
           \/ Tick \/ CleanupExpired \/ UNCHANGED vars
  BY <1>3 DEF PaymentSettles, Tick, CleanupExpired, vars, history
<1> QED
  BY <1>1, <1>2, <1>3 DEF Next

\* A step of another request leaves what a completion knows of its record true.
LEMMA OthersRecorded ==
  ASSUME Types, Control, Agreement, Read, Apart, Versions, Recording, NEW q \in Requests,
         Handle(q) \/ Crash(q) \/ Throw(q), NEW r \in Requests \ {q},
         r \notin faulted \cup contested', requests[r].op = "complete", requests[r].id \notin purged,
         contested \subseteq contested'
  PROVE  RecordingOf(r, requests[r], store'[requests[r].id])
<1> DEFINE i == requests[r].id
<1>1. RecordingOf(r, requests[r], store[i]) /\ requests[r].step # "new" /\ i \in Ids
  <2>1. requests[r].step # "new"
    BY DEF Control, ControlOf, New
  <2> QED
    BY <2>1, KeysAreKeys DEF Recording
<1>2. CASE store'[i] = store[i]
  BY <1>1, <1>2
<1>3. CASE PutCreated(q)
  BY <1>1, <1>3 DEF PutCreated, At, Apart
<1>4. CASE Writes(q) /\ store'[i] # store[i]
  <2>1. requests[q].id = i
    BY <1>1, <1>4, WriteShapes
  <2>2. \/ requests[q].tries = 0 /\ requests[q].seen = store[i]
        \/ requests[q].tries > 0 /\ OnlyExpired(requests[q].seen, store[i])
    BY <1>4, <2>1, WritesAge
  <2>3. CASE Expire(q)
    <3>1. requests[q].tries = 0 /\ requests[q].seen.status \notin Terminal /\ ~requests[q].seen.expired
      BY <2>3 DEF Expire, Read, ReadOf
    <3>2. requests[q].seen = store[i]
      BY <2>2, <3>1
    <3>3. store'[i] = ExpiredRecord(store[i], now)
      BY <1>1, <1>4, <2>1, <2>3, <3>2 DEF Expire, Types
    <3>4. /\ requests[r].step \in {"claim", "lock", "check", "start", "put"} =>
               (requests[r].seen.version = store[i].version /\ requests[r].tries = 0
                  => requests[r].seen = store[i])
      BY DEF Versions, Reads
    <3>5. CASE requests[r].step \in {"claim", "lock", "check", "start", "put"}
      BY <1>1, <3>1, <3>2, <3>3, <3>4, <3>5, ExpiryRecorded
    <3>6. CASE requests[r].step \notin {"claim", "lock", "check", "start", "put"}
      <4>1. store'[i].checkout = store[i].checkout
        <5>1. store[i] \in Record
          BY <1>1 DEF Types
        <5> QED
          BY <3>3, <5>1 DEF ExpiredRecord, Record
      <4> QED
        BY <1>1, <3>6, <4>1 DEF RecordingOf
    <3> QED
      BY <3>5, <3>6
  <2>4. CASE PutUpdated(q) \/ PutCompleted(q) \/ PutCanceled(q)
    <3>1. Contest(q) /\ (store'[i].checkout = requests[q].seen.checkout \/ requests[q].seen.checkout = Nobody)
      BY <1>4, <2>1, <2>4, Decisions
    <3>2. requests[r].step = "done"
      BY <1>1, <2>1, <3>1 DEF Contest, InFlight
    <3>3. requests[q].seen.checkout = store[i].checkout
      BY <2>2 DEF OnlyExpired
    <3>4. Nobody # r
      BY AcpAssumption DEF AcpAssumption
    <3> QED
      BY <1>1, <3>1, <3>2, <3>3, <3>4 DEF RecordingOf
  <2> QED
    BY <1>4, <2>3, <2>4 DEF Writes
<1> QED
  BY <1>2, <1>3, <1>4, OwnStore

\* A completion that loses only to an expiry tries again, and no expiry comes after
\* another.
LEMMA OwnRecorded ==
  ASSUME Types, Control, Agreement, Read, Versions, Recording, Retries > 1, NEW r \in Requests,
         Handle(r) \/ Crash(r) \/ Throw(r), r \notin faulted' \cup contested, r \notin faulted,
         requests[r].op = "complete", requests[r].id \notin purged, Types'
  PROVE  RecordingOf(r, requests'[r], store'[requests[r].id])
<1> DEFINE i == requests[r].id
           Early == {"claim", "lock", "check", "start", "put"}
<1>1. RecordingOf(r, requests[r], store[i]) /\ requests[r] \in RequestRow /\ ReadOf(requests[r])
  BY RequestShapes DEF Recording, Read
<1>2. requests[r].step # "new" /\ i \in Ids
  <2>1. requests[r].step # "new"
    BY DEF Control, ControlOf, New
  <2> QED
    BY <2>1, KeysAreKeys
<1>3. ~Crash(r) /\ ~Throw(r)
  BY DEF Crash, Throw
\* The row keeps what was read, and goes on.
<1>4. ASSUME requests'[r].seen = requests[r].seen, requests'[r].tries = requests[r].tries,
             requests[r].step \in Early, requests'[r].step \in Early, UNCHANGED store
      PROVE  RecordingOf(r, requests'[r], store'[i])
  BY <1>1, <1>4 DEF RecordingOf
\* The row is past its write.
<1>5. ASSUME requests'[r].outcome = requests[r].outcome, UNCHANGED store,
             requests'[r].step \notin Early,
             \/ requests[r].outcome = "none"
             \/ requests[r].step \in {"bind", "release", "unlock", "done"}
      PROVE  RecordingOf(r, requests'[r], store'[i])
  BY <1>1, <1>5 DEF RecordingOf
<1>6. CASE Quiet(r)
  <2>1. requests[r].step \in {"check", "start"} /\ UNCHANGED store
    BY <1>3, <1>6 DEF Quiet, Rebuild, GetCart, RemoveLine, AddItem, AddRefused, RestoreCart,
       PutCreated, CheckUpdate, PutUpdated, CheckComplete, StartFails, CheckCancel,
       CancelCheckout, PutCanceled, At, Control, ControlOf
  <2>2. /\ requests'[r].seen = requests[r].seen /\ requests'[r].tries = requests[r].tries
        /\ requests'[r].outcome = requests[r].outcome /\ requests[r].outcome = "none"
    BY <1>1, <1>6, <2>1, QuietSteps DEF Steady, ReadOf
  <2>3. requests'[r].step \in {"bind", "release", "start"}
    BY <1>6, Routes
  <2> QED
    BY <1>4, <1>5, <2>1, <2>2, <2>3
<1>7. CASE Expire(r)
  <2>1. requests[r].step = "expire" /\ requests[r].tries = 0 /\ requests[r].outcome = "none"
    BY <1>1, <1>7 DEF Expire, ReadOf
  <2>2. CASE requests'[r] = [requests[r] EXCEPT !.seen = store'[i], !.step = "claim"]
    <3>1. requests'[r].seen = store'[i] /\ requests'[r].step = "claim" /\ requests'[r].tries = 0
      BY <1>1, <2>1, <2>2 DEF RequestRow
    <3> QED
      BY <3>1 DEF RecordingOf
  <2> QED
    BY <1>7, <2>1, <2>2, LoudSteps DEF RecordingOf
<1>8. CASE BeginIdempotency(r)
  <2>1. requests[r].step = "claim" /\ requests[r].outcome = "none" /\ UNCHANGED store
    BY <1>1, <1>8 DEF BeginIdempotency, ReadOf
  <2>2. CASE requests'[r] = Ended(r)
    BY <1>5, <2>1, <2>2, EndedRow
  <2>3. ASSUME NEW s \in {"cart", "lock", "check"}, s # "cart",
               requests'[r] = [requests[r] EXCEPT !.until = now + ClaimTTL, !.step = s]
        PROVE  RecordingOf(r, requests'[r], store'[i])
    <3>1. /\ requests'[r].seen = requests[r].seen /\ requests'[r].tries = requests[r].tries
          /\ requests'[r].step = s
      BY <1>1, <2>3 DEF RequestRow
    <3> QED
      BY <1>4, <2>1, <2>3, <3>1
  <2> QED
    BY <1>8, <2>2, <2>3, LoudSteps
<1>9. CASE ClaimCompletionLock(r)
  <2>1. requests[r].step = "lock" /\ requests[r].outcome = "none" /\ UNCHANGED store
    BY <1>1, <1>9 DEF ClaimCompletionLock, ReadOf
  <2>2. CASE Steady(r) /\ requests'[r].step = "release"
    BY <1>5, <2>1, <2>2 DEF Steady
  <2>3. CASE requests'[r] = [requests[r] EXCEPT !.lock = now + ClaimTTL, !.step = "check"]
    <3>1. /\ requests'[r].seen = requests[r].seen /\ requests'[r].tries = requests[r].tries
          /\ requests'[r].step = "check"
      BY <1>1, <2>3 DEF RequestRow
    <3> QED
      BY <1>4, <2>1, <3>1
  <2> QED
    BY <1>9, <2>2, <2>3, LoudSteps
<1>10. ASSUME NEW status \in {"pending", "completed", "expired"}, StartCheckout(r, status)
       PROVE  RecordingOf(r, requests'[r], store'[i])
  <2>1. requests[r].step = "start" /\ UNCHANGED store
    BY <1>10 DEF StartCheckout, At
  <2>2. requests'[r] = [requests[r] EXCEPT !.step = "put", !.outcome = status]
    BY <1>10, LoudSteps
  <2>3. /\ requests'[r].seen = requests[r].seen /\ requests'[r].tries = requests[r].tries
        /\ requests'[r].step = "put"
    BY <1>1, <2>2 DEF RequestRow
  <2> QED
    BY <1>4, <2>1, <2>3
<1>11. CASE PutCompleted(r)
  <2>1. requests[r].step = "put" /\ store[i].version \in Nat /\ Reads(r)
    <3>1. store[i] \in Record
      BY <1>2 DEF Types
    <3> QED
      BY <1>11, <3>1 DEF PutCompleted, At, Record, Reads
  <2>2. Present(i)
    BY <2>1 DEF Versions
  <2>3. CASE Unchanged(i, requests[r].seen.version)
    <3>1. /\ store' = [store EXCEPT ![i] = CompletedRecord(r, requests[r].outcome)]
          /\ Go(r, "bind") \/ Go(r, "release")
      BY <1>11, <2>3 DEF PutCompleted
    <3>2. requests[r].outcome \in {"pending", "completed"} => store'[i].checkout = r
      <4>1. requests[r].seen \in Record
        BY <1>1 DEF RequestRow
      <4>2. \A o \in {"pending", "completed"} : CompletedRecord(r, o).checkout = r
        BY <4>1 DEF CompletedRecord, Record
      <4> QED
        BY <1>2, <3>1, <4>2 DEF Types
    <3>3. requests'[r].outcome = requests[r].outcome /\ requests'[r].step \in {"bind", "release"}
      BY <3>1, GoSteady DEF Steady
    <3> QED
      BY <3>2, <3>3 DEF RecordingOf
  <2>4. CASE ~Unchanged(i, requests[r].seen.version)
    <3>1. /\ requests[r].tries = 0 /\ store[i].expired /\ OnlyExpired(requests[r].seen, store[i])
      BY <1>1, <2>1, <2>2, <2>4 DEF RecordingOf, Unchanged
    <3>2. UNCHANGED store /\ requests' = [requests EXCEPT ![r].seen.version = store[i].version,
                                                          ![r].tries = @ + 1]
      BY <1>11, <2>2, <2>4, <3>1 DEF PutCompleted
    <3>3. requests'[r] = [requests[r] EXCEPT !.seen.version = store[i].version,
                                             !.tries = requests[r].tries + 1]
      BY <3>2 DEF Types
    <3>4. requests'[r].seen.version = store[i].version /\ requests'[r].step = "put"
      <4>1. requests[r].seen \in Record
        BY <1>1 DEF RequestRow
      <4> QED
        BY <1>1, <2>1, <3>3, <4>1 DEF RequestRow, Record
    <3> QED
      BY <3>1, <3>2, <3>4 DEF RecordingOf
  <2> QED
    BY <2>3, <2>4
<1>12. CASE BindKey(r) \/ ReleaseKey(r) \/ ReleaseLock(r)
  <2>1. (Finish(r) \/ AfterKey(r)) /\ UNCHANGED store /\ requests[r].step \in {"bind", "release", "unlock"}
    BY <1>12 DEF BindKey, ReleaseKey, ReleaseLock
  <2> QED
    BY <1>5, <2>1, EndRow
<1> QED
  BY <1>3, <1>6, <1>7, <1>8, <1>9, <1>10, <1>11, <1>12 DEF Handle, Quiet

\* A completion nobody contests keeps up with its record.
LEMMA RecordingStep ==
  ASSUME Types, Control, Agreement, Read, Apart, Versions, Recording, Retries > 1, [Next]_vars, Types'
  PROVE  Recording'
<1> DEFINE Recorded(r) ==
      r \notin faulted \cup contested /\ requests[r].op = "complete" /\ requests[r].id \notin purged
        => RecordingOf(r, requests[r], store[requests[r].id])
<1>1. \A r \in Requests : Recorded(r)
  BY DEF Recording
<1>2. contested \subseteq contested' /\ faulted \subseteq faulted' /\ purged \subseteq purged'
  BY ContestedKept
<1>3. ASSUME NEW q \in Requests, Handle(q) \/ Crash(q) \/ Throw(q), NEW r \in Requests
      PROVE  Recorded(r)'
  <2>1. CASE r = q
    <3>1. requests'[r].op = requests[r].op /\ requests'[r].id = requests[r].id
      BY <1>3, <2>1, Asked
    <3> QED
      BY <1>2, <1>3, <2>1, <3>1, OwnRecorded
  <2>2. CASE r # q
    <3>1. requests'[r] = requests[r]
      BY <1>3, <2>2, OneRequest
    <3> QED
      BY <1>2, <1>3, <2>2, <3>1, OthersRecorded
  <2> QED
    BY <2>1, <2>2
<1>4. ASSUME NEW r \in Requests, requests'[r] = requests[r], UNCHANGED store
      PROVE  Recorded(r)'
  BY <1>1, <1>2, <1>4
<1>5. ASSUME NEW r \in Requests, NEW op \in Ops, NEW i \in Ids, NEW k \in Keys, NEW b \in Buyers,
             NEW want \in Wants(op), Arrive(r, op, i, k, want, b), NEW q \in Requests
      PROVE  Recorded(q)'
  <2>1. /\ requests'[r].op = op /\ requests'[r].id = i /\ requests'[r].tries = 0
        /\ requests'[r].step \in {"expire", "claim"} /\ UNCHANGED store
        /\ op # "create" => requests'[r].seen = store[i]
    BY <1>5 DEF Arrive, Types, New
  <2>2. \A p \in Requests \ {r} : requests'[p] = requests[p]
    BY <1>5 DEF Arrive, Types
  <2>3. Recorded(r)'
    BY <2>1 DEF RecordingOf
  <2> QED
    BY <1>4, <2>1, <2>2, <2>3
<1>6. ASSUME CleanupExpired, NEW r \in Requests
      PROVE  Recorded(r)'
  <2> SUFFICES ASSUME r \notin faulted' \cup contested', requests'[r].op = "complete",
                      requests'[r].id \notin purged'
               PROVE  RecordingOf(r, requests[r], store'[requests[r].id])
    BY <1>6, CleanupShapes
  <2> DEFINE i == requests[r].id
  <2>1. /\ requests'[r] = requests[r] /\ requests[r].op = "complete" /\ i \notin purged /\ i \notin purged'
        /\ RecordingOf(r, requests[r], store[i])
    BY <1>1, <1>2, <1>6, CleanupShapes
  <2>2. requests[r].step # "new" /\ i \in Ids
    <3>1. requests[r].step # "new"
      BY <2>1 DEF Control, ControlOf, New
    <3> QED
      BY <3>1, KeysAreKeys
  <2>3. CASE ~store[i].expired /\ store[i].status \notin Terminal /\ store'[i] = ExpiredRecord(store[i], now)
    <3>1. CASE requests[r].step \in {"claim", "lock", "check", "start", "put"}
      <4>1. requests[r].seen.version = store[i].version /\ requests[r].tries = 0
              => requests[r].seen = store[i]
        BY <2>1, <3>1 DEF Versions, Reads
      <4> QED
        BY <2>1, <2>2, <2>3, <4>1, ExpiryRecorded
    <3>2. CASE requests[r].step \notin {"claim", "lock", "check", "start", "put"}
      <4>1. store'[i].checkout = store[i].checkout
        <5>1. store[i] \in Record
          BY <2>2 DEF Types
        <5> QED
          BY <2>3, <5>1 DEF ExpiredRecord, Record
      <4> QED
        BY <2>1, <3>2, <4>1 DEF RecordingOf
    <3> QED
      BY <3>1, <3>2
  <2> QED
    BY <1>6, <2>1, <2>2, <2>3, CleanupShapes DEF IsExpired
<1>7. ASSUME \/ \E c \in Requests, status \in {"completed", "expired"} : PaymentSettles(c, status)
             \/ Tick \/ UNCHANGED vars, NEW r \in Requests
      PROVE  Recorded(r)'
  <2>1. UNCHANGED <<requests, store>>
    BY <1>7 DEF PaymentSettles, Tick, vars
  <2> QED
    BY <1>4, <2>1
<1>8. \A r \in Requests : Recorded(r)'
  BY <1>3, <1>5, <1>6, <1>7 DEF Next
<1> QED
  BY <1>8 DEF Recording

----------------------------------------------------------------------------
(* The inductive invariants hold at the start *)

\* At the start there are sessions nobody has asked for anything.
LEMMA InitHolds ==
  ASSUME Init
  PROVE  /\ Types /\ Control /\ Agreement /\ Charges /\ Timed /\ Owners /\ Punctual /\ Makers
         /\ Read /\ Apart /\ Versions /\ Recording
<1>1. \A r \in Requests : requests[r] = New
  BY DEF Init
<1>2. Types
  <2>1. \A i \in Ids : Created(i) \in Record
    <3>1. 1 + SessionTTL \in Nat
      BY Lifetimes
    <3>2. NoRecord \in Record /\ First \in SUBSET Items
      BY RowShapes, AcpAssumption DEF AcpAssumption
    <3> QED
      BY <3>1, <3>2 DEF Created, Record
  <2>2. NoPayment \in PaymentRow /\ First \in SUBSET Items
    BY AcpAssumption DEF AcpAssumption, NoPayment, PaymentRow
  <2>3. carts \in [Ids -> CartRow]
    BY <2>2 DEF Init, CartRow
  <2>4. store \in [Ids -> Record]
    BY <2>1, RowShapes DEF Init
  <2>5. now \in 1..MaxTime
    BY Lifetimes DEF Init
  <2> QED
    BY <2>2, <2>3, <2>4, <2>5, RowShapes DEF Init, Types
<1>3. \A i \in Ids : store[i].checkout = Nobody /\ ~store[i].expired /\ store[i].status # "canceled"
  BY DEF Init, Created, NoRecord
<1>4. Control /\ Timed /\ Read
  BY <1>1 DEF Control, ControlOf, Timed, TimesOf, Read, ReadOf, New
<1>5. Agreement /\ Charges
  BY <1>1, <1>3 DEF Init, Agreement, Agrees, Charges, RequestCharges, New, NoRecord, NoPayment
<1>6. Owners /\ Punctual /\ Versions /\ Recording
  BY <1>1 DEF Owners, Punctual, Versions, Recording, Reads, InFlight, New
<1>7. Makers
  BY DEF Init, Makers
<1>8. Apart
  BY <1>1 DEF Init, Apart, Present, Created, NoRecord, New
<1> QED
  BY <1>2, <1>4, <1>5, <1>6, <1>7, <1>8

\* What every reachable state satisfies.
Core == Types /\ Control /\ Agreement /\ Charges

Claiming == Timed /\ Owners /\ Punctual /\ Makers

Reading == Read /\ Apart /\ Versions

\* Types, control, agreement and charges are inductive together.
LEMMA CoreHolds == Spec => []Core
<1>1. Init => Core
  BY InitHolds DEF Core
<1>2. Core /\ [Next]_vars => Core'
  BY TypesStep, ControlStep, AgreementStep, ChargesStep DEF Core
<1> QED
  BY <1>1, <1>2, PTL DEF Spec

\* Records, claims, carts, payments and what requests remember keep their shapes,
\* and a record names a checkout that was started.
THEOREM TypeCorrect == Spec => []TypeOK
<1>1. Core => TypeOK
  BY DEF Core, Types, Agreement, Agrees, TypeOK, ClaimRow, CartRow, PaymentRow, RequestRow
<1> QED
  BY <1>1, CoreHolds, PTL

\* What a record shows as bought is what its checkout charges.
THEOREM SnapshotCharged == Spec => []SnapshotIsCharged
<1>1. Core => SnapshotIsCharged
  BY DEF Core, Agreement, Agrees, SnapshotIsCharged
<1> QED
  BY <1>1, CoreHolds, PTL

\* No checkout of a canceled session waits for its payment.
THEOREM CanceledStops == Spec => []CanceledStopsPayment
<1>1. Core => CanceledStopsPayment
  BY DEF Core, Agreement, Agrees, CanceledStopsPayment
<1> QED
  BY <1>1, CoreHolds, PTL

\* A claim that has not lapsed is its owner's, and a key makes one session.
THEOREM ClaimsExcludeOthers == Spec => []ClaimsExclude
<1>1. Init => Claiming
  BY InitHolds DEF Claiming
<1>2. Core /\ Core' /\ Claiming /\ [Next]_vars => Claiming'
  BY TimedStep, OwnersStep, PunctualStep, MakersStep DEF Core, Claiming
<1>3. Core /\ Claiming => ClaimsExclude
  BY OwnersFenced, MakersOneSession DEF Core, Claiming, ClaimsExclude
<1> QED
  BY <1>1, <1>2, <1>3, CoreHolds, PTL DEF Spec

\* Given those, what requests read, apart and by version, is inductive.
LEMMA ReadingHolds == Spec => []Reading
<1>1. Init => Reading
  BY InitHolds DEF Reading
<1>2. Core /\ Core' /\ Reading /\ [Next]_vars => Reading'
  BY ReadStep, ApartStep, VersionsStep DEF Core, Reading
<1> QED
  BY <1>1, <1>2, CoreHolds, PTL DEF Spec

\* A completed or canceled session stays what it is until it is purged.
THEOREM TerminalStay == Spec => TerminalStays
<1>1. Core /\ Reading /\ [Next]_vars
        => [\A i \in Ids : store[i].status \in Terminal /\ i \notin purged'
                            => store'[i].status = store[i].status]_vars
  BY TerminalKept DEF Core, Reading
<1> QED
  BY <1>1, CoreHolds, ReadingHolds, PTL DEF Spec, TerminalStays

\* When a completion is over its session names the checkout it started, unless
\* another decision was stored while it ran: one retry is enough.
THEOREM PaymentRecorded ==
  ASSUME Retries > 1
  PROVE  Spec => []PaymentIsRecorded
<1>1. Init => Recording
  BY InitHolds
<1>2. Core /\ Core' /\ Reading /\ Recording /\ [Next]_vars => Recording'
  BY RecordingStep DEF Core, Reading
<1>3. Reading /\ Recording => PaymentIsRecorded
  <2> SUFFICES ASSUME Reading, Recording, NEW r \in Requests \ (faulted \cup contested), Over(r),
                      requests[r].outcome \in {"pending", "completed"}, requests[r].id \notin purged
               PROVE  store[requests[r].id].checkout = r
    BY DEF PaymentIsRecorded
  <2>1. requests[r].op = "complete"
    BY DEF Reading, Read, ReadOf
  <2> QED
    BY <2>1 DEF Over, Recording, RecordingOf
<1> QED
  BY <1>1, <1>2, <1>3, CoreHolds, ReadingHolds, PTL DEF Spec

=============================================================================
