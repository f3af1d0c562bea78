--------------------------- MODULE CheckoutProofs ---------------------------
(***************************************************************************)
(* Theorems about Checkout, for every number of requests, checkouts, keys  *)
(* and lines, every capacity and every life of a session.                  *)
(*                                                                         *)
(* The inductive invariant has five parts:                                 *)
(*                                                                         *)
(*   Control    what a request remembers at each of its steps              *)
(*   Documents  which checkouts exist, and who may start or claim one      *)
(*   Claiming   the start that claimed the pending cart                    *)
(*   Freeing    who gives units back has given back the lines behind it    *)
(*   Keeping    a start holds the lines behind it, until its claim ends    *)
(***************************************************************************)
EXTENDS Checkout, FiniteSetTheorems, TLAPS

----------------------------------------------------------------------------
(* The inductive invariant *)

Moments == 1..(LineCount + 1)  \* a line, or the end of the loop over the lines

StartSteps == {"claim", "reserve", "extend", "put_checkout", "put_cart", "release", "mark_failed"}
StopSteps  == {"expire", "read_cart", "put_open", "read_checkout"}
PaySteps   == {"complete", "read_cart", "put_cart", "consume"}

AllSteps == {"idle"} \cup StartSteps \cup StopSteps \cup PaySteps

RequestType ==
  [op : {"idle", "start", "cancel", "expire", "reopen", "pay"}, step : AllSteps,
   checkout : Checkouts \cup {Nobody}, line : 0..(LineCount + 1), at : 0..MaxTime,
   cart : CartDocument, expires : Nat]

\* A cart waits for a start or for a stored checkout, never for both.
WellFormed(k) ==
  /\ k.status = "open" => k.session = Nobody
  /\ k.status = "checkout_pending" => k.claim # Nobody \/ k.session # Nobody
  /\ k.status = "converted" => k.session # Nobody
  /\ k.session # Nobody => k.claim = Nobody

ControlOf(q) ==
  /\ WellFormed(q.cart) /\ q.at <= now
  /\ q.op = "idle" => q = Idle
  /\ q.op \in {"start", "cancel", "expire", "pay"} => q.checkout \in Checkouts
  /\ q.op = "start" => q.step \in StartSteps
  /\ q.step = "claim" => q.cart.status = "open"
  /\ q.op = "cancel" => q.step \in {"expire", "read_cart", "put_open"}
  /\ q.op = "expire" => q.step = "expire"
  /\ q.op = "reopen" => q.step \in {"read_checkout", "expire"} /\ q.cart.status = "checkout_pending"
                                                             /\ q.checkout = q.cart.session
  /\ q.op = "pay" => q.step \in PaySteps
  /\ q.step \in {"reserve", "release", "expire"} => q.line \in Moments
  /\ q.step = "put_open" => q.cart.status = "checkout_pending"
  /\ q.op = "pay" /\ q.step = "put_cart" =>
       q.cart.status = "checkout_pending" /\ q.cart.session = q.checkout
  /\ q.step = "consume" => q.line \in Lines

Control ==
  /\ TypeOK /\ WellFormed(cart)
  /\ requests \in [Requests -> RequestType]
  /\ \A r \in Requests : ControlOf(requests[r])

\* Which checkouts are stored, started or claimed.
IsStored(c) == checkouts[c].status # "absent"

Unstored == {"claim", "reserve", "extend", "put_checkout"}

Refers(k) ==
  /\ k.session # Nobody => IsStored(k.session)
  /\ k.claim # Nobody => keyOf[k.claim] # Unused

DocumentsOf(q) ==
  /\ Refers(q.cart)
  /\ q.op = "start" =>
       /\ keyOf[q.checkout] # Unused
       /\ q.step \in Unstored => ~IsStored(q.checkout)
       /\ q.step \in {"put_cart", "mark_failed"} => IsStored(q.checkout)
  /\ q.op \notin {"idle", "start"} /\ q.checkout # Nobody => IsStored(q.checkout)

Alone == \A r, q \in Requests :
  requests[r].op = "start" /\ requests[q].op = "start" /\ requests[r].checkout = requests[q].checkout
    => r = q

Documents ==
  /\ Alone /\ Refers(cart)
  /\ \A r \in Requests : DocumentsOf(requests[r])
  /\ \A c \in Checkouts : /\ keyOf[c] = Unused => ~IsStored(c)
                          /\ checkouts[c].order => checkouts[c].status = "completed"

\* The start that claimed the pending cart is between its claim and its release.
ClaimingSteps == {"reserve", "extend", "put_checkout", "put_cart", "release"}

Claiming ==
  /\ ClaimHasOwner
  /\ \A r \in Requests :
       /\ requests[r].op = "start" /\ cart.status = "checkout_pending"
       /\ cart.claim = requests[r].checkout /\ cart.claim \notin broken
       => requests[r].step \in ClaimingSteps /\ requests[r].cart # NoCart

\* What a request gave back before the line it has come to.
Idles(c, S) == \A l \in S : holds[c][l] # "active"

Before(r) == {l \in Lines : l < requests[r].line}

FreeingOf(r) ==
  LET c == requests[r].checkout
  IN  /\ At(r, "start", "claim") => \A l \in Lines : holds[c][l] = "absent"
      /\ At(r, "start", "reserve") => \A l \in Lines \ Before(r) : holds[c][l] = "absent"
      /\ At(r, "start", "release") /\ c \notin broken => Idles(c, Before(r))
      /\ At(r, "start", "mark_failed") /\ c \notin broken => Idles(c, Lines)
      /\ requests[r].op \in {"cancel", "expire"} /\ requests[r].step = "expire" => Idles(c, Before(r))

Freeing ==
  /\ \A r \in Requests : FreeingOf(r)
  /\ \A c \in Checkouts :
       /\ keyOf[c] = Unused => \A l \in Lines : holds[c][l] = "absent"
       /\ checkouts[c].status \in {"cancelled", "expired", "failed"} /\ c \notin broken
          /\ provider[c] # "closed" => Idles(c, Lines)
       /\ ~IsStored(c) /\ ~Starting(c) /\ c \notin broken => Idles(c, Lines)

\* What a start that is not late holds.
Holds(c, S) == \A l \in S : holds[c][l] \in {"active", "consumed"}

Late(c) == c \in slow \cup broken

KeepingOf(r) ==
  LET q == requests[r]
      c == q.checkout
  IN  /\ q.op = "start" /\ ~Late(c) => now < q.at + TTL
      /\ At(r, "start", "reserve") /\ ~Late(c) =>
           /\ Holds(c, Wanted(r) \cap Before(r))
           /\ q.line > 1 => holdEnds[c] >= q.at + TTL
      /\ At(r, "start", "extend") /\ ~Late(c) => Holds(c, Wanted(r)) /\ holdEnds[c] >= q.at + TTL
      /\ At(r, "start", "put_checkout") => holdEnds[c] >= q.expires
      /\ At(r, "start", "put_checkout") /\ ~Late(c) => Holds(c, Wanted(r))/\ holdEnds[c] >= q.at + TTL
      /\ At(r, "reopen", "expire") /\ c # Nobody => checkouts[c].status # "created" \/ checkouts[c].expires <= now
      /\ q.op = "cancel" /\ q.step \in {"read_cart", "put_open"} => checkouts[c].status # "created"

Keeping ==
  /\ LiveCheckoutHoldsStock
  /\ \A r \in Requests : KeepingOf(r)
  /\ \A c \in Checkouts : IsStored(c) => holdEnds[c] >= checkouts[c].expires

----------------------------------------------------------------------------
(* Constants, rows and lines *)

\* Facts the constants give.
LEMMA Constants ==
  /\ LineCount \in Nat \ {0} /\ TTL \in Nat \ {0} /\ MaxTTL \in Nat /\ TTL <= MaxTTL
  /\ MaxTime \in Nat /\ Capacity \in [Lines -> Nat] /\ IsFiniteSet(Checkouts)
  /\ Nobody \notin Checkouts /\ Unused \notin Keys \cup {NoKey}
BY CheckoutAssumption DEF CheckoutAssumption, Lines

\* A loop over lines runs from the first line to one past the last.
LEMMA LineFacts ==
  /\ 1 \in Lines /\ 1 \in Moments /\ Lines \subseteq Nat /\ Moments \subseteq 0..(LineCount + 1)
  /\ \A l \in Lines : l \in Moments /\ l + 1 \in Moments /\ l + 1 > l
  /\ \A n \in Moments : n \notin Lines => \A l \in Lines : l < n
  /\ \A n \in Moments, l \in Lines : l < n + 1 <=> l < n \/ l = n
  /\ \A b \in BOOLEAN : LinesOf(b) \subseteq Lines /\ 1 \in LinesOf(b)
BY Constants DEF Lines, Moments, LinesOf

\* The empty records have the shapes of the full ones.
LEMMA EmptyRows ==
  /\ NoCart \in CartDocument /\ WellFormed(NoCart)
  /\ Idle \in RequestType /\ Idle.op = "idle" /\ Idle.step = "idle" /\ Idle.checkout = Nobody
  /\ Idle.cart = NoCart /\ Idle.at = 0
  /\ NoCheckout \in CheckoutDocument
<1>1. NoCart \in CartDocument /\ WellFormed(NoCart)
  BY DEF NoCart, CartDocument, WellFormed
<1>2. Idle \in RequestType
  BY <1>1, Constants DEF Idle, RequestType, AllSteps
<1> QED
  BY <1>1, <1>2 DEF NoCheckout, CheckoutDocument, Statuses, Idle

\* What is known of a request at every moment.
LEMMA RowTyped ==
  ASSUME Control, NEW r \in Requests
  PROVE  /\ requests[r] \in RequestType /\ requests[r].step \in AllSteps
         /\ requests[r].op \in {"idle", "start", "cancel", "expire", "reopen", "pay"}
         /\ requests[r].checkout \in Checkouts \cup {Nobody} /\ requests[r].line \in 0..(LineCount + 1)
         /\ requests[r].at \in 0..MaxTime /\ requests[r].cart \in CartDocument
         /\ requests[r].expires \in Nat
         /\ ControlOf(requests[r]) /\ WellFormed(requests[r].cart) /\ requests[r].at <= now
         /\ now \in 0..MaxTime
<1>1. requests[r] \in RequestType /\ ControlOf(requests[r]) /\ now \in 0..MaxTime
  BY DEF Control, TypeOK
<1> QED
  BY <1>1 DEF RequestType, ControlOf

----------------------------------------------------------------------------
(* What a step makes of the record of its request *)

\* The records of the other requests stay.
Only(r) == requests' \in [Requests -> RequestType] /\ \A q \in Requests \ {r} : requests'[q] = requests[q]

Ends(r) == Only(r) /\ requests'[r] = Idle

Begins(r, record) == Only(r) /\ requests[r] = Idle /\ requests'[r] = record

\* The request goes on with the same operation and checkout.
Becomes(r, step, line, kart, expires) ==
  /\ Only(r)
  /\ requests'[r].step = step /\ requests'[r].line = line /\ requests'[r].cart = kart
  /\ requests'[r].expires = expires /\ requests'[r].op = requests[r].op
  /\ requests'[r].checkout = requests[r].checkout /\ requests'[r].at = requests[r].at

\* The same, with the cart it read before.
Goes(r, step, line) == Becomes(r, step, line, requests[r].cart, requests[r].expires)

\* A record that is written is the record of its request, and of no other.
LEMMA Writes ==
  ASSUME Control, NEW r \in Requests, NEW row \in RequestType, requests' = [requests EXCEPT ![r] = row]
  PROVE  Only(r) /\ requests'[r] = row
<1>1. requests \in [Requests -> RequestType]
  BY DEF Control
<1> QED
  BY <1>1 DEF Only

\* Finish, Go, NextLine and Begin write one record each.
LEMMA FinishEnds ==
  ASSUME Control, NEW r \in Requests, Finish(r)
  PROVE  Ends(r)
BY Writes, EmptyRows DEF Finish, Ends

\* A record that changes in its step, line, cart and expiry.
LEMMA Changes ==
  ASSUME Control, NEW r \in Requests, NEW step \in AllSteps, NEW line \in 0..(LineCount + 1),
         NEW kart \in CartDocument, NEW expires \in Nat,
         requests' = [requests EXCEPT ![r] =
           [requests[r] EXCEPT !.step = step, !.line = line, !.cart = kart, !.expires = expires]]
  PROVE  Becomes(r, step, line, kart, expires)
<1>1. PICK row : row = [requests[r] EXCEPT !.step = step, !.line = line, !.cart = kart, !.expires = expires]
  OBVIOUS
<1>2. requests[r] \in RequestType
  BY RowTyped
<1>3. row \in RequestType
  BY <1>1, <1>2 DEF RequestType
<1>4. Only(r) /\ requests'[r] = row
  BY <1>1, <1>3, Writes
<1>5. /\ row.step = step /\ row.line = line /\ row.cart = kart /\ row.expires = expires
      /\ row.op = requests[r].op /\ row.checkout = requests[r].checkout /\ row.at = requests[r].at
  BY <1>1, <1>2 DEF RequestType
<1> QED
  BY <1>4, <1>5 DEF Becomes

\* Go begins a step at the first line.
LEMMA GoGoes ==
  ASSUME Control, NEW r \in Requests, NEW step \in AllSteps, Go(r, step)
  PROVE  Goes(r, step, 1)
<1>1. requests \in [Requests -> RequestType] /\ requests[r] \in RequestType
  BY RowTyped DEF Control
<1>2. requests' = [requests EXCEPT ![r] =
        [requests[r] EXCEPT !.step = step, !.line = 1, !.cart = requests[r].cart, !.expires = requests[r].expires]]
  BY <1>1 DEF Go, RequestType
<1>3. 1 \in 0..(LineCount + 1)
  BY LineFacts
<1> QED
  BY <1>2, <1>3, Changes, RowTyped DEF Goes

\* NextLine stays at its step.
LEMMA NextLineGoes ==
  ASSUME Control, NEW r \in Requests, requests[r].line \in Lines, NextLine(r)
  PROVE  Goes(r, requests[r].step, requests[r].line + 1)
<1>1. requests \in [Requests -> RequestType] /\ requests[r] \in RequestType
  BY RowTyped DEF Control
<1>2. requests' = [requests EXCEPT ![r] =
        [requests[r] EXCEPT !.step = requests[r].step, !.line = requests[r].line + 1,
                            !.cart = requests[r].cart, !.expires = requests[r].expires]]
  BY <1>1 DEF NextLine, RequestType
<1>3. requests[r].line + 1 \in 0..(LineCount + 1)
  BY LineFacts
<1> QED
  BY <1>2, <1>3, Changes, RowTyped DEF Goes

\* Begin takes a request that is idle.
LEMMA BeginBegins ==
  ASSUME Control, NEW r \in Requests, NEW record \in RequestType, Begin(r, record)
  PROVE  Begins(r, record)
BY Writes DEF Begin, Begins

----------------------------------------------------------------------------
(* What a step of a request does, field by field *)

HoldStatuses == {"absent", "active", "released", "expired", "consumed"}

Sets(c, l, status) ==
  /\ holds' \in [Checkouts -> [Lines -> HoldStatuses]]
  /\ holds'[c][l] = status
  /\ \A d \in Checkouts, m \in Lines : d # c \/ m # l => holds'[d][m] = holds[d][m]

Updates(c) ==
  /\ checkouts' \in [Checkouts -> CheckoutDocument]
  /\ \A d \in Checkouts \ {c} : checkouts'[d] = checkouts[d]

Timeless == UNCHANGED <<now, slow, broken>>

Quiet == UNCHANGED <<cart, checkouts, keyOf, holds, holdEnds, provider>> /\ Timeless

PutsCart == UNCHANGED <<checkouts, keyOf, holds, holdEnds, provider>> /\ Timeless

PutsCheckout(r) ==
  Updates(requests[r].checkout) /\ UNCHANGED <<cart, keyOf, holds, holdEnds, provider>> /\ Timeless

PutsHold == UNCHANGED <<cart, checkouts, keyOf, holdEnds, provider>> /\ Timeless

Starts(r, c, k) ==
  /\ Only(r) /\ requests[r] = Idle /\ requests'[r].op = "start" /\ requests'[r].checkout = c
  /\ requests'[r].at = now
  /\ \/ requests'[r].step = "claim" /\ requests'[r].cart = cart /\ cart.status = "open"
     \/ requests'[r].step = "reserve" /\ requests'[r].line = 1 /\ requests'[r].cart = NoCart
  /\ keyOf[c] = Unused /\ keyOf' = [keyOf EXCEPT ![c] = k]
  /\ UNCHANGED <<cart, checkouts, holds, holdEnds, provider>> /\ Timeless

Claims(r) ==
  /\ At(r, "start", "claim") /\ Goes(r, "reserve", 1)
  /\ cart.status = "open" /\ cart' \in CartDocument /\ cart'.status = "checkout_pending"
  /\ cart'.claim = requests[r].checkout /\ cart'.session = cart.session
  /\ PutsCart

Reserves(r) ==
  LET c == requests[r].checkout
      l == requests[r].line
  IN  /\ At(r, "start", "reserve") /\ l \in Wanted(r) /\ Available(l)
      /\ Goes(r, "reserve", l + 1)
      /\ Sets(c, l, "active")
      /\ holdEnds' \in [Checkouts -> Nat] /\ holdEnds'[c] = requests[r].at + TTL
      /\ \A d \in Checkouts \ {c} : holdEnds'[d] = holdEnds[d]
      /\ UNCHANGED <<cart, checkouts, keyOf, provider>> /\ Timeless

Fails(r) ==
  /\ requests[r].op = "start" /\ requests[r].step \in {"reserve", "extend", "put_checkout", "put_cart"}
  /\ Goes(r, "release", 1) /\ Quiet

Answers(r, x) ==
  /\ AllReserved(r) /\ x \in Expiries(r)
  /\ Becomes(r, "extend", requests[r].line, requests[r].cart, x)
  /\ provider' \in [Checkouts -> {"none", "open", "paid", "expired", "closed"}]
  /\ \A d \in Checkouts \ {requests[r].checkout} : provider'[d] = provider[d]
  /\ UNCHANGED <<cart, checkouts, keyOf, holds, holdEnds>> /\ Timeless

Extends(r) ==
  /\ At(r, "start", "extend") /\ Goes(r, "put_checkout", 1)
  /\ holdEnds' \in [Checkouts -> Nat] /\ \A d \in Checkouts : holdEnds'[d] >= holdEnds[d]
  /\ holdEnds'[requests[r].checkout] >= requests[r].expires
  /\ UNCHANGED <<cart, checkouts, keyOf, holds, provider>> /\ Timeless

Stores(r) ==
  LET c == requests[r].checkout
  IN  /\ At(r, "start", "put_checkout") /\ Goes(r, "put_cart", 1)
      /\ checkouts'[c].status \in {"completed", "created", "cancelled", "expired", "failed"}
      /\ checkouts'[c].status \in {"completed", "created"} \/ provider[c] = "closed"
      /\ checkouts'[c].order = FALSE
      /\ checkouts'[c].cart = (requests[r].cart # NoCart)
      /\ checkouts'[c].expires = requests[r].expires
      /\ PutsCheckout(r)

HandsOver(r) ==
  /\ At(r, "start", "put_cart") /\ Ends(r)
  /\ cart' \in CartDocument
  /\ \/ requests[r].cart = NoCart /\ cart' = cart
     \/ /\ requests[r].cart # NoCart /\ cart'.status = "checkout_pending"
        /\ cart'.claim = Nobody /\ cart'.session = requests[r].checkout
  /\ PutsCart

GivesBack(r) ==
  LET c == requests[r].checkout
      l == requests[r].line
  IN  /\ \/ At(r, "start", "release")
         \/ requests[r].op \in {"cancel", "expire", "reopen"} /\ requests[r].step = "expire"
      /\ c \in Checkouts /\ l \in Lines /\ Goes(r, requests[r].step, l + 1)
      /\ \/ holds' = holds /\ holds[c][l] # "active"
         \/ holds[c][l] = "active" /\ \E status \in {"released", "expired"} : Sets(c, l, status)
      /\ PutsHold

Unclaims(r) ==
  LET c == requests[r].checkout
  IN  /\ AllReleased(r)
      /\ cart' \in CartDocument
      /\ \/ /\ cart' = cart
            /\ requests[r].cart = NoCart \/ cart.status # "checkout_pending" \/ cart.claim # c
         \/ /\ cart.status = "checkout_pending" /\ cart.claim = c
            /\ cart'.status = "open" /\ cart'.claim = Nobody /\ cart'.session = cart.session
      /\ \/ ~IsStored(c) /\ Ends(r)
         \/ IsStored(c) /\ Goes(r, "mark_failed", 1)
      /\ PutsCart

Marks(r) ==
  LET c == requests[r].checkout
  IN  /\ At(r, "start", "mark_failed") /\ Ends(r)
      /\ checkouts'[c].status = "failed" /\ checkouts'[c].order = FALSE
      /\ checkouts'[c].cart = checkouts[c].cart /\ checkouts'[c].expires = checkouts[c].expires
      /\ PutsCheckout(r)

Looks(r) ==
  /\ Only(r) /\ requests[r] = Idle /\ Quiet
  /\ \/ /\ requests'[r].op \in {"cancel", "expire"} /\ requests'[r].step = "expire"
        /\ requests'[r].line = 1 /\ requests'[r].cart = NoCart /\ requests'[r].at = 0
        /\ requests'[r].checkout \in Checkouts /\ checkouts[requests'[r].checkout].status = "created"
     \/ /\ requests'[r].op = "reopen" /\ requests'[r].step = "read_checkout"
        /\ requests'[r].checkout = cart.session /\ requests'[r].cart = cart
        /\ requests'[r].at = now /\ cart.status = "checkout_pending"
     \/ /\ requests'[r].op = "pay" /\ requests'[r].step = "complete" /\ requests'[r].cart = NoCart
        /\ requests'[r].at = 0
        /\ requests'[r].checkout \in Checkouts /\ IsStored(requests'[r].checkout)

\* A cancel or an expiry turns a checkout that is created, unless it was paid.
Turns(r) ==
  LET c == requests[r].checkout
  IN  /\ AllExpired(r, "cancel") \/ AllExpired(r, "expire")
      /\ \/ /\ checkouts'[c] = checkouts[c]
            /\ checkouts[c].status # "created" \/ checkouts[c].order
         \/ /\ checkouts[c].status \in {"created", "expired"}
            /\ checkouts'[c].status \in {"cancelled", "expired"}
            /\ checkouts'[c].order = checkouts[c].order
            /\ checkouts'[c].cart = checkouts[c].cart /\ checkouts'[c].expires = checkouts[c].expires
      /\ \/ Ends(r)
         \/ requests[r].op = "cancel" /\ checkouts'[c].status # "created" /\ Goes(r, "read_cart", 1)
      /\ PutsCheckout(r)

Reads(r) ==
  LET c == requests[r].checkout
  IN  /\ Quiet
      /\ \/ /\ At(r, "start", "claim") \/ At(r, "cancel", "read_cart") \/ At(r, "reopen", "read_checkout")
            /\ Ends(r)
         \/ /\ At(r, "cancel", "read_cart") /\ cart.status = "checkout_pending"
            /\ Becomes(r, "put_open", requests[r].line, cart, requests[r].expires)
         \/ /\ At(r, "reopen", "read_checkout") /\ Goes(r, "expire", 1)
            /\ c # Nobody => checkouts[c].status # "created" \/ checkouts[c].expires <= requests[r].at
         \/ /\ At(r, "pay", "read_cart") /\ cart.status = "checkout_pending" /\ cart.session = c
            /\ Becomes(r, "put_cart", requests[r].line, cart, requests[r].expires)
         \/ At(r, "pay", "read_cart") /\ Goes(r, "consume", 1)

Reopens(r) ==
  /\ At(r, "cancel", "put_open") \/ AllExpired(r, "reopen")
  /\ Ends(r)
  /\ cart' \in CartDocument /\ cart'.status = "open" /\ cart'.session = Nobody
  /\ cart'.claim = requests[r].cart.claim
  /\ PutsCart

Completes(r) ==
  LET c == requests[r].checkout
  IN  /\ At(r, "pay", "complete")
      /\ Goes(r, "read_cart", 1) \/ Goes(r, "consume", 1)
      /\ checkouts'[c].status = "completed" /\ checkouts'[c].order = TRUE
      /\ checkouts'[c].cart = checkouts[c].cart /\ checkouts'[c].expires = checkouts[c].expires
      /\ PutsCheckout(r)

Converts(r) ==
  /\ At(r, "pay", "put_cart") /\ Goes(r, "consume", 1)
  /\ cart' \in CartDocument /\ cart'.status = "converted"
  /\ cart'.session = requests[r].cart.session /\ cart'.claim = requests[r].cart.claim
  /\ PutsCart

Consumes(r) ==
  LET c == requests[r].checkout
      l == requests[r].line
  IN  /\ At(r, "pay", "consume")
      /\ \/ holds' = holds
         \/ holds[c][l] = "active" /\ Sets(c, l, "consumed")
         \/ holds[c][l] = "expired" /\ Available(l) /\ Sets(c, l, "consumed")
      /\ Ends(r) \/ (l + 1 \in Lines /\ Goes(r, "consume", l + 1))
      /\ PutsHold

\* A start whose clean-up fails goes on with it, or ends there like one that dies.
Slips(r) ==
  /\ requests[r].op = "start" /\ requests[r].step = "release"
  /\ \/ Goes(r, "release", LineCount + 1)
     \/ AllReleased(r) /\ IsStored(requests[r].checkout) /\ Goes(r, "mark_failed", 1)

Breaks(r) ==
  /\ (requests[r] # Idle /\ Ends(r)) \/ Slips(r)
  /\ broken' = broken \cup {requests[r].checkout}
  /\ UNCHANGED <<cart, checkouts, keyOf, holds, holdEnds, provider, now, slow>>

Step(r) ==
  \/ \E c \in Checkouts, k \in Keys \cup {NoKey} : Starts(r, c, k)
  \/ Claims(r) \/ Reserves(r) \/ Fails(r) \/ (\E x \in Nat : Answers(r, x)) \/ Extends(r)
  \/ Stores(r) \/ HandsOver(r) \/ GivesBack(r) \/ Unclaims(r) \/ Marks(r) \/ Looks(r) \/ Turns(r)
  \/ Reads(r) \/ Reopens(r) \/ Completes(r) \/ Converts(r) \/ Consumes(r) \/ Breaks(r)

----------------------------------------------------------------------------
(* Every action of a request is one of these steps *)

\* One reservation event is written.
LEMMA HoldSets ==
  ASSUME Control, NEW c \in Checkouts, NEW l \in Lines, NEW status \in HoldStatuses, SetHold(c, l, status)
  PROVE  Sets(c, l, status)
<1>1. holds \in [Checkouts -> [Lines -> HoldStatuses]]
  BY DEF Control, TypeOK, HoldStatuses
<1> QED
  BY <1>1 DEF SetHold, Sets

\* One checkout document is written.
LEMMA CheckoutUpdates ==
  ASSUME Control, NEW c \in Checkouts, NEW row \in CheckoutDocument,
         checkouts' = [checkouts EXCEPT ![c] = row]
  PROVE  Updates(c) /\ checkouts'[c] = row
<1>1. checkouts \in [Checkouts -> CheckoutDocument]
  BY DEF Control, TypeOK
<1> QED
  BY <1>1 DEF Updates

\* The fields of a checkout document.
LEMMA CheckoutTyped ==
  ASSUME Control, NEW c \in Checkouts
  PROVE  /\ checkouts[c] \in CheckoutDocument /\ checkouts[c].status \in Statuses
         /\ checkouts[c].order \in BOOLEAN /\ checkouts[c].cart \in BOOLEAN
         /\ checkouts[c].expires \in Nat
<1>1. checkouts[c] \in CheckoutDocument
  BY DEF Control, TypeOK
<1> QED
  BY <1>1 DEF CheckoutDocument

\* A start begins with a claim, or with its one line.
LEMMA BeginStartStarts ==
  ASSUME Control, NEW r \in Requests, NEW c \in Checkouts, NEW k \in Keys \cup {NoKey}, BeginStart(r, c, k)
  PROVE  Starts(r, c, k)
<1>1. Idle \in RequestType /\ now \in 0..MaxTime /\ cart \in CartDocument
  BY EmptyRows DEF Control, TypeOK
<1>2. CASE /\ cart.status = "open"
           /\ Begin(r, [Idle EXCEPT !.op = "start", !.step = "claim", !.checkout = c,
                                    !.at = now, !.cart = cart])
  <2>1. PICK row : row = [Idle EXCEPT !.op = "start", !.step = "claim", !.checkout = c,
                                      !.at = now, !.cart = cart]
    OBVIOUS
  <2>2. row \in RequestType
    BY <1>1, <2>1 DEF RequestType, AllSteps, StartSteps
  <2>3. row.op = "start" /\ row.step = "claim" /\ row.checkout = c /\ row.at = now /\ row.cart = cart
    BY <1>1, <2>1 DEF RequestType
  <2>4. Begins(r, row)
    BY <1>2, <2>1, <2>2, BeginBegins
  <2> QED
    BY <1>2, <2>3, <2>4 DEF BeginStart, Starts, Begins, Timeless, history
<1>3. CASE Begin(r, [Idle EXCEPT !.op = "start", !.step = "reserve", !.checkout = c,
                                 !.at = now, !.line = 1])
  <2>1. PICK row : row = [Idle EXCEPT !.op = "start", !.step = "reserve", !.checkout = c,
                                      !.at = now, !.line = 1]
    OBVIOUS
  <2>2. row \in RequestType
    BY <1>1, <2>1, LineFacts DEF RequestType, AllSteps, StartSteps
  <2>3. row.op = "start" /\ row.step = "reserve" /\ row.checkout = c /\ row.at = now /\ row.line = 1
        /\ row.cart = NoCart
    BY <1>1, <2>1, EmptyRows DEF RequestType
  <2>4. Begins(r, row)
    BY <1>3, <2>1, <2>2, BeginBegins
  <2> QED
    BY <1>3, <2>3, <2>4 DEF BeginStart, Starts, Begins, Timeless, history
<1> QED
  BY <1>2, <1>3 DEF BeginStart

\* The claim is a compare-and-set on the version of the cart.
LEMMA ClaimCartClaims ==
  ASSUME Control, NEW r \in Requests, ClaimCart(r)
  PROVE  Claims(r) \/ Reads(r)
<1>1. At(r, "start", "claim") /\ requests[r].checkout \in Checkouts /\ cart \in CartDocument
  BY RowTyped DEF ClaimCart, At, ControlOf, Control, TypeOK
<1>2. CASE UNCHANGED cart /\ Finish(r)
  BY <1>1, <1>2, FinishEnds DEF ClaimCart, Reads, Quiet, Timeless, history
<1>3. CASE /\ cart.status = "open"
           /\ cart' = [cart EXCEPT !.status = "checkout_pending", !.version = @ + 1,
                                   !.claim = requests[r].checkout, !.claimEnds = requests[r].at + TTL]
           /\ Go(r, "reserve")
  <2>1. Goes(r, "reserve", 1)
    BY <1>3, GoGoes DEF AllSteps, StartSteps
  <2>2. PICK ends \in Nat : ends = requests[r].at + TTL
    BY RowTyped, Constants
  <2>3. PICK version \in Nat : version = cart.version + 1
    BY <1>1 DEF CartDocument
  <2>4. cart' = [cart EXCEPT !.status = "checkout_pending", !.version = version,
                             !.claim = requests[r].checkout, !.claimEnds = ends]
    BY <1>3, <2>2, <2>3
  <2>5. /\ cart' \in CartDocument /\ cart'.status = "checkout_pending"
        /\ cart'.claim = requests[r].checkout /\ cart'.session = cart.session
    BY <1>1, <2>4 DEF CartDocument
  <2> QED
    BY <1>1, <1>3, <2>1, <2>5 DEF ClaimCart, Claims, PutsCart, Timeless, history
<1> QED
  BY <1>2, <1>3 DEF ClaimCart

\* A line that is reserved is one of the cart.
LEMMA ReserveLineReserves ==
  ASSUME Control, NEW r \in Requests, ReserveLine(r)
  PROVE  Reserves(r)
<1> DEFINE c == requests[r].checkout
           l == requests[r].line
<1>1. At(r, "start", "reserve") /\ c \in Checkouts /\ l \in Wanted(r) /\ l \in Lines
  BY RowTyped, LineFacts DEF ReserveLine, At, ControlOf, Wanted
<1>2. Goes(r, "reserve", l + 1)
  BY <1>1, NextLineGoes DEF ReserveLine, At
<1>3. Sets(c, l, "active")
  BY <1>1, HoldSets DEF ReserveLine, HoldStatuses
<1>4. PICK ends \in Nat : ends = requests[r].at + TTL
  BY RowTyped, Constants
<1>5. holdEnds \in [Checkouts -> Nat] /\ holdEnds' = [holdEnds EXCEPT ![c] = ends]
  BY <1>4 DEF ReserveLine, Control, TypeOK
<1>6. /\ holdEnds' \in [Checkouts -> Nat] /\ holdEnds'[c] = requests[r].at + TTL
      /\ \A d \in Checkouts \ {c} : holdEnds'[d] = holdEnds[d]
  BY <1>1, <1>4, <1>5
<1> QED
  BY <1>1, <1>2, <1>3, <1>6 DEF ReserveLine, Reserves, Timeless, history

\* Every way to fail before the last write goes to the release.
LEMMA FailuresFail ==
  ASSUME Control, NEW r \in Requests,
         ReserveFails(r) \/ ProviderFails(r) \/ ExtendFails(r) \/ PersistFails(r)
  PROVE  Fails(r)
<1>1. Go(r, "release") /\ UNCHANGED <<stores, now, history>>
  BY DEF ReserveFails, ProviderFails, ExtendFails, PersistFails
<1>2. Goes(r, "release", 1)
  BY <1>1, GoGoes DEF AllSteps, StartSteps
<1>3. requests[r].op = "start" /\ requests[r].step \in {"reserve", "extend", "put_checkout", "put_cart"}
  BY DEF ReserveFails, ProviderFails, ExtendFails, PersistFails, At, AllReserved
<1> QED
  BY <1>1, <1>2, <1>3 DEF Fails, Quiet, Timeless, stores, history

\* The provider's session ends at one of two times.
LEMMA ProviderAnswersAnswers ==
  ASSUME Control, NEW r \in Requests, NEW session \in Sessions, NEW x \in Expiries(r),
         ProviderAnswers(r, session, x)
  PROVE  x \in Nat /\ Answers(r, x)
<1>1. AllReserved(r) /\ requests[r].checkout \in Checkouts
  BY RowTyped DEF ProviderAnswers, AllReserved, At, ControlOf
<1>2. x \in Nat
  BY RowTyped, Constants DEF Expiries
<1>3. requests \in [Requests -> RequestType] /\ requests[r] \in RequestType
  BY RowTyped DEF Control
<1>4. requests' = [requests EXCEPT ![r] =
        [requests[r] EXCEPT !.step = "extend", !.line = requests[r].line,
                            !.cart = requests[r].cart, !.expires = x]]
  BY <1>3 DEF ProviderAnswers, RequestType
<1>5. Becomes(r, "extend", requests[r].line, requests[r].cart, x)
  <2>1. "extend" \in AllSteps
    BY DEF AllSteps, StartSteps
  <2> QED
    BY <1>2, <1>4, <2>1, Changes, RowTyped
<1>6. session \in {"none", "open", "paid", "expired", "closed"}
  BY CheckoutAssumption DEF CheckoutAssumption
<1>7. provider \in [Checkouts -> {"none", "open", "paid", "expired", "closed"}]
  BY DEF Control, TypeOK
<1>8. provider' = [provider EXCEPT ![requests[r].checkout] = session]
  BY DEF ProviderAnswers
<1>9. /\ provider' \in [Checkouts -> {"none", "open", "paid", "expired", "closed"}]
      /\ \A d \in Checkouts \ {requests[r].checkout} : provider'[d] = provider[d]
  BY <1>1, <1>6, <1>7, <1>8
<1> QED
  BY <1>1, <1>2, <1>5, <1>9 DEF ProviderAnswers, Answers, Timeless, history

\* The reservations end no sooner than the session.
LEMMA ExtendExtends ==
  ASSUME Control, NEW r \in Requests, Extend(r)
  PROVE  Extends(r)
<1>1. At(r, "start", "extend") /\ requests[r].checkout \in Checkouts
  BY RowTyped DEF Extend, At, ControlOf
<1>2. Goes(r, "put_checkout", 1)
  BY GoGoes DEF Extend, AllSteps, StartSteps
<1>3. holdEnds \in [Checkouts -> Nat] /\ requests[r].expires \in Nat
  BY RowTyped DEF Control, TypeOK
<1>4. /\ holdEnds' \in [Checkouts -> Nat] /\ \A d \in Checkouts : holdEnds'[d] >= holdEnds[d]
      /\ holdEnds'[requests[r].checkout] >= requests[r].expires
  BY <1>1, <1>3 DEF Extend
<1> QED
  BY <1>1, <1>2, <1>4 DEF Extend, Extends, Timeless, history

\* The document a start stores.
LEMMA PutCheckoutStores ==
  ASSUME Control, NEW r \in Requests, PutCheckout(r)
  PROVE  Stores(r)
<1> DEFINE c == requests[r].checkout
<1>1. At(r, "start", "put_checkout") /\ c \in Checkouts
  BY RowTyped DEF PutCheckout, At, ControlOf
<1>2. Goes(r, "put_cart", 1)
  BY GoGoes DEF PutCheckout, AllSteps, StartSteps
<1>3. PICK status \in Outcome(provider[c]) :
        checkouts' = [checkouts EXCEPT ![c] =
          [status |-> status, order |-> FALSE, cart |-> requests[r].cart # NoCart,
           expires |-> requests[r].expires]]
  BY DEF PutCheckout
<1>9. /\ status \in {"completed", "created", "cancelled", "expired", "failed"}
      /\ status \in {"completed", "created"} \/ provider[c] = "closed"
  <2>1. CASE provider[c] = "paid"
    BY <1>3, <2>1 DEF Outcome
  <2>2. CASE provider[c] = "closed"
    BY <1>3, <2>2 DEF Outcome
  <2>3. CASE provider[c] \notin {"paid", "closed"}
    BY <1>3, <2>3 DEF Outcome
  <2> QED
    BY <2>1, <2>2, <2>3
<1>4. PICK hasCart \in BOOLEAN : hasCart = (requests[r].cart # NoCart)
  OBVIOUS
<1>5. PICK row : row = [status |-> status, order |-> FALSE, cart |-> hasCart, expires |-> requests[r].expires]
  OBVIOUS
<1>6. row \in CheckoutDocument
  BY <1>5, <1>9, RowTyped DEF CheckoutDocument, Statuses, Live
<1>7. checkouts' = [checkouts EXCEPT ![c] = row]
  BY <1>3, <1>4, <1>5
<1>8. Updates(c) /\ checkouts'[c] = row
  BY <1>1, <1>6, <1>7, CheckoutUpdates
<1> QED
  BY <1>1, <1>2, <1>4, <1>5, <1>8, <1>9 DEF PutCheckout, Stores, PutsCheckout, Timeless, history

\* The cart a start hands over.
LEMMA PutCartHandsOver ==
  ASSUME Control, NEW r \in Requests, PutCart(r)
  PROVE  HandsOver(r)
<1>1. At(r, "start", "put_cart") /\ requests[r].checkout \in Checkouts /\ cart \in CartDocument
  BY RowTyped DEF PutCart, At, ControlOf, Control, TypeOK
<1>2. Ends(r)
  BY FinishEnds DEF PutCart
<1>3. CASE requests[r].cart = NoCart
  BY <1>1, <1>2, <1>3 DEF PutCart, HandsOver, PutsCart, Timeless, history
<1>4. CASE requests[r].cart # NoCart
  <2>1. PICK version \in Nat : version = requests[r].cart.version + 1
    BY RowTyped DEF CartDocument
  <2>2. cart' = [status |-> "checkout_pending", version |-> version, claim |-> Nobody,
                 claimEnds |-> 0, session |-> requests[r].checkout]
    BY <1>4, <2>1 DEF PutCart
  <2>3. /\ cart' \in CartDocument /\ cart'.status = "checkout_pending"
        /\ cart'.claim = Nobody /\ cart'.session = requests[r].checkout
    BY <1>1, <2>2 DEF CartDocument
  <2> QED
    BY <1>1, <1>2, <1>4, <2>3 DEF PutCart, HandsOver, PutsCart, Timeless, history
<1> QED
  BY <1>3, <1>4

\* A loop that gives units back ends one reservation, if it is active.
LEMMA LoopsGiveBack ==
  ASSUME Control, NEW r \in Requests, ReleaseLine(r) \/ ExpireLine(r)
  PROVE  GivesBack(r)
<1> DEFINE c == requests[r].checkout
           l == requests[r].line
<1>1. /\ \/ At(r, "start", "release")
         \/ requests[r].op \in {"cancel", "expire", "reopen"} /\ requests[r].step = "expire"
      /\ c \in Checkouts /\ l \in Lines /\ NextLine(r)
  BY RowTyped DEF ReleaseLine, ExpireLine, At, ControlOf
<1>2. Goes(r, requests[r].step, l + 1)
  BY <1>1, NextLineGoes
<1>3. PICK status \in {"released", "expired"} : EndHold(c, l, status)
  BY DEF ReleaseLine, ExpireLine
<1>4. \/ holds' = holds /\ holds[c][l] # "active"
      \/ holds[c][l] = "active" /\ Sets(c, l, status)
  BY <1>1, <1>3, HoldSets DEF EndHold, HoldStatuses
<1> QED
  BY <1>1, <1>2, <1>4 DEF GivesBack, ReleaseLine, ExpireLine, PutsHold, Timeless, history

\* The claim that is released is the one of this start.
LEMMA ReleaseClaimUnclaims ==
  ASSUME Control, NEW r \in Requests, ReleaseClaim(r)
  PROVE  Unclaims(r)
<1> DEFINE c == requests[r].checkout
<1>1. AllReleased(r) /\ c \in Checkouts /\ cart \in CartDocument
  BY RowTyped DEF ReleaseClaim, AllReleased, At, ControlOf, Control, TypeOK
<1>2. \/ ~IsStored(c) /\ Ends(r)
      \/ IsStored(c) /\ Goes(r, "mark_failed", 1)
  BY FinishEnds, GoGoes DEF ReleaseClaim, IsStored, AllSteps, StartSteps
<1>3. CASE requests[r].cart # NoCart /\ cart.status = "checkout_pending" /\ cart.claim = c
  <2>1. PICK version \in Nat : version = cart.version + 1
    BY <1>1 DEF CartDocument
  <2>2. cart' = [cart EXCEPT !.status = "open", !.version = version, !.claim = Nobody, !.claimEnds = 0]
    BY <1>3, <2>1 DEF ReleaseClaim
  <2>3. cart' \in CartDocument /\ cart'.status = "open" /\ cart'.claim = Nobody /\ cart'.session = cart.session
    BY <1>1, <2>2 DEF CartDocument
  <2> QED
    BY <1>1, <1>2, <1>3, <2>3 DEF ReleaseClaim, Unclaims, PutsCart, Timeless, history
<1>4. CASE ~(requests[r].cart # NoCart /\ cart.status = "checkout_pending" /\ cart.claim = c)
  <2>1. cart' = cart
    BY <1>4 DEF ReleaseClaim
  <2> QED
    BY <1>1, <1>2, <1>4, <2>1 DEF ReleaseClaim, Unclaims, PutsCart, Timeless, history
<1> QED
  BY <1>3, <1>4

\* A document whose status changes keeps the rest.
LEMMA StatusChanges ==
  ASSUME Control, NEW c \in Checkouts, NEW status \in Statuses, NEW order \in BOOLEAN,
         checkouts' = [checkouts EXCEPT ![c] = [checkouts[c] EXCEPT !.status = status, !.order = order]]
  PROVE  /\ Updates(c) /\ checkouts'[c].status = status /\ checkouts'[c].order = order
         /\ checkouts'[c].cart = checkouts[c].cart /\ checkouts'[c].expires = checkouts[c].expires
<1>1. PICK row : row = [checkouts[c] EXCEPT !.status = status, !.order = order]
  OBVIOUS
<1>2. checkouts[c] \in CheckoutDocument
  BY CheckoutTyped
<1>3. row \in CheckoutDocument
  BY <1>1, <1>2 DEF CheckoutDocument
<1>4. Updates(c) /\ checkouts'[c] = row
  BY <1>1, <1>3, CheckoutUpdates
<1>5. /\ row.status = status /\ row.order = order
      /\ row.cart = checkouts[c].cart /\ row.expires = checkouts[c].expires
  BY <1>1, <1>2 DEF CheckoutDocument
<1> QED
  BY <1>4, <1>5

\* The document of a start that failed after it was stored.
LEMMA MarkCheckoutMarks ==
  ASSUME Control, NEW r \in Requests, MarkCheckoutPersistenceFailed(r)
  PROVE  Marks(r)
<1> DEFINE c == requests[r].checkout
<1>1. At(r, "start", "mark_failed") /\ c \in Checkouts
  BY RowTyped DEF MarkCheckoutPersistenceFailed, At, ControlOf
<1>2. Ends(r)
  BY FinishEnds DEF MarkCheckoutPersistenceFailed
<1>3. checkouts \in [Checkouts -> CheckoutDocument] /\ checkouts[c] \in CheckoutDocument
  BY <1>1, CheckoutTyped DEF Control, TypeOK
<1>4. checkouts' = [checkouts EXCEPT ![c] = [checkouts[c] EXCEPT !.status = "failed", !.order = FALSE]]
  BY <1>1, <1>3 DEF MarkCheckoutPersistenceFailed, CheckoutDocument
<1>5. /\ Updates(c) /\ checkouts'[c].status = "failed" /\ checkouts'[c].order = FALSE
      /\ checkouts'[c].cart = checkouts[c].cart /\ checkouts'[c].expires = checkouts[c].expires
  BY <1>1, <1>4, StatusChanges DEF Statuses
<1> QED
  BY <1>1, <1>2, <1>5 DEF MarkCheckoutPersistenceFailed, Marks, PutsCheckout, Timeless, history

\* The document of a payment.
LEMMA PutCompletedCompletes ==
  ASSUME Control, NEW r \in Requests, PutCompleted(r)
  PROVE  Completes(r)
<1> DEFINE c == requests[r].checkout
<1>1. At(r, "pay", "complete") /\ c \in Checkouts
  BY RowTyped DEF PutCompleted, At, ControlOf
<1>2. Goes(r, "read_cart", 1) \/ Goes(r, "consume", 1)
  <2>1. "read_cart" \in AllSteps /\ "consume" \in AllSteps
    BY DEF AllSteps, PaySteps
  <2>2. Go(r, "read_cart") \/ Go(r, "consume")
    BY DEF PutCompleted
  <2> QED
    BY <2>1, <2>2, GoGoes
<1>3. checkouts \in [Checkouts -> CheckoutDocument] /\ checkouts[c] \in CheckoutDocument
  BY <1>1, CheckoutTyped DEF Control, TypeOK
<1>4. checkouts' = [checkouts EXCEPT ![c] = [checkouts[c] EXCEPT !.status = "completed", !.order = TRUE]]
  BY <1>1, <1>3 DEF PutCompleted, CheckoutDocument
<1>5. /\ Updates(c) /\ checkouts'[c].status = "completed" /\ checkouts'[c].order = TRUE
      /\ checkouts'[c].cart = checkouts[c].cart /\ checkouts'[c].expires = checkouts[c].expires
  BY <1>1, <1>4, StatusChanges DEF Statuses
<1> QED
  BY <1>1, <1>2, <1>5 DEF PutCompleted, Completes, PutsCheckout, Timeless, history

\* putCheckoutIfNotSettled decides by the stored document.
LEMMA PutIfNotSettled ==
  ASSUME Control, NEW c \in Checkouts, NEW status \in {"cancelled", "expired"},
         NEW allowed \in {Live, Live \cup {"expired"}}, putCheckoutIfNotSettled(c, status, allowed)
  PROVE  /\ Updates(c)
         /\ \/ /\ checkouts'[c] = checkouts[c]
               /\ checkouts[c].status # "created" \/ checkouts[c].order
            \/ /\ checkouts[c].status \in {"created", "expired"}
               /\ checkouts'[c].status \in {"cancelled", "expired"}
               /\ checkouts'[c].order = checkouts[c].order
               /\ checkouts'[c].cart = checkouts[c].cart /\ checkouts'[c].expires = checkouts[c].expires
<1>1. checkouts \in [Checkouts -> CheckoutDocument] /\ checkouts[c] \in CheckoutDocument
      /\ checkouts[c].order \in BOOLEAN
  BY CheckoutTyped DEF Control, TypeOK
<1>2. CASE checkouts[c].status \in allowed /\ ~Settled(c)
  <2>1. checkouts' = [checkouts EXCEPT ![c] = [checkouts[c] EXCEPT !.status = status, !.order = checkouts[c].order]]
    BY <1>1, <1>2 DEF putCheckoutIfNotSettled, CheckoutDocument
  <2>2. status \in Statuses
    BY DEF Statuses
  <2>3. /\ Updates(c) /\ checkouts'[c].status = status /\ checkouts'[c].order = checkouts[c].order
        /\ checkouts'[c].cart = checkouts[c].cart /\ checkouts'[c].expires = checkouts[c].expires
    BY <1>1, <2>1, <2>2, StatusChanges
  <2> QED
    BY <1>2, <2>3 DEF Live
<1>3. CASE ~(checkouts[c].status \in allowed /\ ~Settled(c))
  <2>1. checkouts' = checkouts
    BY <1>3 DEF putCheckoutIfNotSettled
  <2> QED
    BY <1>1, <1>3, <2>1 DEF Updates, Settled, Live
<1> QED
  BY <1>2, <1>3

\* A cancel goes on to the cart only when it turned the document.
LEMMA StopsTurn ==
  ASSUME Control, NEW r \in Requests, PutCancelled(r) \/ PutExpired(r)
  PROVE  Turns(r)
<1> DEFINE c == requests[r].checkout
<1>1. /\ AllExpired(r, "cancel") \/ AllExpired(r, "expire")
      /\ c \in Checkouts /\ checkouts[c].order \in BOOLEAN
  <2>1. AllExpired(r, "cancel") \/ AllExpired(r, "expire")
    BY DEF PutCancelled, PutExpired
  <2>2. c \in Checkouts
    BY <2>1, RowTyped DEF AllExpired, At, ControlOf
  <2> QED
    BY <2>1, <2>2, CheckoutTyped
<1>2. CASE PutCancelled(r)
  <2>1. /\ Updates(c)
        /\ \/ /\ checkouts'[c] = checkouts[c]
              /\ checkouts[c].status # "created" \/ checkouts[c].order
           \/ /\ checkouts[c].status \in {"created", "expired"}
              /\ checkouts'[c].status \in {"cancelled", "expired"}
              /\ checkouts'[c].order = checkouts[c].order
              /\ checkouts'[c].cart = checkouts[c].cart /\ checkouts'[c].expires = checkouts[c].expires
    BY <1>1, <1>2, PutIfNotSettled DEF PutCancelled
  <2>2. CASE checkouts[c].cart /\ checkouts[c].status \in Live /\ ~Settled(c)
    <3>1. checkouts'[c].status # "created"
      BY <2>1, <2>2 DEF Settled
    <3>2. Goes(r, "read_cart", 1)
      BY <1>2, <2>2, GoGoes DEF PutCancelled, AllSteps, StopSteps
    <3>3. requests[r].op = "cancel"
      BY <1>2 DEF PutCancelled, AllExpired, At
    <3> QED
      BY <1>1, <1>2, <2>1, <3>1, <3>2, <3>3 DEF PutCancelled, Turns, PutsCheckout, Timeless, history
  <2>3. CASE ~(checkouts[c].cart /\ checkouts[c].status \in Live /\ ~Settled(c))
    <3>1. Ends(r)
      BY <1>2, <2>3, FinishEnds DEF PutCancelled
    <3> QED
      BY <1>1, <1>2, <2>1, <3>1 DEF PutCancelled, Turns, PutsCheckout, Timeless, history
  <2> QED
    BY <2>2, <2>3
<1>3. CASE PutExpired(r)
  <2>1. Ends(r)
    BY <1>3, FinishEnds DEF PutExpired
  <2>2. /\ Updates(c)
        /\ \/ /\ checkouts'[c] = checkouts[c]
              /\ checkouts[c].status # "created" \/ checkouts[c].order
           \/ /\ checkouts[c].status \in {"created", "expired"}
              /\ checkouts'[c].status \in {"cancelled", "expired"}
              /\ checkouts'[c].order = checkouts[c].order
              /\ checkouts'[c].cart = checkouts[c].cart /\ checkouts'[c].expires = checkouts[c].expires
    BY <1>1, <1>3, PutIfNotSettled DEF PutExpired
  <2> QED
    BY <1>1, <1>3, <2>1, <2>2 DEF PutExpired, Turns, PutsCheckout, Timeless, history
<1> QED
  BY <1>2, <1>3

\* A request that begins to cancel, to expire, to reopen or to pay.
LEMMA BeginsLook ==
  ASSUME Control, NEW r \in Requests,
         \/ \E c \in Checkouts : BeginCancel(r, c) \/ BeginExpire(r, c) \/ BeginPayment(r, c)
         \/ BeginReopen(r)
  PROVE  Looks(r)
<1>1. Idle \in RequestType /\ now \in 0..MaxTime /\ cart \in CartDocument
  BY EmptyRows DEF Control, TypeOK
<1>2. ASSUME NEW c \in Checkouts, NEW op \in {"cancel", "expire"}, checkouts[c].status \in Live,
             Begin(r, [Idle EXCEPT !.op = op, !.step = "expire", !.checkout = c, !.line = 1]),
             UNCHANGED <<stores, now, history>>
      PROVE  Looks(r)
  <2>1. PICK row : row = [Idle EXCEPT !.op = op, !.step = "expire", !.checkout = c, !.line = 1]
    OBVIOUS
  <2>2. row \in RequestType
    BY <1>1, <2>1, LineFacts DEF RequestType, AllSteps, StopSteps
  <2>3. row.op = op /\ row.step = "expire" /\ row.checkout = c /\ row.line = 1
        /\ row.cart = NoCart /\ row.at = 0
    BY <1>1, <2>1, EmptyRows DEF RequestType
  <2>4. Begins(r, row)
    BY <1>2, <2>1, <2>2, BeginBegins
  <2>5. checkouts[c].status = "created"
    BY <1>2 DEF Live
  <2> QED
    BY <1>2, <2>3, <2>4, <2>5 DEF Looks, Begins, Quiet, Timeless, stores, history
<1>3. ASSUME NEW c \in Checkouts, BeginPayment(r, c)
      PROVE  Looks(r)
  <2>1. PICK row : row = [Idle EXCEPT !.op = "pay", !.step = "complete", !.checkout = c]
    OBVIOUS
  <2>2. row \in RequestType
    BY <1>1, <2>1 DEF RequestType, AllSteps, PaySteps
  <2>3. row.op = "pay" /\ row.step = "complete" /\ row.checkout = c /\ row.cart = NoCart /\ row.at = 0
    BY <1>1, <2>1, EmptyRows DEF RequestType
  <2>4. Begins(r, row)
    BY <1>3, <2>1, <2>2, BeginBegins DEF BeginPayment
  <2>5. IsStored(c)
    BY <1>3 DEF BeginPayment, IsStored
  <2> QED
    BY <1>3, <2>3, <2>4, <2>5 DEF BeginPayment, Looks, Begins, Quiet, Timeless, stores, history
<1>4. CASE BeginReopen(r)
  <2>1. PICK row : row = [Idle EXCEPT !.op = "reopen", !.step = "read_checkout",
                                      !.checkout = cart.session, !.at = now, !.cart = cart]
    OBVIOUS
  <2>2. cart.session \in Checkouts \cup {Nobody}
    BY <1>1 DEF CartDocument
  <2>3. row \in RequestType
    BY <1>1, <2>1, <2>2 DEF RequestType, AllSteps, StopSteps
  <2>4. row.op = "reopen" /\ row.step = "read_checkout" /\ row.checkout = cart.session
        /\ row.cart = cart /\ row.at = now
    BY <1>1, <2>1 DEF RequestType
  <2>5. Begins(r, row)
    BY <1>4, <2>1, <2>3, BeginBegins DEF BeginReopen
  <2> QED
    BY <1>4, <2>4, <2>5 DEF BeginReopen, Looks, Begins, Quiet, Timeless, stores, history
<1>5. ASSUME NEW c \in Checkouts, BeginCancel(r, c) \/ BeginExpire(r, c)
      PROVE  Looks(r)
  <2>1. PICK op \in {"cancel", "expire"} :
          Begin(r, [Idle EXCEPT !.op = op, !.step = "expire", !.checkout = c, !.line = 1])
    BY <1>5 DEF BeginCancel, BeginExpire
  <2> QED
    BY <1>2, <1>5, <2>1 DEF BeginCancel, BeginExpire
<1> QED
  BY <1>3, <1>4, <1>5

\* What a request reads decides how it goes on.
LEMMA ReadsRead ==
  ASSUME Control, NEW r \in Requests,
         ReadCartToReopen(r) \/ ReadCheckoutToReopen(r) \/ ReadCartToConvert(r)
  PROVE  Reads(r)
<1>1. UNCHANGED <<stores, now, history>>
  BY DEF ReadCartToReopen, ReadCheckoutToReopen, ReadCartToConvert
<1>2. Quiet
  BY <1>1 DEF Quiet, Timeless, stores, history
<1>3. ASSUME NEW step \in {"put_open", "put_cart"},
             requests' = [requests EXCEPT ![r].step = step, ![r].cart = cart]
      PROVE  Becomes(r, step, requests[r].line, cart, requests[r].expires)
  <2>1. requests \in [Requests -> RequestType] /\ requests[r] \in RequestType /\ cart \in CartDocument
    BY RowTyped DEF Control, TypeOK
  <2>2. requests' = [requests EXCEPT ![r] =
          [requests[r] EXCEPT !.step = step, !.line = requests[r].line,
                              !.cart = cart, !.expires = requests[r].expires]]
    BY <1>3, <2>1 DEF RequestType
  <2>3. step \in AllSteps
    BY DEF AllSteps, StopSteps, PaySteps
  <2> QED
    BY <2>1, <2>2, <2>3, Changes, RowTyped
<1>4. CASE ReadCartToReopen(r)
  <2>1. At(r, "cancel", "read_cart")
    BY <1>4 DEF ReadCartToReopen
  <2>2. CASE cart.status = "checkout_pending"
    <3>1. Becomes(r, "put_open", requests[r].line, cart, requests[r].expires)
      BY <1>3, <1>4, <2>2 DEF ReadCartToReopen
    <3> QED
      BY <1>2, <2>1, <2>2, <3>1 DEF Reads
  <2>3. CASE cart.status # "checkout_pending"
    <3>1. Ends(r)
      BY <1>4, <2>3, FinishEnds DEF ReadCartToReopen
    <3> QED
      BY <1>2, <2>1, <3>1 DEF Reads
  <2> QED
    BY <2>2, <2>3
<1>5. CASE ReadCheckoutToReopen(r)
  <2>1. At(r, "reopen", "read_checkout")
    BY <1>5 DEF ReadCheckoutToReopen
  <2>2. CASE /\ requests[r].checkout # Nobody
             /\ \/ checkouts[requests[r].checkout].status = "completed"
                \/ Resumable(requests[r].checkout, requests[r].at)
    <3>1. Ends(r)
      BY <1>5, <2>2, FinishEnds DEF ReadCheckoutToReopen
    <3> QED
      BY <1>2, <2>1, <3>1 DEF Reads
  <2>3. CASE ~(/\ requests[r].checkout # Nobody
               /\ \/ checkouts[requests[r].checkout].status = "completed"
                  \/ Resumable(requests[r].checkout, requests[r].at))
    <3>1. Goes(r, "expire", 1)
      BY <1>5, <2>3, GoGoes DEF ReadCheckoutToReopen, AllSteps, StopSteps
    <3>2. requests[r].checkout # Nobody =>
            \/ checkouts[requests[r].checkout].status # "created"
            \/ ~(checkouts[requests[r].checkout].expires > requests[r].at)
      BY <2>3 DEF Resumable, Live
    <3>3. requests[r].checkout # Nobody =>
            \/ checkouts[requests[r].checkout].status # "created"
            \/ checkouts[requests[r].checkout].expires <= requests[r].at
      BY <3>2, RowTyped, CheckoutTyped
    <3> QED
      BY <1>2, <2>1, <3>1, <3>3 DEF Reads
  <2> QED
    BY <2>2, <2>3
<1>6. CASE ReadCartToConvert(r)
  <2>1. At(r, "pay", "read_cart")
    BY <1>6 DEF ReadCartToConvert
  <2>2. CASE cart.status = "checkout_pending" /\ cart.session = requests[r].checkout
    <3>1. Becomes(r, "put_cart", requests[r].line, cart, requests[r].expires)
      BY <1>3, <1>6, <2>2 DEF ReadCartToConvert
    <3> QED
      BY <1>2, <2>1, <2>2, <3>1 DEF Reads
  <2>3. CASE ~(cart.status = "checkout_pending" /\ cart.session = requests[r].checkout)
    <3>1. Goes(r, "consume", 1)
      BY <1>6, <2>3, GoGoes DEF ReadCartToConvert, AllSteps, PaySteps
    <3> QED
      BY <1>2, <2>1, <3>1 DEF Reads
  <2> QED
    BY <2>2, <2>3
<1> QED
  BY <1>4, <1>5, <1>6

\* A cart that is put back open, or converted, is the copy that was read.
LEMMA PutReopenedReopens ==
  ASSUME Control, NEW r \in Requests, PutReopened(r)
  PROVE  Reopens(r)
<1>1. At(r, "cancel", "put_open") \/ AllExpired(r, "reopen")
  BY DEF PutReopened
<1>2. requests[r].cart \in CartDocument
  BY RowTyped
<1>3. PICK version \in Nat : version = requests[r].cart.version + 1
  BY <1>2 DEF CartDocument
<1>4. cart' = [requests[r].cart EXCEPT !.status = "open", !.version = version, !.session = Nobody]
  BY <1>3 DEF PutReopened
<1>5. /\ cart' \in CartDocument /\ cart'.status = "open" /\ cart'.session = Nobody
      /\ cart'.claim = requests[r].cart.claim
  BY <1>2, <1>4 DEF CartDocument
<1>6. Ends(r)
  BY FinishEnds DEF PutReopened
<1> QED
  BY <1>1, <1>5, <1>6 DEF PutReopened, Reopens, PutsCart, Timeless, history

\* The cart of a purchase.
LEMMA PutConvertedConverts ==
  ASSUME Control, NEW r \in Requests, PutConverted(r)
  PROVE  Converts(r)
<1>1. At(r, "pay", "put_cart")
  BY DEF PutConverted
<1>2. requests[r].cart \in CartDocument
  BY RowTyped
<1>3. PICK version \in Nat : version = requests[r].cart.version + 1
  BY <1>2 DEF CartDocument
<1>4. cart' = [requests[r].cart EXCEPT !.status = "converted", !.version = version]
  BY <1>3 DEF PutConverted
<1>5. /\ cart' \in CartDocument /\ cart'.status = "converted"
      /\ cart'.session = requests[r].cart.session /\ cart'.claim = requests[r].cart.claim
  BY <1>2, <1>4 DEF CartDocument
<1>6. Goes(r, "consume", 1)
  BY GoGoes DEF PutConverted, AllSteps, PaySteps
<1> QED
  BY <1>1, <1>5, <1>6 DEF PutConverted, Converts, PutsCart, Timeless, history

\* A line is sold when it is held, or when it lapsed and its unit is free.
LEMMA ConsumeLineConsumes ==
  ASSUME Control, NEW r \in Requests, ConsumeLine(r)
  PROVE  Consumes(r)
<1> DEFINE c == requests[r].checkout
           l == requests[r].line
<1>1. At(r, "pay", "consume") /\ c \in Checkouts /\ l \in Lines
  BY RowTyped DEF ConsumeLine, At, ControlOf
<1>2. checkouts[c].cart \in BOOLEAN
  BY <1>1, CheckoutTyped
<1>3. Ends(r) \/ (l + 1 \in Lines /\ Goes(r, "consume", l + 1))
  <2>1. Finish(r) \/ (l + 1 \in LinesOf(checkouts[c].cart) /\ NextLine(r))
    BY DEF ConsumeLine
  <2>2. l + 1 \in LinesOf(checkouts[c].cart) => l + 1 \in Lines
    BY <1>2, LineFacts
  <2>3. NextLine(r) => Goes(r, "consume", l + 1)
    BY <1>1, NextLineGoes DEF At
  <2> QED
    BY <2>1, <2>2, <2>3, FinishEnds
<1>4. \/ holds' = holds
      \/ holds[c][l] = "active" /\ Sets(c, l, "consumed")
      \/ holds[c][l] = "expired" /\ Available(l) /\ Sets(c, l, "consumed")
  <2>1. SetHold(c, l, "consumed") => Sets(c, l, "consumed")
    BY <1>1, HoldSets DEF HoldStatuses
  <2> QED
    BY <2>1 DEF ConsumeLine
<1> QED
  BY <1>1, <1>3, <1>4 DEF ConsumeLine, Consumes, PutsHold, Timeless, history

\* A clean-up that fails leaves the start at work on the rest of it, or ends it.
LEMMA CleanUpFailsBreaks ==
  ASSUME Control, NEW r \in Requests, CleanUpFails(r)
  PROVE  Breaks(r)
<1> DEFINE c == requests[r].checkout
<1>1. /\ broken' = broken \cup {c} /\ requests[r].op = "start" /\ requests[r] # Idle
      /\ UNCHANGED <<cart, checkouts, keyOf, holds, holdEnds, provider, now, slow>>
  BY EmptyRows DEF CleanUpFails, AllReleased, At, stores
<1>2. CASE /\ At(r, "start", "release")
           /\ requests' = [requests EXCEPT ![r].line = LineCount + 1]
  <2>1. requests \in [Requests -> RequestType] /\ requests[r] \in RequestType
    BY RowTyped DEF Control
  <2>2. requests' = [requests EXCEPT ![r] =
          [requests[r] EXCEPT !.step = "release", !.line = LineCount + 1, !.cart = requests[r].cart,
                              !.expires = requests[r].expires]]
    BY <1>2, <2>1 DEF At, RequestType
  <2>3. LineCount + 1 \in 0..(LineCount + 1) /\ "release" \in AllSteps
    BY Constants DEF AllSteps, StartSteps
  <2>4. Goes(r, "release", LineCount + 1)
    BY <2>2, <2>3, Changes, RowTyped DEF Goes
  <2> QED
    BY <1>1, <1>2, <2>4 DEF Breaks, Slips, At
<1>3. CASE AllReleased(r) /\ checkouts[c].status # "absent" /\ Go(r, "mark_failed")
  <2>1. Goes(r, "mark_failed", 1)
    BY <1>3, GoGoes DEF AllSteps, StartSteps
  <2> QED
    BY <1>1, <1>3, <2>1 DEF Breaks, Slips, AllReleased, At, IsStored
<1>4. CASE Finish(r)
  BY <1>1, <1>4, FinishEnds DEF Breaks
<1> QED
  BY <1>2, <1>3, <1>4 DEF CleanUpFails

\* Every action of a request is one of the steps.
LEMMA RequestSteps ==
  ASSUME Control, NEW r \in Requests,
         \/ \E c \in Checkouts : \/ \E k \in Keys \cup {NoKey} : BeginStart(r, c, k)
                                \/ BeginCancel(r, c) \/ BeginExpire(r, c) \/ BeginPayment(r, c)
         \/ BeginReopen(r) \/ Start(r) \/ Stop(r) \/ Pay(r)
         \/ CleanUpFails(r) \/ Crash(r)
  PROVE  Step(r)
<1>1. ASSUME NEW c \in Checkouts, NEW k \in Keys \cup {NoKey}, BeginStart(r, c, k)
      PROVE  Step(r)
  BY <1>1, BeginStartStarts DEF Step
<1>2. CASE \/ \E c \in Checkouts : BeginCancel(r, c) \/ BeginExpire(r, c) \/ BeginPayment(r, c)
           \/ BeginReopen(r)
  BY <1>2, BeginsLook DEF Step
<1>3. CASE Start(r)
  <2>1. ASSUME NEW session \in Sessions, NEW x \in Expiries(r), ProviderAnswers(r, session, x)
        PROVE  Step(r)
    BY <2>1, ProviderAnswersAnswers DEF Step
  <2>2. CASE ClaimCart(r) \/ ReserveLine(r) \/ Extend(r) \/ PutCheckout(r) \/ PutCart(r)
    BY <2>2, ClaimCartClaims, ReserveLineReserves, ExtendExtends, PutCheckoutStores, PutCartHandsOver
       DEF Step
  <2>3. CASE ReserveFails(r) \/ ProviderFails(r) \/ ExtendFails(r) \/ PersistFails(r)
    BY <2>3, FailuresFail DEF Step
  <2>4. CASE ReleaseLine(r) \/ ReleaseClaim(r) \/ MarkCheckoutPersistenceFailed(r)
    BY <2>4, LoopsGiveBack, ReleaseClaimUnclaims, MarkCheckoutMarks DEF Step
  <2> QED
    BY <1>3, <2>1, <2>2, <2>3, <2>4 DEF Start
<1>4. CASE Stop(r)
  BY <1>4, LoopsGiveBack, StopsTurn, ReadsRead, PutReopenedReopens DEF Stop, Step
<1>5. CASE Pay(r)
  BY <1>5, PutCompletedCompletes, ReadsRead, PutConvertedConverts, ConsumeLineConsumes DEF Pay, Step
<1>6. CASE Crash(r)
  <2>1. Breaks(r)
    BY <1>6, FinishEnds DEF Crash, Breaks, stores
  <2> QED
    BY <2>1 DEF Step
<1>7. CASE CleanUpFails(r)
  BY <1>7, CleanUpFailsBreaks DEF Step
<1> QED
  BY <1>1, <1>2, <1>3, <1>4, <1>5, <1>6, <1>7

----------------------------------------------------------------------------
(* The steps of the world around *)

Still == requests' = requests

Edits ==
  /\ Still /\ PutsCart /\ cart' \in CartDocument
  /\ cart.status = "open" /\ cart'.status = "open"
  /\ cart'.claim = cart.claim /\ cart'.session = cart.session

Sweeps ==
  /\ Still /\ PutsHold /\ holds' \in [Checkouts -> [Lines -> HoldStatuses]]
  /\ \A c \in Checkouts, l \in Lines :
       \/ holds'[c][l] = holds[c][l]
       \/ holds[c][l] = "active" /\ holdEnds[c] <= now /\ holds'[c][l] = "expired"

Provides ==
  /\ Still /\ UNCHANGED <<cart, checkouts, keyOf, holds, holdEnds>> /\ Timeless
  /\ provider' \in [Checkouts -> {"none", "open", "paid", "expired", "closed"}]
  /\ \A c \in Checkouts : provider[c] \in {"expired", "closed"} => provider'[c] = provider[c]

Ticks ==
  /\ Still /\ UNCHANGED <<cart, checkouts, keyOf, holds, holdEnds, provider, broken>>
  /\ now' = now + 1 /\ now' \in 0..MaxTime
  /\ slow' = slow \cup {requests[r].checkout : r \in {q \in Requests :
                 requests[q].op = "start" /\ requests[q].at + TTL <= now + 1}}

World == Edits \/ Sweeps \/ Provides \/ Ticks \/ UNCHANGED vars

\* Every action is a step of a request or of the world.
LEMMA Steps ==
  ASSUME Control, [Next]_vars
  PROVE  (\E r \in Requests : Step(r)) \/ World
<1>1. ASSUME NEW r \in Requests,
             \/ \E c \in Checkouts : \/ \E k \in Keys \cup {NoKey} : BeginStart(r, c, k)
                                    \/ BeginCancel(r, c) \/ BeginExpire(r, c) \/ BeginPayment(r, c)
             \/ BeginReopen(r) \/ Start(r) \/ Stop(r) \/ Pay(r)
         \/ CleanUpFails(r) \/ Crash(r)
      PROVE  Step(r)
  BY <1>1, RequestSteps
<1>2. CASE EditCart
  <2>1. PICK version \in Nat : version = cart.version + 1
    BY DEF Control, TypeOK, CartDocument
  <2>2. cart' = [cart EXCEPT !.version = version] /\ cart \in CartDocument
    BY <1>2, <2>1 DEF EditCart, Control, TypeOK
  <2>3. /\ cart' \in CartDocument /\ cart'.status = cart.status
        /\ cart'.claim = cart.claim /\ cart'.session = cart.session
    BY <2>2 DEF CartDocument
  <2>4. Edits
    BY <1>2, <2>3 DEF EditCart, Edits, Still, PutsCart, Timeless, history
  <2> QED
    BY <2>4 DEF World
<1>3. CASE Sweep
  <2>1. holds \in [Checkouts -> [Lines -> HoldStatuses]]
    BY DEF Control, TypeOK, HoldStatuses
  <2>2. holds' = [c \in Checkouts |-> [l \in Lines |->
                   IF holds[c][l] = "active" /\ holdEnds[c] <= now THEN "expired" ELSE holds[c][l]]]
    BY <1>3 DEF Sweep
  <2>3. holds' \in [Checkouts -> [Lines -> HoldStatuses]]
    BY <2>1, <2>2 DEF HoldStatuses
  <2>4. \A c \in Checkouts, l \in Lines :
          \/ holds'[c][l] = holds[c][l]
          \/ holds[c][l] = "active" /\ holdEnds[c] <= now /\ holds'[c][l] = "expired"
    BY <2>2
  <2>5. Sweeps
    BY <1>3, <2>3, <2>4 DEF Sweep, Sweeps, Still, PutsHold, Timeless, history
  <2> QED
    BY <2>5 DEF World
<1>4. ASSUME NEW c \in Checkouts, CustomerPays(c) \/ ProviderExpires(c)
      PROVE  World
  <2>1. provider \in [Checkouts -> {"none", "open", "paid", "expired", "closed"}]
    BY DEF Control, TypeOK
  <2>2. PICK session \in {"paid", "expired"} : provider[c] = "open" /\ provider' = [provider EXCEPT ![c] = session]
    BY <1>4 DEF CustomerPays, ProviderExpires
  <2>3. /\ provider' \in [Checkouts -> {"none", "open", "paid", "expired", "closed"}]
        /\ \A d \in Checkouts : provider[d] = "expired" => provider'[d] = "expired"
    BY <2>1, <2>2
  <2>4. Provides
    BY <1>4, <2>3 DEF CustomerPays, ProviderExpires, Provides, Still, Timeless, history
  <2> QED
    BY <2>4 DEF World
<1>5. CASE Tick
  <2>1. now' \in 0..MaxTime
    BY <1>5, Constants DEF Tick, Control, TypeOK
  <2>2. Ticks
    BY <1>5, <2>1 DEF Tick, Ticks, Still, stores
  <2> QED
    BY <2>2 DEF World
<1> QED
  BY <1>1, <1>2, <1>3, <1>4, <1>5 DEF Next, World

----------------------------------------------------------------------------
(* Control *)

\* The shared state has its shape.
Shared ==
  /\ cart \in CartDocument /\ WellFormed(cart)
  /\ checkouts \in [Checkouts -> CheckoutDocument]
  /\ keyOf \in [Checkouts -> Keys \cup {NoKey, Unused}]
  /\ holds \in [Checkouts -> [Lines -> HoldStatuses]]
  /\ holdEnds \in [Checkouts -> Nat]
  /\ provider \in [Checkouts -> {"none", "open", "paid", "expired", "closed"}]
  /\ now \in 0..MaxTime
  /\ slow \subseteq Checkouts
  /\ broken \subseteq Checkouts \cup {Nobody}

\* So has the memory of the requests.
Records == requests \in [Requests -> RequestType] /\ \A r \in Requests : ControlOf(requests[r])

\* Control is the shape of the shared state, and of the record of each request.
LEMMA ControlIsShared == Control <=> Shared /\ Records
<1>1. Control => Shared /\ Records
  BY DEF Control, TypeOK, Shared, Records, HoldStatuses
<1>2. ASSUME Shared, Records
      PROVE  Control
  <2>1. \A r \in Requests : /\ requests[r].checkout \in Checkouts \cup {Nobody}
                            /\ requests[r].line \in 0..(LineCount + 1)
                            /\ requests[r].cart \in CartDocument
    BY <1>2 DEF Records, RequestType
  <2>2. /\ cart.status = "open" => cart.session = Nobody
        /\ cart.status = "checkout_pending" => cart.claim # Nobody \/ cart.session # Nobody
        /\ cart.status = "converted" => cart.session # Nobody
    BY <1>2 DEF Shared, WellFormed
  <2> QED
    BY <1>2, <2>1, <2>2 DEF Shared, Records, TypeOK, Control, HoldStatuses
<1> QED
  BY <1>1, <1>2

\* The initial state.
LEMMA ControlInit == Init => Control
<1> SUFFICES ASSUME Init PROVE Control
  OBVIOUS
<1>1. cart \in CartDocument /\ WellFormed(cart)
  BY DEF Init, NoCart, CartDocument, WellFormed
<1>2. ControlOf(Idle)
  BY EmptyRows DEF Init, ControlOf
<1>3. requests \in [Requests -> RequestType] /\ \A r \in Requests : ControlOf(requests[r])
  BY <1>2, EmptyRows DEF Init
<1>4. Shared
  BY <1>1, EmptyRows, Constants DEF Init, Shared, HoldStatuses
<1> QED
  BY <1>3, <1>4, ControlIsShared DEF Records

\* A step of one request leaves the others under control.
LEMMA ControlKept ==
  ASSUME Control, NEW r \in Requests, Only(r), now' = now, Shared', ControlOf(requests'[r])
  PROVE  Control'
<1>1. \A q \in Requests \ {r} : ControlOf(requests[q])'
  BY DEF Only, Control, ControlOf
<1>2. ControlOf(requests[r])'
  BY DEF ControlOf
<1>3. requests' \in [Requests -> RequestType]
  BY DEF Only
<1>4. Records'
  BY <1>1, <1>2, <1>3 DEF Records
<1> QED
  BY <1>4, ControlIsShared, PTL

\* An idle record is under control.
LEMMA IdleControl ==
  ASSUME Control
  PROVE  ControlOf(Idle)
BY EmptyRows DEF ControlOf, Control, TypeOK

\* The shared state keeps its shape.
LEMMA SharedStep ==
  ASSUME Control, NEW r \in Requests, Step(r)
  PROVE  Shared' /\ Only(r) /\ now' = now
<1>1. Shared
  BY ControlIsShared
<1>2. ASSUME NEW c \in Checkouts, NEW k \in Keys \cup {NoKey}, Starts(r, c, k)
      PROVE  Shared' /\ Only(r) /\ now' = now
  BY <1>1, <1>2 DEF Starts, Shared, Timeless, WellFormed
<1>3. CASE Claims(r)
  <2>1. requests[r].checkout \in Checkouts
    BY <1>3, RowTyped DEF Claims, At, ControlOf
  <2> QED
    BY <1>1, <1>3, <2>1, Constants DEF Claims, Goes, Becomes, Shared, Timeless, PutsCart, WellFormed
<1>4. CASE Reserves(r)
  BY <1>1, <1>4 DEF Reserves, Sets, Goes, Becomes, Shared, Timeless, WellFormed
<1>5. CASE Fails(r) \/ Looks(r) \/ Reads(r)
  <2>1. Only(r) /\ Quiet
    BY <1>5 DEF Fails, Looks, Reads, Goes, Becomes, Ends
  <2> QED
    BY <1>1, <2>1 DEF Quiet, Shared, Timeless, WellFormed
<1>6. ASSUME NEW x \in Nat, Answers(r, x)
      PROVE  Shared' /\ Only(r) /\ now' = now
  BY <1>1, <1>6 DEF Answers, Becomes, Shared, Timeless, WellFormed
<1>7. CASE Extends(r)
  BY <1>1, <1>7 DEF Extends, Goes, Becomes, Shared, Timeless, WellFormed
<1>8. CASE Stores(r) \/ Marks(r) \/ Turns(r) \/ Completes(r)
  <2>1. Only(r) /\ PutsCheckout(r)
    BY <1>8 DEF Stores, Marks, Turns, Completes, Goes, Becomes, Ends
  <2> QED
    BY <1>1, <2>1 DEF PutsCheckout, Updates, Shared, Timeless, WellFormed
<1>9. CASE HandsOver(r) \/ Unclaims(r) \/ Reopens(r) \/ Converts(r)
  <2>1. Only(r) /\ PutsCart /\ cart' \in CartDocument
    BY <1>9 DEF HandsOver, Unclaims, Reopens, Converts, Goes, Becomes, Ends
  <2>2. WellFormed(cart)'
    <3>1. WellFormed(cart) /\ ControlOf(requests[r]) /\ WellFormed(requests[r].cart)
      BY RowTyped DEF Control
    <3>2. CASE HandsOver(r)
      <4>1. requests[r].checkout \in Checkouts
        BY <3>1, <3>2 DEF HandsOver, At, ControlOf
      <4> QED
        BY <3>1, <3>2, <4>1, Constants DEF HandsOver, WellFormed
    <3>3. CASE Unclaims(r)
      <4>1. requests[r].checkout \in Checkouts
        BY <3>1, <3>3 DEF Unclaims, AllReleased, At, ControlOf
      <4> QED
        BY <3>1, <3>3, <4>1, Constants DEF Unclaims, WellFormed
    <3>4. CASE Reopens(r)
      BY <3>4 DEF Reopens, WellFormed
    <3>5. CASE Converts(r)
      <4>1. requests[r].checkout \in Checkouts /\ requests[r].cart.session = requests[r].checkout
        BY <3>1, <3>5 DEF Converts, At, ControlOf
      <4> QED
        BY <3>1, <3>5, <4>1, Constants DEF Converts, WellFormed
    <3> QED
      BY <1>9, <3>2, <3>3, <3>4, <3>5
  <2> QED
    BY <1>1, <2>1, <2>2 DEF PutsCart, Shared, Timeless
<1>10. CASE GivesBack(r) \/ Consumes(r)
  <2>1. Only(r) /\ PutsHold /\ holds' \in [Checkouts -> [Lines -> HoldStatuses]]
    BY <1>1, <1>10 DEF GivesBack, Consumes, Sets, Goes, Becomes, Ends, Shared
  <2> QED
    BY <1>1, <2>1 DEF PutsHold, Shared, Timeless, WellFormed
<1>11. CASE Breaks(r)
  <2>1. requests[r].checkout \in Checkouts \cup {Nobody}
    BY RowTyped
  <2> QED
    BY <1>1, <1>11, <2>1 DEF Breaks, Slips, Goes, Becomes, Ends, Shared, WellFormed
<1> QED
  BY <1>2, <1>3, <1>4, <1>5, <1>6, <1>7, <1>8, <1>9, <1>10, <1>11 DEF Step

\* Control is kept by every step of a request.
LEMMA ControlStep ==
  ASSUME Control, NEW r \in Requests, Step(r)
  PROVE  Control'
<1> DEFINE q == requests[r]
<1>1. ControlOf(q) /\ WellFormed(q.cart) /\ q.at <= now /\ now \in 0..MaxTime /\ WellFormed(cart)
  BY RowTyped DEF Control
<1> SUFFICES ControlOf(requests'[r])
  BY SharedStep, ControlKept
<1>2. CASE Ends(r)
  BY <1>2, IdleControl DEF Ends
<1>3. ASSUME NEW c \in Checkouts, NEW k \in Keys \cup {NoKey}, Starts(r, c, k)
      PROVE  ControlOf(requests'[r])
  BY <1>1, <1>3, EmptyRows, LineFacts DEF Starts, ControlOf, StartSteps
<1>4. CASE Claims(r)
  BY <1>1, <1>4, LineFacts DEF Claims, At, Goes, Becomes, ControlOf, StartSteps
<1>5. CASE Reserves(r)
  <2>1. q.line + 1 \in Moments
    BY <1>5, LineFacts DEF Reserves, Wanted
  <2> QED
    BY <1>1, <1>5, <2>1 DEF Reserves, At, Goes, Becomes, ControlOf, StartSteps
<1>6. CASE Fails(r)
  BY <1>1, <1>6, LineFacts DEF Fails, At, Goes, Becomes, ControlOf, StartSteps
<1>7. ASSUME NEW x \in Nat, Answers(r, x)
      PROVE  ControlOf(requests'[r])
  BY <1>1, <1>7 DEF Answers, AllReserved, At, Becomes, ControlOf, StartSteps
<1>8. CASE Extends(r) \/ Stores(r)
  BY <1>1, <1>8 DEF Extends, Stores, At, Goes, Becomes, ControlOf, StartSteps
<1>9. CASE GivesBack(r)
  <2>1. q.line + 1 \in Moments
    BY <1>9, LineFacts DEF GivesBack
  <2> QED
    BY <1>1, <1>9, <2>1 DEF GivesBack, At, Goes, Becomes, ControlOf, StartSteps
<1>10. CASE Unclaims(r) /\ Goes(r, "mark_failed", 1)
  BY <1>1, <1>10 DEF Unclaims, AllReleased, At, Goes, Becomes, ControlOf, StartSteps
<1>11. CASE Looks(r)
  BY <1>1, <1>11, EmptyRows, LineFacts, Constants DEF Looks, ControlOf, PaySteps
<1>12. CASE Turns(r) /\ requests[r].op = "cancel" /\ Goes(r, "read_cart", 1)
  BY <1>1, <1>12 DEF Goes, Becomes, ControlOf
<1>13. CASE Reads(r) /\ ~Ends(r)
  BY <1>1, <1>13, LineFacts DEF Reads, At, Goes, Becomes, ControlOf, PaySteps
<1>14. CASE Completes(r) \/ Converts(r)
  BY <1>1, <1>14, LineFacts DEF Completes, Converts, At, Goes, Becomes, ControlOf, PaySteps
<1>15. CASE Consumes(r) /\ ~Ends(r)
  BY <1>1, <1>15, LineFacts DEF Consumes, At, Goes, Becomes, ControlOf, PaySteps
<1>16. HandsOver(r) \/ Marks(r) \/ Reopens(r) => Ends(r)
  BY DEF HandsOver, Marks, Reopens
<1>18. CASE Breaks(r)
  <2>1. CASE Slips(r)
    <3>1. LineCount + 1 \in Moments
      BY Constants DEF Moments
    <3> QED
      BY <1>1, <2>1, <3>1 DEF Slips, Goes, Becomes, ControlOf, StartSteps
  <2> QED
    BY <1>2, <1>18, <2>1 DEF Breaks
<1>17. /\ Unclaims(r) => Ends(r) \/ Goes(r, "mark_failed", 1)
       /\ Turns(r) => Ends(r) \/ (requests[r].op = "cancel" /\ Goes(r, "read_cart", 1))
  BY DEF Unclaims, Turns
<1> QED
  BY <1>2, <1>3, <1>4, <1>5, <1>6, <1>7, <1>8, <1>9, <1>10, <1>11, <1>12, <1>13, <1>14, <1>15, <1>16, <1>17,
     <1>18 DEF Step

\* The world around leaves the requests under control.
LEMMA ControlWorld ==
  ASSUME Control, World
  PROVE  Control'
<1>1. Shared /\ requests \in [Requests -> RequestType] /\ \A q \in Requests : ControlOf(requests[q])
  BY ControlIsShared DEF Control
<1>2. requests' = requests /\ now' \in Nat /\ now \in Nat /\ now' >= now
  BY <1>1, Constants DEF World, Edits, Sweeps, Provides, Ticks, Still, PutsCart, PutsHold, Timeless, Shared, vars
<1>3. \A q \in Requests : ControlOf(requests[q])'
  <2> SUFFICES ASSUME NEW q \in Requests PROVE ControlOf(requests[q])'
    OBVIOUS
  <2>1. ControlOf(requests[q]) /\ requests[q].at \in 0..MaxTime
    BY RowTyped
  <2>2. requests[q].at <= now'
    BY <1>2, <2>1, Constants DEF ControlOf
  <2> QED
    BY <1>2, <2>1, <2>2 DEF ControlOf
<1>4. Shared'
  <2>1. CASE Edits
    BY <1>1, <2>1 DEF Edits, PutsCart, Timeless, Shared, WellFormed
  <2>2. CASE Sweeps
    BY <1>1, <2>2 DEF Sweeps, PutsHold, Timeless, Shared, WellFormed
  <2>3. CASE Provides
    BY <1>1, <2>3 DEF Provides, Timeless, Shared, WellFormed
  <2>4. CASE Ticks
    <3>1. slow' \subseteq Checkouts
      <4>1. \A q \in Requests : requests[q].op = "start" => requests[q].checkout \in Checkouts
        BY RowTyped DEF ControlOf
      <4> QED
        BY <1>1, <2>4, <4>1 DEF Ticks, Shared
    <3> QED
      BY <1>1, <2>4, <3>1 DEF Ticks, Shared, WellFormed
  <2>5. CASE UNCHANGED vars
    BY <1>1, <2>5 DEF vars, stores, history, Shared, WellFormed
  <2> QED
    BY <2>1, <2>2, <2>3, <2>4, <2>5 DEF World
<1>5. Records'
  BY <1>1, <1>2, <1>3 DEF Records
<1> QED
  BY <1>4, <1>5, ControlIsShared, PTL

\* Control is inductive.
LEMMA ControlAlways == Spec => []Control
<1>1. Control /\ [Next]_vars => Control'
  <2> SUFFICES ASSUME Control, [Next]_vars PROVE Control'
    OBVIOUS
  <2> QED
    BY Steps, ControlStep, ControlWorld
<1> QED
  BY <1>1, ControlInit, PTL DEF Spec

\* The documents, the reservations and the memory of the requests keep their
\* shapes: a pending cart waits for somebody, a converted one names its checkout,
\* an open one does not.
THEOREM TypeCorrect == Spec => []TypeOK
<1>1. Control => TypeOK
  BY DEF Control
<1> QED
  BY <1>1, ControlAlways, PTL

----------------------------------------------------------------------------
(* Documents *)

\* A document is never lost, and an id is never taken back.
Grows ==
  /\ \A c \in Checkouts : IsStored(c) => IsStored(c)'
  /\ \A c \in Checkouts : keyOf[c] # Unused => keyOf'[c] # Unused

\* Only a start that stores its checkout makes a document.
LEMMA DocumentsGrow ==
  ASSUME Control, Documents, NEW r \in Requests, Step(r)
  PROVE  /\ Grows
         /\ \A c \in Checkouts : IsStored(c)' => IsStored(c) \/ (Stores(r) /\ c = requests[r].checkout)
         /\ UNCHANGED keyOf \/ \E c \in Checkouts, k \in Keys \cup {NoKey} : Starts(r, c, k)
<1>1. ControlOf(requests[r]) /\ DocumentsOf(requests[r])
  BY RowTyped DEF Documents
<1> PICK d \in Checkouts \cup {Nobody} : d = requests[r].checkout
  BY RowTyped
<1>2. keyOf \in [Checkouts -> Keys \cup {NoKey, Unused}]
  BY DEF Control, TypeOK
<1>3. ASSUME NEW c \in Checkouts, NEW k \in Keys \cup {NoKey}, Starts(r, c, k)
      PROVE  UNCHANGED checkouts /\ \A b \in Checkouts : keyOf[b] # Unused => keyOf'[b] # Unused
  BY <1>2, <1>3, Constants DEF Starts
<1>4. CASE Stores(r) \/ Marks(r) \/ Turns(r) \/ Completes(r)
  <2>1. d \in Checkouts
    BY <1>1, <1>4 DEF Stores, Marks, Turns, Completes, AllExpired, At, ControlOf
  <2>2. UNCHANGED keyOf /\ \A c \in Checkouts \ {d} : checkouts'[c] = checkouts[c]
    <3>1. PutsCheckout(r)
      BY <1>4 DEF Stores, Marks, Turns, Completes
    <3> QED
      BY <3>1 DEF PutsCheckout, Updates
  <2>3. IsStored(d)'
    <3>1. CASE Stores(r) \/ Marks(r) \/ Completes(r)
      BY <2>1, <3>1 DEF Stores, Marks, Completes, IsStored
    <3>2. CASE Turns(r)
      <4>1. IsStored(d)
        BY <1>1, <2>1, <3>2, Constants DEF Turns, AllExpired, At, DocumentsOf
      <4> QED
        BY <2>1, <3>2, <4>1 DEF Turns, IsStored
    <3> QED
      BY <1>4, <3>1, <3>2
  <2>4. Stores(r) \/ IsStored(d)
    <3>1. CASE Marks(r)
      BY <1>1, <2>1, <3>1 DEF Marks, At, DocumentsOf
    <3>2. CASE Turns(r) \/ Completes(r)
      BY <1>1, <2>1, <3>2, Constants DEF Turns, Completes, AllExpired, At, DocumentsOf
    <3> QED
      BY <1>4, <3>1, <3>2
  <2> QED
    BY <2>1, <2>2, <2>3, <2>4 DEF Grows, IsStored
<1>5. CASE ~(Stores(r) \/ Marks(r) \/ Turns(r) \/ Completes(r))
           /\ ~\E c \in Checkouts, k \in Keys \cup {NoKey} : Starts(r, c, k)
  <2>1. UNCHANGED <<checkouts, keyOf>>
    BY <1>5 DEF Step, Claims, Reserves, Fails, Answers, Extends, HandsOver, GivesBack, Unclaims, Looks,
                Reads, Reopens, Converts, Consumes, Breaks, PutsCart, PutsHold, Quiet
  <2> QED
    BY <2>1 DEF Grows, IsStored
<1>6. ASSUME NEW c \in Checkouts, NEW k \in Keys \cup {NoKey}, Starts(r, c, k)
      PROVE  /\ Grows
             /\ \A b \in Checkouts : IsStored(b)' => IsStored(b)
  BY <1>3, <1>6 DEF Grows, IsStored
<1> QED
  BY <1>4, <1>5, <1>6

\* What a cart refers to stays.
LEMMA RefersKept ==
  ASSUME Grows, NEW k \in CartDocument, Refers(k)
  PROVE  Refers(k)'
<1>1. k.session \in Checkouts \cup {Nobody} /\ k.claim \in Checkouts \cup {Nobody}
  BY DEF CartDocument
<1> QED
  BY <1>1 DEF Grows, Refers

\* Who starts a checkout is alone with it, and it is new.
LEMMA AloneStep ==
  ASSUME Control, Documents, NEW r \in Requests, Step(r)
  PROVE  Alone'
<1>1. Only(r)
  BY SharedStep
<1>2. \A q \in Requests \ {r} : requests'[q] = requests[q]
  BY <1>1 DEF Only
<1>3. CASE requests'[r].op # "start"
  BY <1>2, <1>3 DEF Documents, Alone
<1>4. CASE requests'[r].op = requests[r].op /\ requests'[r].checkout = requests[r].checkout
  BY <1>2, <1>4 DEF Documents, Alone
<1>5. ASSUME NEW c \in Checkouts, NEW k \in Keys \cup {NoKey}, Starts(r, c, k)
      PROVE  Alone'
  <2>1. \A q \in Requests \ {r} : requests[q].op = "start" => requests[q].checkout # c
    BY <1>5 DEF Starts, Documents, DocumentsOf
  <2>2. requests'[r].checkout = c
    BY <1>5 DEF Starts
  <2> QED
    BY <1>2, <2>1, <2>2 DEF Documents, Alone
<1>6. \/ requests'[r].op # "start"
      \/ requests'[r].op = requests[r].op /\ requests'[r].checkout = requests[r].checkout
      \/ \E c \in Checkouts, k \in Keys \cup {NoKey} : Starts(r, c, k)
  <2>1. CASE Ends(r) \/ Looks(r)
    BY <2>1, EmptyRows DEF Ends, Looks
  <2>2. CASE ~Ends(r) /\ ~Looks(r)
    BY <2>2 DEF Step, Claims, Reserves, Fails, Answers, Extends, Stores, HandsOver, GivesBack, Unclaims,
                Marks, Turns, Reads, Reopens, Completes, Converts, Consumes, Breaks, Slips, Goes, Becomes
  <2> QED
    BY <2>1, <2>2
<1> QED
  BY <1>3, <1>4, <1>5, <1>6

\* The documents and what refers to them, after a step of a request.
LEMMA DocumentsStep ==
  ASSUME Control, Documents, NEW r \in Requests, Step(r)
  PROVE  Documents'
<1> PICK d \in Checkouts \cup {Nobody} : d = requests[r].checkout
  BY RowTyped
<1>1. /\ Grows
      /\ \A c \in Checkouts : IsStored(c)' => IsStored(c) \/ (Stores(r) /\ c = d)
      /\ UNCHANGED keyOf \/ \E c \in Checkouts, k \in Keys \cup {NoKey} : Starts(r, c, k)
  BY DocumentsGrow
<1>2. Only(r)
  BY SharedStep
<1>3. /\ ControlOf(requests[r]) /\ DocumentsOf(requests[r]) /\ requests[r].cart \in CartDocument
      /\ Refers(requests[r].cart) /\ requests[r].checkout \in Checkouts \cup {Nobody}
      /\ cart \in CartDocument /\ Refers(cart)
  BY RowTyped DEF Documents, DocumentsOf, Control, TypeOK
<1>4. ASSUME NEW q \in Requests \ {r}
      PROVE  DocumentsOf(requests[q])'
  <2>1. requests'[q] = requests[q]
    BY <1>2 DEF Only
  <2>2. DocumentsOf(requests[q]) /\ ControlOf(requests[q]) /\ requests[q].cart \in CartDocument
        /\ requests[q].checkout \in Checkouts \cup {Nobody}
    BY RowTyped DEF Documents
  <2>3. Refers(requests[q].cart)'
    <3>1. PICK k \in CartDocument : k = requests[q].cart
      BY <2>2
    <3>2. Refers(k)'
      BY <1>1, <2>2, <3>1, RefersKept DEF DocumentsOf
    <3> QED
      BY <2>1, <3>1, <3>2 DEF Refers
  <2>4. requests[q].op = "start" /\ requests[q].step \in Unstored => ~IsStored(requests[q].checkout)'
    <3> SUFFICES ASSUME requests[q].op = "start", requests[q].step \in Unstored
                 PROVE  ~IsStored(requests[q].checkout)'
      OBVIOUS
    <3>1. requests[q].checkout \in Checkouts /\ ~IsStored(requests[q].checkout)
      BY <2>2 DEF ControlOf, DocumentsOf
    <3>2. Stores(r) => requests[q].checkout # d
      BY DEF Stores, At, Documents, Alone
    <3> QED
      BY <1>1, <2>1, <3>1, <3>2 DEF IsStored
  <2>5. requests[q].op = "start" => keyOf'[requests[q].checkout] # Unused
    BY <1>1, <2>2 DEF Grows, ControlOf, DocumentsOf
  <2>6. /\ requests[q].op = "start" /\ requests[q].step \in {"put_cart", "mark_failed"} 
             => IsStored(requests[q].checkout)'
        /\ requests[q].op \notin {"idle", "start"} /\ requests[q].checkout # Nobody 
             => IsStored(requests[q].checkout)'
    <3>1. \A c \in Checkouts : IsStored(c) => checkouts'[c].status # "absent"
      BY <1>1 DEF Grows, IsStored
    <3> QED
      BY <2>1, <2>2, <3>1 DEF ControlOf, DocumentsOf, IsStored
  <2> QED
    BY <2>1, <2>3, <2>4, <2>5, <2>6 DEF DocumentsOf
<1>5. \A k \in CartDocument : Refers(k) => Refers(k)'
  BY <1>1, RefersKept
<1>6. Refers(cart)'
  <2>1. CASE cart' = cart
    BY <1>3, <1>5, <2>1 DEF Refers
  <2>2. CASE Claims(r)
    <3>1. cart'.session = cart.session /\ cart'.claim = d /\ d \in Checkouts /\ keyOf'[d] # Unused
      BY <1>1, <1>3, <2>2 DEF Claims, At, ControlOf, DocumentsOf, Grows
    <3>2. cart.session # Nobody => checkouts'[cart.session].status # "absent"
      BY <1>3, <1>5 DEF Refers, IsStored
    <3> QED
      BY <3>1, <3>2 DEF Refers, IsStored
  <2>3. CASE HandsOver(r)
    <3>1. CASE cart' # cart
      <4>1. cart'.session = d /\ cart'.claim = Nobody /\ d \in Checkouts /\ IsStored(d)
        BY <1>3, <2>3, <3>1 DEF HandsOver, At, ControlOf, DocumentsOf
      <4>2. checkouts'[d].status # "absent"
        BY <1>1, <4>1 DEF Grows, IsStored
      <4> QED
        BY <4>1, <4>2 DEF Refers, IsStored
    <3> QED
      BY <2>1, <3>1
  <2>4. CASE Unclaims(r)
    <3>1. CASE cart' # cart
      <4>1. cart'.session = cart.session /\ cart'.claim = Nobody
        BY <2>4, <3>1 DEF Unclaims
      <4>2. cart.session # Nobody => checkouts'[cart.session].status # "absent"
        BY <1>3, <1>5 DEF Refers, IsStored
      <4> QED
        BY <4>1, <4>2 DEF Refers, IsStored
    <3> QED
      BY <2>1, <3>1
  <2>5. CASE Reopens(r) \/ Converts(r)
    <3>1. PICK k \in CartDocument : k = requests[r].cart
      BY <1>3
    <3>2. Refers(k)'
      BY <1>3, <1>5, <3>1
    <3>3. cart'.claim = k.claim /\ (cart'.session = Nobody \/ cart'.session = k.session)
      BY <2>5, <3>1 DEF Reopens, Converts
    <3> QED
      BY <3>2, <3>3 DEF Refers
  <2>6. cart' = cart \/ Claims(r) \/ HandsOver(r) \/ Unclaims(r) \/ Reopens(r) \/ Converts(r)
    BY DEF Step, Starts, Reserves, Fails, Answers, Extends, Stores, GivesBack, Marks, Looks, Turns, Reads,
           Completes, Consumes, Breaks, PutsCheckout, PutsHold, Quiet
  <2> QED
    BY <2>1, <2>2, <2>3, <2>4, <2>5, <2>6
<1>7. DocumentsOf(requests[r])'
  <2>1. CASE Ends(r)
    <3>1. requests'[r].op = "idle" /\ requests'[r].cart = NoCart
      BY <2>1, EmptyRows DEF Ends
    <3> QED
      BY <3>1 DEF DocumentsOf, Refers, NoCart
  <2>2. ASSUME NEW k \in CartDocument, requests'[r].cart = k, Refers(k)
        PROVE  Refers(requests[r].cart)'
    BY <1>5, <2>2 DEF Refers
  <2>3. \A c \in Checkouts : /\ IsStored(c) => checkouts'[c].status # "absent"
                             /\ keyOf[c] # Unused => keyOf'[c] # Unused
    BY <1>1 DEF Grows, IsStored
  <2>4. ASSUME NEW c \in Checkouts, NEW k \in Keys \cup {NoKey}, Starts(r, c, k)
        PROVE  DocumentsOf(requests[r])'
    <3>1. requests'[r].op = "start" /\ requests'[r].checkout = c /\ requests'[r].step \in Unstored
          /\ requests'[r].cart \in {cart, NoCart} /\ keyOf[c] = Unused /\ keyOf'[c] = k
          /\ checkouts' = checkouts
      BY <2>4 DEF Starts, Unstored, Control, TypeOK
    <3>2. ~IsStored(c)
      BY <3>1 DEF Documents
    <3>3. Refers(requests[r].cart)'
      <4>1. Refers(NoCart)
        BY DEF Refers, NoCart
      <4> QED
        BY <1>3, <2>2, <3>1, <4>1, EmptyRows
    <3> QED
      BY <3>1, <3>2, <3>3, Constants DEF DocumentsOf, IsStored, Unstored
  <2>5. CASE Looks(r)
    <3>1. requests'[r].op \notin {"idle", "start"} /\ requests'[r].cart \in {cart, NoCart}
      BY <2>5 DEF Looks
    <3>2. Refers(requests[r].cart)'
      <4>1. Refers(NoCart)
        BY DEF Refers, NoCart
      <4> QED
        BY <1>3, <2>2, <3>1, <4>1, EmptyRows
    <3>3. requests'[r].checkout # Nobody => checkouts'[requests'[r].checkout].status # "absent"
      BY <1>3, <2>5 DEF Looks, Quiet, Refers, IsStored
    <3> QED
      BY <3>1, <3>2, <3>3 DEF DocumentsOf, IsStored
  <2>6. CASE /\ requests'[r].op = requests[r].op /\ requests'[r].checkout = d
             /\ requests'[r].cart \in {cart, requests[r].cart}
             /\ requests[r].op = "start" /\ requests'[r].step \in Unstored => ~IsStored(d)'
             /\ requests[r].op = "start" /\ requests'[r].step \in {"put_cart", "mark_failed"} => IsStored(d)'
    <3>1. Refers(requests[r].cart)'
      BY <1>3, <2>2, <2>6
    <3>2. requests[r].op = "start" => keyOf'[d] # Unused
      BY <1>3, <2>3 DEF ControlOf, DocumentsOf
    <3>3. requests[r].op \notin {"idle", "start"} /\ d # Nobody => checkouts'[d].status # "absent"
      BY <1>3, <2>3 DEF DocumentsOf
    <3>4. IsStored(d)' <=> checkouts'[d].status # "absent"
      BY DEF IsStored
    <3> QED
      BY <2>6, <3>1, <3>2, <3>3, <3>4 DEF DocumentsOf, IsStored
  <2>7. CASE Claims(r) \/ Reserves(r) \/ (\E x \in Nat : Answers(r, x)) \/ Extends(r)
    <3>1. /\ requests'[r].op = "start" /\ requests'[r].checkout = d /\ requests[r].op = "start"
          /\ requests'[r].cart = requests[r].cart /\ requests[r].step \in Unstored
          /\ requests'[r].step \in {"reserve", "extend", "put_checkout"}
          /\ checkouts' = checkouts
      BY <2>7 DEF Claims, Reserves, Answers, AllReserved, Extends, At, Goes, Becomes, PutsCart, Unstored
    <3>2. ~IsStored(d)
      BY <1>3, <3>1 DEF DocumentsOf
    <3> QED
      BY <2>6, <3>1, <3>2 DEF IsStored
  <2>8. CASE Stores(r)
    <3>1. /\ requests'[r].op = "start" /\ requests'[r].checkout = d /\ requests[r].op = "start"
          /\ requests'[r].cart = requests[r].cart
          /\ requests'[r].step = "put_cart" /\ checkouts'[d].status # "absent"
      BY <2>8 DEF Stores, At, Goes, Becomes
    <3> QED
      BY <2>6, <3>1 DEF IsStored, Unstored
  <2>9. CASE Unclaims(r) /\ ~Ends(r)
    <3>1. /\ requests'[r].op = "start" /\ requests'[r].checkout = d /\ requests[r].op = "start"
          /\ requests'[r].cart = requests[r].cart
          /\ requests'[r].step = "mark_failed" /\ IsStored(d) /\ checkouts' = checkouts
      BY <2>9 DEF Unclaims, AllReleased, At, Goes, Becomes, PutsCart
    <3> QED
      BY <2>6, <3>1 DEF IsStored, Unstored
  <2>10. CASE Fails(r) \/ (GivesBack(r) /\ requests[r].op = "start")
    <3>1. /\ requests'[r].op = "start" /\ requests'[r].checkout = d /\ requests[r].op = "start"
          /\ requests'[r].cart = requests[r].cart /\ requests'[r].step = "release"
      BY <2>10 DEF Fails, GivesBack, At, Goes, Becomes
    <3> QED
      BY <2>6, <3>1 DEF Unstored
  <2>11. CASE /\ requests[r].op # "start"
              /\ GivesBack(r) \/ Turns(r) \/ Reads(r) \/ Completes(r) \/ Converts(r) \/ Consumes(r)
              /\ ~Ends(r)
    <3>1. /\ requests'[r].op = requests[r].op /\ requests'[r].checkout = d
          /\ requests'[r].cart \in {cart, requests[r].cart}
      BY <2>11 DEF GivesBack, Turns, Reads, Completes, Converts, Consumes, Goes, Becomes
    <3> QED
      BY <2>6, <2>11, <3>1
  <2>13. CASE Slips(r) /\ checkouts' = checkouts
    <3>1. /\ requests'[r].op = "start" /\ requests'[r].checkout = d /\ requests[r].op = "start"
          /\ requests'[r].cart = requests[r].cart /\ requests'[r].step \in {"release", "mark_failed"}
          /\ requests'[r].step = "mark_failed" => IsStored(d)
      BY <2>13 DEF Slips, At, Goes, Becomes
    <3> QED
      BY <2>6, <2>13, <3>1 DEF IsStored, Unstored
  <2>14. Breaks(r) => Ends(r) \/ (Slips(r) /\ checkouts' = checkouts)
    BY DEF Breaks
  <2>12. /\ HandsOver(r) \/ Marks(r) \/ Reopens(r) => Ends(r)
         /\ (Turns(r) \/ Reads(r) \/ Completes(r) \/ Converts(r) \/ Consumes(r)) /\ ~Ends(r)
              => requests[r].op # "start"
    BY DEF HandsOver, Marks, Reopens, Turns, AllExpired, Reads, Completes, Converts, Consumes, At
  <2> QED
    BY <2>1, <2>4, <2>5, <2>7, <2>8, <2>9, <2>10, <2>11, <2>12, <2>13, <2>14 DEF Step
<1>8. \A c \in Checkouts : /\ keyOf'[c] = Unused => ~IsStored(c)'
                           /\ checkouts'[c].order => checkouts'[c].status = "completed"
  <2> SUFFICES ASSUME NEW c \in Checkouts
               PROVE  /\ keyOf'[c] = Unused => ~IsStored(c)'
                      /\ checkouts'[c].order => checkouts'[c].status = "completed"
    OBVIOUS
  <2>1. keyOf'[c] = Unused => keyOf[c] = Unused /\ ~IsStored(c)
    BY <1>1 DEF Grows, Documents
  <2>2. Stores(r) => d \in Checkouts /\ keyOf[d] # Unused
    BY <1>3 DEF Stores, At, ControlOf, DocumentsOf
  <2>3. keyOf'[c] = Unused => ~IsStored(c)'
    BY <1>1, <2>1, <2>2
  <2>4. checkouts[c].order => checkouts[c].status = "completed"
    BY DEF Documents
  <2> SUFFICES checkouts'[c].order => checkouts'[c].status = "completed"
    BY <2>3
  <2>5. CASE checkouts' = checkouts
    BY <2>4, <2>5
  <2>6. CASE Stores(r) \/ Marks(r) \/ Turns(r) \/ Completes(r)
    <3>1. CASE c # d
      <4>1. PutsCheckout(r)
        BY <2>6 DEF Stores, Marks, Turns, Completes
      <4>2. checkouts'[c] = checkouts[c]
        BY <3>1, <4>1 DEF PutsCheckout, Updates
      <4> QED
        BY <2>4, <4>2
    <3>2. CASE c = d
      BY <2>4, <2>6, <3>2 DEF Stores, Marks, Turns, Completes
    <3> QED
      BY <3>1, <3>2
  <2>7. checkouts' = checkouts \/ Stores(r) \/ Marks(r) \/ Turns(r) \/ Completes(r)
    BY DEF Step, Starts, Claims, Reserves, Fails, Answers, Extends, HandsOver, GivesBack, Unclaims, Looks,
           Reads, Reopens, Converts, Consumes, Breaks, PutsCart, PutsHold, Quiet
  <2> QED
    BY <2>5, <2>6, <2>7
<1>9. \A q \in Requests : DocumentsOf(requests[q])'
  BY <1>4, <1>7
<1> QED
  BY <1>6, <1>8, <1>9, AloneStep DEF Documents

\* The world around makes no documents, and an edit keeps what the cart refers to.
LEMMA DocumentsWorld ==
  ASSUME Control, Documents, World
  PROVE  Documents'
<1>1. /\ UNCHANGED <<checkouts, keyOf, requests>>
      /\ cart'.session = cart.session /\ cart'.claim = cart.claim
  BY DEF World, Edits, Sweeps, Provides, Ticks, Still, PutsCart, PutsHold, vars, stores
<1> QED
  BY <1>1 DEF Documents, Alone, DocumentsOf, Refers, IsStored

\* In the initial state there are no documents.
LEMMA DocumentsInit == Init => Documents
<1> SUFFICES ASSUME Init PROVE Documents
  OBVIOUS
<1>1. Refers(NoCart) /\ Refers(cart)
  BY DEF Init, Refers, NoCart
<1>2. \A r \in Requests : requests[r].op = "idle" /\ requests[r].cart = NoCart
  BY EmptyRows DEF Init
<1>3. \A c \in Checkouts : ~IsStored(c) /\ checkouts[c].order = FALSE
  BY DEF Init, IsStored, NoCheckout
<1> QED
  BY <1>1, <1>2, <1>3 DEF Documents, Alone, DocumentsOf

\* Documents is inductive.
LEMMA DocumentsAlways == Spec => [](Control /\ Documents)
<1>1. Control /\ Documents /\ [Next]_vars => Documents'
  BY Steps, DocumentsStep, DocumentsWorld
<1> QED
  BY <1>1, DocumentsInit, ControlAlways, PTL DEF Spec

----------------------------------------------------------------------------
(* A paid checkout *)

\* Only the start that failed turns a completed checkout.
LEMMA PaidStep ==
  ASSUME Control, Documents, [Next]_vars, NEW c \in Checkouts,
         checkouts[c].status = "completed", checkouts'[c].status # "completed"
  PROVE  checkouts'[c].status = "failed" /\ Failing(c)
<1>1. World => checkouts' = checkouts
  BY DEF World, Edits, Sweeps, Provides, Ticks, PutsCart, PutsHold, vars, stores
<1>2. PICK r \in Requests : Step(r)
  BY <1>1, Steps
<1>3. \/ checkouts' = checkouts
      \/ PutsCheckout(r) /\ (Stores(r) \/ Marks(r) \/ Turns(r) \/ Completes(r))
  <2>1. \/ checkouts' = checkouts
        \/ Stores(r) \/ Marks(r) \/ Turns(r) \/ Completes(r)
    BY <1>2 DEF Step, Starts, Claims, Reserves, Fails, Answers, Extends, HandsOver, GivesBack, Unclaims, Looks,
           Reads, Reopens, Converts, Consumes, Breaks, PutsCart, PutsHold, Quiet
  <2> QED
    BY <2>1 DEF Stores, Marks, Turns, Completes
<1>4. c = requests[r].checkout /\ (Stores(r) \/ Marks(r) \/ Turns(r) \/ Completes(r))
  BY <1>3 DEF PutsCheckout, Updates
<1>5. ~Stores(r)
  <2>1. DocumentsOf(requests[r])
    BY DEF Documents
  <2> QED
    BY <1>4, <2>1 DEF Stores, At, DocumentsOf, Unstored, IsStored
<1>6. ~Turns(r) /\ ~Completes(r)
  BY <1>4 DEF Turns, Completes
<1>7. Marks(r)
  BY <1>4, <1>5, <1>6
<1> QED
  BY <1>4, <1>7 DEF Marks, At, Failing

\* A paid checkout is never turned back by a cancel, an expiry or a reopening that
\* read it earlier; the start that failed after it had stored it overwrites it.
THEOREM PaidIsNotTurnedBack == Spec => PaidStaysPaid
<1>1. Control /\ Documents /\ [Next]_vars =>
        [\A c \in Checkouts :
           checkouts[c].status = "completed" /\ checkouts'[c].status # "completed"
             => checkouts'[c].status = "failed" /\ Failing(c)]_vars
  BY PaidStep
<1> QED
  BY <1>1, DocumentsAlways, PTL DEF Spec, PaidStaysPaid

----------------------------------------------------------------------------
(* The claim of the cart *)

\* A step keeps the owner of the claim, or takes the claim away.
LEMMA ClaimingStep ==
  ASSUME Control, Documents, Claiming, NEW r \in Requests, Step(r)
  PROVE  Claiming'
<1> PICK d \in Checkouts \cup {Nobody} : d = requests[r].checkout
  BY RowTyped
<1>1. Only(r) /\ ControlOf(requests[r]) /\ cart \in CartDocument
  BY SharedStep, RowTyped DEF Control, TypeOK
<1>2. \A q \in Requests \ {r} : requests'[q] = requests[q]
  BY <1>1 DEF Only
<1>3. \A q \in Requests : requests[q].op = "start" => requests[q].checkout \in Checkouts
  BY RowTyped DEF ControlOf
<1>4. ASSUME cart'.status # "checkout_pending"
      PROVE  Claiming'
  BY <1>4 DEF Claiming, ClaimHasOwner
<1>5. CASE Claims(r)
  <2>1. /\ cart'.claim = d /\ requests'[r].op = "start" /\ requests'[r].checkout = d
        /\ requests'[r].step = "reserve" /\ requests[r].op = "start"
        /\ requests'[r].cart = requests[r].cart /\ requests[r].step = "claim"
    BY <1>5 DEF Claims, At, Goes, Becomes
  <2>2. requests[r].cart # NoCart
    BY <1>1, <2>1 DEF ControlOf, NoCart
  <2>3. \A q \in Requests \ {r} : requests'[q].op = "start" => requests'[q].checkout # d
    BY <1>2, <2>1 DEF Documents, Alone
  <2> QED
    BY <2>1, <2>2, <2>3 DEF Claiming, ClaimHasOwner, Starting, ClaimingSteps
<1>6. CASE HandsOver(r) /\ cart' # cart
  <2>1. cart'.claim = Nobody
    BY <1>6 DEF HandsOver
  <2>2. requests'[r] = Idle
    BY <1>6 DEF HandsOver, Ends
  <2>3. \A q \in Requests : requests'[q].op = "start" => requests'[q].checkout # Nobody
    BY <1>2, <1>3, <2>2, EmptyRows, Constants
  <2> QED
    BY <2>1, <2>3 DEF Claiming, ClaimHasOwner
<1>7. (Unclaims(r) /\ cart' # cart) \/ Reopens(r) \/ Converts(r) => cart'.status # "checkout_pending"
  BY DEF Unclaims, Reopens, Converts
<1>8. CASE cart' = cart /\ cart.status = "checkout_pending"
  <2>1. ASSUME cart.claim # Nobody, requests[r].op = "start", d = cart.claim, d \notin broken
        PROVE  \/ Breaks(r)
               \/ /\ requests'[r].op = "start" /\ requests'[r].checkout = d
                  /\ requests'[r].cart = requests[r].cart /\ requests'[r].step \in ClaimingSteps
    <3>1. requests[r].step \in ClaimingSteps /\ requests[r].cart # NoCart
      BY <1>8, <2>1 DEF Claiming
    <3>2. CASE Reserves(r) \/ Fails(r) \/ (\E x \in Nat : Answers(r, x)) \/ Extends(r) \/ Stores(r)
      BY <2>1, <3>2 DEF Reserves, Fails, Answers, Extends, Stores, At, Goes, Becomes, ClaimingSteps
    <3>3. CASE GivesBack(r)
      BY <2>1, <3>3 DEF GivesBack, At, Goes, Becomes, ClaimingSteps
    <3>4. ~HandsOver(r) /\ ~Unclaims(r) /\ ~Marks(r) /\ ~Claims(r)
      <4>1. ~HandsOver(r)
        BY <1>3, <1>8, <2>1, <3>1, Constants DEF HandsOver
      <4>2. ~Unclaims(r)
        BY <1>8, <2>1, <3>1 DEF Unclaims
      <4> QED
        BY <3>1, <4>1, <4>2 DEF Marks, Claims, At, ClaimingSteps
    <3>5. ~Looks(r) /\ ~Turns(r) /\ ~Reads(r) /\ ~Reopens(r) /\ ~Completes(r) /\ ~Converts(r) /\ ~Consumes(r)
          /\ ~\E c \in Checkouts, k \in Keys \cup {NoKey} : Starts(r, c, k)
      BY <2>1, <3>1, EmptyRows DEF Looks, Turns, AllExpired, Reads, Reopens, Completes, Converts, Consumes,
                                   Starts, At, ClaimingSteps
    <3> QED
      BY <3>2, <3>3, <3>4, <3>5 DEF Step
  <2>2. broken \subseteq broken'
    BY DEF Step, Starts, Claims, Reserves, Fails, Answers, Extends, Stores, HandsOver, GivesBack, Unclaims,
           Marks, Looks, Turns, Reads, Reopens, Completes, Converts, Consumes, Breaks, PutsCart, PutsCheckout,
           PutsHold, Quiet, Timeless
  <2>3. ClaimHasOwner'
    <3> SUFFICES ASSUME cart.claim # Nobody
                 PROVE  (\E q \in Requests : requests'[q].op = "start" /\ requests'[q].checkout = cart.claim)
                        \/ cart.claim \in broken'
      BY <1>8 DEF ClaimHasOwner, Starting
    <3>1. CASE cart.claim \in broken
      BY <2>2, <3>1
    <3>2. CASE Starting(cart.claim)
      <4>1. PICK q \in Requests : requests[q].op = "start" /\ requests[q].checkout = cart.claim
        BY <3>2 DEF Starting
      <4>2. CASE q # r
        BY <1>2, <4>1, <4>2
      <4>3. CASE q = r
        <5>1. CASE d \in broken \/ Breaks(r)
          BY <2>2, <4>1, <4>3, <5>1 DEF Breaks
        <5>2. CASE d \notin broken /\ ~Breaks(r)
          BY <2>1, <4>1, <4>3, <5>2
        <5> QED
          BY <5>1, <5>2
      <4> QED
        BY <4>2, <4>3
    <3> QED
      BY <1>8, <3>1, <3>2 DEF Claiming, ClaimHasOwner
  <2>4. ASSUME NEW q \in Requests, requests'[q].op = "start", cart.claim = requests'[q].checkout,
               cart.claim \notin broken'
        PROVE  requests'[q].step \in ClaimingSteps /\ requests'[q].cart # NoCart
    <3>1. CASE q # r
      BY <1>2, <1>8, <2>2, <2>4, <3>1 DEF Claiming
    <3>2. CASE q = r
      <4>1. ASSUME NEW c \in Checkouts, NEW k \in Keys \cup {NoKey}, Starts(r, c, k)
            PROVE  FALSE
        BY <2>4, <3>2, <4>1, Constants DEF Starts, Documents, Refers
      <4>2. requests'[r].op = "start"
              => (requests[r].op = "start" /\ requests'[r].checkout = d)
                 \/ \E c \in Checkouts, k \in Keys \cup {NoKey} : Starts(r, c, k)
        <5>1. CASE Ends(r) \/ Looks(r)
          BY <5>1, EmptyRows DEF Ends, Looks
        <5>2. CASE ~Ends(r) /\ ~Looks(r)
          BY <5>2 DEF Step, Claims, Reserves, Fails, Answers, Extends, Stores, HandsOver, GivesBack, Unclaims,
                Marks, Turns, Reads, Reopens, Completes, Converts, Consumes, Breaks, Slips, Goes, Becomes
        <5> QED
          BY <5>1, <5>2
      <4>3. requests[r].op = "start" /\ d = cart.claim /\ d \in Checkouts
        BY <1>3, <2>4, <3>2, <4>1, <4>2
      <4>4. ~Breaks(r) /\ d \notin broken
        BY <2>2, <2>4, <4>3 DEF Breaks
      <4>5. requests[r].cart # NoCart
        BY <1>8, <4>3, <4>4 DEF Claiming
      <4> QED
        BY <2>1, <3>2, <4>3, <4>4, <4>5, Constants
    <3> QED
      BY <3>1, <3>2
  <2> QED
    BY <1>8, <2>3, <2>4 DEF Claiming
<1>9. cart' = cart \/ Claims(r) \/ HandsOver(r) \/ Unclaims(r) \/ Reopens(r) \/ Converts(r)
  BY DEF Step, Starts, Reserves, Fails, Answers, Extends, Stores, GivesBack, Marks, Looks, Turns, Reads,
         Completes, Consumes, Breaks, PutsCheckout, PutsHold, Quiet
<1> QED
  BY <1>4, <1>5, <1>6, <1>7, <1>8, <1>9

\* The world around leaves the claim alone.
LEMMA ClaimingWorld ==
  ASSUME Control, Claiming, World
  PROVE  Claiming'
<1>1. UNCHANGED requests /\ UNCHANGED broken /\ (cart' = cart \/ cart'.status = "open")
  BY DEF World, Edits, Sweeps, Provides, Ticks, Still, PutsCart, PutsHold, Timeless, vars, stores, history
<1> QED
  BY <1>1 DEF Claiming, ClaimHasOwner, Starting

\* Claiming is inductive.
LEMMA ClaimingAlways == Spec => []Claiming
<1>1. Init => Claiming
  BY EmptyRows DEF Init, NoCart, Claiming, ClaimHasOwner
<1>2. Control /\ Documents /\ Claiming /\ [Next]_vars => Claiming'
  BY Steps, ClaimingStep, ClaimingWorld
<1> QED
  BY <1>1, <1>2, DocumentsAlways, PTL DEF Spec

\* A pending cart that is claimed waits for a start that is still running, or that broke
\* off: died, ended by an error nothing catches, or passed over the failed release of its
\* claim.  Whatever else fails in start.ts, the claim is given back.
THEOREM ClaimIsOwned == Spec => []ClaimHasOwner
<1>1. Claiming => ClaimHasOwner
  BY DEF Claiming
<1> QED
  BY <1>1, ClaimingAlways, PTL

----------------------------------------------------------------------------
(* Units that are given back *)

\* A line is only held by the start that reserves it.
LEMMA HoldsStep ==
  ASSUME Control, NEW r \in Requests, Step(r), NEW c \in Checkouts, NEW l \in Lines
  PROVE  \/ Reserves(r) /\ c = requests[r].checkout /\ l = requests[r].line /\ holds'[c][l] = "active"
         \/ /\ holds'[c][l] = "active" => holds[c][l] = "active"
            /\ holds[c][l] = "absent" => holds'[c][l] = "absent"
<1>1. CASE Reserves(r) \/ GivesBack(r) \/ Consumes(r)
  BY <1>1 DEF Reserves, GivesBack, Consumes, Sets
<1>2. CASE ~(Reserves(r) \/ GivesBack(r) \/ Consumes(r))
  <2>1. holds' = holds
    BY <1>2 DEF Step, Starts, Claims, Fails, Answers, Extends, Stores, HandsOver, Unclaims, Marks, Looks,
                Turns, Reads, Reopens, Completes, Converts, Breaks, PutsCart, PutsCheckout, Quiet
  <2> QED
    BY <2>1
<1> QED
  BY <1>1, <1>2

\* The lines before the one a loop has come to.
LEMMA BeforeFacts ==
  ASSUME Control, NEW r \in Requests
  PROVE  /\ Before(r) \subseteq Lines
         /\ requests[r].line = 1 => Before(r) = {}
         /\ requests[r].line \in Moments \ Lines => Before(r) = Lines
<1>1. requests[r].line = 1 => Before(r) = {}
  BY Constants DEF Before, Lines
<1>2. requests[r].line \in Moments \ Lines => Before(r) = Lines
  BY LineFacts DEF Before
<1> QED
  BY <1>1, <1>2 DEF Before

\* After a step.
LEMMA BeforeStep ==
  ASSUME Control, NEW r \in Requests
  PROVE  /\ requests'[r].line = requests[r].line => Before(r)' = Before(r)
         /\ requests'[r].line = 1 => Before(r)' = {}
         /\ requests[r].line \in Lines /\ requests'[r].line = requests[r].line + 1
              => Before(r)' = Before(r) \cup {requests[r].line}
<1>1. Before(r)' = {l \in Lines : l < requests'[r].line}
  BY DEF Before
<1>2. requests'[r].line = 1 => Before(r)' = {}
  BY <1>1, Constants DEF Lines
<1>3. ASSUME requests[r].line \in Lines, requests'[r].line = requests[r].line + 1
      PROVE  Before(r)' = Before(r) \cup {requests[r].line}
  BY <1>1, <1>3, Constants DEF Lines, Before
<1> QED
  BY <1>1, <1>2, <1>3 DEF Before

\* Who reserves is alone with a checkout that is not stored.
LEMMA ReserverIsAlone ==
  ASSUME Control, Documents, NEW r \in Requests, At(r, "start", "reserve"), NEW q \in Requests \ {r}
  PROVE  /\ requests[q].op # "idle" => requests[q].checkout # requests[r].checkout
         /\ requests[r].checkout \in Checkouts /\ ~IsStored(requests[r].checkout)
         /\ keyOf[requests[r].checkout] # Unused
<1>1. ControlOf(requests[r]) /\ DocumentsOf(requests[r]) /\ ControlOf(requests[q]) /\ DocumentsOf(requests[q])
  BY RowTyped DEF Documents
<1>2. requests[r].checkout \in Checkouts /\ ~IsStored(requests[r].checkout) /\ keyOf[requests[r].checkout] # Unused
  BY <1>1 DEF At, ControlOf, DocumentsOf, Unstored
<1>3. CASE requests[q].op = "start"
  BY <1>2, <1>3 DEF At, Documents, Alone
<1>4. CASE requests[q].op # "start"
  BY <1>1, <1>2, <1>4, Constants DEF DocumentsOf
<1> QED
  BY <1>2, <1>3, <1>4

\* History only grows.
LEMMA BrokenGrows ==
  ASSUME NEW r \in Requests, Step(r)
  PROVE  broken \subseteq broken' /\ (broken' = broken \/ Breaks(r)) /\ slow' = slow
BY DEF Step, Starts, Claims, Reserves, Fails, Answers, Extends, Stores, HandsOver, GivesBack, Unclaims,
       Marks, Looks, Turns, Reads, Reopens, Completes, Converts, Consumes, Breaks, PutsCart, PutsCheckout,
       PutsHold, Quiet, Timeless

\* The provider's session of a stored checkout is not touched by a request.
LEMMA ProviderStays ==
  ASSUME Control, Documents, NEW r \in Requests, Step(r), NEW c \in Checkouts, IsStored(c)
  PROVE  provider'[c] = provider[c]
<1>1. ASSUME NEW x \in Nat, Answers(r, x)
      PROVE  provider'[c] = provider[c]
  <2>1. c # requests[r].checkout
    BY <1>1 DEF Documents, Answers, AllReserved, At, DocumentsOf, Unstored
  <2> QED
    BY <1>1, <2>1 DEF Answers
<1>2. (\E x \in Nat : Answers(r, x)) \/ provider' = provider
  BY DEF Step, Starts, Claims, Reserves, Fails, Extends, Stores, HandsOver, GivesBack, Unclaims,
         Marks, Looks, Turns, Reads, Reopens, Completes, Converts, Consumes, Breaks, PutsCart, PutsCheckout,
         PutsHold, Quiet
<1> QED
  BY <1>1, <1>2

\* What another request gave back stays given back.
LEMMA FreeingOthers ==
  ASSUME Control, Documents, NEW r \in Requests, Step(r), NEW q \in Requests \ {r}, FreeingOf(q)
  PROVE  FreeingOf(q)'
<1>1. requests'[q] = requests[q]
  BY SharedStep DEF Only
<1>2. Before(q)' = Before(q) /\ Before(q) \subseteq Lines
  BY <1>1, BeforeStep, BeforeFacts
<1>3. CASE requests[q].op \in {"start", "cancel", "expire"}
  <2>1. requests[q].checkout \in Checkouts
    BY <1>3, RowTyped DEF ControlOf
  <2>2. Reserves(r) => requests[r].checkout # requests[q].checkout
    BY <1>3, ReserverIsAlone DEF Reserves
  <2>3. \A l \in Lines : /\ holds'[requests[q].checkout][l] = "active" => holds[requests[q].checkout][l] = "active"
                         /\ holds[requests[q].checkout][l] = "absent" => holds'[requests[q].checkout][l] = "absent"
    BY <2>1, <2>2, HoldsStep
  <2>4. broken \subseteq broken'
    BY BrokenGrows
  <2> QED
    BY <1>1, <1>2, <2>3, <2>4 DEF FreeingOf, At, Idles
<1>4. CASE requests[q].op \notin {"start", "cancel", "expire"}
  BY <1>1, <1>4 DEF FreeingOf, At
<1> QED
  BY <1>3, <1>4

\* What this request gives back.
LEMMA FreeingOwn ==
  ASSUME Control, Documents, Freeing, NEW r \in Requests, Step(r)
  PROVE  FreeingOf(r)'
<1> PICK d \in Checkouts \cup {Nobody} : d = requests[r].checkout
  BY RowTyped
<1>1. ControlOf(requests[r]) /\ FreeingOf(r) /\ DocumentsOf(requests[r])
  BY RowTyped DEF Freeing, Documents
<1>2. CASE requests'[r].op \notin {"start", "cancel", "expire"}
  BY <1>2 DEF FreeingOf, At
<1>3. ASSUME NEW c \in Checkouts, NEW k \in Keys \cup {NoKey}, Starts(r, c, k)
      PROVE  FreeingOf(r)'
  <2>1. \A l \in Lines : holds'[c][l] = "absent"
    BY <1>3 DEF Starts, Freeing
  <2>2. requests'[r].op = "start" /\ requests'[r].step \in {"claim", "reserve"} /\ requests'[r].checkout = c
    BY <1>3 DEF Starts
  <2> QED
    BY <2>1, <2>2 DEF FreeingOf, At
<1>4. CASE Claims(r)
  <2>1. \A l \in Lines : holds'[d][l] = "absent"
    BY <1>1, <1>4 DEF Claims, FreeingOf, PutsCart
  <2>2. requests'[r].op = "start" /\ requests'[r].step = "reserve" /\ requests'[r].checkout = d
    BY <1>4 DEF Claims, At, Goes, Becomes
  <2> QED
    BY <2>1, <2>2 DEF FreeingOf, At
<1>5. CASE Reserves(r)
  <2>1. /\ requests'[r].op = "start" /\ requests'[r].step = "reserve" /\ requests'[r].checkout = d
        /\ requests'[r].line = requests[r].line + 1 /\ d \in Checkouts
    BY <1>1, <1>5 DEF Reserves, At, Goes, Becomes, ControlOf
  <2>2. requests[r].line \in Lines
    BY <1>5, LineFacts DEF Reserves, Wanted
  <2>3. Before(r)' = Before(r) \cup {requests[r].line}
    BY <2>1, <2>2, BeforeStep
  <2>4. \A l \in Lines \ Before(r)' : holds'[d][l] = "absent"
    BY <1>1, <1>5, <2>1, <2>3 DEF Reserves, Sets, FreeingOf
  <2> QED
    BY <2>1, <2>4 DEF FreeingOf, At
<1>6. CASE Fails(r)
  <2>1. requests'[r].op = "start" /\ requests'[r].step = "release" /\ requests'[r].line = 1
    BY <1>6 DEF Fails, Goes, Becomes
  <2>2. Before(r)' = {}
    BY <2>1, BeforeStep
  <2> QED
    BY <2>1, <2>2 DEF FreeingOf, At, Idles
<1>7. CASE GivesBack(r) /\ requests[r].op # "reopen"
  <2>1. /\ requests'[r].op = requests[r].op /\ requests'[r].step = requests[r].step
        /\ requests'[r].checkout = d /\ requests'[r].line = requests[r].line + 1
        /\ requests[r].line \in Lines /\ d \in Checkouts
    BY <1>7 DEF GivesBack, Goes, Becomes
  <2>2. Before(r)' = Before(r) \cup {requests[r].line}
    BY <2>1, BeforeStep
  <2>3. At(r, "start", "release") \/ (requests[r].op \in {"cancel", "expire"} /\ requests[r].step = "expire")
    BY <1>7 DEF GivesBack
  <2>6. CASE requests[r].op = "start" /\ d \in broken
    <3>1. d \in broken'
      BY <2>6, BrokenGrows
    <3> QED
      BY <2>1, <2>3, <2>6, <3>1 DEF FreeingOf, At
  <2> SUFFICES ASSUME ~(requests[r].op = "start" /\ d \in broken) PROVE FreeingOf(r)'
    BY <2>6
  <2>4. Idles(d, Before(r))
    BY <1>1, <2>3 DEF FreeingOf, At
  <2>5. \A l \in Before(r)' : holds'[d][l] # "active"
    <3>1. holds'[d][requests[r].line] # "active"
      BY <1>7, <2>1 DEF GivesBack, Sets
    <3>2. Before(r) \subseteq Lines /\ ~Reserves(r)
      BY <2>3, BeforeFacts DEF Reserves, At
    <3> QED
      BY <2>1, <2>2, <2>4, <3>1, <3>2, HoldsStep DEF Idles
  <2> QED
    BY <2>1, <2>3, <2>5 DEF FreeingOf, At, Idles
<1>8. CASE Unclaims(r) /\ Goes(r, "mark_failed", 1)
  <2>5. CASE d \in broken
    <3>1. d \in broken' /\ requests'[r].op = "start" /\ requests'[r].checkout = d
          /\ requests'[r].step = "mark_failed"
      BY <1>8, <2>5, BrokenGrows DEF Unclaims, AllReleased, Goes, Becomes, At
    <3> QED
      BY <3>1 DEF FreeingOf, At
  <2> SUFFICES ASSUME d \notin broken PROVE FreeingOf(r)'
    BY <2>5
  <2>1. At(r, "start", "release") /\ requests[r].line \in Moments \ Lines
    BY <1>1, <1>8 DEF Unclaims, AllReleased, At, ControlOf
  <2>2. Before(r) = Lines
    BY <2>1, BeforeFacts
  <2>3. \A l \in Lines : holds'[d][l] # "active"
    BY <1>1, <1>8, <2>1, <2>2 DEF FreeingOf, Idles, Unclaims, PutsCart
  <2>4. requests'[r].op = "start" /\ requests'[r].step = "mark_failed" /\ requests'[r].checkout = d
    BY <1>8, <2>1 DEF Goes, Becomes, At
  <2> QED
    BY <2>3, <2>4 DEF FreeingOf, At, Idles
<1>9. CASE Looks(r)
  <2>1. requests'[r].op \in {"cancel", "expire"} => requests'[r].line = 1
    BY <1>9 DEF Looks
  <2>2. requests'[r].op # "start"
    BY <1>9 DEF Looks
  <2>3. requests'[r].line = 1 => Before(r)' = {}
    BY BeforeStep
  <2> QED
    BY <2>1, <2>2, <2>3 DEF FreeingOf, At, Idles
<1>10. CASE requests'[r].op = "start" /\ requests'[r].step \in {"extend", "put_checkout", "put_cart"}
  BY <1>10 DEF FreeingOf, At
<1>11. CASE requests'[r].op \in {"cancel", "expire"} /\ requests'[r].step # "expire"
  BY <1>11 DEF FreeingOf, At
<1>12. (\E x \in Nat : Answers(r, x)) \/ Extends(r) \/ Stores(r)
         => requests'[r].op = "start" /\ requests'[r].step \in {"extend", "put_checkout", "put_cart"}
  BY DEF Answers, AllReserved, Extends, Stores, At, Goes, Becomes
<1>13. Ends(r) => requests'[r].op \notin {"start", "cancel", "expire"}
  BY EmptyRows DEF Ends
<1>14. (GivesBack(r) /\ requests[r].op = "reopen") \/ Completes(r) \/ Converts(r) \/ Consumes(r)
         => requests'[r].op \notin {"start", "cancel", "expire"}
  BY EmptyRows DEF GivesBack, Completes, Converts, Consumes, At, Goes, Becomes, Ends
<1>15. (Turns(r) \/ Reads(r)) /\ ~Ends(r)
         => \/ requests'[r].op \notin {"start", "cancel", "expire"}
            \/ requests'[r].op = "cancel" /\ requests'[r].step # "expire"
  BY DEF Turns, Reads, At, Goes, Becomes
<1>16. /\ HandsOver(r) \/ Marks(r) \/ Reopens(r) => Ends(r)
       /\ Unclaims(r) => Ends(r) \/ Goes(r, "mark_failed", 1)
  BY DEF HandsOver, Marks, Reopens, Unclaims
<1>17. CASE Breaks(r)
  <2>1. CASE Slips(r)
    <3>1. /\ requests'[r].op = "start" /\ requests'[r].step \in {"release", "mark_failed"}
          /\ requests'[r].checkout = d /\ d \in broken'
      BY <1>17, <2>1 DEF Breaks, Slips, Goes, Becomes
    <3> QED
      BY <3>1 DEF FreeingOf, At
  <2> QED
    BY <1>13, <1>2, <1>17, <2>1 DEF Breaks
<1> QED
  BY <1>2, <1>3, <1>4, <1>5, <1>6, <1>7, <1>8, <1>9, <1>10, <1>11, <1>12, <1>13, <1>14, <1>15, <1>16,
     <1>17 DEF Step

\* A checkout that is cancelled, expired or failed holds nothing, unless the provider
\* answered it so or its start broke off.
LEMMA FreeingEnded ==
  ASSUME Control, Documents, Freeing, NEW r \in Requests, Step(r), NEW c \in Checkouts,
         checkouts'[c].status \in {"cancelled", "expired", "failed"},
         c \notin broken', provider'[c] # "closed"
  PROVE  Idles(c, Lines)'
<1>1. Reserves(r) => c # requests[r].checkout
  <2> SUFFICES ASSUME Reserves(r), c = requests[r].checkout PROVE FALSE
    OBVIOUS
  <2>1. At(r, "start", "reserve") /\ checkouts' = checkouts /\ DocumentsOf(requests[r])
    BY DEF Reserves, Documents
  <2>2. ~IsStored(c)
    BY <2>1 DEF At, DocumentsOf, Unstored
  <2> QED
    BY <2>1, <2>2 DEF IsStored
<1>2. Idles(c, Lines) => Idles(c, Lines)'
  BY <1>1, HoldsStep DEF Idles
<1> SUFFICES Idles(c, Lines)
  BY <1>2
<1>5. c \notin broken
  BY BrokenGrows
<1>3. CASE checkouts'[c].status = checkouts[c].status
  <2>1. provider'[c] = provider[c]
    BY <1>3, ProviderStays DEF IsStored
  <2> QED
    BY <1>3, <1>5, <2>1 DEF Freeing
<1>4. CASE checkouts'[c].status # checkouts[c].status
  <2>1. Marks(r) \/ Turns(r)
    <3>1. Stores(r) \/ Marks(r) \/ Turns(r) \/ Completes(r)
      <4>1. checkouts' # checkouts
        BY <1>4
      <4> QED
        BY <4>1 DEF Step, Starts, Claims, Reserves, Fails, Answers, Extends, HandsOver, GivesBack, Unclaims,
                    Looks, Reads, Reopens, Converts, Consumes, Breaks, PutsCart, PutsHold, Quiet
    <3>2. PutsCheckout(r)
      BY <3>1 DEF Stores, Marks, Turns, Completes
    <3>3. c = requests[r].checkout
      BY <1>4, <3>2 DEF PutsCheckout, Updates
    <3>4. ~Stores(r)
      BY <3>3 DEF Stores, PutsCheckout
    <3> QED
      BY <3>1, <3>3, <3>4 DEF Completes
  <2>2. c = requests[r].checkout /\ FreeingOf(r) /\ ControlOf(requests[r])
    <3>1. PutsCheckout(r)
      BY <2>1 DEF Marks, Turns
    <3>2. c = requests[r].checkout
      BY <1>4, <3>1 DEF PutsCheckout, Updates
    <3> QED
      BY <3>2, RowTyped DEF Freeing
  <2>3. CASE Marks(r)
    BY <1>5, <2>2, <2>3 DEF Marks, FreeingOf
  <2>4. CASE Turns(r)
    <3>1. /\ requests[r].op \in {"cancel", "expire"} /\ requests[r].step = "expire"
          /\ requests[r].line \in Moments \ Lines
      BY <2>2, <2>4, Constants DEF Turns, AllExpired, At, ControlOf
    <3>2. Before(r) = Lines
      BY <3>1, BeforeFacts
    <3> QED
      BY <2>2, <3>1, <3>2 DEF FreeingOf
  <2> QED
    BY <2>1, <2>3, <2>4
<1> QED
  BY <1>3, <1>4

\* A checkout that was never stored holds nothing when its start has ended.
LEMMA FreeingUnstored ==
  ASSUME Control, Documents, Freeing, NEW r \in Requests, Step(r), NEW c \in Checkouts,
         ~IsStored(c)', ~Starting(c)', c \notin broken'
  PROVE  Idles(c, Lines)'
<1>1. Only(r) /\ ControlOf(requests[r]) /\ FreeingOf(r) /\ DocumentsOf(requests[r])
  BY SharedStep, RowTyped DEF Freeing, Documents
<1>2. \A q \in Requests : ~(requests'[q].op = "start" /\ requests'[q].checkout = c)
  BY DEF Starting
<1>3. ~Reserves(r) \/ c # requests[r].checkout
  BY <1>2 DEF Reserves, At, Goes, Becomes
<1>4. Idles(c, Lines) => Idles(c, Lines)'
  BY <1>3, HoldsStep DEF Idles
<1> SUFFICES Idles(c, Lines)
  BY <1>4
<1>5. ~IsStored(c) /\ c \notin broken
  BY DocumentsGrow, BrokenGrows DEF Grows
<1>6. CASE ~Starting(c)
  BY <1>5, <1>6 DEF Freeing
<1>7. CASE Starting(c)
  <2>1. requests[r].op = "start" /\ requests[r].checkout = c
    BY <1>1, <1>2, <1>7 DEF Starting, Only
  <2>2. ~(requests'[r].op = requests[r].op /\ requests'[r].checkout = requests[r].checkout)
    BY <1>2, <2>1
  <2>3. (Reads(r) /\ At(r, "start", "claim")) \/ HandsOver(r) \/ Unclaims(r) \/ Marks(r) \/ Breaks(r)
    <3>1. ~(Claims(r) \/ Reserves(r) \/ Fails(r) \/ (\E x \in Nat : Answers(r, x)) \/ Extends(r) \/ Stores(r)
            \/ GivesBack(r))
      BY <2>2 DEF Claims, Reserves, Fails, Answers, Extends, Stores, GivesBack, Goes, Becomes
    <3>2. ~Looks(r) /\ ~\E d \in Checkouts, k \in Keys \cup {NoKey} : Starts(r, d, k)
      BY <2>1, EmptyRows DEF Looks, Starts
    <3>3. ~(Turns(r) \/ Reopens(r) \/ Completes(r) \/ Converts(r) \/ Consumes(r))
      BY <2>1 DEF Turns, AllExpired, Reopens, Completes, Converts, Consumes, At
    <3>4. Reads(r) => At(r, "start", "claim")
      BY <2>1 DEF Reads, At
    <3> QED
      BY <3>1, <3>2, <3>3, <3>4 DEF Step
  <2>4. CASE Reads(r) /\ At(r, "start", "claim")
    BY <1>1, <2>1, <2>4 DEF FreeingOf, Idles
  <2>5. ~HandsOver(r) /\ ~Marks(r)
    BY <1>1, <1>5, <2>1 DEF HandsOver, Marks, At, DocumentsOf
  <2>6. CASE Unclaims(r)
    <3>1. At(r, "start", "release") /\ requests[r].line \in Moments \ Lines
      BY <1>1, <2>6 DEF Unclaims, AllReleased, At, ControlOf
    <3>2. Before(r) = Lines
      BY <3>1, BeforeFacts
    <3> QED
      BY <1>1, <1>5, <2>1, <3>1, <3>2 DEF FreeingOf
  <2>7. ~Breaks(r)
    BY <2>1 DEF Breaks
  <2> QED
    BY <2>3, <2>4, <2>5, <2>6, <2>7
<1> QED
  BY <1>6, <1>7

\* Freeing is kept by every step of a request.
LEMMA FreeingStep ==
  ASSUME Control, Documents, Freeing, NEW r \in Requests, Step(r)
  PROVE  Freeing'
<1>1. \A q \in Requests : FreeingOf(q)'
  BY FreeingOthers, FreeingOwn DEF Freeing
<1>2. ASSUME NEW c \in Checkouts, keyOf'[c] = Unused, NEW l \in Lines
      PROVE  holds'[c][l] = "absent"
  <2>1. keyOf[c] = Unused
    BY <1>2, DocumentsGrow DEF Grows
  <2>2. ~Reserves(r) \/ c # requests[r].checkout
    <3>1. DocumentsOf(requests[r])
      BY DEF Documents
    <3> QED
      BY <2>1, <3>1 DEF Reserves, At, DocumentsOf
  <2> QED
    BY <2>1, <2>2, HoldsStep DEF Freeing
<1>3. \A c \in Checkouts :
        checkouts'[c].status \in {"cancelled", "expired", "failed"} /\ c \notin broken' /\ provider'[c] # "closed"
          => Idles(c, Lines)'
  BY FreeingEnded
<1>4. \A c \in Checkouts : ~IsStored(c)' /\ ~Starting(c)' /\ c \notin broken' => Idles(c, Lines)'
  BY FreeingUnstored
<1> QED
  BY <1>1, <1>2, <1>3, <1>4 DEF Freeing

\* The sweep only ends reservations.
LEMMA FreeingWorld ==
  ASSUME Control, Freeing, World
  PROVE  Freeing'
<1>1. UNCHANGED <<checkouts, keyOf, requests, broken>>
  BY DEF World, Edits, Sweeps, Provides, Ticks, Still, PutsCart, PutsHold, Timeless, vars, stores, history
<1>2. \A c \in Checkouts, l \in Lines :
        /\ holds'[c][l] = "active" => holds[c][l] = "active"
        /\ holds[c][l] = "absent" => holds'[c][l] = "absent"
  BY DEF World, Edits, Sweeps, Provides, Ticks, PutsCart, vars, stores
<1>3. \A r \in Requests : Before(r)' = Before(r) /\ Before(r) \subseteq Lines
  BY <1>1, BeforeFacts DEF Before
<1>4. ASSUME NEW r \in Requests
      PROVE  FreeingOf(r)'
  <2>1. CASE requests[r].op \in {"start", "cancel", "expire"}
    <3>1. requests[r].checkout \in Checkouts /\ FreeingOf(r)
      BY <2>1, RowTyped DEF ControlOf, Freeing
    <3> QED
      BY <1>1, <1>2, <1>3, <3>1 DEF FreeingOf, At, Idles
  <2>2. CASE requests[r].op \notin {"start", "cancel", "expire"}
    BY <1>1, <2>2 DEF FreeingOf, At
  <2> QED
    BY <2>1, <2>2
<1>5. \A c \in Checkouts : provider[c] = "closed" => provider'[c] = "closed"
  BY DEF World, Edits, Sweeps, Provides, Ticks, PutsCart, PutsHold, vars, stores
<1> QED
  BY <1>1, <1>2, <1>4, <1>5 DEF Freeing, Idles, IsStored, Starting

\* Freeing is inductive.
LEMMA FreeingAlways == Spec => []Freeing
<1>1. Init => Freeing
  BY EmptyRows DEF Init, Freeing, FreeingOf, At, Idles, NoCheckout
<1>2. Control /\ Documents /\ Freeing /\ [Next]_vars => Freeing'
  BY Steps, FreeingStep, FreeingWorld
<1> QED
  BY <1>1, <1>2, DocumentsAlways, PTL DEF Spec

\* Units do not leak: when every request on a checkout has ended and none broke off, a
\* checkout that was never stored, failed, was cancelled or expired holds nothing,
\* unless the provider answered its start with a session that was closed.
THEOREM NothingAbandoned == Spec => []NoAbandonedHold
<1>1. Control /\ Freeing => NoAbandonedHold
  <2> SUFFICES ASSUME Control, Freeing, NEW c \in Checkouts \ broken,
                      ~Working(c), checkouts[c].status \notin {"created", "completed"},
                      provider[c] # "closed"
               PROVE  \A l \in Lines : holds[c][l] # "active"
    BY DEF NoAbandonedHold
  <2>1. checkouts[c].status \in {"absent", "cancelled", "expired", "failed"}
    BY CheckoutTyped DEF Statuses, Live
  <2>2. ~Starting(c)
    BY DEF Working, Starting
  <2> QED
    BY <2>1, <2>2 DEF Freeing, Idles, IsStored
<1> QED
  BY <1>1, ControlAlways, FreeingAlways, PTL

----------------------------------------------------------------------------
(* What a start holds *)

\* The steps of a start before its checkout is stored.
IsUnstored(r) == requests[r].op = "start" /\ requests[r].step \in Unstored

\* Before its checkout is stored, a start is alone with it.
LEMMA UnstoredIsAlone ==
  ASSUME Control, Documents, NEW r \in Requests, IsUnstored(r), NEW q \in Requests \ {r}
  PROVE  /\ requests[q].op # "idle" => requests[q].checkout # requests[r].checkout
         /\ requests[r].checkout \in Checkouts /\ ~IsStored(requests[r].checkout)
<1>1. ControlOf(requests[r]) /\ DocumentsOf(requests[r]) /\ ControlOf(requests[q]) /\ DocumentsOf(requests[q])
  BY RowTyped DEF Documents
<1>2. requests[r].checkout \in Checkouts /\ ~IsStored(requests[r].checkout)
  BY <1>1 DEF IsUnstored, ControlOf, DocumentsOf
<1>3. CASE requests[q].op = "start"
  BY <1>2, <1>3 DEF IsUnstored, Documents, Alone
<1>4. CASE requests[q].op # "start"
  BY <1>1, <1>2, <1>4, Constants DEF DocumentsOf
<1> QED
  BY <1>2, <1>3, <1>4

\* Only a request on the checkout touches what it holds, and no hold ends sooner.
LEMMA HoldsOfOthers ==
  ASSUME Control, NEW r \in Requests, Step(r), NEW c \in Checkouts,
         requests[r].op # "idle" => c # requests[r].checkout
  PROVE  /\ \A l \in Lines : holds'[c][l] = holds[c][l]
         /\ holdEnds'[c] >= holdEnds[c]
<1>1. holdEnds \in [Checkouts -> Nat]
  BY DEF Control, TypeOK
<1>2. CASE requests[r] = Idle
  <2>1. UNCHANGED <<holds, holdEnds>>
    BY <1>2, EmptyRows DEF Step, Starts, Claims, Reserves, Fails, Answers, AllReserved, Extends, Stores,
           HandsOver, GivesBack, Unclaims, AllReleased, Marks, Looks, Turns, AllExpired, Reads, Reopens,
           Completes, Converts, Consumes, Breaks, At, Quiet
  <2> QED
    BY <1>1, <2>1
<1>3. CASE requests[r] # Idle
  <2>1. c # requests[r].checkout
    BY <1>3, RowTyped DEF ControlOf
  <2>2. CASE Reserves(r)
    BY <1>1, <2>1, <2>2 DEF Reserves, Sets
  <2>3. CASE GivesBack(r) \/ Consumes(r)
    BY <1>1, <2>1, <2>3 DEF GivesBack, Consumes, Sets, PutsHold
  <2>4. CASE Extends(r)
    BY <2>4 DEF Extends
  <2>5. CASE ~(Reserves(r) \/ GivesBack(r) \/ Consumes(r) \/ Extends(r))
    <3>1. UNCHANGED <<holds, holdEnds>>
      BY <2>5 DEF Step, Starts, Claims, Fails, Answers, Stores, HandsOver, Unclaims, Marks, Looks,
              Turns, Reads, Reopens, Completes, Converts, Breaks, PutsCart, PutsCheckout, Quiet
    <3> QED
      BY <1>1, <3>1
  <2> QED
    BY <2>2, <2>3, <2>4, <2>5
<1> QED
  BY <1>2, <1>3

\* A stored checkout keeps its lines and its expiry, and is never created again.
LEMMA StoredStays ==
  ASSUME Control, Documents, NEW r \in Requests, Step(r), NEW c \in Checkouts, IsStored(c)
  PROVE  /\ ~(Stores(r) /\ c = requests[r].checkout)
         /\ checkouts'[c].expires = checkouts[c].expires /\ checkouts'[c].cart = checkouts[c].cart
         /\ checkouts'[c].status = "created" => checkouts'[c] = checkouts[c]
<1>1. ~(Stores(r) /\ c = requests[r].checkout)
  BY DEF Documents, DocumentsOf, Stores, At, Unstored
<1>2. CASE Stores(r) \/ Marks(r) \/ Turns(r) \/ Completes(r)
  <2>1. PutsCheckout(r)
    BY <1>2 DEF Stores, Marks, Turns, Completes
  <2>2. CASE c # requests[r].checkout
    BY <1>1, <2>1, <2>2 DEF PutsCheckout, Updates
  <2>3. CASE c = requests[r].checkout
    <3>1. Marks(r) \/ Turns(r) \/ Completes(r)
      BY <1>1, <1>2, <2>3
    <3> QED
      BY <1>1, <2>3, <3>1 DEF Marks, Turns, Completes
  <2> QED
    BY <2>2, <2>3
<1>3. CASE ~(Stores(r) \/ Marks(r) \/ Turns(r) \/ Completes(r))
  <2>1. checkouts' = checkouts
    BY <1>3 DEF Step, Starts, Claims, Reserves, Fails, Answers, Extends, HandsOver, GivesBack, Unclaims, Looks,
           Reads, Reopens, Converts, Consumes, Breaks, PutsCart, PutsHold, Quiet
  <2> QED
    BY <1>1, <2>1
<1> QED
  BY <1>2, <1>3

\* A start that is not late after a step was not late before it.
LEMMA LateStays ==
  ASSUME NEW r \in Requests, Step(r), NEW c
  PROVE  /\ Late(c) => Late(c)'
         /\ now' = now
<1>1. now' = now
  BY DEF Step, Starts, Claims, Reserves, Fails, Answers, Extends, Stores, HandsOver, GivesBack, Unclaims,
       Marks, Looks, Turns, Reads, Reopens, Completes, Converts, Consumes, Breaks, PutsCart, PutsCheckout,
       PutsHold, Quiet, Timeless
<1> QED
  BY <1>1, BrokenGrows DEF Late

\* What another start holds stays.
LEMMA KeepingOthers ==
  ASSUME Control, Documents, NEW r \in Requests, Step(r), NEW q \in Requests \ {r}, KeepingOf(q)
  PROVE  KeepingOf(q)'
<1> PICK c \in Checkouts \cup {Nobody} : c = requests[q].checkout
  BY RowTyped
<1>1. requests'[q] = requests[q] /\ requests'[q].checkout = c /\ ControlOf(requests[q]) /\ DocumentsOf(requests[q])
  BY SharedStep, RowTyped DEF Only, Documents
<1>2. Before(q)' = Before(q) /\ Before(q) \subseteq Lines
  BY <1>1, BeforeStep, BeforeFacts
<1>3. now' = now /\ (Late(c) => Late(c)')
  BY LateStays
<1>4. Wanted(q)' = Wanted(q) /\ Wanted(q) \subseteq Lines
  BY <1>1, LineFacts DEF Wanted
<1>5. CASE requests[q].op = "start"
  <2>1. c \in Checkouts
    BY <1>1, <1>5 DEF ControlOf
  <2>2. IsUnstored(q) => /\ \A l \in Lines : holds'[c][l] = holds[c][l]
                         /\ holdEnds'[c] >= holdEnds[c]
    BY <2>1, UnstoredIsAlone, HoldsOfOthers
  <2>3. holdEnds[c] \in Nat /\ holdEnds'[c] \in Nat /\ requests[q].at + TTL \in Nat /\ requests[q].expires \in Nat
    <3>1. Control'
      BY ControlStep
    <3> QED
      BY <2>1, <3>1, RowTyped, Constants DEF Control, TypeOK
  <2>4. ~Late(c)' => now' < requests[q].at + TTL
    BY <1>3, <1>5 DEF KeepingOf
  <2>5. CASE At(q, "start", "reserve")
    <3>1. IsUnstored(q)
      BY <2>5 DEF IsUnstored, At, Unstored
    <3>2. ~Late(c)' => Holds(c, Wanted(q) \cap Before(q)) /\ (requests[q].line > 1 => holdEnds[c] >= requests[q].at + TTL)
      BY <1>3, <2>5 DEF KeepingOf
    <3>3. ~Late(c)' => /\ \A l \in Wanted(q) \cap Before(q) : holds'[c][l] \in {"active", "consumed"}
                       /\ requests[q].line > 1 => holdEnds'[c] >= requests[q].at + TTL
      BY <1>2, <2>2, <2>3, <3>1, <3>2 DEF Holds
    <3> QED
      BY <1>1, <1>2, <1>4, <2>4, <2>5, <3>3 DEF KeepingOf, At, Holds
  <2>6. CASE At(q, "start", "extend") \/ At(q, "start", "put_checkout")
    <3>1. IsUnstored(q)
      BY <2>6 DEF IsUnstored, At, Unstored
    <3>2. ~Late(c)' => Holds(c, Wanted(q)) /\ holdEnds[c] >= requests[q].at + TTL
      BY <1>3, <2>6 DEF KeepingOf
    <3>3. ~Late(c)' => /\ \A l \in Wanted(q) : holds'[c][l] \in {"active", "consumed"}
                       /\ holdEnds'[c] >= requests[q].at + TTL
      BY <1>4, <2>2, <2>3, <3>1, <3>2 DEF Holds
    <3>4. At(q, "start", "put_checkout") => holdEnds'[c] >= requests[q].expires
      BY <2>2, <2>3, <3>1 DEF KeepingOf
    <3> QED
      BY <1>1, <1>4, <2>4, <2>6, <3>3, <3>4 DEF KeepingOf, At, Holds
  <2>7. CASE requests[q].step \notin {"reserve", "extend", "put_checkout"}
    BY <1>1, <1>5, <2>4, <2>7 DEF KeepingOf, At
  <2> QED
    BY <1>5, <2>5, <2>6, <2>7 DEF At
<1>6. CASE requests[q].op # "start"
  <2>1. c # Nobody /\ requests[q].op # "idle" => c \in Checkouts /\ IsStored(c)
    BY <1>1, <1>6 DEF DocumentsOf
  <2>2. c \in Checkouts /\ IsStored(c) =>
          /\ checkouts'[c].expires = checkouts[c].expires
          /\ checkouts'[c].status = "created" => checkouts[c].status = "created"
    BY StoredStays
  <2>3. requests[q].op = "cancel" => c \in Checkouts
    BY <1>1 DEF ControlOf
  <2> QED
    BY <1>1, <1>3, <1>6, <2>1, <2>2, <2>3, Constants DEF KeepingOf, At
<1> QED
  BY <1>5, <1>6

\* What this request holds.
LEMMA KeepingOwn ==
  ASSUME Control, Documents, Keeping, NEW r \in Requests, Step(r)
  PROVE  KeepingOf(r)'
<1> PICK d \in Checkouts \cup {Nobody} : d = requests[r].checkout
  BY RowTyped
<1>1. /\ ControlOf(requests[r]) /\ KeepingOf(r) /\ requests[r].line \in 0..(LineCount + 1)
      /\ requests[r].at \in Nat /\ now \in Nat /\ requests[r].expires \in Nat /\ requests[r].at <= now
      /\ holdEnds \in [Checkouts -> Nat] /\ TTL \in Nat \ {0}
  BY RowTyped, Constants DEF Keeping, Control, TypeOK
<1>2. now' = now /\ (Late(d) => Late(d)')
  BY LateStays
<1>3. ASSUME NEW c \in Checkouts, NEW k \in Keys \cup {NoKey}, Starts(r, c, k)
      PROVE  KeepingOf(r)'
  <2>1. requests'[r].op = "start" /\ requests'[r].at = now /\ now < requests'[r].at + TTL
    BY <1>1, <1>3 DEF Starts
  <2>2. requests'[r].step = "claim" \/ (requests'[r].step = "reserve" /\ requests'[r].line = 1)
    BY <1>3 DEF Starts
  <2>3. requests'[r].line = 1 => Before(r)' = {}
    BY BeforeStep
  <2> QED
    BY <1>2, <2>1, <2>2, <2>3 DEF KeepingOf, At, Holds
<1>4. CASE Claims(r)
  <2>1. /\ requests'[r].op = "start" /\ requests'[r].step = "reserve" /\ requests'[r].checkout = d
        /\ requests'[r].at = requests[r].at /\ requests'[r].line = 1 /\ requests[r].op = "start"
    BY <1>4 DEF Claims, At, Goes, Becomes
  <2>2. Before(r)' = {}
    BY <2>1, BeforeStep
  <2>3. ~Late(d)' => now' < requests[r].at + TTL
    BY <1>1, <1>2, <2>1 DEF KeepingOf
  <2> QED
    BY <2>1, <2>2, <2>3 DEF KeepingOf, At, Holds
<1>5. CASE Reserves(r)
  <2>1. /\ requests'[r].op = "start" /\ requests'[r].step = "reserve" /\ requests'[r].checkout = d
        /\ requests'[r].at = requests[r].at /\ requests'[r].line = requests[r].line + 1
        /\ requests'[r].cart = requests[r].cart /\ requests[r].op = "start" /\ d \in Checkouts
        /\ At(r, "start", "reserve")
    BY <1>1, <1>5 DEF Reserves, At, Goes, Becomes, ControlOf
  <2>2. requests[r].line \in Lines
    BY <1>5, LineFacts DEF Reserves, Wanted
  <2>3. Before(r)' = Before(r) \cup {requests[r].line} /\ Wanted(r)' = Wanted(r) /\ Wanted(r) \subseteq Lines
    BY <2>1, <2>2, BeforeStep, LineFacts DEF Wanted
  <2>4. ~Late(d)' => now' < requests[r].at + TTL
    BY <1>1, <1>2, <2>1 DEF KeepingOf
  <2>5. holdEnds'[d] = requests[r].at + TTL /\ requests[r].at + TTL \in Nat
    BY <1>1, <1>5 DEF Reserves
  <2>6. ~Late(d)' => \A l \in Wanted(r) \cap Before(r) : holds[d][l] \in {"active", "consumed"}
    BY <1>1, <1>2, <2>1 DEF KeepingOf, Holds
  <2>7. ~Late(d)' => \A l \in (Wanted(r) \cap Before(r))' : holds'[d][l] \in {"active", "consumed"}
    BY <1>5, <2>1, <2>2, <2>3, <2>6 DEF Reserves, Sets
  <2> QED
    BY <2>1, <2>4, <2>5, <2>7 DEF KeepingOf, At, Holds
<1>6. ASSUME NEW x \in Nat, Answers(r, x)
      PROVE  KeepingOf(r)'
  <2>1. /\ requests'[r].op = "start" /\ requests'[r].step = "extend" /\ requests'[r].checkout = d
        /\ requests'[r].at = requests[r].at /\ requests'[r].cart = requests[r].cart
        /\ At(r, "start", "reserve") /\ requests[r].op = "start" /\ requests[r].step = "reserve"
        /\ holds' = holds /\ holdEnds' = holdEnds
        /\ requests[r].line \notin Wanted(r)
    BY <1>6 DEF Answers, AllReserved, At, Becomes
  <2>2. requests[r].line \in Moments
    BY <1>1, <2>1 DEF ControlOf
  <2>3. Wanted(r) \cap Before(r) = Wanted(r) /\ requests[r].line > 1
    <3>1. requests[r].line # 1 /\ Wanted(r) \subseteq Lines
      BY <2>1, LineFacts DEF Wanted
    <3>2. requests[r].line > 1
      BY <2>2, <3>1, Constants DEF Moments
    <3>3. CASE Wanted(r) = Lines
      BY <2>1, <2>2, <3>2, <3>3, BeforeFacts
    <3>4. CASE Wanted(r) = {1}
      BY <3>1, <3>2, <3>4 DEF Before
    <3> QED
      BY <3>2, <3>3, <3>4 DEF Wanted, LinesOf
  <2>4. Wanted(r)' = Wanted(r)
    BY <2>1 DEF Wanted
  <2>5. ~Late(d)' => /\ now' < requests[r].at + TTL
                     /\ \A l \in Wanted(r) : holds'[d][l] \in {"active", "consumed"}
                     /\ holdEnds'[d] >= requests[r].at + TTL
    BY <1>1, <1>2, <2>1, <2>3 DEF KeepingOf, Holds
  <2> QED
    BY <2>1, <2>4, <2>5 DEF KeepingOf, At, Holds
<1>7. CASE Extends(r)
  <2>1. /\ requests'[r].op = "start" /\ requests'[r].step = "put_checkout" /\ requests'[r].checkout = d
        /\ requests'[r].at = requests[r].at /\ requests'[r].cart = requests[r].cart
        /\ requests'[r].expires = requests[r].expires
        /\ At(r, "start", "extend") /\ requests[r].op = "start" /\ holds' = holds /\ d \in Checkouts
    BY <1>1, <1>7 DEF Extends, At, Goes, Becomes, ControlOf
  <2>2. holdEnds'[d] >= holdEnds[d] /\ holdEnds'[d] >= requests[r].expires /\ holdEnds'[d] \in Nat
        /\ holdEnds[d] \in Nat /\ requests[r].at + TTL \in Nat
    BY <1>1, <1>7, <2>1 DEF Extends
  <2>3. Wanted(r)' = Wanted(r)
    BY <2>1 DEF Wanted
  <2>4. ~Late(d)' => /\ now' < requests[r].at + TTL
                     /\ \A l \in Wanted(r) : holds'[d][l] \in {"active", "consumed"}
                     /\ holdEnds'[d] >= requests[r].at + TTL
    BY <1>1, <1>2, <2>1, <2>2 DEF KeepingOf, Holds
  <2> QED
    BY <2>1, <2>2, <2>3, <2>4 DEF KeepingOf, At, Holds
<1>8. CASE Stores(r) \/ Fails(r) \/ (GivesBack(r) /\ requests[r].op = "start") \/ (Unclaims(r) /\ ~Ends(r))
  <2>1. /\ requests'[r].op = "start" /\ requests'[r].step \in {"put_cart", "release", "mark_failed"}
        /\ requests'[r].checkout = d /\ requests'[r].at = requests[r].at /\ requests[r].op = "start"
    BY <1>8 DEF Stores, Fails, GivesBack, Unclaims, AllReleased, At, Goes, Becomes
  <2>2. ~Late(d)' => now' < requests[r].at + TTL
    BY <1>1, <1>2, <2>1 DEF KeepingOf
  <2> QED
    BY <2>1, <2>2 DEF KeepingOf, At
<1>9. CASE Reads(r) /\ ~Ends(r)
  <2>1. /\ requests'[r].op = requests[r].op /\ requests'[r].checkout = d
        /\ checkouts' = checkouts /\ requests[r].op \in {"cancel", "reopen", "pay"}
    BY <1>9 DEF Reads, At, Goes, Becomes, Quiet
  <2>2. requests[r].op = "reopen" /\ d # Nobody => checkouts[d].status # "created" \/ checkouts[d].expires <= now
    <3>1. requests[r].op = "reopen" /\ d # Nobody
            => checkouts[d].status # "created" \/ checkouts[d].expires <= requests[r].at
      BY <1>9 DEF Reads, At
    <3>2. d # Nobody => checkouts[d].expires \in Nat
      BY CheckoutTyped
    <3> QED
      BY <1>1, <3>1, <3>2
  <2>3. requests[r].op = "cancel" => checkouts[d].status # "created"
    BY <1>1, <1>9 DEF Reads, At, KeepingOf
  <2> QED
    BY <1>2, <2>1, <2>2, <2>3 DEF KeepingOf, At
<1>10. CASE GivesBack(r) /\ requests[r].op # "start"
  <2>1. /\ requests'[r].op = requests[r].op /\ requests'[r].checkout = d /\ checkouts' = checkouts
        /\ requests[r].step = "expire" /\ requests'[r].step = "expire"
    BY <1>10 DEF GivesBack, At, Goes, Becomes, PutsHold
  <2> QED
    BY <1>1, <1>2, <1>10, <2>1 DEF KeepingOf, At
<1>11. CASE Turns(r) /\ ~Ends(r)
  <2>1. requests'[r].op = "cancel" /\ requests'[r].checkout = d /\ checkouts'[d].status # "created"
    BY <1>11 DEF Turns, Goes, Becomes
  <2> QED
    BY <2>1 DEF KeepingOf, At
<1>12. CASE Ends(r) \/ Looks(r)
  <2>1. /\ requests'[r].op # "start"
        /\ ~(requests'[r].op = "reopen" /\ requests'[r].step = "expire")
        /\ ~(requests'[r].op = "cancel" /\ requests'[r].step \in {"read_cart", "put_open"})
    BY <1>12, EmptyRows DEF Ends, Looks
  <2> QED
    BY <2>1 DEF KeepingOf, At
<1>13. CASE (Completes(r) \/ Converts(r) \/ Consumes(r)) /\ ~Ends(r)
  <2>1. requests'[r].op = "pay"
    BY <1>13 DEF Completes, Converts, Consumes, At, Goes, Becomes
  <2> QED
    BY <2>1 DEF KeepingOf, At
<1>14. HandsOver(r) \/ Marks(r) \/ Reopens(r) => Ends(r)
  BY DEF HandsOver, Marks, Reopens
<1>15. CASE Breaks(r)
  <2>1. CASE Slips(r)
    <3>1. /\ requests'[r].op = "start" /\ requests'[r].step \in {"release", "mark_failed"}
          /\ requests'[r].checkout = d /\ d \in broken'
      BY <1>15, <2>1 DEF Breaks, Slips, Goes, Becomes
    <3> QED
      BY <3>1 DEF KeepingOf, At, Late
  <2> QED
    BY <1>12, <1>15, <2>1 DEF Breaks
<1> QED
  BY <1>3, <1>4, <1>5, <1>6, <1>7, <1>8, <1>9, <1>10, <1>11, <1>12, <1>13, <1>14, <1>15 DEF Step

----------------------------------------------------------------------------
(* A checkout the customer may still pay *)

\* A checkout that may be paid after a step could be paid before it, or is new.
LEMMA PayableBefore ==
  ASSUME Control, Documents, Keeping, NEW r \in Requests, Step(r),
         NEW c \in Checkouts, c \notin broken', Payable(c)'
  PROVE  \/ Stores(r) /\ c = requests[r].checkout
         \/ Payable(c) /\ checkouts'[c] = checkouts[c]
<1> SUFFICES ASSUME ~(Stores(r) /\ c = requests[r].checkout)
             PROVE  Payable(c) /\ checkouts'[c] = checkouts[c]
  OBVIOUS
<1>1. /\ checkouts'[c].status = "created" /\ now' < checkouts'[c].expires /\ provider'[c] # "expired"
      /\ ~Stopped(c)' /\ ~Failing(c)'
  BY DEF Payable
<1>2. IsStored(c)
  BY <1>1, DocumentsGrow DEF IsStored
<1>3. checkouts'[c] = checkouts[c] /\ now' = now
  BY <1>1, <1>2, StoredStays, LateStays
<1>4. Only(r) /\ ControlOf(requests[r]) /\ KeepingOf(r) /\ DocumentsOf(requests[r])
  BY SharedStep, RowTyped DEF Keeping, Documents
<1>5. \A q \in Requests \ {r} : requests'[q] = requests[q]
  BY <1>4 DEF Only
<1>6. provider[c] # "expired"
  BY <1>1, <1>2, ProviderStays
<1>7. ~Stopped(c)
  <2> SUFFICES ASSUME Stopped(c) PROVE FALSE
    OBVIOUS
  <2>1. requests[r].op \in {"cancel", "expire"} /\ requests[r].checkout = c
    BY <1>1, <1>5 DEF Stopped
  <2>2. ~(requests'[r].op = requests[r].op /\ requests'[r].checkout = requests[r].checkout)
    BY <1>1, <2>1 DEF Stopped
  <2>3. ~(Claims(r) \/ Reserves(r) \/ Fails(r) \/ (\E x \in Nat : Answers(r, x)) \/ Extends(r) \/ Stores(r)
          \/ HandsOver(r) \/ Unclaims(r) \/ Marks(r) \/ Completes(r) \/ Converts(r) \/ Consumes(r))
    BY <2>1 DEF Claims, Reserves, Fails, Answers, AllReserved, Extends, Stores, HandsOver, Unclaims,
                AllReleased, Marks, Completes, Converts, Consumes, At
  <2>4. ~Looks(r) /\ ~\E d \in Checkouts, k \in Keys \cup {NoKey} : Starts(r, d, k)
    BY <2>1, EmptyRows DEF Looks, Starts
  <2>5. ~GivesBack(r)
    BY <2>2 DEF GivesBack, Goes, Becomes
  <2>6. ~Breaks(r)
    BY <2>1 DEF Breaks
  <2>7. ~Turns(r)
    <3>1. checkouts[c].status = "created" /\ ~checkouts[c].order
      BY <1>1, <1>3 DEF Documents
    <3> QED
      BY <1>3, <2>1, <3>1 DEF Turns
  <2>8. ~Reads(r)
    <3>1. Reads(r) => At(r, "cancel", "read_cart")
      BY <2>1, <2>2 DEF Reads, At, Goes, Becomes
    <3> QED
      BY <1>1, <1>3, <1>4, <2>1, <3>1 DEF KeepingOf, At
  <2>9. ~Reopens(r)
    BY <1>1, <1>3, <1>4, <2>1 DEF Reopens, AllExpired, KeepingOf, At
  <2> QED
    BY <2>3, <2>4, <2>5, <2>6, <2>7, <2>8, <2>9 DEF Step
<1>8. ~Failing(c)
  <2> SUFFICES ASSUME Failing(c) PROVE FALSE
    OBVIOUS
  <2>1. requests[r].op = "start" /\ requests[r].checkout = c /\ requests[r].step \in {"release", "mark_failed"}
    BY <1>1, <1>5 DEF Failing
  <2>2. ~(requests'[r].op = "start" /\ requests'[r].checkout = c /\ requests'[r].step \in {"release", "mark_failed"})
    BY <1>1 DEF Failing
  <2>3. ~(Claims(r) \/ Reserves(r) \/ Fails(r) \/ (\E x \in Nat : Answers(r, x)) \/ Extends(r) \/ Stores(r)
          \/ HandsOver(r) \/ Completes(r) \/ Converts(r) \/ Consumes(r) \/ Turns(r) \/ Reads(r) \/ Reopens(r))
    BY <2>1 DEF Claims, Reserves, Fails, Answers, AllReserved, Extends, Stores, HandsOver, Turns, AllExpired,
                Reads, Reopens, Completes, Converts, Consumes, At
  <2>4. ~Looks(r) /\ ~\E d \in Checkouts, k \in Keys \cup {NoKey} : Starts(r, d, k)
    BY <2>1, EmptyRows DEF Looks, Starts
  <2>5. ~GivesBack(r) /\ ~Breaks(r)
    BY <2>1, <2>2 DEF GivesBack, Goes, Becomes, Breaks
  <2>6. ~Marks(r)
    BY <1>1, <2>1 DEF Marks
  <2>7. ~Unclaims(r)
    BY <1>2, <2>1, <2>2 DEF Unclaims, Goes, Becomes
  <2> QED
    BY <2>3, <2>4, <2>5, <2>6, <2>7 DEF Step
<1> QED
  BY <1>1, <1>3, <1>6, <1>7, <1>8 DEF Payable

\* A payable checkout keeps its lines through every step of a request.
LEMMA LiveStep ==
  ASSUME Control, Documents, Keeping, NEW r \in Requests, Step(r)
  PROVE  LiveCheckoutHoldsStock'
<1> SUFFICES ASSUME NEW c \in Checkouts, c \notin slow', c \notin broken', Payable(c)'
             PROVE  \A l \in LinesOf(checkouts'[c].cart) : holds'[c][l] \in {"active", "consumed"}
  BY DEF LiveCheckoutHoldsStock
<1>1. c \notin slow /\ c \notin broken
  BY BrokenGrows
<1>2. CASE Stores(r) /\ c = requests[r].checkout
  <2>1. At(r, "start", "put_checkout") /\ KeepingOf(r) /\ ~Late(c)
    BY <1>1, <1>2 DEF Stores, Keeping, Late
  <2>2. \A l \in Wanted(r) : holds[c][l] \in {"active", "consumed"}
    BY <1>2, <2>1 DEF KeepingOf, Holds
  <2>3. LinesOf(checkouts'[c].cart) = Wanted(r) /\ holds' = holds
    BY <1>2 DEF Stores, PutsCheckout, Wanted
  <2> QED
    BY <2>2, <2>3
<1>3. CASE Payable(c) /\ checkouts'[c] = checkouts[c]
  <2>1. checkouts[c].cart \in BOOLEAN
    BY CheckoutTyped
  <2>2. LinesOf(checkouts'[c].cart) = LinesOf(checkouts[c].cart) /\ LinesOf(checkouts[c].cart) \subseteq Lines
    BY <1>3, <2>1, LineFacts
  <2>3. \A l \in LinesOf(checkouts[c].cart) : holds[c][l] \in {"active", "consumed"}
    BY <1>1, <1>3 DEF Keeping, LiveCheckoutHoldsStock
  <2>4. GivesBack(r) => c # requests[r].checkout
    <3> SUFFICES ASSUME GivesBack(r), c = requests[r].checkout PROVE FALSE
      OBVIOUS
    <3>1. ~(At(r, "start", "release") \/ requests[r].op \in {"cancel", "expire"})
      BY <1>3 DEF Payable, Failing, Stopped, At
    <3>2. At(r, "reopen", "expire")
      BY <3>1 DEF GivesBack, At
    <3>3. checkouts[c].status # "created" \/ checkouts[c].expires <= now
      BY <3>2, Constants DEF Keeping, KeepingOf
    <3>4. checkouts[c].expires \in Nat /\ now \in Nat
      BY CheckoutTyped DEF Control, TypeOK
    <3> QED
      BY <1>3, <3>3, <3>4 DEF Payable
  <2>5. ASSUME NEW l \in Lines, holds[c][l] \in {"active", "consumed"}
        PROVE  holds'[c][l] \in {"active", "consumed"}
    <3>1. CASE Reserves(r) \/ Consumes(r)
      BY <2>5, <3>1 DEF Reserves, Consumes, Sets
    <3>2. CASE GivesBack(r)
      BY <2>4, <2>5, <3>2 DEF GivesBack, Sets
    <3>3. CASE ~(Reserves(r) \/ Consumes(r) \/ GivesBack(r))
      <4>1. holds' = holds
        BY <3>3 DEF Step, Starts, Claims, Fails, Answers, Extends, Stores, HandsOver, Unclaims, Marks, Looks,
                Turns, Reads, Reopens, Completes, Converts, Breaks, PutsCart, PutsCheckout, Quiet
      <4> QED
        BY <2>5, <4>1
    <3> QED
      BY <3>1, <3>2, <3>3
  <2> QED
    BY <2>2, <2>3, <2>5
<1> QED
  BY <1>2, <1>3, PayableBefore

\* The reservations of a stored checkout end no sooner than the checkout.
LEMMA EndsStep ==
  ASSUME Control, Documents, Keeping, NEW r \in Requests, Step(r), NEW c \in Checkouts, IsStored(c)'
  PROVE  holdEnds'[c] >= checkouts'[c].expires
<1>1. CASE Stores(r) /\ c = requests[r].checkout
  BY <1>1 DEF Stores, PutsCheckout, Keeping, KeepingOf
<1>2. CASE ~(Stores(r) /\ c = requests[r].checkout)
  <2>1. IsStored(c) /\ holdEnds[c] >= checkouts[c].expires
    BY <1>2, DocumentsGrow DEF Keeping
  <2>2. checkouts'[c].expires = checkouts[c].expires
    BY <2>1, StoredStays
  <2>3. holdEnds'[c] >= holdEnds[c] /\ holdEnds[c] \in Nat /\ holdEnds'[c] \in Nat
    <3>1. holdEnds[c] \in Nat /\ holdEnds'[c] \in Nat
      BY ControlStep DEF Control, TypeOK
    <3>2. CASE Reserves(r)
      <4>1. c # requests[r].checkout
        BY <2>1, <3>2 DEF Reserves, At, Documents, DocumentsOf, Unstored
      <4> QED
        BY <3>1, <3>2, <4>1 DEF Reserves
    <3>3. CASE Extends(r)
      BY <3>1, <3>3 DEF Extends
    <3>4. CASE ~(Reserves(r) \/ Extends(r))
      <4>1. holdEnds' = holdEnds
        BY <3>4 DEF Step, Starts, Claims, Fails, Answers, Stores, HandsOver, GivesBack, Unclaims, Marks, Looks,
              Turns, Reads, Reopens, Completes, Converts, Consumes, Breaks, PutsCart, PutsHold, PutsCheckout, Quiet
      <4> QED
        BY <3>1, <4>1
    <3> QED
      BY <3>1, <3>2, <3>3, <3>4
  <2>4. checkouts[c].expires \in Nat
    BY CheckoutTyped
  <2> QED
    BY <2>1, <2>2, <2>3, <2>4
<1> QED
  BY <1>1, <1>2

\* Keeping is kept by every step of a request.
LEMMA KeepingStep ==
  ASSUME Control, Documents, Keeping, NEW r \in Requests, Step(r)
  PROVE  Keeping'
<1>1. \A q \in Requests : KeepingOf(q)'
  BY KeepingOthers, KeepingOwn DEF Keeping
<1>2. \A c \in Checkouts : IsStored(c)' => holdEnds'[c] >= checkouts'[c].expires
  BY EndsStep
<1> QED
  BY <1>1, <1>2, LiveStep DEF Keeping

\* What the world around does to the stores a start relies on.
LEMMA WorldFacts ==
  ASSUME Control, World
  PROVE  /\ UNCHANGED <<checkouts, requests, holdEnds, broken>> /\ slow \subseteq slow'
         /\ now \in Nat /\ now' \in Nat /\ now <= now'
         /\ \A c \in Checkouts : provider[c] \in {"expired", "closed"} => provider'[c] = provider[c]
         /\ \A c \in Checkouts, l \in Lines :
              holds'[c][l] = holds[c][l] \/ (holdEnds[c] <= now /\ now' = now)
         /\ now' = now \/ Ticks
<1>1. now \in Nat
  BY DEF Control, TypeOK
<1>2. CASE Edits \/ UNCHANGED vars
  BY <1>1, <1>2 DEF Edits, Still, PutsCart, Timeless, vars, stores, history
<1>3. CASE Sweeps
  BY <1>1, <1>3 DEF Sweeps, Still, PutsHold, Timeless
<1>4. CASE Provides
  BY <1>1, <1>4 DEF Provides, Still, Timeless
<1>5. CASE Ticks
  BY <1>1, <1>5 DEF Ticks, Still
<1> QED
  BY <1>2, <1>3, <1>4, <1>5 DEF World

\* The sweep does not touch what ends later, and time makes a start late.
LEMMA KeepingWorldOf ==
  ASSUME Control, World, NEW r \in Requests, KeepingOf(r)
  PROVE  KeepingOf(r)'
<1> PICK c \in Checkouts \cup {Nobody} : c = requests[r].checkout
  BY RowTyped
<1>1. /\ UNCHANGED <<checkouts, requests, holdEnds, broken>> /\ slow \subseteq slow'
      /\ now \in Nat /\ now' \in Nat /\ now <= now' /\ (now' = now \/ Ticks)
  BY WorldFacts
<1>2. Late(c) => Late(c)'
  BY <1>1 DEF Late
<1>3. Before(r)' = Before(r) /\ Before(r) \subseteq Lines /\ Wanted(r)' = Wanted(r) /\ Wanted(r) \subseteq Lines
  BY <1>1, BeforeFacts, LineFacts DEF Before, Wanted
<1>4. CASE requests[r].op = "start"
  <2>1. c \in Checkouts /\ holdEnds[c] \in Nat /\ requests[r].at + TTL \in Nat
    BY <1>4, RowTyped, Constants DEF ControlOf, Control, TypeOK
  <2>2. ~Late(c)' => now' < requests[r].at + TTL
    <3>1. CASE now' = now
      BY <1>2, <1>4, <3>1 DEF KeepingOf
    <3>2. CASE Ticks
      <4>1. requests[r].at + TTL <= now + 1 => c \in slow'
        BY <1>4, <3>2 DEF Ticks
      <4>2. requests[r].at + TTL <= now + 1 => Late(c)'
        BY <4>1 DEF Late
      <4>3. now' = now + 1
        BY <3>2 DEF Ticks
      <4> QED
        BY <1>1, <2>1, <4>2, <4>3
    <3> QED
      BY <1>1, <3>1, <3>2
  <2>3. ASSUME ~Late(c)', holdEnds[c] >= requests[r].at + TTL, NEW l \in Lines
        PROVE  holds'[c][l] = holds[c][l]
    <3>1. now < requests[r].at + TTL
      BY <1>1, <2>1, <2>2, <2>3
    <3> QED
      BY <1>1, <2>1, <2>3, <3>1, WorldFacts
  <2>4. CASE At(r, "start", "reserve")
    <3>1. ~Late(c)' => /\ \A l \in Wanted(r) \cap Before(r) : holds[c][l] \in {"active", "consumed"}
                       /\ requests[r].line > 1 => holdEnds[c] >= requests[r].at + TTL
      BY <1>2, <2>4 DEF KeepingOf, Holds
    <3>2. requests[r].line > 1 \/ Before(r) = {}
      <4>1. requests[r].line \in Moments
        BY <2>4, RowTyped DEF ControlOf, At
      <4> QED
        BY <4>1, BeforeFacts, Constants DEF Moments
    <3>3. ~Late(c)' => \A l \in Wanted(r) \cap Before(r) : holds'[c][l] \in {"active", "consumed"}
      BY <1>3, <2>3, <3>1, <3>2
    <3> QED
      BY <1>1, <1>3, <2>2, <2>4, <3>1, <3>3 DEF KeepingOf, At, Holds
  <2>5. CASE At(r, "start", "extend") \/ At(r, "start", "put_checkout")
    <3>1. ~Late(c)' => /\ \A l \in Wanted(r) : holds[c][l] \in {"active", "consumed"}
                       /\ holdEnds[c] >= requests[r].at + TTL
      BY <1>2, <2>5 DEF KeepingOf, Holds
    <3>2. ~Late(c)' => \A l \in Wanted(r) : holds'[c][l] \in {"active", "consumed"}
      BY <1>3, <2>3, <3>1
    <3>3. At(r, "start", "put_checkout") => holdEnds[c] >= requests[r].expires
      BY DEF KeepingOf
    <3> QED
      BY <1>1, <1>3, <2>2, <2>5, <3>1, <3>2, <3>3 DEF KeepingOf, At, Holds
  <2>6. CASE requests[r].step \notin {"reserve", "extend", "put_checkout"}
    BY <1>1, <1>4, <2>2, <2>6 DEF KeepingOf, At
  <2> QED
    BY <1>4, <2>4, <2>5, <2>6 DEF At
<1>5. CASE requests[r].op # "start"
  <2>1. c \in Checkouts => checkouts[c].expires \in Nat
    BY CheckoutTyped
  <2>2. c # Nobody => (checkouts[c].expires <= now => checkouts[c].expires <= now')
    BY <1>1, <2>1
  <2> QED
    BY <1>1, <1>5, <2>2 DEF KeepingOf, At
<1> QED
  BY <1>4, <1>5

\* What is payable after the world moved was payable before, and is not swept.
LEMMA KeepingWorld ==
  ASSUME Control, Keeping, World
  PROVE  Keeping'
<1>1. /\ UNCHANGED <<checkouts, requests, holdEnds, broken>> /\ slow \subseteq slow'
      /\ now \in Nat /\ now' \in Nat /\ now <= now'
      /\ \A c \in Checkouts : provider[c] \in {"expired", "closed"} => provider'[c] = provider[c]
      /\ \A c \in Checkouts, l \in Lines :
           holds'[c][l] = holds[c][l] \/ (holdEnds[c] <= now /\ now' = now)
  BY WorldFacts
<1>2. \A r \in Requests : KeepingOf(r)'
  BY KeepingWorldOf DEF Keeping
<1>3. \A c \in Checkouts : IsStored(c)' => holdEnds'[c] >= checkouts'[c].expires
  BY <1>1 DEF Keeping, IsStored
<1>4. ASSUME NEW c \in Checkouts, c \notin slow', c \notin broken', Payable(c)'
      PROVE  \A l \in LinesOf(checkouts'[c].cart) : holds'[c][l] \in {"active", "consumed"}
  <2>1. checkouts[c].expires \in Nat /\ holdEnds[c] \in Nat /\ LinesOf(checkouts[c].cart) \subseteq Lines
    BY CheckoutTyped, LineFacts DEF Control, TypeOK
  <2>2. checkouts[c].status = "created" /\ now < checkouts[c].expires /\ provider[c] # "expired"
    BY <1>1, <1>4, <2>1 DEF Payable
  <2>3. ~Stopped(c) /\ ~Failing(c)
    BY <1>1, <1>4 DEF Payable, Stopped, Failing
  <2>4. \A l \in LinesOf(checkouts[c].cart) : holds[c][l] \in {"active", "consumed"}
    BY <1>1, <1>4, <2>2, <2>3 DEF Payable, Keeping, LiveCheckoutHoldsStock
  <2>5. ~(holdEnds[c] <= now)
    BY <1>1, <2>1, <2>2 DEF Keeping, IsStored
  <2> QED
    BY <1>1, <2>1, <2>4, <2>5
<1> QED
  BY <1>2, <1>3, <1>4 DEF Keeping, LiveCheckoutHoldsStock

\* Keeping is inductive.
LEMMA KeepingAlways == Spec => []Keeping
<1>1. Init => Keeping
  <2> SUFFICES ASSUME Init PROVE Keeping
    OBVIOUS
  <2>1. \A c \in Checkouts : checkouts[c].status = "absent"
    BY DEF Init, NoCheckout
  <2>2. \A r \in Requests : requests[r].op = "idle"
    BY EmptyRows DEF Init
  <2>3. \A r \in Requests : KeepingOf(r)
    BY <2>2 DEF KeepingOf, At
  <2> QED
    BY <2>1, <2>3 DEF Keeping, LiveCheckoutHoldsStock, Payable, IsStored
<1>2. Control /\ Documents /\ Keeping /\ [Next]_vars => Keeping'
  BY Steps, KeepingStep, KeepingWorld
<1> QED
  BY <1>1, <1>2, DocumentsAlways, PTL DEF Spec

\* A customer who may still pay finds the goods: each line of a checkout that is created,
\* not due and not being stopped is held or sold, unless its start outlived its claim or
\* broke off.
THEOREM PayableIsHeld == Spec => []LiveCheckoutHoldsStock
<1>1. Keeping => LiveCheckoutHoldsStock
  BY DEF Keeping
<1> QED
  BY <1>1, KeepingAlways, PTL

----------------------------------------------------------------------------
(* The ledger of Inventory *)

Row(item, status) ==
  IF status = "absent" THEN [item |-> 0, phase |-> "absent", qty |-> 0]
  ELSE [item |-> item, phase |-> Phase(status), qty |-> 1]

Entry(e) ==
  IF holds[e[1]][e[2]] = "absent" THEN [item |-> 0, phase |-> "absent", qty |-> 0]
  ELSE [item |-> e[2], phase |-> Phase(holds[e[1]][e[2]]), qty |-> 1]

Abstract == [e \in Checkouts \X Lines |-> Entry(e)]

WithStatus(l, status) == {c \in Checkouts : holds[c][l] = status}

\* One unit of line l for each checkout of a set.
UnitsFor(l, S) == {<<<<c, l>>, 1>> : c \in S}

\* There are as many of those units as checkouts.
LEMMA UnitsCount ==
  ASSUME NEW l, NEW S, IsFiniteSet(S)
  PROVE  Cardinality(UnitsFor(l, S)) = Cardinality(S)
<1> DEFINE f == [c \in S |-> <<<<c, l>>, 1>>]
<1>1. f \in Surjection(S, UnitsFor(l, S))
  BY DEF Surjection, UnitsFor
<1>2. f \in Injection(S, UnitsFor(l, S))
  BY DEF Injection, IsInjective, UnitsFor
<1> QED
  BY <1>1, <1>2, FS_Surjection

\* The phases of the ledger, one by one.
LEMMA Phases ==
  ASSUME Control, NEW c \in Checkouts, NEW l \in Lines
  PROVE  /\ holds[c][l] \in HoldStatuses
         /\ Abstract[<<c, l>>] = Row(l, holds[c][l])
         /\ Abstract[<<c, l>>].phase = "held" <=> holds[c][l] = "active"
         /\ Abstract[<<c, l>>].phase = "sold" <=> holds[c][l] = "consumed"
         /\ Abstract[<<c, l>>].phase = "lapsed" <=> holds[c][l] = "expired"
         /\ Abstract[<<c, l>>].phase # "moved"
         /\ holds[c][l] # "absent" => Abstract[<<c, l>>].item = l /\ Abstract[<<c, l>>].qty = 1
<1>1. holds[c][l] \in HoldStatuses
  BY DEF Control, TypeOK, HoldStatuses
<1>2. <<c, l>> \in Checkouts \X Lines /\ <<c, l>>[1] = c /\ <<c, l>>[2] = l
  OBVIOUS
<1>3. Abstract[<<c, l>>] = Row(l, holds[c][l])
  BY <1>2 DEF Abstract, Entry, Row
<1> QED
  BY <1>1, <1>3 DEF Row, Phase, HoldStatuses

\* A line that is available has a free unit in the ledger.
LEMMA AvailableIsFree ==
  ASSUME Control, NEW l \in Lines, Available(l)
  PROVE  1 <= Ledger!FreeUnits(l)
<1>1. Ledger!EntriesIn(l, "held") = WithStatus(l, "active") \X {l}
      /\ Ledger!EntriesIn(l, "sold") = WithStatus(l, "consumed") \X {l}
      /\ Ledger!EntriesIn(l, "moved") = {}
  <2>1. ASSUME NEW phase
        PROVE  Ledger!EntriesIn(l, phase) = {e \in Checkouts \X Lines : Abstract[e].item = l /\ Abstract[e].phase = phase}
    BY DEF Ledger!EntriesIn, Abstract, Entry
  <2>2. ASSUME NEW e \in Checkouts \X Lines
        PROVE  /\ Abstract[e].item = l /\ Abstract[e].phase = "held" <=> e[2] = l /\ holds[e[1]][l] = "active"
               /\ Abstract[e].item = l /\ Abstract[e].phase = "sold" <=> e[2] = l /\ holds[e[1]][l] = "consumed"
               /\ Abstract[e].phase # "moved"
    <3>1. e = <<e[1], e[2]>> /\ e[1] \in Checkouts /\ e[2] \in Lines
      OBVIOUS
    <3> QED
      BY <3>1, Phases
  <2> QED
    BY <2>1, <2>2 DEF WithStatus
<1>2. ASSUME NEW status \in {"active", "consumed"}
      PROVE  /\ Ledger!Total(Ledger!Quantity, WithStatus(l, status) \X {l}) = Cardinality(WithStatus(l, status))
             /\ IsFiniteSet(WithStatus(l, status))
  <2>1. IsFiniteSet(WithStatus(l, status))
    BY Constants, FS_Subset DEF WithStatus
  <2>2. ASSUME NEW c \in WithStatus(l, status)
        PROVE  Ledger!Quantity[<<c, l>>] = 1
    <3>1. c \in Checkouts /\ holds[c][l] = status /\ <<c, l>> \in Checkouts \X Lines
      BY DEF WithStatus
    <3>2. Abstract[<<c, l>>].qty = 1
      BY <3>1, Phases
    <3>3. Ledger!Quantity = [e \in Checkouts \X Lines |-> Abstract[e].qty]
      BY DEF Ledger!Quantity, Abstract, Entry
    <3> QED
      BY <3>1, <3>2, <3>3
  <2>3. Ledger!UnitsOf(Ledger!Quantity, WithStatus(l, status) \X {l}) = UnitsFor(l, WithStatus(l, status))
    <3>1. Ledger!UnitsOf(Ledger!Quantity, WithStatus(l, status) \X {l})
            = {u \in (WithStatus(l, status) \X {l}) \X (1..1) : u[2] <= Ledger!Quantity[u[1]]}
      BY DEF Ledger!UnitsOf
    <3>2. 1..1 = {1} /\ 1 <= 1
      OBVIOUS
    <3>3. ASSUME NEW u \in (WithStatus(l, status) \X {l}) \X (1..1)
          PROVE  u \in UnitsFor(l, WithStatus(l, status))
      <4>1. u = <<<<u[1][1], l>>, 1>> /\ u[1][1] \in WithStatus(l, status)
        BY <3>2
      <4> QED
        BY <4>1 DEF UnitsFor
    <3>4. ASSUME NEW u \in UnitsFor(l, WithStatus(l, status))
          PROVE  u \in (WithStatus(l, status) \X {l}) \X (1..1) /\ u[2] <= Ledger!Quantity[u[1]]
      <4>1. PICK c \in WithStatus(l, status) : u = <<<<c, l>>, 1>>
        BY DEF UnitsFor
      <4>2. u[1] = <<c, l>> /\ u[2] = 1 /\ <<c, l>> \in WithStatus(l, status) \X {l}
        BY <4>1
      <4> QED
        BY <2>2, <3>2, <4>1, <4>2
    <3> QED
      BY <3>1, <3>3, <3>4
  <2>4. ASSUME NEW T
        PROVE  Ledger!Cardinality(T) = Cardinality(T)
    BY DEF Ledger!Cardinality, Cardinality
  <2> QED
    BY <2>1, <2>3, <2>4, UnitsCount DEF Ledger!Total
<1>3. Ledger!Total(Ledger!Quantity, {}) = 0 /\ Ledger!Total(Ledger!Deficit, {}) = 0
  <2>1. Ledger!UnitsOf(Ledger!Quantity, {}) = {} /\ Ledger!UnitsOf(Ledger!Deficit, {}) = {}
    BY DEF Ledger!UnitsOf
  <2>2. ASSUME NEW T
        PROVE  Ledger!Cardinality(T) = Cardinality(T)
    BY DEF Ledger!Cardinality, Cardinality
  <2> QED
    BY <2>1, <2>2, FS_EmptySet DEF Ledger!Total
<1>4. Cardinality(Taken(l)) = Cardinality(WithStatus(l, "active")) + Cardinality(WithStatus(l, "consumed"))
  <2>1. Taken(l) = WithStatus(l, "active") \cup WithStatus(l, "consumed")
    BY DEF Taken, WithStatus
  <2>2. WithStatus(l, "active") \cap WithStatus(l, "consumed") = {}
    BY DEF WithStatus
  <2>3. Cardinality({}) = 0
    BY FS_EmptySet
  <2>4. /\ Cardinality(WithStatus(l, "active")) \in Nat
        /\ Cardinality(WithStatus(l, "consumed")) \in Nat
    BY <1>2, FS_CardinalityType
  <2>5. Cardinality(Taken(l)) = Cardinality(WithStatus(l, "active")) + Cardinality(WithStatus(l, "consumed"))
                                  - Cardinality(WithStatus(l, "active") \cap WithStatus(l, "consumed"))
    BY <1>2, <2>1, FS_Union
  <2>6. Cardinality(WithStatus(l, "active") \cap WithStatus(l, "consumed")) = 0
    BY <2>2, <2>3
  <2>7. PICK a, b \in Nat : a = Cardinality(WithStatus(l, "active")) /\ b = Cardinality(WithStatus(l, "consumed"))
    BY <2>4
  <2>8. Cardinality(Taken(l)) = a + b - 0
    BY <2>5, <2>6, <2>7
  <2> QED
    BY <2>7, <2>8
<1>5. /\ Cardinality(WithStatus(l, "active")) \in Nat
      /\ Cardinality(WithStatus(l, "consumed")) \in Nat
      /\ Capacity[l] \in Nat
  BY <1>2, FS_CardinalityType, Constants
<1>6. Ledger!FreeUnits(l) = Capacity[l] + 0 - 0 - Cardinality(WithStatus(l, "consumed"))
                                                - Cardinality(WithStatus(l, "active"))
  BY <1>1, <1>2, <1>3 DEF Ledger!FreeUnits
<1> QED
  BY <1>4, <1>5, <1>6 DEF Available

\* A reservation event that is written is one entry of the ledger that changes.
LEMMA EntryChanges ==
  ASSUME Control, NEW c \in Checkouts, NEW l \in Lines, NEW status \in HoldStatuses \ {"absent"},
         Sets(c, l, status)
  PROVE  Abstract' = [Abstract EXCEPT ![<<c, l>>] = [item |-> l, phase |-> Phase(status), qty |-> 1]]
<1>1. ASSUME NEW e \in Checkouts \X Lines
      PROVE  Entry(e)' = IF e = <<c, l>> THEN [item |-> l, phase |-> Phase(status), qty |-> 1] ELSE Entry(e)
  <2>1. e = <<e[1], e[2]>> /\ e[1] \in Checkouts /\ e[2] \in Lines
    OBVIOUS
  <2>2. CASE e = <<c, l>>
    <3>1. e[1] = c /\ e[2] = l /\ holds'[c][l] = status
      BY <2>2 DEF Sets
    <3> QED
      BY <2>2, <3>1 DEF Entry
  <2>3. CASE e # <<c, l>>
    <3>1. e[1] # c \/ e[2] # l
      BY <2>1, <2>3
    <3>2. holds'[e[1]][e[2]] = holds[e[1]][e[2]]
      BY <2>1, <3>1 DEF Sets
    <3> QED
      BY <2>3, <3>2 DEF Entry
  <2> QED
    BY <2>2, <2>3
<1>2. <<c, l>> \in Checkouts \X Lines
  OBVIOUS
<1>3. Abstract' = [e \in Checkouts \X Lines |-> Entry(e)']
  BY DEF Abstract
<1>4. Abstract' = [e \in Checkouts \X Lines |->
        IF e = <<c, l>> THEN [item |-> l, phase |-> Phase(status), qty |-> 1] ELSE Entry(e)]
  BY <1>1, <1>3
<1> QED
  BY <1>2, <1>4 DEF Abstract

\* A reservation that is written is a hold of one free unit.
LEMMA ReservesHolds ==
  ASSUME Control, Freeing, NEW r \in Requests, Reserves(r)
  PROVE  Ledger!Next
<1> DEFINE c == requests[r].checkout
           l == requests[r].line
<1>1. c \in Checkouts /\ l \in Lines /\ At(r, "start", "reserve") /\ Available(l)
  BY RowTyped, LineFacts DEF Reserves, At, ControlOf, Wanted
<1>2. holds[c][l] = "absent"
  <2>1. l \notin Before(r)
    BY <1>1, LineFacts DEF Before
  <2> QED
    BY <1>1, <2>1 DEF Freeing, FreeingOf
<1>3. Abstract[<<c, l>>] = Ledger!Absent
  BY <1>1, <1>2, Phases DEF Row, Ledger!Absent
<1>4. Abstract' = [Abstract EXCEPT ![<<c, l>>] = [item |-> l, phase |-> "held", qty |-> 1]]
  BY <1>1, EntryChanges DEF Reserves, HoldStatuses, Phase
<1>5. 1 <= Ledger!FreeUnits(l)
  BY <1>1, AvailableIsFree
<1>6. Ledger!Hold(<<c, l>>, l, 1)
  BY <1>3, <1>4, <1>5 DEF Ledger!Hold, Abstract, Entry
<1>7. 1 \in 1..1 /\ <<c, l>> \in Checkouts \X Lines
  BY <1>1
<1> QED
  BY <1>1, <1>6, <1>7 DEF Ledger!Next

\* A unit that is given back is one entry of the ledger that is given up.
LEMMA GivesBackGivesUp ==
  ASSUME Control, NEW r \in Requests, GivesBack(r), holds' # holds
  PROVE  Ledger!Next
<1> DEFINE c == requests[r].checkout
           l == requests[r].line
<1>1. c \in Checkouts /\ l \in Lines /\ holds[c][l] = "active"
  BY DEF GivesBack
<1>2. PICK status \in {"released", "expired"} : Sets(c, l, status)
  BY DEF GivesBack
<1>3. PICK phase \in {"lapsed", "returned"} : phase = Phase(status)
  BY <1>2 DEF Phase
<1>4. Abstract' = [Abstract EXCEPT ![<<c, l>>] = [item |-> l, phase |-> phase, qty |-> 1]]
  BY <1>1, <1>2, <1>3, EntryChanges DEF HoldStatuses
<1>5. Abstract[<<c, l>>] = [item |-> l, phase |-> "held", qty |-> 1]
  BY <1>1, Phases DEF Row, Phase
<1>6. [Abstract[<<c, l>>] EXCEPT !.phase = phase] = [item |-> l, phase |-> phase, qty |-> 1]
  BY <1>5
<1>7. Abstract' = [e \in Checkouts \X Lines |-> IF e \in {<<c, l>>} THEN [Abstract[e] EXCEPT !.phase = phase]
                                                                   ELSE Abstract[e]]
  BY <1>4, <1>6 DEF Abstract
<1>8. \A e \in {<<c, l>>} : Abstract[e].phase = "held"
  BY <1>5
<1>9. Ledger!GiveUp({<<c, l>>}, phase)
  BY <1>7, <1>8 DEF Ledger!GiveUp, Abstract, Entry
<1>10. {<<c, l>>} \in SUBSET (Checkouts \X Lines)
  BY <1>1
<1> QED
  BY <1>9, <1>10 DEF Ledger!Next

\* A consumed reservation is sold: out of its own hold, or out of units that are free.
LEMMA ConsumesSells ==
  ASSUME Control, NEW r \in Requests, Consumes(r), holds' # holds
  PROVE  Ledger!Next
<1> DEFINE c == requests[r].checkout
           l == requests[r].line
<1>1. c \in Checkouts /\ l \in Lines /\ Sets(c, l, "consumed")
      /\ (holds[c][l] = "active" \/ (holds[c][l] = "expired" /\ Available(l)))
  BY RowTyped DEF Consumes, At, ControlOf
<1>2. Abstract' = [Abstract EXCEPT ![<<c, l>>] = [item |-> l, phase |-> "sold", qty |-> 1]]
  BY <1>1, EntryChanges DEF HoldStatuses, Phase
<1>3. Abstract[<<c, l>>] = [item |-> l, phase |-> Phase(holds[c][l]), qty |-> 1]
  BY <1>1, Phases DEF Row
<1>4. [Abstract[<<c, l>>] EXCEPT !.phase = "sold"] = [item |-> l, phase |-> "sold", qty |-> 1]
  BY <1>3
<1>5. Abstract' = [Abstract EXCEPT ![<<c, l>>] = [Abstract[<<c, l>>] EXCEPT !.phase = "sold"]]
  BY <1>2, <1>4
<1>6. PICK e \in Checkouts \X Lines : e = <<c, l>>
  BY <1>1
<1>7. Abstract' = [Abstract EXCEPT ![e].phase = "sold"]
  BY <1>5, <1>6
<1>8. CASE holds[c][l] = "active"
  <2>1. Abstract[e].phase = "held"
    BY <1>1, <1>6, <1>8, Phases
  <2>2. Ledger!SellHeld(e)
    BY <1>7, <2>1 DEF Ledger!SellHeld, Abstract, Entry
  <2> QED
    BY <2>2 DEF Ledger!Next
<1>9. CASE holds[c][l] = "expired" /\ Available(l)
  <2>1. Abstract[e].phase = "lapsed" /\ Abstract[e].item = l /\ Abstract[e].qty = 1
    BY <1>1, <1>6, <1>9, Phases
  <2>2. 1 <= Ledger!FreeUnits(l)
    BY <1>1, <1>9, AvailableIsFree
  <2>3. Ledger!SellLapsed(e)
    BY <1>7, <2>1, <2>2 DEF Ledger!SellLapsed, Abstract, Entry
  <2> QED
    BY <2>3 DEF Ledger!Next
<1> QED
  BY <1>1, <1>8, <1>9

\* The sweep gives up the reservations that are due.
LEMMA SweepsGivesUp ==
  ASSUME Control, Sweeps
  PROVE  Ledger!Next
<1> DEFINE S == {e \in Checkouts \X Lines : holds'[e[1]][e[2]] # holds[e[1]][e[2]]}
<1>1. ASSUME NEW e \in Checkouts \X Lines
      PROVE  /\ e = <<e[1], e[2]>> /\ e[1] \in Checkouts /\ e[2] \in Lines
             /\ Abstract[e] = Row(e[2], holds[e[1]][e[2]])
  <2>1. e = <<e[1], e[2]>> /\ e[1] \in Checkouts /\ e[2] \in Lines
    OBVIOUS
  <2> QED
    BY <2>1, Phases
<1>2. ASSUME NEW e \in S
      PROVE  holds[e[1]][e[2]] = "active" /\ holds'[e[1]][e[2]] = "expired"
  BY <1>1 DEF Sweeps
<1>3. ASSUME NEW e \in Checkouts \X Lines
      PROVE  Entry(e)' = IF e \in S THEN [Abstract[e] EXCEPT !.phase = "lapsed"] ELSE Abstract[e]
  <2>1. Entry(e)' = Row(e[2], holds'[e[1]][e[2]])
    BY DEF Entry, Row
  <2>2. CASE e \in S
    <3>1. Abstract[e] = [item |-> e[2], phase |-> "held", qty |-> 1]
      BY <1>1, <1>2, <2>2 DEF Row, Phase
    <3>2. Entry(e)' = [item |-> e[2], phase |-> "lapsed", qty |-> 1]
      BY <1>2, <2>1, <2>2 DEF Row, Phase
    <3> QED
      BY <2>2, <3>1, <3>2
  <2>3. CASE e \notin S
    BY <1>1, <2>1, <2>3
  <2> QED
    BY <2>2, <2>3
<1>4. Abstract' = [e \in Checkouts \X Lines |-> Entry(e)']
  BY DEF Abstract
<1>5. Abstract' = [e \in Checkouts \X Lines |-> IF e \in S THEN [Abstract[e] EXCEPT !.phase = "lapsed"]
                                                          ELSE Abstract[e]]
  BY <1>3, <1>4
<1>6. \A e \in S : Abstract[e].phase = "held"
  <2> SUFFICES ASSUME NEW e \in S PROVE Abstract[e].phase = "held"
    OBVIOUS
  <2>1. Abstract[e] = Row(e[2], "active")
    BY <1>1, <1>2
  <2> QED
    BY <2>1 DEF Row, Phase
<1>7. S \in SUBSET (Checkouts \X Lines)
  OBVIOUS
<1>8. Ledger!GiveUp(S, "lapsed")
  BY <1>5, <1>6 DEF Ledger!GiveUp, Abstract, Entry
<1> QED
  BY <1>7, <1>8 DEF Ledger!Next

\* Each step of the checkouts is a step of the ledger, or leaves it alone.
LEMMA LedgerStep ==
  ASSUME Control, Freeing, [Next]_vars
  PROVE  [Ledger!Next]_Abstract
<1>1. CASE holds' = holds
  BY <1>1 DEF Abstract, Entry
<1>2. CASE holds' # holds
  <2>1. ASSUME NEW r \in Requests, Step(r)
        PROVE  Reserves(r) \/ GivesBack(r) \/ Consumes(r)
    BY <1>2, <2>1 DEF Step, Starts, Claims, Fails, Answers, Extends, Stores, HandsOver, Unclaims, Marks, Looks,
                Turns, Reads, Reopens, Completes, Converts, Breaks, PutsCart, PutsCheckout, Quiet
  <2>2. World => Sweeps
    BY <1>2 DEF World, Edits, Provides, Ticks, PutsCart, vars, stores
  <2>3. Ledger!Next
    BY <1>2, <2>1, <2>2, Steps, ReservesHolds, GivesBackGivesUp, ConsumesSells, SweepsGivesUp
  <2> QED
    BY <2>3
<1> QED
  BY <1>1, <1>2

\* No interleaving of starts, cancels, expiries, sweeps and late payments promises or
\* sells a unit twice: checkouts take and return units by the rules of Inventory.
THEOREM NoUnitTwice == Spec => UsesInventory
<1>1. Init => Ledger!Init
  <2> SUFFICES ASSUME Init PROVE Ledger!Init
    OBVIOUS
  <2>1. \A e \in Checkouts \X Lines : holds[e[1]][e[2]] = "absent"
    BY DEF Init
  <2>2. Abstract = [e \in Checkouts \X Lines |-> Ledger!Absent]
    BY <2>1 DEF Abstract, Entry, Ledger!Absent
  <2> QED
    BY <2>2 DEF Ledger!Init, Abstract, Entry
<1>2. Control /\ Freeing /\ [Next]_vars => [Ledger!Next]_Abstract
  BY LedgerStep
<1> QED
  BY <1>1, <1>2, ControlAlways, FreeingAlways, PTL DEF Spec, UsesInventory, Ledger!Spec, Abstract, Entry
=============================================================================
