-------------------------------- MODULE Cart --------------------------------
(***************************************************************************)
(* The open carts of one shopper, who is a guest in a session and then a   *)
(* customer in the same session, and the customer's wishlist.              *)
(*                                                                         *)
(* There is one product, so a cart holds one line at most: its quantity,   *)
(* and the wishlist items that were moved to it.  A request reads a cart,  *)
(* and puts it back if its version is still the one it read; a first cart  *)
(* is made under a lock, or without one by the requests that need a cart   *)
(* only to look for a line in it.  A cart whose checkout is over is opened *)
(* again by the request that finds it: a blind put of the copy it read, as *)
(* the writers of a checkout put it.                                       *)
(***************************************************************************)
EXTENDS Sums

CONSTANTS
  Requests,   \* requests of the shopper
  NoRequest,  \* the lock is free
  Others,     \* writers of the checkouts: starts, cancellations and payments
  Operations, \* what the requests may ask for
  Carts,      \* numbers of the cart documents there may be
  Items,      \* numbers of the wishlist items there may be
  Limit,      \* the quantity limit of the product
  MaxClaims,  \* bound: checkouts that claim a cart
  MaxLapses   \* bound: requests that die, locks and claims that expire

CartAssumption ==
  /\ NoRequest \notin Requests /\ IsFiniteSet(Requests)
  /\ Operations \subseteq {"add", "update", "remove", "merge", "coupon", "move", "save"}
  /\ Carts \subseteq Nat \ {0} /\ IsFiniteSet(Carts)
  /\ Items \subseteq Nat \ {0} /\ IsFiniteSet(Items)
  /\ Limit \in Nat \ {0} /\ {MaxClaims, MaxLapses} \subseteq Nat

VARIABLES
  carts,     \* Carts -> the document
  wishlist,  \* the customer's wishlist: its version, and its item or 0
  locks,     \* owner -> the request that holds the lock for a first cart
  reqs,      \* Requests -> what a request remembers
  claims,    \* history: how many checkouts began
  lapses,    \* history: how many lapses there were
  wanted,    \* history: the units the shopper asked for, by the answers given
  added,     \* history: Items -> how often a move of the item added a unit
  dropped,   \* history: items whose mark left the carts with its line
  raced,     \* history: whether a cart was made next to another one
  left,      \* history: whether a merge ended without taking from its source what it gave
  others,    \* Others -> the cart that a writer of a checkout read, and what it puts
  undone     \* history: whether a blind put undid what was done to the cart since it was read

cartVars == <<carts, wishlist, locks, reqs, claims, lapses, wanted, added, dropped, raced, left,
              others, undone>>

Owners == {"guest", "customer"}

\* A document's status is also "converted" (bought) or "abandoned" (merged away); a cart in
\* checkout is "claimed" by a start, then "pending" with a checkout, then that is "paid".
NoCart == [owner |-> "guest", status |-> "none", version |-> 0, qty |-> 0, moved |-> {}]

\* What a request knows: its owner, how far it looked for a cart, the number and copy of its
\* cart, the number and copy of the cart it merges from and the quantity it merged, and the
\* wishlist.
Waiting == [op |-> "none", owner |-> "guest", step |-> "wait", look |-> "open", id |-> 0, cart |-> NoCart,
            from |-> 0, source |-> NoCart, was |-> 0, list |-> [version |-> 0, item |-> 0]]

Done == [Waiting EXCEPT !.step = "done"]

NewCart(owner) == [NoCart EXCEPT !.owner = owner, !.status = "open", !.version = 1]

InUse == {"open", "claimed", "pending"}

InCarts == {c \in Carts : carts[c].status \in InUse}

Idle == [to |-> "none", id |-> 0, cart |-> NoCart]

Units == SumOver([c \in Carts |-> carts[c].qty], InCarts)

\* The guest and the customer may have a cart each, and the wishlist an item.
CartInit ==
  /\ \E guest \in 0..1, customer \in 0..1, bought \in 0..1 :
       carts = [c \in Carts |->
                  CASE c = 1 /\ guest = 1 -> [NewCart("guest") EXCEPT !.qty = 1]
                    [] c = 2 /\ customer = 1 -> [NewCart("customer") EXCEPT !.qty = bought]
                    [] OTHER -> NoCart]
  /\ \E i \in Items \cup {0} : wishlist = [version |-> 1, item |-> i]
  /\ locks = [o \in Owners |-> NoRequest]
  /\ reqs = [r \in Requests |-> Waiting]
  /\ claims = 0 /\ lapses = 0
  /\ wanted = Units
  /\ added = [i \in Items |-> 0] /\ dropped = {}
  /\ raced = FALSE /\ left = FALSE
  /\ others = [o \in Others |-> Idle] /\ undone = FALSE

----------------------------------------------------------------------------
(* The repository *)

\* The carts that the owner's requests look at: a guest's go by the session, in
\* which the customer's carts are made as well.
CartsOf(owner, statuses) ==
  {c \in Carts : carts[c].status \in statuses /\ (owner = "guest" \/ carts[c].owner = owner)}

OpenCarts(owner) == CartsOf(owner, {"open"})
PendingCarts(owner) == CartsOf(owner, {"claimed", "pending", "paid"})
Cartless(owner) == CartsOf(owner, InUse) = {}

\* putCartIfUnchanged.
Unchanged(id, cart) == carts[id].status = "open" /\ carts[id].version = cart.version

Renewed(cart) == [cart EXCEPT !.version = @ + 1]

Put(id, cart) == carts' = [carts EXCEPT ![id] = cart]

\* A new document gets the next number.
NewId(c) == carts[c].status = "none" /\ \A d \in Carts : d < c => carts[d].status # "none"

Goto(r, step) == reqs' = [reqs EXCEPT ![r].step = step, ![r].look = "open"]
Finish(r) == reqs' = [reqs EXCEPT ![r] = Done]

Holding(r, id, cart, step) ==
  reqs' = [reqs EXCEPT ![r].id = id, ![r].cart = cart, ![r].step = step, ![r].look = "open"]

At(r, step) == reqs[r].step = step

Reopened(cart) == [Renewed(cart) EXCEPT !.status = "open"]

\* A blind put undoes what was done to the document since it was read.
PutBlindly(id, cart, doc) == Put(id, doc) /\ undone' = (undone \/ carts[id] # cart)

unchangedHistory ==
  UNCHANGED <<claims, lapses, wanted, added, dropped, raced, left, others, undone>>

----------------------------------------------------------------------------
(* Finding or making the cart *)

\* A guest has no wishlist here, and only a customer merges.
Begin(r, op, owner) ==
  /\ At(r, "wait")
  /\ op \in {"merge", "move", "save"} => owner = "customer"
  /\ reqs' = [reqs EXCEPT ![r].op = op, ![r].owner = owner,
                          ![r].step = IF op = "move" THEN "item" ELSE "find"]
  /\ UNCHANGED <<carts, wishlist, locks>> /\ unchangedHistory

\* moveToCart reads the wishlist first.
ReadItem(r) ==
  /\ At(r, "item")
  /\ IF wishlist.item = 0 THEN Finish(r)
     ELSE reqs' = [reqs EXCEPT ![r].list = wishlist, ![r].step = "find"]
  /\ UNCHANGED <<carts, wishlist, locks>> /\ unchangedHistory

\* What follows when the cart is there.
Ahead(op) == CASE op = "merge" -> "source" [] op = "save" -> "list" [] OTHER -> "put"

Locking == {"add", "move"}

\* findOpenCart is called by every request, and again by one that finds the lock taken, to join
\* its holder, and by the one that holds it.
Looking == {"find", "join", "recheck"}

Looks(r, look) == reqs[r].step \in Looking /\ reqs[r].look = look

Found(r, c, cart) == Holding(r, c, cart, IF At(r, "find") THEN Ahead(reqs[r].op) ELSE "put")

\* No cart is returned, although there may be one: it was opened again between the two reads,
\* or the one that was read is paid.
NoneFound(r) ==
  /\ \/ At(r, "find") /\ Goto(r, IF reqs[r].op \in Locking THEN "lock" ELSE "create")
     \/ At(r, "join") /\ Finish(r)
     \/ At(r, "recheck") /\ Goto(r, "putnew")
  /\ raced' = (raced \/ (At(r, "recheck") /\ ~Cartless(reqs[r].owner)))

\* releaseLock: only the owner's.
Release(r) == locks' = [o \in Owners |-> IF locks[o] = r THEN NoRequest ELSE locks[o]]

\* A cart in checkout is returned, and nothing can be written to it.
Blocked(r) == Finish(r) /\ Release(r) /\ UNCHANGED raced

otherHistory == UNCHANGED <<claims, wanted, added, dropped, left, others>>

LookOpen(r) ==
  /\ Looks(r, "open")
  /\ \/ \E c \in OpenCarts(reqs[r].owner) : Found(r, c, carts[c])
     \/ OpenCarts(reqs[r].owner) = {} /\ reqs' = [reqs EXCEPT ![r].look = "pending"]
  /\ UNCHANGED <<carts, wishlist, locks>> /\ unchangedHistory

Reads(r, c, look) == reqs' = [reqs EXCEPT ![r].id = c, ![r].cart = carts[c], ![r].look = look]

\* The claim of a start blocks at once; otherwise the checkout is looked up.
LookPending(r) ==
  LET pending == PendingCarts(reqs[r].owner)
  IN  /\ Looks(r, "pending")
      /\ \/ \E c \in pending :
              \/ carts[c].status = "claimed" /\ Blocked(r)
              \/ carts[c].status # "claimed" /\ Reads(r, c, "checkout") /\ UNCHANGED <<locks, raced>>
         \/ pending = {} /\ NoneFound(r) /\ UNCHANGED locks
      /\ UNCHANGED <<carts, wishlist, lapses, undone>> /\ otherHistory

\* A claim whose lease is over, its start dead or slow, names no checkout.
LookPastClaim(r) ==
  /\ Looks(r, "pending") /\ lapses < MaxLapses
  /\ \E c \in PendingCarts(reqs[r].owner) : carts[c].status = "claimed" /\ Reads(r, c, "reopen")
  /\ lapses' = lapses + 1
  /\ UNCHANGED <<carts, wishlist, locks, raced, undone>> /\ otherHistory

\* The checkout of a copy completed, before it was read or since.
Completed(id, cart) ==
  \/ cart.status = "paid"
  \/ carts[id] \in {[cart EXCEPT !.status = "paid"], [Renewed(cart) EXCEPT !.status = "converted"]}

\* A checkout that is not completed can be resumed, or is over; a cart that was written since
\* had its checkout over.
LookCheckout(r) ==
  LET id == reqs[r].id
      cart == reqs[r].cart
  IN  /\ Looks(r, "checkout")
      /\ \/ Completed(id, cart) /\ NoneFound(r) /\ UNCHANGED locks
         \/ carts[id] = cart /\ cart.status = "pending" /\ Blocked(r)
         \/ /\ ~Completed(id, cart)
            /\ reqs' = [reqs EXCEPT ![r].look = "reopen"] /\ UNCHANGED <<locks, raced>>
      /\ UNCHANGED <<carts, wishlist, lapses, undone>> /\ otherHistory

\* reopenAbandonedCheckoutCart: a blind put of the copy.
PutReopened(r) ==
  LET id == reqs[r].id
      cart == reqs[r].cart
  IN  /\ Looks(r, "reopen")
      /\ PutBlindly(id, cart, Reopened(cart))
      /\ Found(r, id, Reopened(cart))
      /\ UNCHANGED <<wishlist, locks, lapses, raced>> /\ otherHistory

\* Whether a cart made now is, or will be, the second of its owner.
Crowded(r) ==
  \/ ~Cartless(reqs[r].owner)
  \/ \E other \in Requests \ {r} : reqs[other].owner = reqs[r].owner
                                   /\ reqs[other].step \in {"lock", "recheck", "putnew", "create"}

\* findOrCreateOpenCart takes no lock.
CreateEmpty(r) ==
  /\ At(r, "create")
  /\ \E c \in Carts :
       /\ NewId(c) /\ Put(c, NewCart(reqs[r].owner))
       /\ Holding(r, c, NewCart(reqs[r].owner), Ahead(reqs[r].op))
  /\ raced' = (raced \/ Crowded(r))
  /\ UNCHANGED <<wishlist, locks, claims, lapses, wanted, added, dropped, left, others, undone>>

\* Seeded fault: the holder of the lock does not look again.
NoRecheck == "putnew"

\* The holder of the lock looks again.
Locked == "recheck"

TryLock(r) ==
  LET owner == reqs[r].owner
  IN  /\ At(r, "lock")
      /\ IF locks[owner] = NoRequest
         THEN locks' = [locks EXCEPT ![owner] = r] /\ Goto(r, Locked)
         ELSE UNCHANGED locks /\ Goto(r, "join")
      /\ UNCHANGED <<carts, wishlist>> /\ unchangedHistory

\* The item that a request moves, or none.
Moved(r) == IF reqs[r].op = "move" THEN {reqs[r].list.item} ELSE {}

Count(items) == added' = [i \in Items |-> IF i \in items THEN added[i] + 1 ELSE added[i]]

\* After the cart: a move goes on with the wishlist.
Onward(r) == IF reqs[r].op = "move" THEN Goto(r, "unlist") ELSE Finish(r)

PutFirstCart(r) ==
  /\ At(r, "putnew")
  /\ \E c \in Carts :
       NewId(c) /\ Put(c, [NewCart(reqs[r].owner) EXCEPT !.qty = 1, !.version = 2, !.moved = Moved(r)])
  /\ wanted' = wanted + 1 /\ Count(Moved(r))
  /\ Release(r) /\ Onward(r)
  /\ raced' = (raced \/ locks[reqs[r].owner] # r)
  /\ UNCHANGED <<wishlist, claims, lapses, dropped, left, others, undone>>

----------------------------------------------------------------------------
(* Putting the cart *)

\* Whether the request adds a unit to this cart.
Adds(r, cart) ==
  reqs[r].op = "add" \/ (reqs[r].op = "move" /\ reqs[r].list.item \notin cart.moved)

\* The new quantity, or the old one; a new line has no marks of an old one.
Changed(r, cart, qty) ==
  [Renewed(cart) EXCEPT !.qty = qty,
                        !.moved = IF qty = 0 THEN {} ELSE @ \cup Moved(r)]

Quantities(r, cart) ==
  CASE reqs[r].op = "update" -> IF cart.qty = 0 THEN {} ELSE 1..Limit
    [] reqs[r].op = "remove" -> IF cart.qty = 0 THEN {} ELSE {0}
    [] reqs[r].op = "coupon" -> {cart.qty}
    [] reqs[r].op \in Locking -> IF Adds(r, cart) /\ cart.qty < Limit THEN {cart.qty + 1} ELSE {}
    [] OTHER -> {}

\* add, update, remove, applyCoupon and the cart's part of moveToCart.
PutCart(r) ==
  LET id == reqs[r].id
      cart == reqs[r].cart
  IN  /\ At(r, "put") /\ reqs[r].op # "merge"
      /\ \/ \E q \in Quantities(r, cart) :
              IF Unchanged(id, cart)
              THEN /\ Put(id, Changed(r, cart, q))
                   /\ wanted' = wanted + (q - cart.qty)
                   /\ Count(Moved(r))
                   /\ dropped' = IF q = 0 THEN dropped \cup cart.moved ELSE dropped
                   /\ Onward(r)
              ELSE Finish(r) /\ UNCHANGED <<carts, wanted, added, dropped>>
         \/ /\ Quantities(r, cart) = {}
            /\ IF reqs[r].op = "move" /\ ~Adds(r, cart) THEN Onward(r) ELSE Finish(r)
            /\ UNCHANGED <<carts, wanted, added, dropped>>
      /\ Release(r)
      /\ UNCHANGED <<wishlist, claims, lapses, raced, left, others, undone>>

----------------------------------------------------------------------------
(* The wishlist *)

\* putWishlistIfUnchanged.
PutWishlist(r, item) ==
  IF wishlist.version = reqs[r].list.version
  THEN wishlist' = [version |-> wishlist.version + 1, item |-> item]
  ELSE UNCHANGED wishlist

Unlist(r) ==
  /\ At(r, "unlist")
  /\ PutWishlist(r, 0)
  /\ Finish(r)
  /\ UNCHANGED <<carts, locks>> /\ unchangedHistory

\* saveForLater: the wishlist first, and then the cart.
ReadWishlist(r) ==
  /\ At(r, "list")
  /\ IF reqs[r].cart.qty = 0 THEN Finish(r)
     ELSE reqs' = [reqs EXCEPT ![r].list = wishlist, ![r].step = "enlist"]
  /\ UNCHANGED <<carts, wishlist, locks>> /\ unchangedHistory

\* The item ids that were never used.
FreshItems == {i \in Items : i # wishlist.item /\ added[i] = 0 /\ i \notin dropped
                             /\ \A c \in Carts : i \notin carts[c].moved
                             /\ \A r \in Requests : reqs[r].list.item # i}

\* mergeWishlistItems keeps an equivalent item.
Enlist(r) ==
  /\ At(r, "enlist")
  /\ IF reqs[r].list.item # 0 THEN PutWishlist(r, reqs[r].list.item)
     ELSE \E i \in FreshItems : (\A n \in FreshItems : i <= n) /\ PutWishlist(r, i)
  /\ IF wishlist.version = reqs[r].list.version THEN Goto(r, "take") ELSE Finish(r)
  /\ UNCHANGED <<carts, locks>> /\ unchangedHistory

TakeLine(r) ==
  LET id == reqs[r].id
      cart == reqs[r].cart
  IN  /\ At(r, "take")
      /\ IF Unchanged(id, cart)
         THEN /\ Put(id, [Renewed(cart) EXCEPT !.qty = 0, !.moved = {}])
              /\ wanted' = wanted - cart.qty
              /\ dropped' = dropped \cup cart.moved
         ELSE UNCHANGED <<carts, wanted, dropped>>
      /\ Finish(r)
      /\ UNCHANGED <<wishlist, locks, claims, lapses, added, raced, left, others, undone>>

----------------------------------------------------------------------------
(* Merging the guest's cart *)

\* The source is any open cart of the session; none, or the target itself, is not merged.
ReadSource(r) ==
  LET session == OpenCarts("guest")
  IN  /\ At(r, "source")
      /\ \/ \E c \in session \ {reqs[r].id} :
              reqs' = [reqs EXCEPT ![r].from = c, ![r].source = carts[c], ![r].step = "put"]
         \/ (session = {} \/ reqs[r].id \in session) /\ Finish(r)
      /\ UNCHANGED <<carts, wishlist, locks>> /\ unchangedHistory

\* The target takes the source's units; an equivalent line keeps the target's marks.
Merged(cart, source) ==
  [Renewed(cart) EXCEPT !.qty = @ + source.qty,
                        !.moved = IF cart.qty = 0 THEN source.moved ELSE @]

MergeTarget(r) ==
  LET id == reqs[r].id
      target == Merged(reqs[r].cart, reqs[r].source)
  IN  /\ At(r, "put") /\ reqs[r].op = "merge"
      /\ IF target.qty <= Limit /\ Unchanged(id, reqs[r].cart)
         THEN Put(id, target) /\ Holding(r, id, target, "abandon")
         ELSE UNCHANGED carts /\ Finish(r)
      /\ UNCHANGED <<wishlist, locks>> /\ unchangedHistory

Abandoned(cart) == [Renewed(cart) EXCEPT !.status = "abandoned"]

\* Marks that the target did not take over are dropped with the source.
AbandonSource(r) ==
  /\ At(r, "abandon")
  /\ IF Unchanged(reqs[r].from, reqs[r].source)
     THEN /\ Put(reqs[r].from, Abandoned(reqs[r].source)) /\ Finish(r)
          /\ dropped' = dropped \cup (reqs[r].source.moved \ reqs[r].cart.moved)
     ELSE UNCHANGED <<carts, dropped>> /\ Goto(r, "latest")
  /\ UNCHANGED <<wishlist, locks, claims, lapses, wanted, added, raced, left, others, undone>>

\* A line may have been taken out and added again: as many units, but another line.
Replaceable(source, latest) == latest.qty > 0 /\ latest.version > source.version + 1

\* The source changed: what it gained or lost since is owed to the target.
ReadLatest(r) ==
  LET source == reqs[r].source
      latest == carts[reqs[r].from]
  IN  /\ At(r, "latest")
      /\ \/ /\ latest.status = "open" /\ (latest.qty # source.qty \/ Replaceable(source, latest))
            /\ reqs' = [reqs EXCEPT ![r].step = "again", ![r].was = source.qty, ![r].source = latest]
            /\ UNCHANGED left
         \/ /\ latest.status # "open" \/ latest.qty = source.qty
            /\ Finish(r) /\ left' = (left \/ source.qty > 0)
      /\ UNCHANGED <<carts, wishlist, locks, claims, lapses, wanted, added, dropped, raced, others, undone>>

\* Seeded fault: the changed source is merged as a whole once more.
OwedAll(r) == reqs[r].source

\* What the source has now and had not when it was merged.
Owed(r) == [reqs[r].source EXCEPT !.qty = @ - reqs[r].was]

\* A target line that shrinks to nothing goes, with its marks.  A line that replaced another
\* is corrected like it: they differ in their marks only, and a guest's cart has none.
Corrected(cart, owed) ==
  IF cart.qty + owed.qty = 0 THEN [Renewed(cart) EXCEPT !.qty = 0, !.moved = {}]
  ELSE Merged(cart, owed)

MergeAgain(r) ==
  LET id == reqs[r].id
      target == Corrected(reqs[r].cart, Owed(r))
  IN  /\ At(r, "again")
      /\ IF (Owed(r).qty < 0 \/ target.qty <= Limit) /\ Unchanged(id, reqs[r].cart)
         THEN /\ Put(id, target) /\ Holding(r, id, target, "reabandon")
              /\ dropped' = dropped \cup (reqs[r].cart.moved \ target.moved)
              /\ UNCHANGED left
         ELSE UNCHANGED <<carts, dropped>> /\ Finish(r) /\ left' = (left \/ reqs[r].was > 0)
      /\ UNCHANGED <<wishlist, locks, claims, lapses, wanted, added, raced, others, undone>>

AbandonAgain(r) ==
  /\ At(r, "reabandon")
  /\ IF Unchanged(reqs[r].from, reqs[r].source)
     THEN /\ Put(reqs[r].from, Abandoned(reqs[r].source))
          /\ dropped' = dropped \cup (reqs[r].source.moved \ reqs[r].cart.moved)
          /\ UNCHANGED left
     ELSE UNCHANGED <<carts, dropped>> /\ left' = (left \/ reqs[r].source.qty > 0)
  /\ Finish(r)
  /\ UNCHANGED <<wishlist, locks, claims, lapses, wanted, added, raced, others, undone>>

----------------------------------------------------------------------------
(* The world *)

\* claimCartForCheckout.
Claim(o, c) ==
  LET claimed == [Renewed(carts[c]) EXCEPT !.status = "claimed"]
  IN  /\ others[o] = Idle
      /\ carts[c].status = "open" /\ carts[c].qty > 0 /\ claims < MaxClaims
      /\ Put(c, claimed)
      /\ others' = [others EXCEPT ![o] = [to |-> "pending", id |-> c, cart |-> claimed]]
      /\ claims' = claims + 1
      /\ UNCHANGED <<wishlist, locks, reqs, lapses, wanted, added, dropped, raced, left, undone>>

\* The start fails: the cart is opened again, if the claim is still on it.
ReleaseClaim(o) ==
  LET id == others[o].id
      cart == others[o].cart
  IN  /\ others[o].to = "pending"
      /\ IF carts[id] = cart THEN Put(id, Reopened(cart)) ELSE UNCHANGED carts
      /\ others' = [others EXCEPT ![o] = Idle]
      /\ UNCHANGED <<wishlist, locks, reqs, claims, lapses, wanted, added, dropped, raced, left, undone>>

\* The checkout is paid: what is in the cart is bought.
Pay(c) ==
  /\ carts[c].status = "pending"
  /\ Put(c, [carts[c] EXCEPT !.status = "paid"])
  /\ wanted' = wanted - carts[c].qty
  /\ dropped' = dropped \cup carts[c].moved
  /\ UNCHANGED <<wishlist, locks, reqs, claims, lapses, added, raced, left, others, undone>>

\* A cancellation reads the cart to open it again, whichever checkout it is in; the payment
\* to convert it.
ReadCart(o, c, to) ==
  /\ others[o] = Idle
  /\ \/ to = "open" /\ (carts[c].status = "pending" \/ (carts[c].status = "claimed" /\ claims > 1))
     \/ to = "converted" /\ carts[c].status = "paid"
  /\ others' = [others EXCEPT ![o] = [to |-> to, id |-> c, cart |-> carts[c]]]
  /\ UNCHANGED <<carts, wishlist, locks, reqs, claims, lapses, wanted, added, dropped, raced, left, undone>>

\* What they put, blindly; a start puts the version that its claim made.
PutOther(o) ==
  LET id == others[o].id
      cart == others[o].cart
      next == IF others[o].to = "pending" THEN cart ELSE Renewed(cart)
  IN  /\ others[o].to # "none"
      /\ PutBlindly(id, cart, [next EXCEPT !.status = others[o].to])
      /\ others' = [others EXCEPT ![o] = Idle]
      /\ UNCHANGED <<wishlist, locks, reqs, claims, lapses, wanted, added, dropped, raced, left>>

\* The process of a request dies; its lock stays until it expires.
Die(r) ==
  /\ reqs[r].step \notin {"wait", "done"} /\ lapses < MaxLapses
  /\ Finish(r)
  /\ lapses' = lapses + 1
  /\ UNCHANGED <<carts, wishlist, locks, claims, wanted, added, dropped, raced, left, others, undone>>

\* A lock lives for 30 s, a request may live longer.
ExpireLock(o) ==
  LET late == locks[o] \in Requests /\ reqs[locks[o]].step # "done"
  IN  /\ locks[o] # NoRequest /\ (late => lapses < MaxLapses)
      /\ locks' = [locks EXCEPT ![o] = NoRequest]
      /\ lapses' = IF late THEN lapses + 1 ELSE lapses
      /\ UNCHANGED <<carts, wishlist, reqs, claims, wanted, added, dropped, raced, left, others, undone>>

CartNext ==
  \/ \E r \in Requests :
       \/ \E op \in Operations, owner \in Owners : Begin(r, op, owner)
       \/ ReadItem(r) \/ LookOpen(r) \/ LookPending(r) \/ LookPastClaim(r) \/ LookCheckout(r)
       \/ PutReopened(r) \/ CreateEmpty(r) \/ TryLock(r) \/ PutFirstCart(r) \/ PutCart(r)
       \/ Unlist(r) \/ ReadWishlist(r) \/ Enlist(r) \/ TakeLine(r)
       \/ ReadSource(r) \/ MergeTarget(r) \/ AbandonSource(r)
       \/ ReadLatest(r) \/ MergeAgain(r) \/ AbandonAgain(r)
       \/ Die(r)
  \/ \E o \in Others :
       \/ \E c \in Carts : Claim(o, c) \/ \E to \in {"open", "converted"} : ReadCart(o, c, to)
       \/ ReleaseClaim(o) \/ PutOther(o)
  \/ \E c \in Carts : Pay(c)
  \/ \E o \in Owners : ExpireLock(o)

CartSpec == CartInit /\ [][CartNext]_cartVars

----------------------------------------------------------------------------
(* Properties *)

Cart == [owner : Owners,
         status : {"none", "open", "claimed", "pending", "paid", "converted", "abandoned"},
         version : Nat, qty : 0..Limit, moved : SUBSET Items]

\* The carts, the wishlist, the locks and the histories have the values they should.
CartTypeOK ==
  /\ carts \in [Carts -> Cart]
  /\ wishlist \in [version : Nat, item : Items \cup {0}]
  /\ locks \in [Owners -> Requests \cup {NoRequest}]
  /\ reqs \in [Requests -> [op : Operations \cup {"none"}, owner : Owners, step : STRING,
                            look : {"open", "pending", "checkout", "reopen"},
                            id : Carts \cup {0}, cart : Cart, from : Carts \cup {0},
                            source : Cart, was : 0..Limit,
                            list : [version : Nat, item : Items \cup {0}]]]
  /\ claims \in 0..MaxClaims /\ lapses \in 0..MaxLapses /\ wanted \in Int
  /\ added \in [Items -> Nat] /\ dropped \subseteq Items /\ raced \in BOOLEAN /\ left \in BOOLEAN
  /\ others \in [Others -> [to : {"none", "pending", "open", "converted"}, id : Carts \cup {0}, cart : Cart]]
  /\ undone \in BOOLEAN

\* An owner has one cart: a second one would be invisible.  The second may be one that is
\* made without the lock, or after it expired, while another is made; that the holder of the
\* lock makes because its reads missed the first; or that a blind put brings back
\* (createCartWithFirstLine, persistWishlistMoveToCart, findOpenCart).
OneCart ==
  raced \/ undone \/ \A c, d \in InCarts : carts[c].owner = carts[d].owner => c = d

\* A wishlist item that is moved again, because the first move left it in the wishlist
\* or another request moves it at the same time, adds its unit once, as long as its
\* mark is in the cart (appendWishlistMoveToCart).
MovedOnce == raced \/ \A i \in Items \ dropped : added[i] <= 1

MergesRest == lapses = 0 /\ \A r \in Requests : reqs[r].step \in {"wait", "done"}

\* No unit that a shopper was told is in a cart is lost, neither to a request that read
\* the cart before, nor to a merge whose source changes or that dies; and a merge counts
\* no unit twice, although the source grew, shrank or lost its line meanwhile, unless it
\* gives up and leaves the source (putCartIfUnchanged, abandonMergedSourceCart,
\* applyCartLineQuantityDelta).  Nor does a move.  Only a blind put, by which a cart comes
\* out of a checkout, undoes what was put since its copy was read (reopenAbandonedCheckoutCart).
UnitsAreKept ==
  undone \/ (/\ Units >= wanted /\ (MergesRest /\ ~left => Units <= wanted)
             /\ MovedOnce)

=============================================================================
