------------------------------- MODULE Stock -------------------------------
(***************************************************************************)
(* The stock repository: mika_stock_items with its two counters, and       *)
(* mika_stock_events with the reservations and movements behind them.      *)
(*                                                                         *)
(* Every operation runs in one SQL transaction (withTransaction), so it is *)
(* one atomic action here.  An operation that the code answers with        *)
(* not_found, not_active, replayed, idempotency_conflict,                  *)
(* insufficient_stock or a thrown (rolled back) error changes nothing: it  *)
(* is an action that is not enabled.                                       *)
(***************************************************************************)
EXTENDS UnitCount

CONSTANTS
  Items,        \* stock items
  NoItem,       \* the item of an event row that does not exist yet
  Events,       \* ids createId("stock_event") may return
  Keys,         \* idempotency keys
  NoKey,        \* the SQL NULL of idempotency_key
  Customers,    \* customers a reservation may belong to
  Nobody,       \* the SQL NULL of customer_id
  Definitions,  \* what putItemDefinition may write: [finite, backorder]
  Seed,         \* the on-hand quantity an item is created with
  MaxTime       \* bound: the last instant of the clock and of an expiry

Definition == [finite : BOOLEAN, backorder : BOOLEAN]

ASSUME StockAssumption ==
  /\ IsFiniteSet(Events)
  /\ MaxTime \in Nat
  /\ Seed \in [Items -> Nat]
  /\ Definitions \subseteq Definition
  /\ NoItem \notin Items /\ NoKey \notin Keys /\ Nobody \notin Customers

VARIABLES
  items,     \* Items -> the row of mika_stock_items
  events,    \* Events -> the row of mika_stock_events
  now,       \* the wall clock
  loosened   \* history: items whose definition ever allowed overselling

vars == <<items, events, now, loosened>>

Quantities == 1..MaxQty
Deltas     == (-MaxQty..MaxQty) \ {0}

NoEvent == [item |-> NoItem, status |-> "absent", qty |-> 0, key |-> NoKey,
            customer |-> Nobody, expires |-> 0]

\* The WHERE clause shared by the statements: this item must not be oversold.
Guarded(item) == item.finite /\ ~item.backorder

----------------------------------------------------------------------------
(* The statements of statements.ts, as functions of an item row *)

Clamp(n) == IF n < 0 THEN 0 ELSE n

\* Seeded fault: the units already reserved are forgotten.
AvailableOnHand(item, q) == Guarded(item) => item.onHand >= q

Available(item, q) == Guarded(item) => item.onHand - item.reserved >= q

Reserved(item, q) == [item EXCEPT !.reserved = @ + q]

Released(item, q) == [item EXCEPT !.reserved = Clamp(@ - q)]

TakenFromHand(item, q) ==
  [item EXCEPT !.onHand = IF item.finite THEN Clamp(@ - q) ELSE @]

ConsumedReserved(item, q) == Released(TakenFromHand(item, q), q)

\* Seeded fault: reservations may be undercut.
CanAdjustUnderReserved(item, d) == item.onHand + d >= 0

CanAdjust(item, d) ==
  /\ item.onHand + d >= 0
  /\ Guarded(item) /\ d < 0 => item.onHand + d >= item.reserved

Adjusted(item, d) == [item EXCEPT !.onHand = @ + d]

----------------------------------------------------------------------------
(* Row insertion, with its idempotency key *)

\* findStockEventByIdempotencyKey found nothing (a row found makes the call a replay).
KeyIsNew(k) == k = NoKey \/ \A e \in Events : events[e].key # k

Insert(e, row) ==
  /\ events[e] = NoEvent
  /\ KeyIsNew(row.key)
  /\ events' = [events EXCEPT ![e] = row]

SetItem(i, row) == items' = [items EXCEPT ![i] = row]

----------------------------------------------------------------------------
(* Sums over the event rows *)

Size == [e \in Events |-> events[e].qty]
Loss == [e \in Events |-> -events[e].qty]

EventsOf(i, status) == {e \in Events : events[e].item = i /\ events[e].status = status}

----------------------------------------------------------------------------
(* The initial rows: items seeded by putItem, before any event exists *)

Init ==
  /\ \E definition \in [Items -> Definitions] :
       /\ items = [i \in Items |-> [finite   |-> definition[i].finite,
                                    backorder |-> definition[i].backorder,
                                    onHand   |-> Seed[i],
                                    reserved |-> 0]]
       /\ loosened = {i \in Items : ~Guarded(definition[i])}
  /\ events = [e \in Events |-> NoEvent]
  /\ now = 0

----------------------------------------------------------------------------
(* Operations of StockRepository *)

Reserve(e, i, q, k, c, x) ==
  /\ Insert(e, [item |-> i, status |-> "active", qty |-> q, key |-> k,
                customer |-> c, expires |-> x])
  /\ Available(items[i], q)
  /\ SetItem(i, Reserved(items[i], q))
  /\ UNCHANGED <<now, loosened>>

\* Seeded fault: an expired reservation is released a second time.
TransitionUnended(e, target) ==
  /\ events[e].status \in {"active", "expired"}
  /\ events' = [events EXCEPT ![e].status = target, ![e].key = NoKey]
  /\ SetItem(events[e].item, Released(items[events[e].item], events[e].qty))
  /\ UNCHANGED <<now, loosened>>

\* release and expire differ only in the status they leave.
TransitionActive(e, target) ==
  /\ events[e].status = "active"
  /\ events' = [events EXCEPT ![e].status = target, ![e].key = NoKey]
  /\ SetItem(events[e].item, Released(items[events[e].item], events[e].qty))
  /\ UNCHANGED <<now, loosened>>

Release(e) == TransitionActive(e, "released")
Expire(e)  == TransitionActive(e, "expired")

\* Seeded fault: the status is not checked again, a repeated consume counts twice.
ConsumeAgain(e) ==
  /\ events[e].status \in {"active", "consumed"}
  /\ SetItem(events[e].item, ConsumedReserved(items[events[e].item], events[e].qty))
  /\ events' = [events EXCEPT ![e].status = "consumed"]
  /\ UNCHANGED <<now, loosened>>

Consume(e) ==
  LET row == events[e]
  IN  /\ \/ /\ row.status = "active"
            /\ SetItem(row.item, ConsumedReserved(items[row.item], row.qty))
         \/ /\ row.status = "expired"
            /\ Available(items[row.item], row.qty)
            /\ SetItem(row.item, TakenFromHand(items[row.item], row.qty))
      /\ events' = [events EXCEPT ![e].status = "consumed"]
      /\ UNCHANGED <<now, loosened>>

\* The loop both sweeps run inside one transaction, over the rows S they read.
EndActiveRows(S, target) ==
  /\ S # {}
  /\ events' = [e \in Events |-> IF e \in S THEN [events[e] EXCEPT !.status = target, !.key = NoKey]
                                            ELSE events[e]]
  /\ items' = [i \in Items |->
                 Released(items[i], Total(Size, {e \in S : events[e].item = i}))]
  /\ UNCHANGED <<now, loosened>>

\* Seeded fault: the sweep also reads rows that were released.
UnsoldRows == {e \in Events : events[e].status \in {"active", "released"}}

ActiveRows == {e \in Events : events[e].status = "active"}

\* Seeded fault: a reservation expiring at this very instant is left for later.
ReleaseOverdueReservations(t) ==
  EndActiveRows({e \in ActiveRows : events[e].expires < t}, "expired")

\* t is the caller's ctx.now, read at or before the transaction runs.
ReleaseExpiredReservations(t) ==
  EndActiveRows({e \in ActiveRows : events[e].expires <= t}, "expired")

ReleaseActiveReservationsByCustomer(c) ==
  EndActiveRows({e \in ActiveRows : events[e].customer = c}, "released")

ExtendReservations(S, x) ==
  /\ \E e \in S : events[e].status = "active" /\ events[e].expires < x
  /\ events' = [e \in Events |->
                  IF e \in S /\ events[e].status = "active" /\ events[e].expires < x
                  THEN [events[e] EXCEPT !.expires = x] ELSE events[e]]
  /\ UNCHANGED <<items, now, loosened>>

AdjustStock(e, i, d, k) ==
  /\ Insert(e, [item |-> i, status |-> "recorded", qty |-> d, key |-> k,
                customer |-> Nobody, expires |-> 0])
  /\ CanAdjust(items[i], d)
  /\ SetItem(i, Adjusted(items[i], d))
  /\ UNCHANGED <<now, loosened>>

\* The quantities of the row stay as they are.
PutItemDefinition(i, d) ==
  /\ SetItem(i, [items[i] EXCEPT !.finite = d.finite, !.backorder = d.backorder])
  /\ loosened' = IF Guarded(d) THEN loosened ELSE loosened \cup {i}
  /\ UNCHANGED <<events, now>>

Tick ==
  /\ now < MaxTime
  /\ now' = now + 1
  /\ UNCHANGED <<items, events, loosened>>

----------------------------------------------------------------------------
Next ==
  \/ \E e \in Events, i \in Items, k \in Keys \cup {NoKey} :
       \/ \E q \in Quantities, c \in Customers \cup {Nobody}, x \in 1..MaxTime :
            Reserve(e, i, q, k, c, x)
       \/ \E d \in Deltas : AdjustStock(e, i, d, k)
  \/ \E e \in Events : Release(e) \/ Expire(e) \/ Consume(e)
  \/ \E t \in 0..now : ReleaseExpiredReservations(t)
  \/ \E c \in Customers : ReleaseActiveReservationsByCustomer(c)
  \/ \E S \in SUBSET Events, x \in 1..MaxTime : ExtendReservations(S, x)
  \/ \E i \in Items, d \in Definitions : PutItemDefinition(i, d)
  \/ Tick

Spec == Init /\ [][Next]_vars

\* The maintenance job calls the sweep with the current time over and over.
FairSpec == Spec /\ WF_vars(Tick) /\ WF_vars(ReleaseExpiredReservations(now))

----------------------------------------------------------------------------
(* Properties *)

Statuses == {"absent", "active", "released", "expired", "consumed", "recorded"}

ItemRow  == [finite : BOOLEAN, backorder : BOOLEAN, onHand : Nat, reserved : Nat]

EventRow == [item : Items \cup {NoItem}, status : Statuses, qty : -MaxQty..MaxQty,
             key : Keys \cup {NoKey}, customer : Customers \cup {Nobody}, expires : 0..MaxTime]

\* The rows have the shape of their tables, a reservation holds a positive
\* quantity (assertReservationQuantity), and no counter is ever negative.
TypeOK ==
  /\ items \in [Items -> ItemRow]
  /\ events \in [Events -> EventRow]
  /\ now \in 0..MaxTime
  /\ loosened \subseteq Items
  /\ \A e \in Events :
       /\ events[e].status = "absent" => events[e] = NoEvent
       /\ events[e].status # "absent" => events[e].item \in Items
       /\ events[e].status \in {"active", "released", "expired", "consumed"} => events[e].qty > 0

\* Units held by active reservations, moved in, moved out, and sold.
Held(i)     == Total(Size, EventsOf(i, "active"))
MovedIn(i)  == Total(Size, EventsOf(i, "recorded"))
MovedOut(i) == Total(Loss, EventsOf(i, "recorded"))
Sold(i)     == Total(Size, EventsOf(i, "consumed"))

\* The counter quantity_reserved is a cache of the event rows: it equals the
\* sum of the reservations that are active, whatever mix of release, expire,
\* sweep, consume and account deletion ended the others.  (MAX(0, ...) in
\* the statements would hide a double release for a while; this does not.)
ReservedIsHeld ==
  \A i \in Items : items[i].reserved = Held(i)

\* What NoOversell rests on: only such an item is always guarded.
StrictIsGuarded == \A i \in Items \ loosened : Guarded(items[i])

\* A finite item that never allowed back orders is never promised beyond
\* the units on hand, also when a lapsed reservation is consumed late.
NoOversell ==
  \A i \in Items \ loosened : items[i].reserved <= items[i].onHand

\* Every unit on hand is accounted for: what the item was created with, plus
\* and minus the recorded movements, minus what was consumed.  A clamp to 0
\* or a consume that ran twice would lose or invent units.
OnHandIsAccounted ==
  \A i \in Items \ loosened :
    items[i].onHand = Seed[i] + MovedIn(i) - MovedOut(i) - Sold(i)

Oversold(item) == Clamp(item.reserved - item.onHand)

\* While an item forbids overselling, no operation of the repository makes
\* the shortfall worse, even when back orders taken under an older
\* definition left one (putItemDefinition never checks the counters).
OversoldOnlyShrinks ==
  [][\A i \in Items : Guarded(items[i]) /\ Guarded(items'[i])
                        => Oversold(items'[i]) <= Oversold(items[i])]_vars

\* A reservation that ended stays ended, but for the one way back the code
\* documents: an expired one may still be consumed.  A consumed one keeps
\* its key, so that a late retry of the reserve call is a replay.
EndedReservationsStayEnded ==
  [][\A e \in Events :
       /\ events[e].status \in {"released", "consumed", "recorded"} => events'[e] = events[e]
       /\ events[e].status = "expired" => events'[e].status \in {"expired", "consumed"}]_vars

\* No active reservation holds its units for ever: its expiry comes, however
\* often it is extended (to instants the clock reaches), and the sweep ends it.
HoldsDrain == \A e \in Events : events[e].status = "active" ~> events[e].status # "active"

\* The counters implement the ledger of Inventory.
PhaseOf(status) ==
  CASE status = "active"   -> "held"
    [] status = "released" -> "returned"
    [] status = "expired"  -> "lapsed"
    [] status = "consumed" -> "sold"
    [] status = "recorded" -> "moved"
    [] status = "absent"   -> "absent"

Ledger == INSTANCE Inventory
            WITH Entries <- Events,
                 ledger  <- [e \in Events |-> [item  |-> events[e].item,
                                               phase |-> PhaseOf(events[e].status),
                                               qty   |-> events[e].qty]]

\* When every definition is guarded, the repository keeps the promise of
\* Inventory: a hold or a late sale only takes units that are free.
ImplementsInventory == Ledger!Spec
============================================================================
