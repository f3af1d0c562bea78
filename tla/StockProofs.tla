---------------------------- MODULE StockProofs ----------------------------
(***************************************************************************)
(* Theorems about Stock, for every set of items and events, every          *)
(* quantity bound and every definition of the items.                       *)
(***************************************************************************)
EXTENDS Stock, FiniteSetTheorems, TLAPS

----------------------------------------------------------------------------
(* The facts about Total that the rest stands on: it behaves like a sum      *)
(* when entries are added, removed or moved.  Each is a fact about the       *)
(* cardinality of the set of units.                                          *)

\* The units of finitely many entries are finitely many.
LEMMA UnitsFinite ==
  ASSUME NEW size, NEW S, IsFiniteSet(S)
  PROVE  IsFiniteSet(UnitsOf(size, S))
<1>1. IsFiniteSet(1..MaxQty)
  BY FS_Interval, MaxQtyAssumption
<1>2. IsFiniteSet(S \X (1..MaxQty))
  BY <1>1, FS_Product
<1>3. UnitsOf(size, S) \in SUBSET (S \X (1..MaxQty))
  BY DEF UnitsOf
<1> QED
  BY <1>2, <1>3, FS_Subset

\* A total is a natural number.
LEMMA TotalType ==
  ASSUME NEW size, NEW S, IsFiniteSet(S)
  PROVE  Total(size, S) \in Nat
BY UnitsFinite, FS_CardinalityType DEF Total

\* Nothing sums to zero.
LEMMA TotalEmpty ==
  ASSUME NEW size
  PROVE  Total(size, {}) = 0
<1>1. UnitsOf(size, {}) = {}
  BY DEF UnitsOf
<1> QED
  BY <1>1, FS_EmptySet DEF Total

\* A total depends only on the sizes of the entries summed.
LEMMA TotalSameSizes ==
  ASSUME NEW size1, NEW size2, NEW S, \A e \in S : size1[e] = size2[e]
  PROVE  Total(size1, S) = Total(size2, S)
<1>1. UnitsOf(size1, S) = UnitsOf(size2, S)
  BY DEF UnitsOf
<1> QED
  BY <1>1 DEF Total

\* Taking a subset T out of S takes its total out, and no more than is there.
LEMMA TotalWithout ==
  ASSUME NEW size, NEW S, IsFiniteSet(S), NEW T \in SUBSET S
  PROVE  /\ Total(size, S \ T) = Total(size, S) - Total(size, T)
         /\ Total(size, T) <= Total(size, S)
<1>1. UnitsOf(size, S \ T) = UnitsOf(size, S) \ UnitsOf(size, T)
  BY DEF UnitsOf
<1>2. UnitsOf(size, S) \cap UnitsOf(size, T) = UnitsOf(size, T)
  BY DEF UnitsOf
<1>3. UnitsOf(size, T) \in SUBSET UnitsOf(size, S)
  BY DEF UnitsOf
<1>4. IsFiniteSet(UnitsOf(size, S))
  BY UnitsFinite
<1>5. Cardinality(UnitsOf(size, T)) <= Cardinality(UnitsOf(size, S))
  BY <1>3, <1>4, FS_Subset
<1>6. Cardinality(UnitsOf(size, S) \ UnitsOf(size, T))
        = Cardinality(UnitsOf(size, S)) - Cardinality(UnitsOf(size, S) \cap UnitsOf(size, T))
  BY <1>4, FS_Difference
<1> QED
  BY <1>1, <1>2, <1>5, <1>6 DEF Total

\* One entry sums to its size, or to nothing when the size is negative.
LEMMA TotalOne ==
  ASSUME NEW size, NEW x, size[x] \in Int, size[x] <= MaxQty
  PROVE  Total(size, {x}) = IF size[x] < 0 THEN 0 ELSE size[x]
<1> DEFINE n == IF size[x] < 0 THEN 0 ELSE size[x]
<1>1. n \in Nat
  OBVIOUS
<1>2. UnitsOf(size, {x}) = {x} \X (1..n)
  BY MaxQtyAssumption DEF UnitsOf
<1> HIDE DEF n
<1>3. IsFiniteSet({x}) /\ Cardinality({x}) = 1
  BY FS_Singleton
<1>4. IsFiniteSet(1..n) /\ Cardinality(1..n) = n
  <2>1. IsFiniteSet(1..n) /\ Cardinality(1..n) = IF 1 > n THEN 0 ELSE n-1+1
    BY <1>1, FS_Interval
  <2> QED
    BY <1>1, <2>1
<1>5. Cardinality({x} \X (1..n)) = Cardinality({x}) * Cardinality(1..n)
  BY <1>3, <1>4, FS_Product
<1>6. Cardinality({x} \X (1..n)) = n
  BY <1>1, <1>3, <1>4, <1>5
<1> QED
  BY <1>2, <1>6 DEF Total, n

\* What entry x adds to the total of S.
Share(size, S, x) == IF x \in S /\ size[x] > 0 THEN size[x] ELSE 0

\* The total of S is what it is without x, plus the share of x.
LEMMA TotalSplit ==
  ASSUME NEW size, NEW S, IsFiniteSet(S), NEW x,
         x \in S => size[x] \in Int /\ size[x] <= MaxQty
  PROVE  Total(size, S) = Total(size, S \ {x}) + Share(size, S, x)
<1>1. Total(size, S) \in Nat
  BY TotalType
<1>2. CASE x \in S
  <2>1. {x} \in SUBSET S
    BY <1>2
  <2>2. Total(size, S \ {x}) = Total(size, S) - Total(size, {x})
    BY <2>1, TotalWithout
  <2>3. Total(size, {x}) = IF size[x] < 0 THEN 0 ELSE size[x]
    BY <1>2, TotalOne
  <2>4. Total(size, {x}) = Share(size, S, x) /\ Share(size, S, x) \in Int
    BY <1>2, <2>3 DEF Share
  <2> QED
    BY <1>1, <2>2, <2>4
<1>3. CASE x \notin S
  <2>1. S \ {x} = S
    BY <1>3
  <2>2. Total(size, S \ {x}) = Total(size, S)
    BY <2>1
  <2>3. Share(size, S, x) = 0
    BY <1>3 DEF Share
  <2> QED
    BY <1>1, <2>2, <2>3
<1> QED
  BY <1>2, <1>3

\* Changing one entry, in or out of the set, changes the total by its share.
LEMMA TotalStep ==
  ASSUME NEW size1, NEW size2, NEW S1, IsFiniteSet(S1), NEW S2, NEW x,
         S1 \ {x} = S2 \ {x},
         \A e \in S1 \ {x} : size1[e] = size2[e],
         x \in S1 => size1[x] \in Int /\ size1[x] <= MaxQty,
         x \in S2 => size2[x] \in Int /\ size2[x] <= MaxQty
  PROVE  Total(size2, S2) = Total(size1, S1) - Share(size1, S1, x) + Share(size2, S2, x)
<1>1. IsFiniteSet(S1 \ {x})
  BY FS_RemoveElement
<1>2. IsFiniteSet(S2)
  <2>1. IsFiniteSet((S1 \ {x}) \cup {x})
    BY <1>1, FS_AddElement
  <2>2. S2 \in SUBSET ((S1 \ {x}) \cup {x})
    OBVIOUS
  <2> QED
    BY <2>1, <2>2, FS_Subset
<1>3. Total(size1, S1 \ {x}) = Total(size2, S1 \ {x})
  BY TotalSameSizes
<1>4. Total(size1, S1 \ {x}) = Total(size2, S2 \ {x})
  BY <1>3
<1>5. Total(size1, S1 \ {x}) \in Nat
  BY <1>1, TotalType
<1>6. Total(size1, S1) = Total(size1, S1 \ {x}) + Share(size1, S1, x)
  BY TotalSplit
<1>7. Total(size2, S2) = Total(size2, S2 \ {x}) + Share(size2, S2, x)
  BY <1>2, TotalSplit
<1>8. Share(size1, S1, x) \in Int /\ Share(size2, S2, x) \in Int
  BY DEF Share
<1> QED
  BY <1>4, <1>5, <1>6, <1>7, <1>8

----------------------------------------------------------------------------
(* The counters *)

\* What one event row counts for item i in each of the four totals.
HeldShare(row, i) == IF row.item = i /\ row.status = "active"   THEN Clamp(row.qty)  ELSE 0
SoldShare(row, i) == IF row.item = i /\ row.status = "consumed" THEN Clamp(row.qty)  ELSE 0
InShare(row, i)   == IF row.item = i /\ row.status = "recorded" THEN Clamp(row.qty)  ELSE 0
OutShare(row, i)  == IF row.item = i /\ row.status = "recorded" THEN Clamp(-row.qty) ELSE 0

\* Writing one event row moves each total by the shares of the old and the
\* new row.
LEMMA RowChange ==
  ASSUME events \in [Events -> EventRow], NEW e \in Events, NEW row \in EventRow,
         events' = [events EXCEPT ![e] = row], NEW i \in Items
  PROVE  /\ Held(i)'     = Held(i)     - HeldShare(events[e], i) + HeldShare(row, i)
         /\ Sold(i)'     = Sold(i)     - SoldShare(events[e], i) + SoldShare(row, i)
         /\ MovedIn(i)'  = MovedIn(i)  - InShare(events[e], i)   + InShare(row, i)
         /\ MovedOut(i)' = MovedOut(i) - OutShare(events[e], i)  + OutShare(row, i)
<1>1. /\ events[e].qty \in Int /\ events[e].qty <= MaxQty /\ -events[e].qty <= MaxQty
      /\ row.qty \in Int /\ row.qty <= MaxQty /\ -row.qty <= MaxQty
  BY MaxQtyAssumption DEF EventRow
<1>2. Size[e] = events[e].qty /\ Loss[e] = -events[e].qty
  BY DEF Size, Loss
<1>3. Size'[e] = row.qty /\ Loss'[e] = -row.qty
  BY DEF Size, Loss
<1>4. \A d \in Events \ {e} : Size[d] = Size'[d] /\ Loss[d] = Loss'[d]
  BY DEF Size, Loss
<1>5. \A st \in Statuses :
        /\ IsFiniteSet(EventsOf(i, st))
        /\ EventsOf(i, st) \in SUBSET Events
        /\ EventsOf(i, st) \ {e} = EventsOf(i, st)' \ {e}
        /\ e \in EventsOf(i, st) <=> events[e].item = i /\ events[e].status = st
        /\ e \in EventsOf(i, st)' <=> row.item = i /\ row.status = st
  <2> SUFFICES ASSUME NEW st \in Statuses
               PROVE  /\ IsFiniteSet(EventsOf(i, st))
                      /\ EventsOf(i, st) \in SUBSET Events
                      /\ EventsOf(i, st) \ {e} = EventsOf(i, st)' \ {e}
                      /\ e \in EventsOf(i, st) <=> events[e].item = i /\ events[e].status = st
                      /\ e \in EventsOf(i, st)' <=> row.item = i /\ row.status = st
    OBVIOUS
  <2>1. EventsOf(i, st) \in SUBSET Events
    BY DEF EventsOf
  <2>2. IsFiniteSet(EventsOf(i, st))
    BY <2>1, FS_Subset, StockAssumption
  <2>3. EventsOf(i, st) \ {e} = EventsOf(i, st)' \ {e}
    BY DEF EventsOf
  <2>4. /\ e \in EventsOf(i, st) <=> events[e].item = i /\ events[e].status = st
        /\ e \in EventsOf(i, st)' <=> row.item = i /\ row.status = st
    BY DEF EventsOf
  <2> QED
    BY <2>1, <2>2, <2>3, <2>4
<1>6. ASSUME NEW st \in Statuses
      PROVE  Total(Size', EventsOf(i, st)')
               = Total(Size, EventsOf(i, st)) - Share(Size, EventsOf(i, st), e)
                                              + Share(Size', EventsOf(i, st)', e)
  BY <1>1, <1>2, <1>3, <1>4, <1>5, TotalStep
<1>7. ASSUME NEW st \in Statuses
      PROVE  Total(Loss', EventsOf(i, st)')
               = Total(Loss, EventsOf(i, st)) - Share(Loss, EventsOf(i, st), e)
                                              + Share(Loss', EventsOf(i, st)', e)
  BY <1>1, <1>2, <1>3, <1>4, <1>5, TotalStep
<1>8. "active" \in Statuses /\ "consumed" \in Statuses /\ "recorded" \in Statuses
  BY DEF Statuses
<1>9. /\ Share(Size, EventsOf(i, "active"), e) = HeldShare(events[e], i)
      /\ Share(Size', EventsOf(i, "active")', e) = HeldShare(row, i)
  BY <1>1, <1>2, <1>3, <1>5, <1>8 DEF Share, HeldShare, Clamp
<1>10. /\ Share(Size, EventsOf(i, "consumed"), e) = SoldShare(events[e], i)
       /\ Share(Size', EventsOf(i, "consumed")', e) = SoldShare(row, i)
  BY <1>1, <1>2, <1>3, <1>5, <1>8 DEF Share, SoldShare, Clamp
<1>11. /\ Share(Size, EventsOf(i, "recorded"), e) = InShare(events[e], i)
       /\ Share(Size', EventsOf(i, "recorded")', e) = InShare(row, i)
  BY <1>1, <1>2, <1>3, <1>5, <1>8 DEF Share, InShare, Clamp
<1>12. /\ Share(Loss, EventsOf(i, "recorded"), e) = OutShare(events[e], i)
       /\ Share(Loss', EventsOf(i, "recorded")', e) = OutShare(row, i)
  BY <1>1, <1>2, <1>3, <1>5, <1>8 DEF Share, OutShare, Clamp
<1> QED
  BY <1>6, <1>7, <1>8, <1>9, <1>10, <1>11, <1>12 DEF Held, Sold, MovedIn, MovedOut

\* Ending a set of active reservations takes exactly their units out of what
\* is held, and leaves the other totals alone.
LEMMA SweepChange ==
  ASSUME TypeOK, NEW target \in {"expired", "released"},
         NEW S \in SUBSET ActiveRows, EndActiveRows(S, target), NEW i \in Items
  PROVE  /\ Total(Size, {e \in S : events[e].item = i}) \in Nat
         /\ Total(Size, {e \in S : events[e].item = i}) <= Held(i)
         /\ Held(i)' = Held(i) - Total(Size, {e \in S : events[e].item = i})
         /\ Sold(i)' = Sold(i) /\ MovedIn(i)' = MovedIn(i) /\ MovedOut(i)' = MovedOut(i)
<1> DEFINE T == {e \in S : events[e].item = i}
<1>1. /\ Size' = Size /\ Loss' = Loss
  BY DEF EndActiveRows, Size, Loss, TypeOK, EventRow
<1>2. EventsOf(i, "active")' = EventsOf(i, "active") \ T
  BY DEF EndActiveRows, EventsOf, TypeOK, EventRow
<1>3. /\ EventsOf(i, "consumed")' = EventsOf(i, "consumed")
      /\ EventsOf(i, "recorded")' = EventsOf(i, "recorded")
  BY DEF EndActiveRows, EventsOf, TypeOK, EventRow, ActiveRows
<1>4. T \in SUBSET EventsOf(i, "active")
  BY DEF ActiveRows, EventsOf
<1>5. IsFiniteSet(EventsOf(i, "active")) /\ IsFiniteSet(T)
  <2>1. EventsOf(i, "active") \in SUBSET Events
    BY DEF EventsOf
  <2> QED
    BY <2>1, <1>4, FS_Subset, StockAssumption
<1>6. Total(Size, T) \in Nat
  BY <1>5, TotalType
<1>7. /\ Total(Size, EventsOf(i, "active") \ T) = Total(Size, EventsOf(i, "active")) - Total(Size, T)
      /\ Total(Size, T) <= Total(Size, EventsOf(i, "active"))
  BY <1>4, <1>5, TotalWithout
<1> HIDE DEF T
<1>8. Held(i)' = Held(i) - Total(Size, T) /\ Total(Size, T) <= Held(i)
  BY <1>1, <1>2, <1>7 DEF Held
<1>9. Sold(i)' = Sold(i) /\ MovedIn(i)' = MovedIn(i) /\ MovedOut(i)' = MovedOut(i)
  BY <1>1, <1>3 DEF Sold, MovedIn, MovedOut
<1> QED
  BY <1>6, <1>8, <1>9 DEF T

----------------------------------------------------------------------------
(* Type correctness *)

\* Every statement maps an item row to an item row.
LEMMA StatementTypes ==
  ASSUME NEW item \in ItemRow, NEW q \in Nat
  PROVE  /\ Reserved(item, q) \in ItemRow /\ Released(item, q) \in ItemRow
         /\ TakenFromHand(item, q) \in ItemRow /\ ConsumedReserved(item, q) \in ItemRow
<1>1. Reserved(item, q) \in ItemRow
  BY DEF ItemRow, Reserved
<1>2. \A n \in Int : Clamp(n) \in Nat
  BY DEF Clamp
<1>3. \A r \in ItemRow : Released(r, q) \in ItemRow
  BY <1>2 DEF ItemRow, Released
<1>4. TakenFromHand(item, q) \in ItemRow
  <2>1. (IF item.finite THEN Clamp(item.onHand - q) ELSE item.onHand) \in Nat
    BY <1>2 DEF ItemRow
  <2> QED
    BY <2>1 DEF ItemRow, TakenFromHand
<1> QED
  BY <1>1, <1>3, <1>4 DEF ConsumedReserved

LEMMA TypeInit == Init => TypeOK
BY StockAssumption, MaxQtyAssumption
   DEF Init, TypeOK, ItemRow, EventRow, NoEvent, Statuses, Definition

LEMMA TypeReserve ==
  ASSUME TypeOK, NEW e \in Events, NEW i \in Items, NEW q \in Quantities,
         NEW k \in Keys \cup {NoKey}, NEW c \in Customers \cup {Nobody}, NEW x \in 1..MaxTime,
         Reserve(e, i, q, k, c, x)
  PROVE  TypeOK'
<1> DEFINE row == [item |-> i, status |-> "active", qty |-> q, key |-> k,
                   customer |-> c, expires |-> x]
<1>1. row \in EventRow /\ q \in Nat /\ q > 0
  BY MaxQtyAssumption, StockAssumption DEF EventRow, Statuses, Quantities
<1>2. events' = [events EXCEPT ![e] = row]
  BY DEF Reserve, Insert
<1>3. items' \in [Items -> ItemRow]
  BY <1>1, StatementTypes DEF Reserve, SetItem, TypeOK
<1> QED
  BY <1>1, <1>2, <1>3 DEF TypeOK, Reserve

LEMMA TypeTransition ==
  ASSUME TypeOK, NEW e \in Events, NEW target \in {"expired", "released"},
         TransitionActive(e, target)
  PROVE  TypeOK'
<1>1. events[e].item \in Items /\ events[e].qty \in Nat
  BY DEF TypeOK, TransitionActive, EventRow
<1>2. items' \in [Items -> ItemRow]
  BY <1>1, StatementTypes DEF TransitionActive, SetItem, TypeOK
<1>3. events' = [events EXCEPT ![e] = [events[e] EXCEPT !.status = target, !.key = NoKey]]
  BY DEF TypeOK, TransitionActive
<1> QED
  BY <1>1, <1>2, <1>3 DEF TypeOK, TransitionActive, EventRow, Statuses

LEMMA TypeConsume ==
  ASSUME TypeOK, NEW e \in Events, Consume(e)
  PROVE  TypeOK'
<1>1. events[e].item \in Items /\ events[e].qty \in Nat
  BY DEF TypeOK, Consume, EventRow
<1>2. /\ ConsumedReserved(items[events[e].item], events[e].qty) \in ItemRow
      /\ TakenFromHand(items[events[e].item], events[e].qty) \in ItemRow
  BY <1>1, StatementTypes DEF TypeOK
<1>3. items' \in [Items -> ItemRow]
  BY <1>1, <1>2 DEF Consume, SetItem, TypeOK
<1> QED
  BY <1>1, <1>3 DEF TypeOK, Consume, EventRow, Statuses

LEMMA TypeSweep ==
  ASSUME TypeOK, NEW S \in SUBSET ActiveRows, NEW target \in {"expired", "released"},
         EndActiveRows(S, target)
  PROVE  TypeOK'
<1>1. items' \in [Items -> ItemRow]
  <2> SUFFICES ASSUME NEW i \in Items
               PROVE  Released(items[i], Total(Size, {e \in S : events[e].item = i})) \in ItemRow
    BY DEF EndActiveRows
  <2>1. Total(Size, {e \in S : events[e].item = i}) \in Nat
    BY SweepChange
  <2> QED
    BY <2>1, StatementTypes DEF TypeOK
<1>2. ASSUME NEW e \in Events
      PROVE  /\ events'[e] \in EventRow
             /\ events'[e].status = "absent" => events'[e] = NoEvent
             /\ events'[e].status # "absent" => events'[e].item \in Items
             /\ events'[e].status \in {"active", "released", "expired", "consumed"}
                  => events'[e].qty > 0
  <2>1. CASE e \notin S
    BY <2>1 DEF TypeOK, EndActiveRows
  <2>2. CASE e \in S
    <3>1. events'[e] = [events[e] EXCEPT !.status = target, !.key = NoKey]
      BY <2>2 DEF EndActiveRows
    <3>2. events[e] \in EventRow /\ events[e].item \in Items /\ events[e].qty > 0
      BY <2>2 DEF TypeOK, ActiveRows
    <3> QED
      BY <3>1, <3>2 DEF EventRow, Statuses
  <2> QED
    BY <2>1, <2>2
<1>3. events' = [e \in Events |-> events'[e]]
  BY DEF EndActiveRows
<1> QED
  BY <1>1, <1>2, <1>3 DEF TypeOK, EndActiveRows

LEMMA TypeAdjust ==
  ASSUME TypeOK, NEW e \in Events, NEW i \in Items, NEW d \in Deltas,
         NEW k \in Keys \cup {NoKey}, AdjustStock(e, i, d, k)
  PROVE  TypeOK'
<1> DEFINE row == [item |-> i, status |-> "recorded", qty |-> d, key |-> k,
                   customer |-> Nobody, expires |-> 0]
<1>1. row \in EventRow
  <2>1. d \in -MaxQty..MaxQty /\ 0 \in 0..MaxTime
    BY MaxQtyAssumption, StockAssumption DEF Deltas
  <2> QED
    BY <2>1 DEF EventRow, Statuses
<1>2. events' = [events EXCEPT ![e] = row]
  BY DEF AdjustStock, Insert
<1>3. items' \in [Items -> ItemRow]
  BY MaxQtyAssumption DEF AdjustStock, SetItem, TypeOK, CanAdjust, Adjusted, ItemRow, Deltas
<1> QED
  BY <1>1, <1>2, <1>3 DEF TypeOK, AdjustStock

LEMMA TypeStep ==
  ASSUME TypeOK, [Next]_vars
  PROVE  TypeOK'
<1>1. CASE \E e \in Events, i \in Items, k \in Keys \cup {NoKey},
              q \in Quantities, c \in Customers \cup {Nobody}, x \in 1..MaxTime :
              Reserve(e, i, q, k, c, x)
  BY <1>1, TypeReserve
<1>2. CASE \E e \in Events, i \in Items, k \in Keys \cup {NoKey}, d \in Deltas :
              AdjustStock(e, i, d, k)
  BY <1>2, TypeAdjust
<1>3. CASE \E e \in Events : Release(e) \/ Expire(e)
  BY <1>3, TypeTransition DEF Release, Expire
<1>4. CASE \E e \in Events : Consume(e)
  BY <1>4, TypeConsume
<1>5. CASE \E t \in 0..now : ReleaseExpiredReservations(t)
  BY <1>5, TypeSweep DEF ReleaseExpiredReservations
<1>6. CASE \E c \in Customers : ReleaseActiveReservationsByCustomer(c)
  BY <1>6, TypeSweep DEF ReleaseActiveReservationsByCustomer
<1>7. CASE \E S \in SUBSET Events, x \in 1..MaxTime : ExtendReservations(S, x)
  BY <1>7, StockAssumption DEF ExtendReservations, TypeOK, EventRow
<1>8. CASE \E i \in Items, d \in Definitions : PutItemDefinition(i, d)
  <2> PICK i \in Items, d \in Definitions : PutItemDefinition(i, d)
    BY <1>8
  <2>1. d.finite \in BOOLEAN /\ d.backorder \in BOOLEAN
    BY StockAssumption DEF Definition
  <2>2. [items[i] EXCEPT !.finite = d.finite, !.backorder = d.backorder] \in ItemRow
    BY <2>1, Zenon DEF TypeOK, ItemRow
  <2>3. items' \in [Items -> ItemRow] /\ loosened' \subseteq Items
    BY <2>2 DEF PutItemDefinition, SetItem, TypeOK
  <2> QED
    BY <2>3 DEF PutItemDefinition, TypeOK
<1>9. CASE Tick
  BY <1>9, StockAssumption DEF Tick, TypeOK
<1>10. CASE UNCHANGED vars
  BY <1>10 DEF vars, TypeOK
<1> QED
  BY <1>1, <1>2, <1>3, <1>4, <1>5, <1>6, <1>7, <1>8, <1>9, <1>10 DEF Next

\* The rows keep their shape, and the counters never go below zero.
THEOREM TypeCorrect == Spec => []TypeOK
BY TypeInit, TypeStep, PTL DEF Spec

----------------------------------------------------------------------------
(* The counters agree with the rows, and finite items are not oversold *)

\* One item's part of the inductive invariant, over its row and its totals.
\* loose: the items whose definition ever allowed overselling.
Balanced(i, loose, item, seed, held, in, out, sold) ==
  /\ item.reserved = held
  /\ i \notin loose =>
       /\ Guarded(item)
       /\ item.reserved <= item.onHand
       /\ item.onHand = seed + in - out - sold

IInv ==
  /\ TypeOK
  /\ \A i \in Items : Balanced(i, loosened, items[i], Seed[i],
                               Held(i), MovedIn(i), MovedOut(i), Sold(i))

LEMMA IInvIsConjunction ==
  IInv <=> TypeOK /\ StrictIsGuarded /\ ReservedIsHeld /\ NoOversell /\ OnHandIsAccounted
BY DEF IInv, Balanced, StrictIsGuarded, ReservedIsHeld, NoOversell, OnHandIsAccounted

\* The totals are sums, before a step and after it.
LEMMA TotalsAreNat ==
  ASSUME NEW i \in Items
  PROVE  /\ Held(i) \in Nat /\ Sold(i) \in Nat /\ MovedIn(i) \in Nat /\ MovedOut(i) \in Nat
         /\ Held(i)' \in Nat /\ Sold(i)' \in Nat /\ MovedIn(i)' \in Nat /\ MovedOut(i)' \in Nat
<1>1. ASSUME NEW status
      PROVE  IsFiniteSet(EventsOf(i, status)) /\ IsFiniteSet(EventsOf(i, status)')
  <2>1. EventsOf(i, status) \in SUBSET Events /\ EventsOf(i, status)' \in SUBSET Events
    BY DEF EventsOf
  <2> QED
    BY <2>1, FS_Subset, StockAssumption
<1> QED
  BY <1>1, TotalType DEF Held, Sold, MovedIn, MovedOut

\* Facts about one row of mika_stock_items, and none about the events:
\* what each statement does to a balanced item.
LEMMA BalancedStatements ==
  ASSUME NEW item \in ItemRow, NEW i, NEW loose, NEW seed \in Nat, NEW held \in Nat,
         NEW in \in Nat, NEW out \in Nat, NEW sold \in Nat, NEW q \in Nat,
         Balanced(i, loose, item, seed, held, in, out, sold)
  PROVE  /\ Available(item, q)
              => Balanced(i, loose, Reserved(item, q), seed, held + q, in, out, sold)
         /\ q <= held
              => Balanced(i, loose, Released(item, q), seed, held - q, in, out, sold)
         /\ q <= held
              => Balanced(i, loose, ConsumedReserved(item, q), seed, held - q, in, out, sold + q)
         /\ Available(item, q)
              => Balanced(i, loose, TakenFromHand(item, q), seed, held, in, out, sold + q)
<1>1. /\ item.onHand \in Nat /\ item.reserved \in Nat
      /\ item.finite \in BOOLEAN /\ item.backorder \in BOOLEAN
  BY DEF ItemRow
<1>2. /\ Reserved(item, q).finite = item.finite
      /\ Reserved(item, q).backorder = item.backorder
      /\ Reserved(item, q).onHand = item.onHand
      /\ Reserved(item, q).reserved = item.reserved + q
  BY DEF ItemRow, Reserved
<1>3. ASSUME NEW r \in ItemRow
      PROVE  /\ Released(r, q).finite = r.finite
             /\ Released(r, q).backorder = r.backorder
             /\ Released(r, q).onHand = r.onHand
             /\ Released(r, q).reserved = Clamp(r.reserved - q)
  BY <1>3 DEF ItemRow, Released
<1>4. /\ TakenFromHand(item, q).finite = item.finite
      /\ TakenFromHand(item, q).backorder = item.backorder
      /\ TakenFromHand(item, q).onHand = IF item.finite THEN Clamp(item.onHand - q) ELSE item.onHand
      /\ TakenFromHand(item, q).reserved = item.reserved
      /\ TakenFromHand(item, q) \in ItemRow
  BY StatementTypes DEF ItemRow, TakenFromHand
<1>5. Available(item, q) => Balanced(i, loose, Reserved(item, q), seed, held + q, in, out, sold)
  BY <1>1, <1>2 DEF Balanced, Guarded, Available
<1>6. q <= held => Balanced(i, loose, Released(item, q), seed, held - q, in, out, sold)
  BY <1>1, <1>3 DEF Balanced, Guarded, Clamp
<1>7. ASSUME q <= held
      PROVE  Balanced(i, loose, ConsumedReserved(item, q), seed, held - q, in, out, sold + q)
  <2>1. /\ ConsumedReserved(item, q).finite = item.finite
        /\ ConsumedReserved(item, q).backorder = item.backorder
        /\ ConsumedReserved(item, q).onHand
             = IF item.finite THEN Clamp(item.onHand - q) ELSE item.onHand
        /\ ConsumedReserved(item, q).reserved = Clamp(item.reserved - q)
    BY <1>3, <1>4 DEF ConsumedReserved
  <2> QED
    BY <1>1, <1>7, <2>1 DEF Balanced, Guarded, Clamp
<1>8. Available(item, q) => Balanced(i, loose, TakenFromHand(item, q), seed, held, in, out, sold + q)
  BY <1>1, <1>4 DEF Balanced, Guarded, Available, Clamp
<1> QED
  BY <1>5, <1>6, <1>7, <1>8


LEMMA IInvType == IInv => /\ TypeOK
                          /\ events \in [Events -> EventRow]
                          /\ items \in [Items -> ItemRow]
                          /\ Seed \in [Items -> Nat]
BY StockAssumption DEF IInv, TypeOK

BalancedAt(i) == Balanced(i, loosened, items[i], Seed[i],
                          Held(i), MovedIn(i), MovedOut(i), Sold(i))

\* What statements that keep the definition leave of another item.
LEMMA OtherItem ==
  ASSUME IInv, NEW j \in Items, items'[j] = items[j], loosened' = loosened,
         Held(j)' = Held(j), Sold(j)' = Sold(j),
         MovedIn(j)' = MovedIn(j), MovedOut(j)' = MovedOut(j)
  PROVE  BalancedAt(j)'
<1>1. BalancedAt(j)
  BY DEF IInv, BalancedAt
<1> QED
  BY <1>1 DEF BalancedAt

LEMMA SafeReserve ==
  ASSUME IInv, NEW e \in Events, NEW i \in Items, NEW q \in Quantities,
         NEW k \in Keys \cup {NoKey}, NEW c \in Customers \cup {Nobody}, NEW x \in 1..MaxTime,
         Reserve(e, i, q, k, c, x), NEW j \in Items
  PROVE  BalancedAt(j)'
<1> DEFINE row == [item |-> i, status |-> "active", qty |-> q, key |-> k,
                   customer |-> c, expires |-> x]
<1>1. row \in EventRow /\ q \in Nat /\ q > 0
  BY MaxQtyAssumption, StockAssumption DEF EventRow, Statuses, Quantities
<1>2. events' = [events EXCEPT ![e] = row] /\ events[e].status = "absent"
  BY DEF Reserve, Insert, NoEvent
<1>3. /\ Held(j)' = Held(j) + (IF j = i THEN q ELSE 0)
      /\ Sold(j)' = Sold(j) /\ MovedIn(j)' = MovedIn(j) /\ MovedOut(j)' = MovedOut(j)
  <2>1. /\ HeldShare(row, j) = IF j = i THEN q ELSE 0
        /\ SoldShare(row, j) = 0 /\ InShare(row, j) = 0 /\ OutShare(row, j) = 0
    BY <1>1 DEF HeldShare, SoldShare, InShare, OutShare, Clamp
  <2>2. /\ HeldShare(events[e], j) = 0 /\ SoldShare(events[e], j) = 0
        /\ InShare(events[e], j) = 0 /\ OutShare(events[e], j) = 0
    BY <1>2 DEF HeldShare, SoldShare, InShare, OutShare
  <2> HIDE DEF row
  <2>3. /\ Held(j)'     = Held(j)     - HeldShare(events[e], j) + HeldShare(row, j)
        /\ Sold(j)'     = Sold(j)     - SoldShare(events[e], j) + SoldShare(row, j)
        /\ MovedIn(j)'  = MovedIn(j)  - InShare(events[e], j)   + InShare(row, j)
        /\ MovedOut(j)' = MovedOut(j) - OutShare(events[e], j)  + OutShare(row, j)
    BY <1>1, <1>2, RowChange, IInvType
  <2> QED
    BY <1>1, <2>1, <2>2, <2>3, TotalsAreNat
<1>4. items' = [items EXCEPT ![i] = Reserved(items[i], q)] /\ Available(items[i], q)
      /\ loosened' = loosened
  BY DEF Reserve, SetItem
<1>5. CASE j = i
  <2>1. items'[j] = Reserved(items[j], q) /\ Available(items[j], q)
        /\ items[j] \in ItemRow /\ Seed[j] \in Nat
    BY <1>4, <1>5, IInvType
  <2>2. Balanced(j, loosened, items[j], Seed[j], Held(j), MovedIn(j), MovedOut(j), Sold(j))
    BY DEF IInv
  <2>3. Balanced(j, loosened, Reserved(items[j], q), Seed[j], Held(j) + q,
                 MovedIn(j), MovedOut(j), Sold(j))
    BY <1>1, <2>1, <2>2, BalancedStatements, TotalsAreNat
  <2> QED
    BY <1>3, <1>4, <1>5, <2>1, <2>3 DEF BalancedAt
<1>6. CASE j # i
  <2>1. Held(j)' = Held(j)
    BY <1>3, <1>6, TotalsAreNat
  <2>2. items'[j] = items[j]
    BY <1>4, <1>6, IInvType
  <2> QED
    BY <1>3, <1>4, <2>1, <2>2, OtherItem
<1> QED
  BY <1>5, <1>6

\* A reservation's row that leaves "active" or "expired": what it held is no
\* longer held, and was there to be taken out.
LEMMA ReservationEnds ==
  ASSUME IInv, NEW e \in Events, events[e].status \in {"active", "expired"},
         NEW row \in EventRow, row.status \in {"released", "expired", "consumed"},
         row.item = events[e].item, row.qty = events[e].qty,
         events' = [events EXCEPT ![e] = row], NEW j \in Items,
         events[e].status = "expired" => row.status = "consumed"
  PROVE  /\ events[e].qty \in Nat /\ events[e].item \in Items
         /\ j = events[e].item /\ events[e].status = "active" =>
              events[e].qty <= Held(j) /\ Held(j)' = Held(j) - events[e].qty
         /\ j # events[e].item \/ events[e].status = "expired" => Held(j)' = Held(j)
         /\ j = events[e].item /\ row.status = "consumed" => Sold(j)' = Sold(j) + events[e].qty
         /\ j # events[e].item \/ row.status # "consumed" => Sold(j)' = Sold(j)
         /\ MovedIn(j)' = MovedIn(j) /\ MovedOut(j)' = MovedOut(j)
<1> DEFINE freed == IF j = events[e].item /\ events[e].status = "active" THEN events[e].qty ELSE 0
           sold  == IF j = events[e].item /\ row.status = "consumed" THEN events[e].qty ELSE 0
<1>1. events[e].qty \in Nat /\ events[e].qty > 0 /\ events[e].item \in Items
  BY DEF IInv, TypeOK, EventRow
<1>2. /\ HeldShare(events[e], j) = freed /\ HeldShare(row, j) = 0
      /\ SoldShare(events[e], j) = 0 /\ SoldShare(row, j) = sold
      /\ InShare(events[e], j) = 0 /\ InShare(row, j) = 0
      /\ OutShare(events[e], j) = 0 /\ OutShare(row, j) = 0
  BY <1>1 DEF HeldShare, SoldShare, InShare, OutShare, Clamp
<1>3. freed \in Nat /\ sold \in Nat
  BY <1>1
<1>4. /\ Held(j)'     = Held(j)     - HeldShare(events[e], j) + HeldShare(row, j)
      /\ Sold(j)'     = Sold(j)     - SoldShare(events[e], j) + SoldShare(row, j)
      /\ MovedIn(j)'  = MovedIn(j)  - InShare(events[e], j)   + InShare(row, j)
      /\ MovedOut(j)' = MovedOut(j) - OutShare(events[e], j)  + OutShare(row, j)
  BY RowChange, IInvType
<1> HIDE DEF freed, sold
<1>5. /\ freed <= Held(j) /\ Held(j)' = Held(j) - freed /\ Sold(j)' = Sold(j) + sold
      /\ MovedIn(j)' = MovedIn(j) /\ MovedOut(j)' = MovedOut(j)
  BY <1>2, <1>3, <1>4, TotalsAreNat
<1>6. /\ j = events[e].item /\ events[e].status = "active" => freed = events[e].qty
      /\ j # events[e].item \/ events[e].status = "expired" => freed = 0
      /\ j = events[e].item /\ row.status = "consumed" => sold = events[e].qty
      /\ j # events[e].item \/ row.status # "consumed" => sold = 0
  BY DEF freed, sold
<1> QED
  BY <1>1, <1>5, <1>6, TotalsAreNat

LEMMA SafeTransition ==
  ASSUME IInv, NEW e \in Events, NEW target \in {"expired", "released"},
         TransitionActive(e, target), NEW j \in Items
  PROVE  BalancedAt(j)'
<1> DEFINE row == [events[e] EXCEPT !.status = target, !.key = NoKey]
           i == events[e].item
           q == events[e].qty
<1>1. /\ events' = [events EXCEPT ![e] = row] /\ events[e].status = "active"
      /\ items' = [items EXCEPT ![i] = Released(items[i], q)] /\ loosened' = loosened
  BY IInvType DEF TransitionActive, SetItem
<1>2. row \in EventRow /\ row.status = target /\ row.item = i /\ row.qty = q
  BY IInvType DEF EventRow, Statuses
<1> HIDE DEF row
<1>3. /\ q \in Nat /\ i \in Items
      /\ j = i => q <= Held(j) /\ Held(j)' = Held(j) - q
      /\ j # i => Held(j)' = Held(j)
      /\ Sold(j)' = Sold(j) /\ MovedIn(j)' = MovedIn(j) /\ MovedOut(j)' = MovedOut(j)
  BY <1>1, <1>2, ReservationEnds
<1> HIDE DEF i, q
<1>4. CASE j = i
  <2>1. items'[j] = Released(items[j], q) /\ items[j] \in ItemRow /\ Seed[j] \in Nat
    BY <1>1, <1>4, IInvType
  <2>2. Balanced(j, loosened, items[j], Seed[j], Held(j), MovedIn(j), MovedOut(j), Sold(j))
    BY DEF IInv
  <2>3. Balanced(j, loosened, Released(items[j], q), Seed[j], Held(j) - q,
                 MovedIn(j), MovedOut(j), Sold(j))
    BY <1>3, <1>4, <2>1, <2>2, BalancedStatements, TotalsAreNat
  <2> QED
    BY <1>1, <1>3, <1>4, <2>1, <2>3 DEF BalancedAt
<1>5. CASE j # i
  <2>1. Held(j)' = Held(j) /\ items'[j] = items[j]
    BY <1>1, <1>3, <1>5, TotalsAreNat, IInvType
  <2> QED
    BY <1>1, <1>3, <2>1, OtherItem
<1> QED
  BY <1>4, <1>5

LEMMA SafeConsume ==
  ASSUME IInv, NEW e \in Events, Consume(e), NEW j \in Items
  PROVE  BalancedAt(j)'
<1> DEFINE row == [events[e] EXCEPT !.status = "consumed"]
           i == events[e].item
           q == events[e].qty
<1>1. events' = [events EXCEPT ![e] = row] /\ events[e].status \in {"active", "expired"}
      /\ loosened' = loosened
  BY IInvType DEF Consume
<1>2. row \in EventRow /\ row.status = "consumed" /\ row.item = i /\ row.qty = q
  BY IInvType DEF EventRow, Statuses
<1>3. \/ /\ events[e].status = "active"
         /\ items' = [items EXCEPT ![i] = ConsumedReserved(items[i], q)]
      \/ /\ events[e].status = "expired"
         /\ Available(items[i], q)
         /\ items' = [items EXCEPT ![i] = TakenFromHand(items[i], q)]
  BY DEF Consume, SetItem
<1> HIDE DEF row
<1>4. /\ q \in Nat /\ i \in Items
      /\ j = i => Sold(j)' = Sold(j) + q
      /\ j # i => Sold(j)' = Sold(j) /\ Held(j)' = Held(j)
      /\ MovedIn(j)' = MovedIn(j) /\ MovedOut(j)' = MovedOut(j)
      /\ j = i /\ events[e].status = "active" => q <= Held(j) /\ Held(j)' = Held(j) - q
      /\ events[e].status = "expired" => Held(j)' = Held(j)
  BY <1>1, <1>2, ReservationEnds
<1> HIDE DEF i, q
<1>5. CASE j = i
  <2>1. items[j] \in ItemRow /\ Seed[j] \in Nat
    BY IInvType
  <2>2. Balanced(j, loosened, items[j], Seed[j], Held(j), MovedIn(j), MovedOut(j), Sold(j))
    BY DEF IInv
  <2>3. CASE events[e].status = "active"
    <3>1. Balanced(j, loosened, ConsumedReserved(items[j], q), Seed[j], Held(j) - q,
                   MovedIn(j), MovedOut(j), Sold(j) + q)
      BY <1>4, <1>5, <2>1, <2>2, <2>3, BalancedStatements, TotalsAreNat
    <3>2. items'[j] = ConsumedReserved(items[j], q)
      BY <1>3, <1>5, <2>3, IInvType
    <3> QED
      BY <1>1, <1>4, <1>5, <2>3, <3>1, <3>2 DEF BalancedAt
  <2>4. CASE events[e].status = "expired"
    <3>1. items'[j] = TakenFromHand(items[j], q) /\ Available(items[j], q)
      BY <1>3, <1>5, <2>4, IInvType
    <3>2. Balanced(j, loosened, TakenFromHand(items[j], q), Seed[j], Held(j),
                   MovedIn(j), MovedOut(j), Sold(j) + q)
      BY <1>4, <1>5, <2>1, <2>2, <3>1, BalancedStatements, TotalsAreNat
    <3> QED
      BY <1>1, <1>4, <1>5, <2>4, <3>1, <3>2 DEF BalancedAt
  <2> QED
    BY <1>1, <2>3, <2>4
<1>6. CASE j # i
  <2>1. items'[j] = items[j]
    BY <1>3, <1>6, IInvType
  <2>2. Held(j)' = Held(j) /\ Sold(j)' = Sold(j)
    BY <1>1, <1>4, <1>6, TotalsAreNat
  <2> QED
    BY <1>1, <1>4, <2>1, <2>2, OtherItem
<1> QED
  BY <1>5, <1>6

LEMMA SafeSweep ==
  ASSUME IInv, NEW S \in SUBSET ActiveRows, NEW target \in {"expired", "released"},
         EndActiveRows(S, target), NEW j \in Items
  PROVE  BalancedAt(j)'
<1> DEFINE gone == Total(Size, {e \in S : events[e].item = j})
<1>1. /\ gone \in Nat /\ gone <= Held(j) /\ Held(j)' = Held(j) - gone
      /\ Sold(j)' = Sold(j) /\ MovedIn(j)' = MovedIn(j) /\ MovedOut(j)' = MovedOut(j)
  BY SweepChange, IInvType
<1>2. items'[j] = Released(items[j], gone) /\ loosened' = loosened
  BY DEF EndActiveRows
<1>3. items[j] \in ItemRow /\ Seed[j] \in Nat
  BY IInvType
<1> HIDE DEF gone
<1>4. Balanced(j, loosened, items[j], Seed[j], Held(j), MovedIn(j), MovedOut(j), Sold(j))
  BY DEF IInv
<1>5. Balanced(j, loosened, Released(items[j], gone), Seed[j], Held(j) - gone,
               MovedIn(j), MovedOut(j), Sold(j))
  BY <1>1, <1>3, <1>4, BalancedStatements, TotalsAreNat
<1> QED
  BY <1>1, <1>2, <1>5 DEF BalancedAt

LEMMA SafeAdjust ==
  ASSUME IInv, NEW e \in Events, NEW i \in Items, NEW d \in Deltas,
         NEW k \in Keys \cup {NoKey}, AdjustStock(e, i, d, k), NEW j \in Items
  PROVE  BalancedAt(j)'
<1> DEFINE row == [item |-> i, status |-> "recorded", qty |-> d, key |-> k,
                   customer |-> Nobody, expires |-> 0]
<1>1. d \in Int /\ row \in EventRow
  <2>1. d \in Int /\ d \in -MaxQty..MaxQty /\ 0 \in 0..MaxTime
    BY MaxQtyAssumption, StockAssumption DEF Deltas
  <2> QED
    BY <2>1 DEF EventRow, Statuses
<1>2. events' = [events EXCEPT ![e] = row] /\ events[e].status = "absent"
  BY DEF AdjustStock, Insert, NoEvent
<1>3. /\ Held(j)' = Held(j) /\ Sold(j)' = Sold(j)
      /\ MovedIn(j)'  = MovedIn(j)  + (IF j = i THEN Clamp(d) ELSE 0)
      /\ MovedOut(j)' = MovedOut(j) + (IF j = i THEN Clamp(-d) ELSE 0)
  <2>1. /\ HeldShare(row, j) = 0 /\ SoldShare(row, j) = 0
        /\ InShare(row, j) = (IF j = i THEN Clamp(d) ELSE 0)
        /\ OutShare(row, j) = (IF j = i THEN Clamp(-d) ELSE 0)
    BY DEF HeldShare, SoldShare, InShare, OutShare
  <2>2. /\ HeldShare(events[e], j) = 0 /\ SoldShare(events[e], j) = 0
        /\ InShare(events[e], j) = 0 /\ OutShare(events[e], j) = 0
    BY <1>2 DEF HeldShare, SoldShare, InShare, OutShare
  <2> HIDE DEF row
  <2>3. /\ Held(j)'     = Held(j)     - HeldShare(events[e], j) + HeldShare(row, j)
        /\ Sold(j)'     = Sold(j)     - SoldShare(events[e], j) + SoldShare(row, j)
        /\ MovedIn(j)'  = MovedIn(j)  - InShare(events[e], j)   + InShare(row, j)
        /\ MovedOut(j)' = MovedOut(j) - OutShare(events[e], j)  + OutShare(row, j)
    BY <1>1, <1>2, RowChange, IInvType
  <2>4. Clamp(d) \in Nat /\ Clamp(-d) \in Nat
    BY <1>1 DEF Clamp
  <2> QED
    BY <2>1, <2>2, <2>3, <2>4, TotalsAreNat
<1>4. items' = [items EXCEPT ![i] = [items[i] EXCEPT !.onHand = @ + d]]
      /\ CanAdjust(items[i], d) /\ loosened' = loosened
  BY DEF AdjustStock, SetItem, Adjusted
<1>5. CASE j = i
  <2>1. /\ items'[j].finite = items[j].finite /\ items'[j].backorder = items[j].backorder
        /\ items'[j].reserved = items[j].reserved /\ items'[j].onHand = items[j].onHand + d
        /\ items[j].onHand \in Nat /\ items[j].reserved \in Nat /\ Seed[j] \in Nat
    BY <1>1, <1>4, <1>5, IInvType DEF ItemRow
  <2>2. Balanced(j, loosened, items[j], Seed[j], Held(j), MovedIn(j), MovedOut(j), Sold(j))
    BY DEF IInv
  <2>3. /\ items'[j].reserved = Held(j)'
        /\ j \notin loosened' => Guarded(items'[j])
    BY <1>3, <1>4, <2>1, <2>2 DEF Balanced, Guarded
  <2>4. ASSUME j \notin loosened
        PROVE  /\ items[j].reserved <= items[j].onHand + d
               /\ items[j].onHand + d = Seed[j] + MovedIn(j)' - MovedOut(j)' - Sold(j)'
    <3>1. Guarded(items[j]) /\ items[j].reserved <= items[j].onHand
          /\ items[j].onHand = Seed[j] + MovedIn(j) - MovedOut(j) - Sold(j)
      BY <2>2, <2>4 DEF Balanced
    <3>2. d < 0 => items[j].reserved <= items[j].onHand + d
      BY <1>4, <1>5, <3>1 DEF CanAdjust
    <3>3. Clamp(d) - Clamp(-d) = d /\ Clamp(d) \in Nat /\ Clamp(-d) \in Nat
      BY <1>1 DEF Clamp
    <3> QED
      BY <1>1, <1>3, <1>5, <2>1, <3>1, <3>2, <3>3, TotalsAreNat
  <2> QED
    BY <1>4, <2>1, <2>3, <2>4 DEF BalancedAt, Balanced
<1>6. CASE j # i
  <2>1. items'[j] = items[j] /\ MovedIn(j)' = MovedIn(j) /\ MovedOut(j)' = MovedOut(j)
    BY <1>3, <1>4, <1>6, TotalsAreNat, IInvType
  <2> QED
    BY <1>3, <1>4, <2>1, OtherItem
<1> QED
  BY <1>5, <1>6

\* The invariant is inductive.
LEMMA SafeInit == Init => IInv
<1> SUFFICES ASSUME Init
             PROVE  IInv
  OBVIOUS
<1>1. TypeOK
  BY TypeInit
<1>2. ASSUME NEW i \in Items
      PROVE  Balanced(i, loosened, items[i], Seed[i], Held(i), MovedIn(i), MovedOut(i), Sold(i))
  <2>1. /\ EventsOf(i, "active") = {} /\ EventsOf(i, "consumed") = {}
        /\ EventsOf(i, "recorded") = {}
    BY DEF Init, NoEvent, EventsOf
  <2>2. Held(i) = 0 /\ Sold(i) = 0 /\ MovedIn(i) = 0 /\ MovedOut(i) = 0
    BY <2>1, TotalEmpty DEF Held, Sold, MovedIn, MovedOut
  <2>3. items[i].reserved = 0 /\ items[i].onHand = Seed[i] /\ Seed[i] \in Nat
    BY StockAssumption DEF Init
  <2>4. i \notin loosened => Guarded(items[i])
    BY DEF Init, Guarded
  <2> QED
    BY <2>2, <2>3, <2>4 DEF Balanced
<1> QED
  BY <1>1, <1>2 DEF IInv

LEMMA SafeStep ==
  ASSUME IInv, [Next]_vars
  PROVE  IInv'
<1>1. TypeOK'
  BY TypeStep, IInvType
<1>2. ASSUME NEW j \in Items
      PROVE  BalancedAt(j)'
  <2>1. CASE \E e \in Events, i \in Items, k \in Keys \cup {NoKey},
                q \in Quantities, c \in Customers \cup {Nobody}, x \in 1..MaxTime :
                Reserve(e, i, q, k, c, x)
    BY <2>1, SafeReserve
  <2>2. CASE \E e \in Events, i \in Items, k \in Keys \cup {NoKey}, d \in Deltas :
                AdjustStock(e, i, d, k)
    BY <2>2, SafeAdjust
  <2>3. CASE \E e \in Events : Release(e) \/ Expire(e)
    BY <2>3, SafeTransition DEF Release, Expire
  <2>4. CASE \E e \in Events : Consume(e)
    BY <2>4, SafeConsume
  <2>5. CASE \E t \in 0..now : ReleaseExpiredReservations(t)
    BY <2>5, SafeSweep DEF ReleaseExpiredReservations
  <2>6. CASE \E c \in Customers : ReleaseActiveReservationsByCustomer(c)
    BY <2>6, SafeSweep DEF ReleaseActiveReservationsByCustomer
  <2>7. CASE \E S \in SUBSET Events, x \in 1..MaxTime : ExtendReservations(S, x)
    <3> PICK S \in SUBSET Events, x \in 1..MaxTime : ExtendReservations(S, x)
      BY <2>7
    <3>1. \A e \in Events : /\ events'[e].item = events[e].item
                            /\ events'[e].status = events[e].status
                            /\ events'[e].qty = events[e].qty
      BY IInvType DEF ExtendReservations, EventRow
    <3>2. \A st \in Statuses : EventsOf(j, st)' = EventsOf(j, st)
      BY <3>1 DEF EventsOf
    <3>3. Size' = Size /\ Loss' = Loss
      BY <3>1 DEF Size, Loss
    <3>4. /\ Held(j)' = Held(j) /\ Sold(j)' = Sold(j)
          /\ MovedIn(j)' = MovedIn(j) /\ MovedOut(j)' = MovedOut(j)
      BY <3>2, <3>3 DEF Held, Sold, MovedIn, MovedOut, Statuses
    <3> QED
      BY <3>4, OtherItem DEF ExtendReservations
  <2>8. CASE \E i \in Items, d \in Definitions : PutItemDefinition(i, d)
    <3> PICK i \in Items, d \in Definitions : PutItemDefinition(i, d)
      BY <2>8
    <3>1. /\ Held(j)' = Held(j) /\ Sold(j)' = Sold(j)
          /\ MovedIn(j)' = MovedIn(j) /\ MovedOut(j)' = MovedOut(j)
      BY DEF PutItemDefinition, Held, Sold, MovedIn, MovedOut, EventsOf, Size, Loss
    <3>2. items' = [items EXCEPT ![i] = [items[i] EXCEPT !.finite = d.finite,
                                                         !.backorder = d.backorder]]
      BY DEF PutItemDefinition, SetItem
    <3>3. /\ loosened' = IF Guarded(d) THEN loosened ELSE loosened \cup {i}
      BY DEF PutItemDefinition
    <3>4. items'[j].onHand = items[j].onHand /\ items'[j].reserved = items[j].reserved
      BY <3>2, IInvType DEF ItemRow
    <3>5. j # i => items'[j] = items[j]
      BY <3>2, IInvType
    <3>6. j = i => items'[j].finite = d.finite /\ items'[j].backorder = d.backorder
      BY <3>2, IInvType DEF ItemRow
    <3>7. j \notin loosened' => j \notin loosened /\ Guarded(items'[j])
      <4>1. CASE j = i
        BY <3>3, <3>6, <4>1 DEF Guarded
      <4>2. CASE j # i
        BY <3>3, <3>5, <4>2 DEF IInv, Balanced
      <4> QED
        BY <4>1, <4>2
    <3>8. Balanced(j, loosened, items[j], Seed[j], Held(j), MovedIn(j), MovedOut(j), Sold(j))
      BY DEF IInv
    <3> QED
      BY <3>1, <3>4, <3>7, <3>8 DEF BalancedAt, Balanced
  <2>9. CASE UNCHANGED <<items, events, loosened>>
    <3>1. /\ Held(j)' = Held(j) /\ Sold(j)' = Sold(j)
          /\ MovedIn(j)' = MovedIn(j) /\ MovedOut(j)' = MovedOut(j)
      BY <2>9 DEF Held, Sold, MovedIn, MovedOut, EventsOf, Size, Loss
    <3> QED
      BY <2>9, <3>1, OtherItem
  <2> QED
    BY <2>1, <2>2, <2>3, <2>4, <2>5, <2>6, <2>7, <2>8, <2>9 DEF Next, Tick, vars
<1> QED
  BY <1>1, <1>2 DEF IInv, BalancedAt

LEMMA Inductive == Spec => []IInv
BY SafeInit, SafeStep, PTL DEF Spec

\* The counter quantity_reserved equals the sum of the active reservations.
THEOREM ReservedIsHeldAlways == Spec => []ReservedIsHeld
BY Inductive, IInvIsConjunction, PTL

\* A finite item without back orders is never promised beyond its stock.
THEOREM NoOversellEver == Spec => []NoOversell
BY Inductive, IInvIsConjunction, PTL

\* No unit on hand is lost, invented or sold twice.
THEOREM EveryUnitAccounted == Spec => []OnHandIsAccounted
BY Inductive, IInvIsConjunction, PTL

----------------------------------------------------------------------------
(* What a step may never do *)

\* What each statement does to the shortfall of an item that forbids one.
LEMMA OversoldStatements ==
  ASSUME NEW item \in ItemRow, Guarded(item), NEW q \in Nat
  PROVE  /\ Available(item, q) => Oversold(Reserved(item, q)) <= Oversold(item)
         /\ Oversold(Released(item, q)) <= Oversold(item)
         /\ Oversold(ConsumedReserved(item, q)) <= Oversold(item)
         /\ Available(item, q) => Oversold(TakenFromHand(item, q)) <= Oversold(item)
<1>1. item.onHand \in Nat /\ item.reserved \in Nat /\ item.finite
  BY DEF ItemRow, Guarded
<1>2. /\ Reserved(item, q).onHand = item.onHand
      /\ Reserved(item, q).reserved = item.reserved + q
  BY DEF ItemRow, Reserved
<1>3. ASSUME NEW r \in ItemRow
      PROVE  /\ Released(r, q).onHand = r.onHand
             /\ Released(r, q).reserved = Clamp(r.reserved - q)
  BY <1>3 DEF ItemRow, Released
<1>4. /\ TakenFromHand(item, q).onHand = Clamp(item.onHand - q)
      /\ TakenFromHand(item, q).reserved = item.reserved
      /\ TakenFromHand(item, q) \in ItemRow
  BY <1>1, StatementTypes DEF ItemRow, TakenFromHand
<1>5. /\ ConsumedReserved(item, q).onHand = Clamp(item.onHand - q)
      /\ ConsumedReserved(item, q).reserved = Clamp(item.reserved - q)
  BY <1>3, <1>4 DEF ConsumedReserved
<1>6. Available(item, q) => Oversold(Reserved(item, q)) <= Oversold(item)
  BY <1>1, <1>2 DEF Available, Oversold, Clamp
<1>7. Oversold(Released(item, q)) <= Oversold(item)
  BY <1>1, <1>3 DEF Oversold, Clamp
<1>8. Oversold(ConsumedReserved(item, q)) <= Oversold(item)
  BY <1>1, <1>5 DEF Oversold, Clamp
<1>9. Available(item, q) => Oversold(TakenFromHand(item, q)) <= Oversold(item)
  BY <1>1, <1>4 DEF Available, Oversold, Clamp
<1> QED
  BY <1>6, <1>7, <1>8, <1>9

LEMMA OversoldStep ==
  ASSUME TypeOK, [Next]_vars, NEW j \in Items, Guarded(items[j]), Guarded(items'[j])
  PROVE  Oversold(items'[j]) <= Oversold(items[j])
<1>1. items \in [Items -> ItemRow] /\ items[j] \in ItemRow
  BY DEF TypeOK
<1>2. CASE items'[j] = items[j]
  BY <1>1, <1>2 DEF Oversold, Clamp, ItemRow
<1>3. CASE \E e \in Events, i \in Items, k \in Keys \cup {NoKey},
              q \in Quantities, c \in Customers \cup {Nobody}, x \in 1..MaxTime :
              Reserve(e, i, q, k, c, x)
  <2> PICK e \in Events, i \in Items, k \in Keys \cup {NoKey},
           q \in Quantities, c \in Customers \cup {Nobody}, x \in 1..MaxTime :
           Reserve(e, i, q, k, c, x)
    BY <1>3
  <2>1. /\ items' = [items EXCEPT ![i] = Reserved(items[i], q)]
        /\ Available(items[i], q) /\ q \in Nat
    BY MaxQtyAssumption DEF Reserve, SetItem, Quantities
  <2>2. CASE j = i
    <3>1. items'[j] = Reserved(items[j], q)
      BY <1>1, <2>1, <2>2
    <3> QED
      BY <1>1, <2>1, <2>2, <3>1, OversoldStatements
  <2>3. CASE j # i
    BY <1>1, <1>2, <2>1, <2>3
  <2> QED
    BY <2>2, <2>3
<1>4. CASE \E e \in Events, i \in Items, k \in Keys \cup {NoKey}, d \in Deltas :
              AdjustStock(e, i, d, k)
  <2> PICK e \in Events, i \in Items, k \in Keys \cup {NoKey}, d \in Deltas :
           AdjustStock(e, i, d, k)
    BY <1>4
  <2>1. /\ items' = [items EXCEPT ![i] = [items[i] EXCEPT !.onHand = @ + d]]
        /\ CanAdjust(items[i], d) /\ d \in Int
    BY MaxQtyAssumption DEF AdjustStock, SetItem, Adjusted, Deltas
  <2>2. CASE j = i
    <3>1. /\ items'[j].onHand = items[j].onHand + d /\ items'[j].reserved = items[j].reserved
          /\ items[j].onHand \in Nat /\ items[j].reserved \in Nat
      BY <1>1, <2>1, <2>2 DEF ItemRow
    <3> QED
      BY <2>1, <2>2, <3>1 DEF Oversold, Clamp, CanAdjust
  <2>3. CASE j # i
    BY <1>1, <1>2, <2>1, <2>3
  <2> QED
    BY <2>2, <2>3
<1>5. CASE \E e \in Events : Release(e) \/ Expire(e)
  <2> PICK e \in Events : Release(e) \/ Expire(e)
    BY <1>5
  <2> DEFINE i == events[e].item
             q == events[e].qty
  <2>1. items' = [items EXCEPT ![i] = Released(items[i], q)] /\ events[e].status = "active"
    BY DEF Release, Expire, TransitionActive, SetItem
  <2>2. q \in Nat
    BY <2>1 DEF TypeOK, EventRow
  <2> HIDE DEF i, q
  <2>3. items'[j] = items[j] \/ items'[j] = Released(items[j], q)
    BY <1>1, <2>1
  <2> QED
    BY <1>1, <1>2, <2>2, <2>3, OversoldStatements
<1>6. CASE \E e \in Events : Consume(e)
  <2> PICK e \in Events : Consume(e)
    BY <1>6
  <2> DEFINE i == events[e].item
             q == events[e].qty
  <2>1. \/ items' = [items EXCEPT ![i] = ConsumedReserved(items[i], q)]
        \/ Available(items[i], q) /\ items' = [items EXCEPT ![i] = TakenFromHand(items[i], q)]
    BY DEF Consume, SetItem
  <2>2. q \in Nat
    BY DEF Consume, TypeOK, EventRow
  <2> HIDE DEF i, q
  <2>3. \/ items'[j] = items[j] \/ items'[j] = ConsumedReserved(items[j], q)
        \/ Available(items[j], q) /\ items'[j] = TakenFromHand(items[j], q)
    BY <1>1, <2>1
  <2> QED
    BY <1>1, <1>2, <2>2, <2>3, OversoldStatements
<1>7. ASSUME NEW S \in SUBSET ActiveRows, NEW target \in {"expired", "released"},
             EndActiveRows(S, target)
      PROVE  Oversold(items'[j]) <= Oversold(items[j])
  <2>1. /\ Total(Size, {e \in S : events[e].item = j}) \in Nat
        /\ items'[j] = Released(items[j], Total(Size, {e \in S : events[e].item = j}))
    BY <1>7, SweepChange DEF EndActiveRows
  <2> QED
    BY <1>1, <2>1, OversoldStatements
<1>8. CASE \E i \in Items, d \in Definitions : PutItemDefinition(i, d)
  <2> PICK i \in Items, d \in Definitions : PutItemDefinition(i, d)
    BY <1>8
  <2>1. items' = [items EXCEPT ![i] = [items[i] EXCEPT !.finite = d.finite,
                                                       !.backorder = d.backorder]]
    BY DEF PutItemDefinition, SetItem
  <2>2. items'[j].onHand = items[j].onHand /\ items'[j].reserved = items[j].reserved
    BY <1>1, <2>1 DEF ItemRow
  <2> QED
    BY <1>1, <2>2 DEF Oversold, Clamp, ItemRow
<1>9. CASE (\E t \in 0..now : ReleaseExpiredReservations(t))
             \/ (\E c \in Customers : ReleaseActiveReservationsByCustomer(c))
  BY <1>7, <1>9 DEF ReleaseExpiredReservations, ReleaseActiveReservationsByCustomer
<1>10. CASE (\E S \in SUBSET Events, x \in 1..MaxTime : ExtendReservations(S, x))
              \/ Tick \/ UNCHANGED vars
  BY <1>2, <1>10 DEF ExtendReservations, Tick, vars
<1> QED
  BY <1>3, <1>4, <1>5, <1>6, <1>8, <1>9, <1>10 DEF Next

\* No operation makes the shortfall of a guarded item worse.
THEOREM ShortfallNeverGrows == Spec => OversoldOnlyShrinks
<1>1. TypeOK /\ [Next]_vars =>
        [\A i \in Items : Guarded(items[i]) /\ Guarded(items'[i])
                            => Oversold(items'[i]) <= Oversold(items[i])]_vars
  BY OversoldStep
<1> QED
  BY <1>1, TypeCorrect, PTL DEF Spec, OversoldOnlyShrinks

\* A row that ended is written again by one operation only, the late consume.
LEMMA EndedStep ==
  ASSUME TypeOK, [Next]_vars, NEW e \in Events
  PROVE  /\ events[e].status \in {"released", "consumed", "recorded"} => events'[e] = events[e]
         /\ events[e].status = "expired" => events'[e].status \in {"expired", "consumed"}
<1>1. events \in [Events -> EventRow]
  BY DEF TypeOK
<1>2. ASSUME NEW d \in Events, NEW row, Insert(d, row)
      PROVE  events[e].status = "absent" \/ events'[e] = events[e]
  BY <1>1, <1>2 DEF Insert, NoEvent
<1>3. ASSUME NEW d \in Events, NEW target, TransitionActive(d, target)
      PROVE  events[e].status = "active" \/ events'[e] = events[e]
  BY <1>1, <1>3 DEF TransitionActive
<1>4. ASSUME NEW d \in Events, Consume(d)
      PROVE  \/ events'[e] = events[e]
             \/ events[e].status \in {"active", "expired"} /\ events'[e].status = "consumed"
  BY <1>1, <1>4 DEF Consume, EventRow
<1>5. ASSUME NEW S \in SUBSET ActiveRows, NEW target, EndActiveRows(S, target)
      PROVE  events[e].status = "active" \/ events'[e] = events[e]
  BY <1>1, <1>5 DEF EndActiveRows, ActiveRows
<1>6. ASSUME NEW S \in SUBSET Events, NEW x, ExtendReservations(S, x)
      PROVE  events[e].status = "active" \/ events'[e] = events[e]
  BY <1>1, <1>6 DEF ExtendReservations
<1>7. \/ events[e].status \in {"absent", "active"}
      \/ events'[e] = events[e]
      \/ events[e].status = "expired" /\ events'[e].status = "consumed"
  BY <1>2, <1>3, <1>4, <1>5, <1>6
     DEF Next, vars, Reserve, AdjustStock, Release, Expire, ReleaseExpiredReservations,
         ReleaseActiveReservationsByCustomer, PutItemDefinition, Tick
<1> QED
  BY <1>7

\* Only an expired reservation has a way back, and only into a sale.
THEOREM EndedForGood == Spec => EndedReservationsStayEnded
<1>1. TypeOK /\ [Next]_vars =>
        [\A e \in Events :
           /\ events[e].status \in {"released", "consumed", "recorded"} => events'[e] = events[e]
           /\ events[e].status = "expired" => events'[e].status \in {"expired", "consumed"}]_vars
  BY EndedStep
<1> QED
  BY <1>1, TypeCorrect, PTL DEF Spec, EndedReservationsStayEnded

----------------------------------------------------------------------------
(* The counters implement the ledger *)

Strict == \A d \in Definitions : Guarded(d)

Entry(e) == [item |-> events[e].item, phase |-> PhaseOf(events[e].status), qty |-> events[e].qty]

Abstract == [e \in Events |-> Entry(e)]

\* Where every definition is guarded, no item is ever loosened.
LEMMA NeverLoosened ==
  ASSUME Strict
  PROVE  /\ Init => loosened = {}
         /\ TypeOK /\ loosened = {} /\ [Next]_vars => loosened' = {}
<1>1. Init => loosened = {}
  <2> SUFFICES ASSUME Init
               PROVE  loosened = {}
    OBVIOUS
  <2> PICK definition \in [Items -> Definitions] :
        loosened = {i \in Items : ~Guarded(definition[i])}
    BY DEF Init
  <2> QED
    BY DEF Strict
<1>2. TypeOK /\ loosened = {} /\ [Next]_vars => loosened' = {}
  BY DEF Strict, Next, vars, Reserve, AdjustStock, Release, Expire, TransitionActive, Consume,
         ReleaseExpiredReservations, ReleaseActiveReservationsByCustomer, EndActiveRows,
         ExtendReservations, PutItemDefinition, Tick
<1> QED
  BY <1>1, <1>2

\* The free units of the ledger are the difference of the two counters.
LEMMA FreeIsAvailable ==
  ASSUME IInv, loosened = {}, NEW i \in Items
  PROVE  /\ Ledger!FreeUnits(i) = items[i].onHand - items[i].reserved
         /\ \A q \in Int : q <= Ledger!FreeUnits(i) <=> Available(items[i], q)
         /\ Guarded(items[i])
<1>1. Ledger!Quantity = Size /\ Ledger!Deficit = Loss
  BY DEF Ledger!Quantity, Ledger!Deficit, Size, Loss
<1>2. \A e \in Events : /\ PhaseOf(events[e].status) = "moved" <=> events[e].status = "recorded"
                        /\ PhaseOf(events[e].status) = "held" <=> events[e].status = "active"
                        /\ PhaseOf(events[e].status) = "sold" <=> events[e].status = "consumed"
  BY DEF PhaseOf, IInv, TypeOK, EventRow, Statuses
<1>3. /\ Ledger!EntriesIn(i, "moved") = EventsOf(i, "recorded")
      /\ Ledger!EntriesIn(i, "held") = EventsOf(i, "active")
      /\ Ledger!EntriesIn(i, "sold") = EventsOf(i, "consumed")
  BY <1>2 DEF Ledger!EntriesIn, EventsOf
<1>4. ASSUME NEW size, NEW S
      PROVE  Ledger!Total(size, S) = Total(size, S)
  <2>1. Ledger!UnitsOf(size, S) = UnitsOf(size, S)
    BY DEF Ledger!UnitsOf, UnitsOf
  <2>2. ASSUME NEW T
        PROVE  Ledger!Cardinality(T) = Cardinality(T)
    BY DEF Ledger!Cardinality, Cardinality
  <2> QED
    BY <2>1, <2>2 DEF Ledger!Total, Total
<1>5. Ledger!FreeUnits(i) = Seed[i] + MovedIn(i) - MovedOut(i) - Sold(i) - Held(i)
  BY <1>1, <1>3, <1>4 DEF Ledger!FreeUnits, MovedIn, MovedOut, Sold, Held
<1>6. /\ items[i].reserved = Held(i) /\ Guarded(items[i])
      /\ items[i].onHand = Seed[i] + MovedIn(i) - MovedOut(i) - Sold(i)
  BY DEF IInv, Balanced
<1>7. items[i].onHand \in Nat /\ items[i].reserved \in Nat /\ Seed[i] \in Nat
  BY IInvType DEF ItemRow
<1>8. Ledger!FreeUnits(i) = items[i].onHand - items[i].reserved
  BY <1>5, <1>6, <1>7, TotalsAreNat
<1> QED
  BY <1>6, <1>7, <1>8 DEF Available

\* Each step of the repository is a step of the ledger, or leaves it alone.
LEMMA LedgerStep ==
  ASSUME IInv, loosened = {}, [Next]_vars
  PROVE  [Ledger!Next]_Abstract
<1>1. events \in [Events -> EventRow] /\ \A e \in Events : events[e].status \in Statuses
  BY IInvType DEF EventRow
<1>2. CASE UNCHANGED events
  BY <1>2 DEF Abstract, Entry
<1>3. ASSUME NEW e \in Events, NEW i \in Items, NEW k \in Keys \cup {NoKey}, NEW q \in Quantities,
             NEW c \in Customers \cup {Nobody}, NEW x \in 1..MaxTime, Reserve(e, i, q, k, c, x)
      PROVE  Ledger!Hold(e, i, q)
  <2>1. q \in Int /\ q <= Ledger!FreeUnits(i)
    BY <1>3, FreeIsAvailable, MaxQtyAssumption DEF Reserve, Quantities
  <2>2. Abstract[e] = Ledger!Absent
    BY <1>3 DEF Reserve, Insert, NoEvent, Abstract, Entry, PhaseOf, Ledger!Absent
  <2>3. Abstract' = [Abstract EXCEPT ![e] = [item |-> i, phase |-> "held", qty |-> q]]
    BY <1>1, <1>3 DEF Reserve, Insert, Abstract, Entry, PhaseOf
  <2> QED
    BY <2>1, <2>2, <2>3 DEF Ledger!Hold, Abstract, Entry
<1>4. ASSUME NEW e \in Events, NEW i \in Items, NEW k \in Keys \cup {NoKey}, NEW d \in Deltas,
             AdjustStock(e, i, d, k)
      PROVE  Ledger!Move(e, i, d)
  <2>1. d \in Int /\ Ledger!FreeUnits(i) + d >= 0
    <3>1. d \in Int /\ CanAdjust(items[i], d)
      BY <1>4, MaxQtyAssumption DEF AdjustStock, Deltas
    <3>2. items[i].onHand \in Nat /\ items[i].reserved \in Nat
          /\ items[i].reserved <= items[i].onHand
      BY IInvType DEF ItemRow, IInv, Balanced
    <3> QED
      BY <3>1, <3>2, FreeIsAvailable DEF CanAdjust
  <2>2. Abstract[e] = Ledger!Absent
    BY <1>4 DEF AdjustStock, Insert, NoEvent, Abstract, Entry, PhaseOf, Ledger!Absent
  <2>3. Abstract' = [Abstract EXCEPT ![e] = [item |-> i, phase |-> "moved", qty |-> d]]
    BY <1>1, <1>4 DEF AdjustStock, Insert, Abstract, Entry, PhaseOf
  <2> QED
    BY <2>1, <2>2, <2>3 DEF Ledger!Move, Abstract, Entry
<1>5. ASSUME NEW S \in SUBSET Events, \A e \in S : events[e].status = "active",
             NEW target \in {"expired", "released"},
             events' = [e \in Events |-> IF e \in S
                          THEN [events[e] EXCEPT !.status = target, !.key = NoKey] ELSE events[e]]
      PROVE  Ledger!GiveUp(S, PhaseOf(target)) /\ PhaseOf(target) \in {"lapsed", "returned"}
  <2>1. \A e \in S : Abstract[e].phase = "held"
    BY <1>5 DEF Abstract, Entry, PhaseOf
  <2>2. ASSUME NEW e \in Events
        PROVE  Entry(e)' = IF e \in S THEN [Abstract[e] EXCEPT !.phase = PhaseOf(target)]
                                      ELSE Abstract[e]
    <3>1. CASE e \in S
      <4>1. /\ events'[e].item = events[e].item /\ events'[e].status = target
            /\ events'[e].qty = events[e].qty
        BY <1>1, <1>5, <3>1 DEF EventRow
      <4> QED
        BY <3>1, <4>1 DEF Abstract, Entry
    <3>2. CASE e \notin S
      BY <1>5, <3>2 DEF Abstract, Entry
    <3> QED
      BY <3>1, <3>2
  <2>3. Abstract' = [e \in Events |-> IF e \in S THEN [Abstract[e] EXCEPT !.phase = PhaseOf(target)]
                                                 ELSE Abstract[e]]
    BY <2>2 DEF Abstract
  <2> QED
    BY <2>1, <2>3 DEF Ledger!GiveUp, Abstract, Entry, PhaseOf
<1>6. ASSUME NEW e \in Events, NEW target \in {"expired", "released"}, TransitionActive(e, target)
      PROVE  Ledger!GiveUp({e}, PhaseOf(target)) /\ PhaseOf(target) \in {"lapsed", "returned"}
  <2>1. events' = [d \in Events |-> IF d \in {e}
                     THEN [events[d] EXCEPT !.status = target, !.key = NoKey] ELSE events[d]]
    BY <1>1, <1>6 DEF TransitionActive
  <2>2. {e} \in SUBSET Events /\ \A d \in {e} : events[d].status = "active"
    BY <1>6 DEF TransitionActive
  <2> QED
    BY <1>5, <2>1, <2>2
<1>7. ASSUME NEW S \in SUBSET ActiveRows, NEW target \in {"expired", "released"},
             EndActiveRows(S, target)
      PROVE  Ledger!GiveUp(S, PhaseOf(target)) /\ PhaseOf(target) \in {"lapsed", "returned"}
  BY <1>5, <1>7 DEF EndActiveRows, ActiveRows
<1>8. ASSUME NEW e \in Events, Consume(e)
      PROVE  Ledger!SellHeld(e) \/ Ledger!SellLapsed(e)
  <2>1. events[e].item \in Items /\ events[e].qty \in Nat
    BY <1>8, IInvType DEF Consume, TypeOK, EventRow
  <2>2. Abstract' = [Abstract EXCEPT ![e].phase = "sold"]
    <3>1. events' = [events EXCEPT ![e] = [events[e] EXCEPT !.status = "consumed"]]
      BY <1>1, <1>8 DEF Consume
    <3>2. ASSUME NEW d \in Events
          PROVE  Entry(d)' = IF d = e THEN [Abstract[d] EXCEPT !.phase = "sold"] ELSE Abstract[d]
      <4>1. CASE d = e
        <5>1. /\ events'[d].item = events[d].item /\ events'[d].status = "consumed"
              /\ events'[d].qty = events[d].qty
          BY <1>1, <3>1, <4>1 DEF EventRow
        <5> QED
          BY <4>1, <5>1 DEF Abstract, Entry, PhaseOf
      <4>2. CASE d # e
        BY <1>1, <3>1, <4>2 DEF Abstract, Entry
      <4> QED
        BY <4>1, <4>2
    <3>3. Abstract' = [d \in Events |-> IF d = e THEN [Abstract[d] EXCEPT !.phase = "sold"]
                                                 ELSE Abstract[d]]
      BY <3>2 DEF Abstract
    <3> QED
      BY <3>3 DEF Abstract
  <2>3. CASE events[e].status = "active"
    BY <2>2, <2>3 DEF Ledger!SellHeld, Abstract, Entry, PhaseOf
  <2>4. CASE events[e].status = "expired"
    <3>1. Available(items[events[e].item], events[e].qty)
      BY <1>8, <2>4 DEF Consume
    <3>2. events[e].qty <= Ledger!FreeUnits(events[e].item)
      BY <2>1, <3>1, FreeIsAvailable
    <3>3. /\ Abstract[e].phase = "lapsed" /\ Abstract[e].qty = events[e].qty
          /\ Abstract[e].item = events[e].item
      BY <2>4 DEF Abstract, Entry, PhaseOf
    <3> QED
      BY <2>2, <3>2, <3>3 DEF Ledger!SellLapsed, Abstract, Entry
  <2> QED
    BY <1>8, <2>3, <2>4 DEF Consume
<1>9. ASSUME NEW S \in SUBSET Events, NEW x \in 1..MaxTime, ExtendReservations(S, x)
      PROVE  UNCHANGED Abstract
  <2>1. \A e \in Events : Entry(e)' = Entry(e)
    BY <1>1, <1>9 DEF ExtendReservations, Entry, EventRow
  <2> QED
    BY <2>1 DEF Abstract
<1>10. ASSUME Ledger!Next
       PROVE  [Ledger!Next]_Abstract
  BY <1>10
<1>11. CASE \E e \in Events, i \in Items, k \in Keys \cup {NoKey},
               q \in Quantities, c \in Customers \cup {Nobody}, x \in 1..MaxTime :
               Reserve(e, i, q, k, c, x)
  BY <1>3, <1>10, <1>11 DEF Ledger!Next, Quantities
<1>12. CASE \E e \in Events, i \in Items, k \in Keys \cup {NoKey}, d \in Deltas :
               AdjustStock(e, i, d, k)
  BY <1>4, <1>10, <1>12 DEF Ledger!Next, Deltas
<1>13. CASE \E e \in Events : Release(e) \/ Expire(e)
  BY <1>6, <1>10, <1>13 DEF Ledger!Next, Release, Expire
<1>14. CASE \E e \in Events : Consume(e)
  BY <1>8, <1>10, <1>14 DEF Ledger!Next
<1>15. CASE (\E t \in 0..now : ReleaseExpiredReservations(t))
              \/ (\E c \in Customers : ReleaseActiveReservationsByCustomer(c))
  <2>1. PICK S \in SUBSET ActiveRows, target \in {"expired", "released"} : EndActiveRows(S, target)
    BY <1>15 DEF ReleaseExpiredReservations, ReleaseActiveReservationsByCustomer
  <2> QED
    BY <1>7, <1>10, <2>1 DEF Ledger!Next, ActiveRows
<1>16. CASE \E S \in SUBSET Events, x \in 1..MaxTime : ExtendReservations(S, x)
  BY <1>9, <1>16
<1> QED
  BY <1>2, <1>11, <1>12, <1>13, <1>14, <1>15, <1>16 DEF Next, PutItemDefinition, Tick, vars

\* A shop whose items all forbid overselling gets what Inventory promises:
\* holds and late sales take free units only, whatever the two counters do.
THEOREM CountersImplementLedger ==
  ASSUME Strict
  PROVE  Spec => ImplementsInventory
<1>1. Init => Ledger!Init
  BY DEF Init, NoEvent, PhaseOf, Ledger!Init, Ledger!Absent
<1>2. Spec => [](IInv /\ loosened = {})
  <2>1. Init => loosened = {}
    BY NeverLoosened
  <2>2. IInv /\ loosened = {} /\ [Next]_vars => (loosened = {})'
    BY NeverLoosened, IInvType
  <2> QED
    BY <2>1, <2>2, Inductive, PTL DEF Spec
<1>3. IInv /\ loosened = {} /\ [Next]_vars => [Ledger!Next]_Abstract
  BY LedgerStep
<1> QED
  BY <1>1, <1>2, <1>3, PTL DEF Spec, ImplementsInventory, Ledger!Spec, Abstract, Entry
============================================================================
