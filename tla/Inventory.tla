----------------------------- MODULE Inventory -----------------------------
(***************************************************************************)
(* What the stock repository promises a shop that sells a finite item      *)
(* without back orders, stated with no counters at all: a ledger of        *)
(* entries, and the rule that an entry may only take units that are free.  *)
(* Stock.tla, which keeps the two counters of mika_stock_items, implements *)
(* this module.                                                            *)
(***************************************************************************)
EXTENDS UnitCount

CONSTANTS Items, NoItem, Entries, Seed

VARIABLE ledger  \* what each entry stands for

Phases == {"absent", "held", "lapsed", "returned", "sold", "moved"}

Quantity == [e \in Entries |-> ledger[e].qty]
Deficit  == [e \in Entries |-> -ledger[e].qty]

EntriesIn(i, phase) == {e \in Entries : ledger[e].item = i /\ ledger[e].phase = phase}

\* Units of item i that nobody holds and that were not sold or taken away.
FreeUnits(i) ==
  Seed[i] + Total(Quantity, EntriesIn(i, "moved")) - Total(Deficit, EntriesIn(i, "moved"))
          - Total(Quantity, EntriesIn(i, "sold"))  - Total(Quantity, EntriesIn(i, "held"))

Absent == [item |-> NoItem, phase |-> "absent", qty |-> 0]

Init == ledger = [e \in Entries |-> Absent]

\* A hold takes free units only.
Hold(e, i, q) ==
  /\ ledger[e] = Absent
  /\ q <= FreeUnits(i)
  /\ ledger' = [ledger EXCEPT ![e] = [item |-> i, phase |-> "held", qty |-> q]]

\* Holds end without a sale: their units are free again.
GiveUp(S, phase) ==
  /\ \A e \in S : ledger[e].phase = "held"
  /\ ledger' = [e \in Entries |-> IF e \in S THEN [ledger[e] EXCEPT !.phase = phase]
                                             ELSE ledger[e]]

\* A held entry is sold whatever else happened meanwhile.
SellHeld(e) ==
  /\ ledger[e].phase = "held"
  /\ ledger' = [ledger EXCEPT ![e].phase = "sold"]

\* A lapsed hold is sold only out of units that are free.
SellLapsed(e) ==
  /\ ledger[e].phase = "lapsed"
  /\ ledger[e].qty <= FreeUnits(ledger[e].item)
  /\ ledger' = [ledger EXCEPT ![e].phase = "sold"]

\* Units arrive, or free units are taken out.
Move(e, i, d) ==
  /\ ledger[e] = Absent
  /\ FreeUnits(i) + d >= 0
  /\ ledger' = [ledger EXCEPT ![e] = [item |-> i, phase |-> "moved", qty |-> d]]

Next ==
  \/ \E e \in Entries, i \in Items : \/ \E q \in 1..MaxQty : Hold(e, i, q)
                                     \/ \E d \in (-MaxQty..MaxQty) \ {0} : Move(e, i, d)
  \/ \E S \in SUBSET Entries, phase \in {"lapsed", "returned"} : GiveUp(S, phase)
  \/ \E e \in Entries : SellHeld(e) \/ SellLapsed(e)

Spec == Init /\ [][Next]_ledger
============================================================================
