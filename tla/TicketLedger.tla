----------------------------- MODULE TicketLedger -----------------------------
(***************************************************************************)
(* What the ticketing service promises about capacity, without requests,   *)
(* snapshots, counters or tickets: every unit of a slot is held for one    *)
(* order, sold to one order, or free.  docs/data-model.md puts it as       *)
(* "ticket sale is available -> reserved -> sold; expiry, cancellation and *)
(* refund reverse the appropriate quantity".                               *)
(***************************************************************************)
EXTENDS Integers, FiniteSets

CONSTANTS Orders, Slots, Capacity, MaxQuantity

VARIABLES
    held,   \* the units of each slot that unpaid orders hold
    sold    \* the units of each slot that paid orders own

ledger == <<held, sold>>

Unit == Orders \X (1 .. MaxQuantity)

OrderUnits(o, q) == {o} \X (1 .. q)

UnitsOfOrders(S) == S \X (1 .. MaxQuantity)

Occupied(s) == Cardinality(held[s]) + Cardinality(sold[s])

Init == /\ held = [s \in Slots |-> {}]
        /\ sold = [s \in Slots |-> {}]

(* A new order takes q free units of a slot. *)
Reserve(o, s, q) ==
    /\ \A t \in Slots : UnitsOfOrders({o}) \cap (held[t] \cup sold[t]) = {}
    /\ Occupied(s) + q =< Capacity[s]
    /\ held' = [held EXCEPT ![s] = @ \cup OrderUnits(o, q)]
    /\ sold' = sold

(* Some orders give up the units they hold, and at most one of them pays   *)
(* for its units instead.                                                  *)
Settle(S, payer) ==
    /\ held' = [s \in Slots |-> held[s] \ UnitsOfOrders(S \cup payer)]
    /\ sold' = [s \in Slots |-> sold[s] \cup (held[s] \cap UnitsOfOrders(payer))]

(* A refund frees the units an order owns. *)
Return(o) ==
    /\ held' = held
    /\ sold' = [s \in Slots |-> sold[s] \ UnitsOfOrders({o})]

(* A reschedule exchanges them for as many units of another slot. *)
Move(o, source, target) ==
    /\ source # target
    /\ \A t \in Slots \ {source} : UnitsOfOrders({o}) \cap sold[t] = {}
    /\ LET owned == sold[source] \cap UnitsOfOrders({o})
       IN  /\ Occupied(target) + Cardinality(owned) =< Capacity[target]
           /\ sold' = [sold EXCEPT ![source] = @ \ owned, ![target] = @ \cup owned]
    /\ held' = held

Next ==
    \/ \E o \in Orders, s \in Slots, q \in 1 .. MaxQuantity : Reserve(o, s, q)
    \/ \E S \in SUBSET Orders : Settle(S, {}) \/ \E o \in Orders : Settle(S, {o})
    \/ \E o \in Orders : Return(o)
    \/ \E o \in Orders, s, t \in Slots : Move(o, s, t)

Spec == Init /\ [][Next]_ledger
=============================================================================
