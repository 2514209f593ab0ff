------------------------------ MODULE Ticketing ------------------------------
(***************************************************************************)
(* The ticket ledger of the scenic area: services/ticketing.py.            *)
(*                                                                         *)
(* Every worker serves one HTTP request at a time on a database session of *)
(* its own.  A request reads rows into local variables, decides, and then  *)
(* changes the rows with conditional UPDATEs whose predicates are evaluated*)
(* again under the row locks it keeps until COMMIT.  It is therefore       *)
(* modelled as a reading step, after which other requests run, and a       *)
(* committing step; Rollback is every other way a request ends.            *)
(***************************************************************************)
EXTENDS Integers, FiniteSets

CONSTANTS
    Users,          \* accounts
    Admins,         \* the accounts with the role "admin"
    Orders,         \* identifiers uuid4 may give to an order
    Slots,          \* visit slots, each with an inventory row
    Keys,           \* idempotency keys clients send
    NoKey,          \* payment_idempotency_key of an order not paid yet
    GateRequests,   \* request_id values of the gates
    Workers,        \* requests served concurrently
    Nobody,         \* the holder of a free schedule lock
    Capacity,       \* TicketInventory.capacity of a slot
    TypeOf,         \* ticket type of a slot
    MaxQuantity,    \* the largest quantity an order may ask for
    SweepLimit,     \* rows one expiry sweep reads (100 in the code)
    Horizon         \* bound on how far the clock of a slot advances

ASSUME QuantityAssumption == MaxQuantity \in Nat \ {0}
ASSUME SweepAssumption    == SweepLimit \in Nat \ {0}
ASSUME CapacityAssumption == Capacity \in [Slots -> Nat]
ASSUME OrdersAssumption   == IsFiniteSet(Orders)
ASSUME AdminsAssumption   == Admins \subseteq Users
ASSUME NobodyAssumption   == Nobody \notin Workers
ASSUME HorizonAssumption  == Horizon \in [Slots -> 0 .. 4]

VARIABLES
    orders,         \* ticket_orders with their only item, by identifier
    due,            \* the pending orders whose expires_at has passed
    inventory,      \* ticket_inventories, by slot
    tickets,        \* electronic_tickets, by identifier
    refunds,        \* rows of refund_requests
    reschedules,    \* rows of reschedule_requests
    validations,    \* rows of ticket_validations
    phase,          \* where the scenic clock stands relative to a slot
    scheduleLock,   \* who holds the user_schedule_locks row of a user
    txn             \* what each worker is doing, with what it has read

database == <<orders, inventory, tickets, refunds, reschedules, validations>>
clock    == <<due, phase>>
vars     == <<database, clock, scheduleLock, txn>>

-----------------------------------------------------------------------------
(* Rows.                                                                   *)

Quantities == 1 .. MaxQuantity

OrderStatus == {"PENDING_PAYMENT", "PAID", "REFUNDED", "EXPIRED", "CANCELLED"}

OrderRow == [status : OrderStatus, user : Users, key : Keys, slot : Slots,
             quantity : Quantities, version : Nat, payKey : Keys \cup {NoKey}]

(* A ticket is named by its order, the version of the order that issued it *)
(* and its number among the tickets issued together; uuid4 in the code.    *)
TicketId == Orders \X Nat \X Quantities

TicketRow == [status : {"ISSUED", "USED", "VOID"}, slot : Slots, version : Nat]

RefundRow     == [user : Users, key : Keys, order : Orders]
RescheduleRow == [user : Users, key : Keys, order : Orders,
                  source : Slots, target : Slots]
ValidationRow == [request : GateRequests, ticket : TicketId]

InStatus(status) == {o \in DOMAIN orders : orders[o].status = status}
Pending == InStatus("PENDING_PAYMENT")
Paid    == InStatus("PAID")

(* Bug: the row is updated whatever has become of it.                      *)
MatchesAnyState(o, status, version) == o \in DOMAIN orders

(* What the UPDATE of an order by identifier, status and version matches.  *)
Matches(o, status, version) ==
    /\ o \in InStatus(status)
    /\ orders[o].version = version

(* The units of slot s that the orders in S have asked for.  Their number  *)
(* is the total a loop over S adds to or takes from a counter of s.        *)
BookedUnits(rows, S, s) ==
    {u \in S \X Quantities : rows[u[1]].slot = s /\ u[2] =< rows[u[1]].quantity}

Units(S, s) == BookedUnits(orders, S, s)

UnitCount(S, s) == Cardinality(Units(S, s))

(* Bug: the units of unpaid orders count as free.                          *)
AvailableUnsold(s) == Capacity[s] - inventory[s].sold

Available(s) == Capacity[s] - inventory[s].reserved - inventory[s].sold

Issued(o) == {t \in DOMAIN tickets : t[1] = o /\ tickets[t].status = "ISSUED"}

KeyUsed(table, u, k) == \E row \in table : row.user = u /\ row.key = k

(* Bug: only an order still waiting for payment answers a repeated key.    *)
PendingKeyUsed(u, k) == \E o \in Pending : orders[o].user = u /\ orders[o].key = k

OrderKeyUsed(u, k) == \E o \in DOMAIN orders : orders[o].user = u /\ orders[o].key = k

Owns(u, o) == o \in DOMAIN orders /\ (orders[o].user = u \/ u \in Admins)

-----------------------------------------------------------------------------
(* The clock of a slot: 0 refunds are open, 1 the refund deadline has      *)
(* passed, 2 the gates accept its tickets, 3 the window is over, 4 the     *)
(* visit date is over.                                                     *)

RefundOpen(s) == phase[s] = 0
GateOpen(s)   == phase[s] = 2
DateOver(s)   == phase[s] = 4

-----------------------------------------------------------------------------
(* What a worker remembers between two statements.                         *)

Idle == [op |-> "idle"]

Sweeping(next, u, S) == [op |-> "sweep", next |-> next, user |-> u, due |-> S]
Swept(next, u)       == [op |-> next, user |-> u]
Ordering(u, k, s, q) == [op |-> "order", user |-> u, key |-> k, slot |-> s, quantity |-> q]
Paying(u, k, o, v, S) ==
    [op |-> "pay", user |-> u, key |-> k, order |-> o, version |-> v, due |-> S]
Cancelling(o, v)     == [op |-> "cancelling", order |-> o, version |-> v]
Opening(u, k, o, v)  == [op |-> "open refund", user |-> u, key |-> k, order |-> o, version |-> v]
Refunding(u, k, o, v, s) ==
    [op |-> "refund", user |-> u, key |-> k, order |-> o, version |-> v, slot |-> s]
Moving(u, k, o, v, s, t) ==
    [op |-> "reschedule", user |-> u, key |-> k, order |-> o, version |-> v,
     slot |-> s, target |-> t]
Admitting(q, t, v)   == [op |-> "gate", request |-> q, ticket |-> t, version |-> v]

SweepTxn   == [op : {"sweep"}, next : {"reply", "create", "cancel"}, user : Users,
               due : SUBSET Orders]
SweptTxn   == [op : {"create", "cancel"}, user : Users]
OrderTxn   == [op : {"order"}, user : Users, key : Keys, slot : Slots,
               quantity : Quantities]
PayTxn     == [op : {"pay"}, user : Users, key : Keys, order : Orders, version : Nat,
               due : SUBSET Orders]
CancelTxn  == [op : {"cancelling"}, order : Orders, version : Nat]
OpenTxn    == [op : {"open refund"}, user : Users, key : Keys, order : Orders,
               version : Nat]
RefundTxn  == [op : {"refund"}, user : Users, key : Keys, order : Orders,
               version : Nat, slot : Slots]
MoveTxn    == [op : {"reschedule"}, user : Users, key : Keys, order : Orders,
               version : Nat, slot : Slots, target : Slots]
GateTxn    == [op : {"gate"}, request : GateRequests, ticket : TicketId, version : Nat]

Txn == {Idle} \cup SweepTxn \cup SweptTxn \cup OrderTxn \cup PayTxn \cup CancelTxn
       \cup OpenTxn \cup RefundTxn \cup MoveTxn \cup GateTxn

Remember(w, record) == txn' = [txn EXCEPT ![w] = record]

Lock(u, w) == /\ scheduleLock[u] = Nobody
              /\ scheduleLock' = [scheduleLock EXCEPT ![u] = w]

(* COMMIT and ROLLBACK give back the schedule lock the worker holds.       *)
Unlock(w) == scheduleLock' = [u \in Users |-> IF scheduleLock[u] = w
                                              THEN Nobody ELSE scheduleLock[u]]

Done(w) == Remember(w, Idle) /\ Unlock(w)

-----------------------------------------------------------------------------
Init ==
    /\ orders = [o \in {} |-> {}]
    /\ due = {}
    /\ inventory = [s \in Slots |-> [reserved |-> 0, sold |-> 0]]
    /\ tickets = [t \in {} |-> {}]
    /\ refunds = {} /\ reschedules = {} /\ validations = {}
    /\ phase = [s \in Slots |-> 0]
    /\ scheduleLock = [u \in Users |-> Nobody]
    /\ txn = [w \in Workers |-> Idle]

(* Time passes: the hold of a pending order lapses, the clock of a slot    *)
(* moves on.                                                               *)
HoldLapses(o) ==
    /\ o \in Pending \ due
    /\ due' = due \cup {o}
    /\ UNCHANGED <<database, phase, scheduleLock, txn>>

ClockAdvances(s) ==
    /\ phase[s] < Horizon[s]
    /\ phase' = [phase EXCEPT ![s] = @ + 1]
    /\ UNCHANGED <<database, due, scheduleLock, txn>>

-----------------------------------------------------------------------------
(* expire_pending_orders.  A sweep reads at most SweepLimit due orders and *)
(* then expires those among them that are still pending.                   *)

(* Bug: a sweep gives up when more orders are due than it may read.        *)
SelectionsAllOrNothing(scope) ==
    LET Due == {o \in Pending \cap due : orders[o].user \in scope}
    IN  {S \in {Due} : Cardinality(Due) =< SweepLimit}

Selections(scope) ==
    LET Due == {o \in Pending \cap due : orders[o].user \in scope}
    IN  {S \in SUBSET Due : \/ S = Due /\ Cardinality(Due) =< SweepLimit
                            \/ Cardinality(S) = SweepLimit}

(* Bug: the orders selected are expired without looking at them again.     *)
SelectedDue(S) == S

StillDue(S) == S \cap Pending \cap due

(* Bug: the version of an order does not count its changes of status.      *)
TransitionedSilently(S, status) ==
    [o \in DOMAIN orders |->
        IF o \in S THEN [orders[o] EXCEPT !.status = status] ELSE orders[o]]

(* The rows after the orders in S have changed their status.               *)
Transitioned(S, status) ==
    [o \in DOMAIN orders |->
        IF o \in S THEN [orders[o] EXCEPT !.status = status, !.version = @ + 1]
                   ELSE orders[o]]

(* No UPDATE of "reserved" by the orders in S finds too little to release. *)
Releasable(S) == \A s \in Slots : inventory[s].reserved >= UnitCount(S, s)

Released(S) ==
    [s \in Slots |-> [inventory[s] EXCEPT !.reserved = @ - UnitCount(S, s)]]

(* Listing or reading orders sweeps the caller's orders, an administrator's*)
(* listing everybody's; paying a paid order again commits a sweep of the   *)
(* caller's.  Creating an order sweeps everybody's, cancelling one the     *)
(* caller's, before the request itself starts.                             *)
SweepScopes(next, u) ==
    CASE next = "create" -> {Users}
      [] next = "cancel" -> {{u}}
      [] next = "reply"  -> IF u \in Admins THEN {{u}, Users} ELSE {{u}}

BeginSweep(w, u, next) ==
    /\ txn[w] = Idle
    /\ \E scope \in SweepScopes(next, u) : \E S \in Selections(scope) :
           Remember(w, Sweeping(next, u, S))
    /\ UNCHANGED <<database, clock, scheduleLock>>

CommitSweep(w) ==
    /\ txn[w].op = "sweep"
    /\ LET S == StillDue(txn[w].due)
       IN  /\ Releasable(S)
           /\ orders' = Transitioned(S, "EXPIRED")
           /\ inventory' = Released(S)
           /\ due' = due \ S
    /\ Remember(w, IF txn[w].next = "reply" THEN Idle
                   ELSE Swept(txn[w].next, txn[w].user))
    /\ UNCHANGED <<tickets, refunds, reschedules, validations, phase, scheduleLock>>

-----------------------------------------------------------------------------
(* create_ticket_order.                                                    *)

LockToCreate(w, k, s, q) ==
    /\ txn[w].op = "create"
    /\ Lock(txn[w].user, w)
    /\ ~ OrderKeyUsed(txn[w].user, k)
    /\ ~ DateOver(s)
    /\ Remember(w, Ordering(txn[w].user, k, s, q))
    /\ UNCHANGED <<database, clock>>

CommitOrder(w, o) ==
    /\ txn[w].op = "order"
    /\ o \in Orders \ DOMAIN orders
    /\ LET m == txn[w]
       IN  /\ Available(m.slot) >= m.quantity
           /\ ~ OrderKeyUsed(m.user, m.key)
           /\ inventory' = [inventory EXCEPT ![m.slot].reserved = @ + m.quantity]
           /\ orders' = [p \in DOMAIN orders \cup {o} |->
                            IF p = o
                            THEN [status |-> "PENDING_PAYMENT", user |-> m.user,
                                  key |-> m.key, slot |-> m.slot,
                                  quantity |-> m.quantity, version |-> 1,
                                  payKey |-> NoKey]
                            ELSE orders[p]]
    /\ Done(w)
    /\ UNCHANGED <<tickets, refunds, reschedules, validations, clock>>

-----------------------------------------------------------------------------
(* pay_ticket_order.  The sweep of the caller's orders stays uncommitted   *)
(* while the provider authorises the payment, so it takes effect together  *)
(* with the payment or not at all.                                         *)

ReadToPay(w, u, k, o) ==
    /\ txn[w] = Idle
    /\ Owns(u, o)
    /\ \E S \in Selections({u}) :
           /\ o \in Pending \ S
           /\ Remember(w, Paying(u, k, o, orders[o].version, S))
    /\ UNCHANGED <<database, clock, scheduleLock>>

PaidRow(row, key) ==
    [row EXCEPT !.status = "PAID", !.payKey = key, !.version = @ + 1]

(* Bug: one ticket too many.                                               *)
NewTicketsFromZero(o, version, q) == {o} \X {version} \X (0 .. q)

NewTickets(o, version, q) == {o} \X {version} \X (1 .. q)

WithTickets(base, new, s) ==
    [t \in DOMAIN base \cup new |->
        IF t \in new THEN [status |-> "ISSUED", slot |-> s, version |-> 1]
                     ELSE base[t]]

CommitPayment(w) ==
    /\ txn[w].op = "pay"
    /\ LET m == txn[w]
           o == m.order
           S == StillDue(m.due)
       IN  /\ Matches(o, "PENDING_PAYMENT", m.version)
           /\ o \notin due
           /\ Releasable(S \cup {o})
           /\ orders' = [Transitioned(S, "EXPIRED") EXCEPT ![o] = PaidRow(@, m.key)]
           /\ inventory' = [Released(S \cup {o}) EXCEPT
                               ![orders[o].slot].sold = @ + orders[o].quantity]
           /\ tickets' = WithTickets(tickets,
                                     NewTickets(o, m.version + 1, orders[o].quantity),
                                     orders[o].slot)
           /\ due' = due \ S
    /\ Done(w)
    /\ UNCHANGED <<refunds, reschedules, validations, phase>>

-----------------------------------------------------------------------------
(* cancel_pending_ticket_order.                                            *)

ReadToCancel(w, o) ==
    /\ txn[w].op = "cancel"
    /\ Owns(txn[w].user, o)
    /\ o \in Pending
    /\ Remember(w, Cancelling(o, orders[o].version))
    /\ UNCHANGED <<database, clock, scheduleLock>>

CommitCancel(w) ==
    /\ txn[w].op = "cancelling"
    /\ LET o == txn[w].order
       IN  /\ Matches(o, "PENDING_PAYMENT", txn[w].version)
           /\ Releasable({o})
           /\ orders' = Transitioned({o}, "CANCELLED")
           /\ inventory' = Released({o})
           /\ due' = due \ {o}
    /\ Done(w)
    /\ UNCHANGED <<tickets, refunds, reschedules, validations, phase>>

-----------------------------------------------------------------------------
(* refund_ticket_order.  The order and its item come from two SELECTs, so a*)
(* reschedule may commit between them.                                     *)

ReadToRefund(w, u, k, o) ==
    /\ txn[w] = Idle
    /\ ~ KeyUsed(refunds, u, k)
    /\ Owns(u, o)
    /\ o \in Paid
    /\ Remember(w, Opening(u, k, o, orders[o].version))
    /\ UNCHANGED <<database, clock, scheduleLock>>

ReadItemToRefund(w) ==
    /\ txn[w].op = "open refund"
    /\ LET m == txn[w]
           s == orders[m.order].slot
       IN  /\ RefundOpen(s)
           /\ Remember(w, Refunding(m.user, m.key, m.order, m.version, s))
    /\ UNCHANGED <<database, clock, scheduleLock>>

(* Bug: the tickets of the order are left as they are.                     *)
NotVoided(o) == tickets

Voided(o) ==
    [t \in DOMAIN tickets |->
        IF t \in Issued(o) THEN [tickets[t] EXCEPT !.status = "VOID", !.version = @ + 1]
                           ELSE tickets[t]]

CommitRefund(w) ==
    /\ txn[w].op = "refund"
    /\ LET m == txn[w]
           o == m.order
       IN  /\ Cardinality(Issued(o)) = orders[o].quantity
           /\ Matches(o, "PAID", m.version)
           /\ inventory[m.slot].sold >= orders[o].quantity
           /\ ~ KeyUsed(refunds, m.user, m.key)
           /\ tickets' = Voided(o)
           /\ orders' = Transitioned({o}, "REFUNDED")
           /\ inventory' = [inventory EXCEPT ![m.slot].sold = @ - orders[o].quantity]
           /\ refunds' = refunds \cup {[user |-> m.user, key |-> m.key, order |-> o]}
    /\ Done(w)
    /\ UNCHANGED <<reschedules, validations, clock>>

-----------------------------------------------------------------------------
(* reschedule_ticket_order.  Only the owner may move an order, and does so *)
(* under the schedule lock.                                                *)

LockToReschedule(w, u, k, o, target) ==
    /\ txn[w] = Idle
    /\ ~ KeyUsed(reschedules, u, k)
    /\ o \in Paid
    /\ orders[o].user = u
    /\ Lock(u, w)
    /\ orders[o].slot # target
    /\ TypeOf[orders[o].slot] = TypeOf[target]
    /\ ~ DateOver(target)
    /\ Remember(w, Moving(u, k, o, orders[o].version, orders[o].slot, target))
    /\ UNCHANGED <<database, clock>>

MovedRow(row, target) == [row EXCEPT !.slot = target, !.version = @ + 1]

CommitReschedule(w) ==
    /\ txn[w].op = "reschedule"
    /\ LET m == txn[w]
           o == m.order
           q == orders[o].quantity
       IN  /\ Available(m.target) >= q
           /\ Cardinality(Issued(o)) = q
           /\ inventory[m.slot].sold >= q
           /\ Matches(o, "PAID", m.version)
           /\ ~ KeyUsed(reschedules, m.user, m.key)
           /\ inventory' = [inventory EXCEPT ![m.target].sold = @ + q,
                                             ![m.slot].sold = @ - q]
           /\ orders' = [orders EXCEPT ![o] = MovedRow(@, m.target)]
           /\ tickets' = WithTickets(Voided(o), NewTickets(o, m.version + 1, q), m.target)
           /\ reschedules' = reschedules \cup
                  {[user |-> m.user, key |-> m.key, order |-> o,
                    source |-> m.slot, target |-> m.target]}
    /\ Done(w)
    /\ UNCHANGED <<refunds, validations, clock>>

-----------------------------------------------------------------------------
(* create_ticket_qr_response signs the slot and the version of a ticket    *)
(* that is issued, so every ticket has had this credential; the gate may be*)
(* shown it at any later time, and validate_ticket_at_gate admits on it.   *)

(* Bug: a gate does not recognise a repeated request.                      *)
RequestForgotten(q) == FALSE

RequestSeen(q) == \E v \in validations : v.request = q

Credential(t) == [ticket |-> t, slot |-> tickets[t].slot, version |-> 1]

(* Bug: a ticket is used unless it has been used before.                   *)
TakesUnlessUsed(t, version) == tickets[t].status # "USED"

(* What the UPDATE that uses a ticket matches. *)
Takes(t, version) == tickets[t].status = "ISSUED" /\ tickets[t].version = version

ReadAtGate(w, q, t) ==
    /\ txn[w] = Idle
    /\ ~ RequestSeen(q)
    /\ LET claims == Credential(t)
           ticket == tickets[t]
       IN  /\ t[1] \in Paid
           /\ ticket.slot = claims.slot
           /\ ticket.version = claims.version
           /\ GateOpen(ticket.slot)
           /\ Remember(w, Admitting(q, t, claims.version))
    /\ UNCHANGED <<database, clock, scheduleLock>>

UsedRow(row) == [row EXCEPT !.status = "USED", !.version = @ + 1]

CommitAdmission(w) ==
    /\ txn[w].op = "gate"
    /\ LET m == txn[w]
           t == m.ticket
       IN  /\ Takes(t, m.version)
           /\ ~ RequestSeen(m.request)
           /\ tickets' = [tickets EXCEPT ![t] = UsedRow(@)]
           /\ validations' = validations \cup {[request |-> m.request, ticket |-> t]}
    /\ Done(w)
    /\ UNCHANGED <<orders, inventory, refunds, reschedules, clock>>

-----------------------------------------------------------------------------
(* A request that ends without a COMMIT: it is refused, replays an earlier *)
(* answer, loses a conditional UPDATE or a unique constraint, the payment  *)
(* provider or the database fails, or its client or the process goes away. *)
Rollback(w) ==
    /\ txn[w] # Idle
    /\ Done(w)
    /\ UNCHANGED <<database, clock>>

Serve(w) ==
    \/ \E u \in Users, next \in {"reply", "create", "cancel"} : BeginSweep(w, u, next)
    \/ CommitSweep(w)
    \/ \E k \in Keys, s \in Slots, q \in Quantities : LockToCreate(w, k, s, q)
    \/ \E o \in Orders : CommitOrder(w, o)
    \/ \E u \in Users, k \in Keys, o \in DOMAIN orders : ReadToPay(w, u, k, o)
    \/ CommitPayment(w)
    \/ \E o \in DOMAIN orders : ReadToCancel(w, o)
    \/ CommitCancel(w)
    \/ \E u \in Users, k \in Keys, o \in DOMAIN orders : ReadToRefund(w, u, k, o)
    \/ ReadItemToRefund(w)
    \/ CommitRefund(w)
    \/ \E u \in Users, k \in Keys, o \in DOMAIN orders, s \in Slots :
           LockToReschedule(w, u, k, o, s)
    \/ CommitReschedule(w)
    \/ \E q \in GateRequests, t \in DOMAIN tickets : ReadAtGate(w, q, t)
    \/ CommitAdmission(w)
    \/ Rollback(w)

Next ==
    \/ \E o \in Orders : HoldLapses(o)
    \/ \E s \in Slots : ClockAdvances(s)
    \/ \E w \in Workers : Serve(w)

Spec == Init /\ [][Next]_vars

-----------------------------------------------------------------------------
(* Fairness.  A request the server has started is served to its end, and   *)
(* the database does not fail every commit of a sweep.  Nothing in the     *)
(* server sweeps by itself: that due holds are released also needs clients *)
(* that keep asking for orders.                                            *)

Finish(w) == \/ CommitSweep(w) \/ CommitPayment(w) \/ CommitCancel(w)
             \/ CommitRefund(w) \/ CommitReschedule(w) \/ CommitAdmission(w)
             \/ \E o \in Orders : CommitOrder(w, o)
             \/ Rollback(w)

Lists(u) == \E w \in Workers : BeginSweep(w, u, "reply")

IsListed(u) == \E w \in Workers : /\ txn[w].op = "sweep"
                                  /\ txn[w].next = "reply" /\ txn[w].user = u
                                  /\ CommitSweep(w)

Fairness ==
    /\ \A w \in Workers : WF_vars(Finish(w))
    /\ \A u \in Users : SF_vars(Lists(u)) /\ SF_vars(IsListed(u))

FairSpec == Spec /\ Fairness

-----------------------------------------------------------------------------
(* Type invariant.                                                         *)
TypeOK ==
    /\ DOMAIN orders \subseteq Orders
    /\ \A o \in DOMAIN orders : orders[o] \in OrderRow
    /\ due \subseteq Orders
    /\ inventory \in [Slots -> [reserved : Nat, sold : Nat]]
    /\ \A t \in DOMAIN tickets : t \in TicketId /\ tickets[t] \in TicketRow
    /\ refunds \subseteq RefundRow
    /\ reschedules \subseteq RescheduleRow
    /\ \A v \in validations : v \in ValidationRow
    /\ phase \in [Slots -> 0 .. 4]
    /\ scheduleLock \in [Users -> Workers \cup {Nobody}]
    /\ txn \in [Workers -> Txn]

(* The counters of a slot are exactly the units its pending and its paid   *)
(* orders hold: no interleaving of expiry, payment, cancellation, refund   *)
(* and reschedule releases a unit twice, loses one, or takes it from the   *)
(* wrong slot.                                                             *)
LedgerExact ==
    \A s \in Slots : /\ inventory[s].reserved = UnitCount(Pending, s)
                     /\ inventory[s].sold = UnitCount(Paid, s)

(* No slot is oversold, counted in orders and not in the counters.         *)
CapacityRespected ==
    \A s \in Slots : UnitCount(Pending, s) + UnitCount(Paid, s) =< Capacity[s]

Live(o) == {t \in DOMAIN tickets : t[1] = o /\ tickets[t].status # "VOID"}

(* A paid order has exactly as many unvoided tickets as it bought, all for *)
(* the slot it is booked on now; an order in any other status has none, so *)
(* a refunded order has never been used to enter.                          *)
PaidOrderHoldsItsTickets ==
    \A o \in DOMAIN orders :
        IF o \in Paid
        THEN /\ Cardinality(Live(o)) = orders[o].quantity
             /\ \A t \in Live(o) : tickets[t].slot = orders[o].slot
        ELSE Live(o) = {}

(* The after-sale tables tell the whole story of an order: one refund row  *)
(* exactly when it is refunded, and one row for every time it was moved,   *)
(* however often the requests were repeated or raced.                      *)
AfterSalesRecorded ==
    \A o \in DOMAIN orders :
        LET row == orders[o]
            moves == Cardinality({r \in reschedules : r.order = o})
        IN  /\ Cardinality({r \in refunds : r.order = o})
                 = (IF row.status = "REFUNDED" THEN 1 ELSE 0)
            /\ row.version = moves + (CASE row.status = "PENDING_PAYMENT" -> 1
                                        [] row.status = "REFUNDED" -> 3
                                        [] OTHER -> 2)

(* Every admission is recorded once, and only for a ticket that was used:  *)
(* neither a repeated request_id nor two gates reading one QR code admit   *)
(* twice.                                                                  *)
AdmissionsRecorded ==
    /\ \A v1, v2 \in validations :
           v1.request = v2.request \/ v1.ticket = v2.ticket => v1 = v2
    /\ {v.ticket : v \in validations} = {t \in DOMAIN tickets : tickets[t].status = "USED"}

(* A user's idempotency key names at most one order, even when the same    *)
(* request is served twice at once.                                        *)
KeyNamesOneOrder ==
    \A o, p \in DOMAIN orders :
        orders[o].user = orders[p].user /\ orders[o].key = orders[p].key => o = p

(* docs/data-model.md, invariant 1: "same key/different hash conflicts". A *)
(* payment's hash covers the identifier of the order, so one payment key of*)
(* a user should not pay two orders.                                       *)
PaymentKeyNamesOneOrder ==
    \A o, p \in DOMAIN orders :
        orders[o].user = orders[p].user /\ orders[o].payKey = orders[p].payKey
        => o = p \/ orders[o].payKey = NoKey

(* A gate lets in only on a ticket whose order is still paid and is booked *)
(* on the slot of the ticket, although the gate checked the order earlier  *)
(* and does not check it again when it takes the ticket.                   *)
AdmittedOnCurrentTicket ==
    [][\A t \in DOMAIN tickets :
          tickets[t].status # "USED" /\ tickets'[t].status = "USED"
          => t[1] \in Paid /\ orders[t[1]].slot = tickets[t].slot]_vars

(* What is over stays over: no late commit revives a refunded, expired or  *)
(* cancelled order or a used or voided ticket.                             *)
FinalStatesStay ==
    [][/\ \A o \in DOMAIN orders :
              orders[o].status \in {"REFUNDED", "EXPIRED", "CANCELLED"}
              => orders'[o] = orders[o]
       /\ \A t \in DOMAIN tickets :
              tickets[t].status \in {"USED", "VOID"} => tickets'[t] = tickets[t]]_vars

(* A lapsed hold is released in the end, whatever requests race with the   *)
(* sweep and however few orders a sweep may read.                          *)
LapsedHoldReleased ==
    \A o \in Orders : (o \in due) ~> (o \notin due)

-----------------------------------------------------------------------------
(* The inductive invariant behind the safety properties.                   *)

(* The tickets of an order carry versions it has reached; unvoided ones    *)
(* are those the last payment or reschedule issued, for the slot booked.   *)
TicketsCurrent ==
    /\ \A t \in DOMAIN tickets :
           /\ t[1] \in DOMAIN orders
           /\ t[2] =< orders[t[1]].version
    /\ \A t \in DOMAIN tickets :
           tickets[t].status # "VOID" =>
               /\ t[1] \in Paid
               /\ t[2] = orders[t[1]].version
               /\ t[3] =< orders[t[1]].quantity
               /\ tickets[t].slot = orders[t[1]].slot
    /\ \A o \in Paid : NewTickets(o, orders[o].version, orders[o].quantity)
                           \subseteq Live(o)

(* What a request has read is about rows that still exist, and a snapshot  *)
(* whose version is still current agrees with the row.                     *)
SnapshotSound(m) ==
    /\ m.op \in {"open refund", "refund", "reschedule"} =>
           /\ m.order \in DOMAIN orders
           /\ m.version =< orders[m.order].version
    /\ m.op \in {"refund", "reschedule"} =>
           (m.version = orders[m.order].version => m.slot = orders[m.order].slot)
    /\ m.op = "reschedule" => m.slot # m.target
    /\ m.op = "gate" => m.ticket \in DOMAIN tickets

SnapshotsSound == \A w \in Workers : SnapshotSound(txn[w])

CountersBounded ==
    \A s \in Slots : inventory[s].reserved + inventory[s].sold =< Capacity[s]

LedgerInv == TypeOK /\ LedgerExact /\ CountersBounded /\ TicketsCurrent /\ SnapshotsSound

-----------------------------------------------------------------------------
(* The service keeps the promise of TicketLedger: the units of the pending *)
(* orders are the held ones and the units of the paid orders the sold ones.*)
Ledger == INSTANCE TicketLedger
            WITH held <- [s \in Slots |-> Units(Pending, s)],
                 sold <- [s \in Slots |-> Units(Paid, s)]

(* Every step of every request, at the moment its transaction commits, is  *)
(* one transfer of units or leaves the ledger alone.                       *)
ImplementsLedger == Ledger!Spec
=============================================================================
