--------------------------- MODULE TicketingProofs ---------------------------
(***************************************************************************)
(* Proofs about the ticket ledger, for any number of users, orders, slots, *)
(* keys and concurrent workers and for every capacity.                     *)
(***************************************************************************)
EXTENDS Ticketing, CountingLemmas, FiniteSetTheorems, TLAPS

-----------------------------------------------------------------------------
(* Counting.                                                               *)

(* The units of any set of orders can be counted. *)
LEMMA BookedUnitsFinite ==
  ASSUME NEW rows, NEW S \in SUBSET Orders, NEW s
  PROVE  IsFiniteSet(BookedUnits(rows, S, s))
<1>1. IsFiniteSet(S)
  BY OrdersAssumption, FS_Subset
<1>2. IsFiniteSet(Quantities)
  BY QuantityAssumption, FS_Interval DEF Quantities
<1>3. IsFiniteSet(S \X Quantities)
  BY <1>1, <1>2, FS_Product
<1>4. BookedUnits(rows, S, s) \subseteq S \X Quantities
  BY DEF BookedUnits
<1>. QED
  BY <1>3, <1>4, FS_Subset

-----------------------------------------------------------------------------
(* The units of sets of orders.  "rows" is the table of orders, before or  *)
(* after a step.                                                           *)

LEMMA UnitsAlgebra ==
  ASSUME NEW rows, NEW A, NEW B, NEW s
  PROVE  /\ BookedUnits(rows, A \cup B, s)
              = BookedUnits(rows, A, s) \cup BookedUnits(rows, B, s)
         /\ BookedUnits(rows, A \ B, s)
              = BookedUnits(rows, A, s) \ BookedUnits(rows, B, s)
         /\ A \cap B = {} =>
              BookedUnits(rows, A, s) \cap BookedUnits(rows, B, s) = {}
         /\ B \subseteq A => BookedUnits(rows, B, s) \subseteq BookedUnits(rows, A, s)
BY DEF BookedUnits

(* Orders that keep their slot and quantity keep their units. *)
LEMMA UnitsKept ==
  ASSUME NEW rows, NEW new, NEW A, NEW s,
         \A o \in A : new[o].slot = rows[o].slot /\ new[o].quantity = rows[o].quantity
  PROVE  BookedUnits(new, A, s) = BookedUnits(rows, A, s)
BY DEF BookedUnits

(* An order has as many units of its slot as it bought, and none of others.*)
BookedBy(rows, o, s) == IF rows[o].slot = s THEN rows[o].quantity ELSE 0

LEMMA UnitsOfOrder ==
  ASSUME NEW rows, NEW o, NEW s, rows[o].quantity \in Quantities
  PROVE  /\ IsFiniteSet(BookedUnits(rows, {o}, s))
         /\ BookedUnits(rows, {o}, s)
              = (IF rows[o].slot = s THEN {o} \X (1 .. rows[o].quantity) ELSE {})
         /\ Cardinality(BookedUnits(rows, {o}, s)) = BookedBy(rows, o, s)
         /\ BookedBy(rows, o, s) \in Nat
<1>1. BookedUnits(rows, {o}, s)
        = IF rows[o].slot = s THEN {o} \X (1 .. rows[o].quantity) ELSE {}
  BY QuantityAssumption DEF BookedUnits, Quantities
<1>2. rows[o].quantity \in Nat
  BY QuantityAssumption DEF Quantities
<1>3. /\ IsFiniteSet({o} \X (1 .. rows[o].quantity))
      /\ Cardinality({o} \X (1 .. rows[o].quantity)) = rows[o].quantity
  BY <1>2, ColumnCount
<1>. QED
  BY <1>1, <1>2, <1>3, FS_EmptySet DEF BookedBy

(* C is what a set A of orders is after it lost B, or gained o. *)
Lost(A, B, C)         == A \subseteq Orders /\ B \subseteq A /\ C = A \ B
Gained(rows, A, o, C) == /\ A \subseteq Orders /\ o \notin A /\ C = A \cup {o}
                         /\ rows[o].quantity \in Quantities

LEMMA UnitsTaken ==
  ASSUME NEW rows, NEW A, NEW B, NEW C, NEW s, Lost(A, B, C)
  PROVE  /\ Cardinality(BookedUnits(rows, A, s)) \in Nat
         /\ Cardinality(BookedUnits(rows, B, s)) \in Nat
         /\ Cardinality(BookedUnits(rows, B, s)) =< Cardinality(BookedUnits(rows, A, s))
         /\ Cardinality(BookedUnits(rows, C, s))
              = Cardinality(BookedUnits(rows, A, s)) - Cardinality(BookedUnits(rows, B, s))
<1>. USE DEF Lost
<1>1. IsFiniteSet(BookedUnits(rows, A, s))
  BY BookedUnitsFinite
<1>2. BookedUnits(rows, B, s) \subseteq BookedUnits(rows, A, s)
  BY UnitsAlgebra
<1>3. BookedUnits(rows, A \ B, s) = BookedUnits(rows, A, s) \ BookedUnits(rows, B, s)
  BY UnitsAlgebra
<1>. QED
  BY <1>1, <1>2, <1>3, CountRemoved, FS_CardinalityType

LEMMA UnitsAdded ==
  ASSUME NEW rows, NEW A, NEW o, NEW C, NEW s, Gained(rows, A, o, C)
  PROVE  /\ Cardinality(BookedUnits(rows, A, s)) \in Nat
         /\ Cardinality(BookedUnits(rows, C, s))
              = Cardinality(BookedUnits(rows, A, s)) + BookedBy(rows, o, s)
         /\ BookedBy(rows, o, s) \in Nat
<1>. USE DEF Gained
<1>1. IsFiniteSet(BookedUnits(rows, A, s))
  BY BookedUnitsFinite
<1>2. /\ BookedUnits(rows, A \cup {o}, s)
           = BookedUnits(rows, A, s) \cup BookedUnits(rows, {o}, s)
      /\ BookedUnits(rows, A, s) \cap BookedUnits(rows, {o}, s) = {}
  <2>1. A \cap {o} = {}
    OBVIOUS
  <2>. QED
    BY <2>1, UnitsAlgebra
<1>3. /\ IsFiniteSet(BookedUnits(rows, {o}, s))
      /\ Cardinality(BookedUnits(rows, {o}, s)) = BookedBy(rows, o, s)
      /\ BookedBy(rows, o, s) \in Nat
  BY UnitsOfOrder
<1>4. Cardinality(BookedUnits(rows, A, s) \cup BookedUnits(rows, {o}, s))
        = Cardinality(BookedUnits(rows, A, s)) + Cardinality(BookedUnits(rows, {o}, s))
  BY <1>1, <1>2, <1>3, CountAdded
<1>. QED
  BY <1>1, <1>2, <1>3, <1>4, FS_CardinalityType

-----------------------------------------------------------------------------
(* Type correctness.                                                       *)

(* What a request has read has the type of the rows it was read from. *)
LEMMA TxnFields ==
  ASSUME NEW m \in Txn
  PROVE  /\ m.op = "sweep" => /\ m.user \in Users /\ m.due \in SUBSET Orders
                              /\ m.next \in {"reply", "create", "cancel"}
         /\ m.op \in {"create", "cancel"} => m.user \in Users
         /\ m.op = "order" => /\ m.user \in Users /\ m.key \in Keys
                              /\ m.slot \in Slots /\ m.quantity \in Quantities
         /\ m.op = "pay" => /\ m.user \in Users /\ m.key \in Keys /\ m.order \in Orders
                            /\ m.version \in Nat /\ m.due \in SUBSET Orders
         /\ m.op = "cancelling" => m.order \in Orders /\ m.version \in Nat
         /\ m.op \in {"open refund", "refund", "reschedule"} =>
                /\ m.user \in Users /\ m.key \in Keys
                /\ m.order \in Orders /\ m.version \in Nat
         /\ m.op \in {"refund", "reschedule"} => m.slot \in Slots
         /\ m.op = "reschedule" => m.target \in Slots
         /\ m.op = "gate" => /\ m.request \in GateRequests /\ m.ticket \in TicketId
                             /\ m.version \in Nat
<1>1. CASE m = Idle
  BY <1>1 DEF Idle
<1>2. CASE m \in SweepTxn
  BY <1>2 DEF SweepTxn
<1>3. CASE m \in SweptTxn
  BY <1>3 DEF SweptTxn
<1>4. CASE m \in OrderTxn
  BY <1>4 DEF OrderTxn
<1>5. CASE m \in PayTxn
  BY <1>5 DEF PayTxn
<1>6. CASE m \in CancelTxn
  BY <1>6 DEF CancelTxn
<1>7. CASE m \in OpenTxn
  BY <1>7 DEF OpenTxn
<1>8. CASE m \in RefundTxn
  BY <1>8 DEF RefundTxn
<1>9. CASE m \in MoveTxn
  BY <1>9 DEF MoveTxn
<1>10. CASE m \in GateTxn
  BY <1>10 DEF GateTxn
<1>. QED
  BY <1>1, <1>2, <1>3, <1>4, <1>5, <1>6, <1>7, <1>8, <1>9, <1>10 DEF Txn

LEMMA TxnRecords ==
  /\ Idle \in Txn
  /\ \A u \in Users, next \in {"reply", "create", "cancel"}, S \in SUBSET Orders :
         Sweeping(next, u, S) \in Txn
  /\ \A u \in Users, next \in {"create", "cancel"} : Swept(next, u) \in Txn
  /\ \A u \in Users, k \in Keys, s \in Slots, q \in Quantities : Ordering(u, k, s, q) \in Txn
  /\ \A u \in Users, k \in Keys, o \in Orders, v \in Nat, S \in SUBSET Orders :
         Paying(u, k, o, v, S) \in Txn
  /\ \A o \in Orders, v \in Nat : Cancelling(o, v) \in Txn
  /\ \A u \in Users, k \in Keys, o \in Orders, v \in Nat :
         /\ Opening(u, k, o, v) \in Txn
         /\ \A s \in Slots : Refunding(u, k, o, v, s) \in Txn
         /\ \A s, t \in Slots : Moving(u, k, o, v, s, t) \in Txn
  /\ \A q \in GateRequests, t \in TicketId, v \in Nat : Admitting(q, t, v) \in Txn
<1>1. \A u \in Users, next \in {"reply", "create", "cancel"}, S \in SUBSET Orders :
          Sweeping(next, u, S) \in SweepTxn
  BY DEF Sweeping, SweepTxn
<1>2. \A u \in Users, next \in {"create", "cancel"} : Swept(next, u) \in SweptTxn
  BY DEF Swept, SweptTxn
<1>3. \A u \in Users, k \in Keys, s \in Slots, q \in Quantities :
          Ordering(u, k, s, q) \in OrderTxn
  BY DEF Ordering, OrderTxn
<1>4. \A u \in Users, k \in Keys, o \in Orders, v \in Nat, S \in SUBSET Orders :
          Paying(u, k, o, v, S) \in PayTxn
  BY DEF Paying, PayTxn
<1>5. \A o \in Orders, v \in Nat : Cancelling(o, v) \in CancelTxn
  BY DEF Cancelling, CancelTxn
<1>6. \A u \in Users, k \in Keys, o \in Orders, v \in Nat :
          Opening(u, k, o, v) \in OpenTxn
  BY DEF Opening, OpenTxn
<1>7. \A u \in Users, k \in Keys, o \in Orders, v \in Nat, s \in Slots :
          Refunding(u, k, o, v, s) \in RefundTxn
  BY DEF Refunding, RefundTxn
<1>8. \A u \in Users, k \in Keys, o \in Orders, v \in Nat, s, t \in Slots :
          Moving(u, k, o, v, s, t) \in MoveTxn
  BY DEF Moving, MoveTxn
<1>9. \A q \in GateRequests, t \in TicketId, v \in Nat : Admitting(q, t, v) \in GateTxn
  BY DEF Admitting, GateTxn
<1>. QED
  BY <1>1, <1>2, <1>3, <1>4, <1>5, <1>6, <1>7, <1>8, <1>9 DEF Txn

(* A worker may remember any well-typed record, and COMMIT frees its lock. *)
LEMMA RememberType ==
  ASSUME NEW w \in Workers, txn \in [Workers -> Txn], NEW m \in Txn, Remember(w, m)
  PROVE  txn' \in [Workers -> Txn]
BY DEF Remember

LEMMA LockTypes ==
  ASSUME NEW w \in Workers, scheduleLock \in [Users -> Workers \cup {Nobody}]
  PROVE  /\ Unlock(w) => scheduleLock' \in [Users -> Workers \cup {Nobody}]
         /\ \A u : Lock(u, w) => scheduleLock' \in [Users -> Workers \cup {Nobody}]
BY DEF Unlock, Lock

-----------------------------------------------------------------------------
(* A request that only reads, or gives up, disturbs nothing but what its   *)
(* worker remembers.                                                       *)

LEMMA ReadPreserves ==
  ASSUME LedgerInv, NEW w \in Workers, NEW m \in Txn, SnapshotSound(m),
         Remember(w, m), UNCHANGED <<database, clock>>,
         scheduleLock' \in [Users -> Workers \cup {Nobody}]
  PROVE  LedgerInv'
<1>. USE DEF LedgerInv, database, clock
<1>1. TypeOK'
  BY RememberType DEF TypeOK, OrderRow
<1>2. LedgerExact'
  BY DEF LedgerExact, UnitCount, Units, Pending, Paid, InStatus
<1>3. CountersBounded'
  BY DEF CountersBounded
<1>4. TicketsCurrent'
  BY DEF TicketsCurrent, Paid, InStatus, Live
<1>5. SnapshotsSound'
  <2>1. \A x \in Workers : txn'[x] = IF x = w THEN m ELSE txn[x]
    BY DEF Remember, TypeOK
  <2>2. \A x \in Workers : SnapshotSound(txn'[x])
    BY <2>1 DEF SnapshotsSound
  <2>. QED
    BY <2>2 DEF SnapshotsSound, SnapshotSound
<1>. QED
  BY <1>1, <1>2, <1>3, <1>4, <1>5

LEMMA IdleSound ==
  /\ SnapshotSound(Idle)
  /\ \A next \in {"create", "cancel"} : \A u : SnapshotSound(Swept(next, u))
BY DEF SnapshotSound, Idle, Swept

LEMMA RollbackPreserves ==
  ASSUME LedgerInv, NEW w \in Workers, Rollback(w)
  PROVE  LedgerInv'
<1>1. scheduleLock' \in [Users -> Workers \cup {Nobody}]
  BY LockTypes DEF Rollback, Done, LedgerInv, TypeOK
<1>. QED
  BY <1>1, IdleSound, TxnRecords, ReadPreserves DEF Rollback, Done

LEMMA BeginSweepPreserves ==
  ASSUME LedgerInv, NEW w \in Workers, NEW u \in Users,
         NEW next \in {"reply", "create", "cancel"}, BeginSweep(w, u, next)
  PROVE  LedgerInv'
<1>1. PICK scope \in SweepScopes(next, u) : \E S \in Selections(scope) :
          Remember(w, Sweeping(next, u, S))
  BY DEF BeginSweep
<1>2. PICK S \in Selections(scope) : Remember(w, Sweeping(next, u, S))
  BY <1>1
<1>3. S \in SUBSET Orders
  BY DEF Selections, Pending, InStatus, LedgerInv, TypeOK
<1>4. Sweeping(next, u, S) \in Txn
  BY <1>3, TxnRecords
<1>5. SnapshotSound(Sweeping(next, u, S))
  BY DEF SnapshotSound, Sweeping
<1>6. /\ UNCHANGED <<database, clock>>
      /\ scheduleLock' \in [Users -> Workers \cup {Nobody}]
  BY DEF BeginSweep, LedgerInv, TypeOK
<1>. QED
  BY <1>2, <1>4, <1>5, <1>6, ReadPreserves

LEMMA LockToCreatePreserves ==
  ASSUME LedgerInv, NEW w \in Workers, NEW k \in Keys, NEW s \in Slots,
         NEW q \in Quantities, LockToCreate(w, k, s, q)
  PROVE  LedgerInv'
<1>. DEFINE u == txn[w].user
            m == Ordering(u, k, s, q)
<1>1. u \in Users
  BY TxnFields DEF LockToCreate, LedgerInv, TypeOK
<1>2. m \in Txn
  BY <1>1, TxnRecords
<1>3. SnapshotSound(m)
  BY DEF SnapshotSound, Ordering
<1>4. scheduleLock' \in [Users -> Workers \cup {Nobody}]
  BY LockTypes DEF LockToCreate, LedgerInv, TypeOK
<1>5. Remember(w, m) /\ UNCHANGED <<database, clock>>
  BY DEF LockToCreate
<1>. HIDE DEF m
<1>. QED
  BY <1>2, <1>3, <1>4, <1>5, ReadPreserves

LEMMA ReadToPayPreserves ==
  ASSUME LedgerInv, NEW w \in Workers, NEW u \in Users, NEW k \in Keys,
         NEW o \in DOMAIN orders, ReadToPay(w, u, k, o)
  PROVE  LedgerInv'
<1>1. PICK S \in Selections({u}) : Remember(w, Paying(u, k, o, orders[o].version, S))
  BY DEF ReadToPay
<1>2. S \in SUBSET Orders /\ o \in Orders /\ orders[o].version \in Nat
  BY DEF Selections, Pending, InStatus, LedgerInv, TypeOK, OrderRow
<1>3. Paying(u, k, o, orders[o].version, S) \in Txn
  BY <1>2, TxnRecords
<1>4. SnapshotSound(Paying(u, k, o, orders[o].version, S))
  BY DEF SnapshotSound, Paying
<1>5. /\ UNCHANGED <<database, clock>>
      /\ scheduleLock' \in [Users -> Workers \cup {Nobody}]
  BY DEF ReadToPay, LedgerInv, TypeOK
<1>. QED
  BY <1>1, <1>3, <1>4, <1>5, ReadPreserves

LEMMA ReadToCancelPreserves ==
  ASSUME LedgerInv, NEW w \in Workers, NEW o \in DOMAIN orders, ReadToCancel(w, o)
  PROVE  LedgerInv'
<1>1. o \in Orders /\ orders[o].version \in Nat
  BY DEF LedgerInv, TypeOK, OrderRow
<1>2. Cancelling(o, orders[o].version) \in Txn
  BY <1>1, TxnRecords
<1>3. SnapshotSound(Cancelling(o, orders[o].version))
  BY DEF SnapshotSound, Cancelling
<1>4. /\ Remember(w, Cancelling(o, orders[o].version))
      /\ UNCHANGED <<database, clock>>
      /\ scheduleLock' \in [Users -> Workers \cup {Nobody}]
  BY DEF ReadToCancel, LedgerInv, TypeOK
<1>. QED
  BY <1>2, <1>3, <1>4, ReadPreserves

LEMMA ReadToRefundPreserves ==
  ASSUME LedgerInv, NEW w \in Workers, NEW u \in Users, NEW k \in Keys,
         NEW o \in DOMAIN orders, ReadToRefund(w, u, k, o)
  PROVE  LedgerInv'
<1>. DEFINE m == Opening(u, k, o, orders[o].version)
<1>1. o \in Orders /\ orders[o].version \in Nat
  BY DEF LedgerInv, TypeOK, OrderRow
<1>2. m \in Txn
  BY <1>1, TxnRecords
<1>3. SnapshotSound(m)
  BY <1>1 DEF SnapshotSound, Opening
<1>4. /\ Remember(w, m) /\ UNCHANGED <<database, clock>>
      /\ scheduleLock' \in [Users -> Workers \cup {Nobody}]
  BY DEF ReadToRefund, LedgerInv, TypeOK
<1>. HIDE DEF m
<1>. QED
  BY <1>2, <1>3, <1>4, ReadPreserves

LEMMA ReadItemToRefundPreserves ==
  ASSUME LedgerInv, NEW w \in Workers, ReadItemToRefund(w)
  PROVE  LedgerInv'
<1>. DEFINE r == txn[w]
            m == Refunding(r.user, r.key, r.order, r.version, orders[r.order].slot)
<1>1. /\ r \in Txn /\ r.op = "open refund" /\ SnapshotSound(r)
      /\ Remember(w, m) /\ UNCHANGED <<database, clock>>
      /\ scheduleLock' \in [Users -> Workers \cup {Nobody}]
  BY DEF ReadItemToRefund, LedgerInv, TypeOK, SnapshotsSound
<1>2. /\ r.user \in Users /\ r.key \in Keys /\ r.order \in Orders /\ r.version \in Nat
  BY <1>1, TxnFields
<1>3. r.order \in DOMAIN orders /\ r.version =< orders[r.order].version
  BY <1>1 DEF SnapshotSound
<1>4. orders[r.order].slot \in Slots
  BY <1>3 DEF LedgerInv, TypeOK, OrderRow
<1>5. m \in Txn
  BY <1>2, <1>4, TxnRecords
<1>6. SnapshotSound(m)
  BY <1>3 DEF SnapshotSound, Refunding
<1>. HIDE DEF m
<1>. QED
  BY <1>1, <1>5, <1>6, ReadPreserves

LEMMA LockToReschedulePreserves ==
  ASSUME LedgerInv, NEW w \in Workers, NEW u \in Users, NEW k \in Keys,
         NEW o \in DOMAIN orders, NEW target \in Slots,
         LockToReschedule(w, u, k, o, target)
  PROVE  LedgerInv'
<1>. DEFINE m == Moving(u, k, o, orders[o].version, orders[o].slot, target)
<1>1. o \in Orders /\ orders[o].version \in Nat /\ orders[o].slot \in Slots
  BY DEF LedgerInv, TypeOK, OrderRow
<1>2. m \in Txn
  BY <1>1, TxnRecords
<1>3. SnapshotSound(m)
  BY <1>1 DEF SnapshotSound, Moving, LockToReschedule
<1>4. /\ Remember(w, m) /\ UNCHANGED <<database, clock>>
      /\ scheduleLock' \in [Users -> Workers \cup {Nobody}]
  BY LockTypes DEF LockToReschedule, LedgerInv, TypeOK
<1>. HIDE DEF m
<1>. QED
  BY <1>2, <1>3, <1>4, ReadPreserves

LEMMA ReadAtGatePreserves ==
  ASSUME LedgerInv, NEW w \in Workers, NEW q \in GateRequests,
         NEW t \in DOMAIN tickets, ReadAtGate(w, q, t)
  PROVE  LedgerInv'
<1>1. t \in TicketId
  BY DEF LedgerInv, TypeOK
<1>2. Admitting(q, t, 1) \in Txn
  BY <1>1, TxnRecords
<1>3. SnapshotSound(Admitting(q, t, 1))
  BY DEF SnapshotSound, Admitting
<1>4. /\ Remember(w, Admitting(q, t, 1)) /\ UNCHANGED <<database, clock>>
      /\ scheduleLock' \in [Users -> Workers \cup {Nobody}]
  BY DEF ReadAtGate, Credential, LedgerInv, TypeOK
<1>. QED
  BY <1>2, <1>3, <1>4, ReadPreserves

(* Time disturbs nothing the invariant speaks of. *)
LEMMA TimePreserves ==
  ASSUME LedgerInv, (\E o \in Orders : HoldLapses(o)) \/ (\E s \in Slots : ClockAdvances(s))
  PROVE  LedgerInv'
<1>. USE DEF LedgerInv
<1>1. /\ UNCHANGED <<database, scheduleLock, txn>>
      /\ due' \subseteq Orders /\ phase' \in [Slots -> 0 .. 4]
  <2>1. CASE \E o \in Orders : HoldLapses(o)
    BY <2>1 DEF HoldLapses, TypeOK
  <2>2. CASE \E s \in Slots : ClockAdvances(s)
    <3>1. PICK s \in Slots : ClockAdvances(s)
      BY <2>2
    <3>2. phase[s] \in 0 .. 4 /\ Horizon[s] \in 0 .. 4 /\ phase[s] < Horizon[s]
      BY <3>1, HorizonAssumption DEF ClockAdvances, TypeOK
    <3>3. phase[s] + 1 \in 0 .. 4
      BY <3>2
    <3>. QED
      BY <3>1, <3>3 DEF ClockAdvances, TypeOK
  <2>. QED
    BY <2>1, <2>2
<1>. USE <1>1 DEF database
<1>2. TypeOK'
  BY DEF TypeOK
<1>3. LedgerExact' /\ CountersBounded'
  BY DEF LedgerExact, CountersBounded, UnitCount, Units, Pending, Paid, InStatus
<1>4. TicketsCurrent'
  BY DEF TicketsCurrent, Paid, InStatus, Live
<1>5. SnapshotsSound'
  BY DEF SnapshotsSound, SnapshotSound
<1>. QED
  BY <1>2, <1>3, <1>4, <1>5

-----------------------------------------------------------------------------
(* What a commit does to the rows of orders and to the counters.           *)

LEMMA RowTransition ==
  ASSUME NEW row \in OrderRow, NEW status \in OrderStatus
  PROVE  /\ row.version + 1 \in Nat
         /\ [row EXCEPT !.status = status, !.version = @ + 1] \in OrderRow
<1>1. row.version + 1 \in Nat
  BY DEF OrderRow
<1>. QED
  BY <1>1 DEF OrderRow

LEMMA TransitionedRows ==
  ASSUME TypeOK, NEW S, NEW status \in OrderStatus
  PROVE  /\ DOMAIN Transitioned(S, status) = DOMAIN orders
         /\ \A o \in DOMAIN orders :
              LET row == Transitioned(S, status)[o]
              IN  /\ row \in OrderRow
                  /\ row.slot = orders[o].slot /\ row.quantity = orders[o].quantity
                  /\ o \notin S => row = orders[o]
                  /\ o \in S => /\ row.status = status
                                /\ row.version = orders[o].version + 1
<1>1. DOMAIN Transitioned(S, status) = DOMAIN orders
  BY DEF Transitioned
<1>2. ASSUME NEW o \in DOMAIN orders
      PROVE  LET row == Transitioned(S, status)[o]
             IN  /\ row \in OrderRow
                 /\ row.slot = orders[o].slot /\ row.quantity = orders[o].quantity
                 /\ o \notin S => row = orders[o]
                 /\ o \in S => /\ row.status = status
                               /\ row.version = orders[o].version + 1
  <2>1. orders[o] \in OrderRow
    BY DEF TypeOK
  <2>2. CASE o \notin S
    BY <2>1, <2>2 DEF Transitioned
  <2>3. CASE o \in S
    <3>1. Transitioned(S, status)[o]
            = [orders[o] EXCEPT !.status = status, !.version = @ + 1]
      BY <2>3 DEF Transitioned
    <3>2. [orders[o] EXCEPT !.status = status, !.version = @ + 1] \in OrderRow
      BY <2>1, RowTransition
    <3>. QED
      BY <2>1, <2>3, <3>1, <3>2 DEF OrderRow
  <2>. QED
    BY <2>2, <2>3
<1>. QED
  BY <1>1, <1>2

LEMMA ReleasedCounters ==
  ASSUME TypeOK, NEW S \in SUBSET Orders, Releasable(S)
  PROVE  /\ Released(S) \in [Slots -> [reserved : Nat, sold : Nat]]
         /\ \A s \in Slots : /\ UnitCount(S, s) \in Nat
                             /\ Released(S)[s].reserved
                                  = inventory[s].reserved - UnitCount(S, s)
                             /\ Released(S)[s].sold = inventory[s].sold
<1>1. \A s \in Slots : UnitCount(S, s) \in Nat
  BY BookedUnitsFinite, FS_CardinalityType DEF UnitCount, Units
<1>2. \A s \in Slots : /\ inventory[s] \in [reserved : Nat, sold : Nat]
                       /\ inventory[s].reserved >= UnitCount(S, s)
  BY DEF TypeOK, Releasable
<1>3. \A s \in Slots : inventory[s].reserved - UnitCount(S, s) \in Nat
  BY <1>1, <1>2
<1>. QED
  BY <1>1, <1>2, <1>3 DEF Released

(* A commit that changes a row gives it a new version, so the snapshots    *)
(* other requests hold of it can only become stale, never wrong.           *)
LEMMA SnapshotsPersist ==
  ASSUME LedgerInv, NEW w \in Workers, NEW m, SnapshotSound(m)', Remember(w, m),
         DOMAIN tickets \subseteq DOMAIN tickets',
         DOMAIN orders \subseteq DOMAIN orders',
         \A o \in DOMAIN orders :
             \/ orders'[o].version = orders[o].version + 1
             \/ orders'[o].version = orders[o].version /\ orders'[o].slot = orders[o].slot
  PROVE  SnapshotsSound'
<1>1. \A x \in Workers : txn'[x] = IF x = w THEN m ELSE txn[x]
  BY DEF Remember, LedgerInv, TypeOK
<1>2. ASSUME NEW x \in Workers, x # w
      PROVE  SnapshotSound(txn[x])'
  <2>. PICK r : r = txn[x]
    OBVIOUS
  <2>1. txn'[x] = r /\ r \in Txn /\ SnapshotSound(r)
    BY <1>1, <1>2 DEF LedgerInv, TypeOK, SnapshotsSound
  <2>2. CASE r.op \in {"open refund", "refund", "reschedule"}
    <3>1. /\ r.order \in DOMAIN orders /\ r.version \in Nat
          /\ r.version =< orders[r.order].version
      BY <2>1, <2>2, TxnFields DEF SnapshotSound
    <3>2. orders[r.order].version \in Nat
      BY <3>1 DEF LedgerInv, TypeOK, OrderRow
    <3>3. /\ r.order \in DOMAIN orders'
          /\ r.version =< orders'[r.order].version
          /\ r.version = orders'[r.order].version =>
                 /\ r.version = orders[r.order].version
                 /\ orders'[r.order].slot = orders[r.order].slot
      BY <3>1, <3>2
    <3>. QED
      BY <2>1, <2>2, <3>3 DEF SnapshotSound
  <2>3. CASE r.op \notin {"open refund", "refund", "reschedule"}
    BY <2>1, <2>3 DEF SnapshotSound
  <2>. QED
    BY <2>2, <2>3
<1>. QED
  BY <1>1, <1>2 DEF SnapshotsSound, SnapshotSound

-----------------------------------------------------------------------------
(* The commits that end pending orders.                                    *)

LEMMA EndedOrders ==
  ASSUME LedgerInv, NEW S \in SUBSET Pending, NEW status \in {"EXPIRED", "CANCELLED"}
  PROVE  LET new == Transitioned(S, status)
         IN  /\ DOMAIN new = DOMAIN orders
             /\ \A o \in DOMAIN orders :
                    /\ new[o] \in OrderRow
                    /\ new[o].slot = orders[o].slot
                    /\ new[o].quantity = orders[o].quantity
                    /\ o \notin S => new[o] = orders[o]
                    /\ o \in S => new[o].version = orders[o].version + 1
             /\ {o \in DOMAIN new : new[o].status = "PENDING_PAYMENT"} = Pending \ S
             /\ {o \in DOMAIN new : new[o].status = "PAID"} = Paid
<1>1. status \in OrderStatus /\ TypeOK
  BY DEF OrderStatus, LedgerInv
<1>2. status # "PENDING_PAYMENT" /\ status # "PAID"
  OBVIOUS
<1>. QED
  BY <1>1, <1>2, TransitionedRows DEF Pending, Paid, InStatus

LEMMA ReleasePreserves ==
  ASSUME LedgerInv, NEW w \in Workers, NEW S \in SUBSET Pending,
         NEW status \in {"EXPIRED", "CANCELLED"}, Releasable(S),
         orders' = Transitioned(S, status), inventory' = Released(S),
         due' = due \ S,
         UNCHANGED <<tickets, refunds, reschedules, validations, phase>>,
         NEW m \in Txn, Remember(w, m), SnapshotSound(m)',
         scheduleLock' \in [Users -> Workers \cup {Nobody}]
  PROVE  LedgerInv'
<1>. USE DEF LedgerInv
<1>1. /\ Pending \subseteq Orders /\ Paid \subseteq Orders
      /\ S \subseteq Pending /\ S \in SUBSET Orders
  BY DEF Pending, Paid, InStatus, TypeOK
<1>2. /\ DOMAIN orders' = DOMAIN orders
      /\ \A o \in DOMAIN orders :
             /\ orders'[o] \in OrderRow
             /\ orders'[o].slot = orders[o].slot
             /\ orders'[o].quantity = orders[o].quantity
             /\ o \notin S => orders'[o] = orders[o]
             /\ o \in S => orders'[o].version = orders[o].version + 1
      /\ Pending' = Pending \ S
      /\ Paid' = Paid
  BY EndedOrders DEF Pending, Paid, InStatus
<1>3. /\ inventory' \in [Slots -> [reserved : Nat, sold : Nat]]
      /\ \A s \in Slots : /\ UnitCount(S, s) \in Nat
                          /\ inventory'[s].reserved = inventory[s].reserved - UnitCount(S, s)
                          /\ inventory'[s].sold = inventory[s].sold
  BY <1>1, ReleasedCounters
<1>4. TypeOK'
  BY <1>2, <1>3, RememberType DEF TypeOK
<1>5. LedgerExact'
  <2>1. ASSUME NEW s \in Slots
        PROVE  /\ Cardinality(BookedUnits(orders', Pending', s))
                    = UnitCount(Pending, s) - UnitCount(S, s)
               /\ BookedUnits(orders', Paid', s) = BookedUnits(orders, Paid, s)
    <3>1. /\ \A o \in Pending' : /\ orders'[o].slot = orders[o].slot
                                /\ orders'[o].quantity = orders[o].quantity
          /\ \A o \in Paid' : /\ orders'[o].slot = orders[o].slot
                             /\ orders'[o].quantity = orders[o].quantity
      BY <1>2 DEF Pending, Paid, InStatus
    <3>2. /\ BookedUnits(orders', Pending', s) = BookedUnits(orders, Pending', s)
          /\ BookedUnits(orders', Paid', s) = BookedUnits(orders, Paid', s)
      BY <3>1, UnitsKept
    <3>3. Cardinality(BookedUnits(orders, Pending', s))
            = Cardinality(BookedUnits(orders, Pending, s))
              - Cardinality(BookedUnits(orders, S, s))
      <4>1. Lost(Pending, S, Pending')
        BY <1>1, <1>2 DEF Lost
      <4>. QED
        BY <4>1, UnitsTaken
    <3>. QED
      BY <1>2, <3>2, <3>3 DEF UnitCount, Units
  <2>2. \A s \in Slots : /\ inventory[s].reserved = UnitCount(Pending, s)
                         /\ inventory[s].sold = UnitCount(Paid, s)
    BY DEF LedgerExact
  <2>. QED
    BY <1>2, <1>3, <2>1, <2>2, ZenonT(60) DEF LedgerExact, UnitCount, Units
<1>6. CountersBounded'
  <2>1. ASSUME NEW s \in Slots
        PROVE  inventory'[s].reserved + inventory'[s].sold =< Capacity[s]
    <3>1. /\ inventory[s] \in [reserved : Nat, sold : Nat]
          /\ inventory[s].reserved + inventory[s].sold =< Capacity[s]
          /\ Capacity[s] \in Nat
      BY CapacityAssumption DEF TypeOK, CountersBounded
    <3>. QED
      BY <1>3, <3>1
  <2>. QED
    BY <2>1 DEF CountersBounded
<1>7. TicketsCurrent'
  <2>1. \A t \in DOMAIN tickets :
            /\ t[1] \in DOMAIN orders' /\ t[2] =< orders'[t[1]].version
    <3>1. \A t \in DOMAIN tickets : /\ t[1] \in DOMAIN orders /\ t[2] \in Nat
                                    /\ t[2] =< orders[t[1]].version
                                    /\ orders[t[1]].version \in Nat
      BY DEF TicketsCurrent, TypeOK, TicketId, OrderRow
    <3>. QED
      BY <1>2, <3>1
  <2>2. \A o \in Paid : o \in DOMAIN orders /\ orders'[o] = orders[o]
    BY <1>2 DEF Pending, Paid, InStatus
  <2>. QED
    BY <1>2, <2>1, <2>2 DEF TicketsCurrent, Live
<1>8. SnapshotsSound'
  BY <1>2, SnapshotsPersist
<1>. QED
  BY <1>4, <1>5, <1>6, <1>7, <1>8

LEMMA CommitSweepPreserves ==
  ASSUME LedgerInv, NEW w \in Workers, CommitSweep(w)
  PROVE  LedgerInv'
<1>1. txn[w] \in Txn /\ txn[w].op = "sweep"
  BY DEF CommitSweep, LedgerInv, TypeOK
<1>2. PICK m : m = IF txn[w].next = "reply" THEN Idle ELSE Swept(txn[w].next, txn[w].user)
  OBVIOUS
<1>3. m \in Txn
  BY <1>1, <1>2, TxnFields, TxnRecords
<1>4. m.op \in {"idle", "create", "cancel"}
  BY <1>1, <1>2, TxnFields DEF Idle, Swept
<1>5. SnapshotSound(m)'
  BY <1>4 DEF SnapshotSound
<1>6. PICK S : S = StillDue(txn[w].due)
  OBVIOUS
<1>7. S \in SUBSET Pending
  BY <1>6 DEF StillDue
<1>8. /\ Releasable(S) /\ orders' = Transitioned(S, "EXPIRED")
      /\ inventory' = Released(S) /\ due' = due \ S
      /\ UNCHANGED <<tickets, refunds, reschedules, validations, phase>>
      /\ scheduleLock' \in [Users -> Workers \cup {Nobody}]
      /\ Remember(w, m)
  BY <1>2, <1>6 DEF CommitSweep, LedgerInv, TypeOK
<1>. QED
  BY <1>3, <1>5, <1>7, <1>8, ReleasePreserves

(* What every commit that ends a request does to its worker. *)
LEMMA DoneSound ==
  ASSUME LedgerInv, NEW w \in Workers, Done(w)
  PROVE  /\ Remember(w, Idle) /\ Idle \in Txn /\ SnapshotSound(Idle)'
         /\ txn' \in [Workers -> Txn]
         /\ scheduleLock' \in [Users -> Workers \cup {Nobody}]
<1>1. SnapshotSound(Idle)'
  BY DEF SnapshotSound, Idle
<1>. QED
  BY <1>1, TxnRecords, RememberType, LockTypes DEF Done, LedgerInv, TypeOK

LEMMA CommitCancelPreserves ==
  ASSUME LedgerInv, NEW w \in Workers, CommitCancel(w)
  PROVE  LedgerInv'
<1>1. PICK o : o = txn[w].order
  OBVIOUS
<1>2. {o} \in SUBSET Pending
  BY <1>1 DEF CommitCancel, Matches, Pending
<1>3. /\ Releasable({o}) /\ orders' = Transitioned({o}, "CANCELLED")
      /\ inventory' = Released({o}) /\ due' = due \ {o} /\ Done(w)
      /\ UNCHANGED <<tickets, refunds, reschedules, validations, phase>>
  BY <1>1 DEF CommitCancel
<1>. QED
  BY <1>2, <1>3, DoneSound, ReleasePreserves

-----------------------------------------------------------------------------
(* Tickets.                                                                *)

(* The tickets issued together are as many as were bought. *)
LEMMA NewTicketsType ==
  ASSUME NEW o \in Orders, NEW v \in Nat, NEW q \in Quantities
  PROVE  /\ q \in Nat
         /\ NewTickets(o, v, q) \subseteq TicketId
         /\ \A t \in NewTickets(o, v, q) : t[1] = o /\ t[2] = v /\ t[3] \in Nat /\ t[3] =< q
         /\ \A t \in TicketId :
                t[1] = o /\ t[2] = v /\ t[3] =< q => t \in NewTickets(o, v, q)
         /\ IsFiniteSet(NewTickets(o, v, q))
         /\ Cardinality(NewTickets(o, v, q)) = q
<1>1. q \in Nat /\ 1 .. q \subseteq Quantities
  BY QuantityAssumption DEF Quantities
<1>2. /\ NewTickets(o, v, q) \subseteq TicketId
      /\ \A t \in NewTickets(o, v, q) : t[1] = o /\ t[2] = v /\ t[3] \in Nat /\ t[3] =< q
  BY <1>1 DEF NewTickets, TicketId
<1>3. ASSUME NEW t \in TicketId, t[1] = o, t[2] = v, t[3] =< q
      PROVE  t \in NewTickets(o, v, q)
  <2>1. t = <<o, v, t[3]>> /\ t[3] \in Quantities
    BY <1>3 DEF TicketId
  <2>2. t[3] \in 1 .. q
    BY <1>1, <1>3, <2>1, QuantityAssumption DEF Quantities
  <2>3. <<o, v, t[3]>> \in NewTickets(o, v, q)
    BY <2>2 DEF NewTickets
  <2>. QED
    BY <2>1, <2>3
<1>4. ExistsBijection(1 .. q, NewTickets(o, v, q))
  <2>. DEFINE number == [i \in 1 .. q |-> <<o, v, i>>]
  <2>1. number \in [1 .. q -> NewTickets(o, v, q)]
    BY DEF NewTickets
  <2>2. \A i, j \in 1 .. q : number[i] = number[j] => i = j
    OBVIOUS
  <2>3. \A t \in NewTickets(o, v, q) : \E i \in 1 .. q : number[i] = t
    BY DEF NewTickets
  <2>. HIDE DEF number
  <2>4. number \in Bijection(1 .. q, NewTickets(o, v, q))
    BY <2>1, <2>2, <2>3 DEF Bijection, Injection, Surjection, IsInjective
  <2>. QED
    BY <2>4 DEF ExistsBijection
<1>5. IsFiniteSet(1 .. q) /\ Cardinality(1 .. q) = q
  BY <1>1, FS_Interval
<1>. QED
  BY <1>1, <1>2, <1>3, <1>4, <1>5, FS_Bijection

(* The unvoided tickets of an order are the ones its last payment or       *)
(* reschedule issued; if as many are still unused as it bought, those are  *)
(* all of them.                                                            *)
LEMMA LiveTickets ==
  ASSUME TypeOK, TicketsCurrent, NEW o \in Paid
  PROVE  /\ Live(o) = NewTickets(o, orders[o].version, orders[o].quantity)
         /\ Cardinality(Live(o)) = orders[o].quantity
         /\ Cardinality(Issued(o)) = orders[o].quantity => Issued(o) = Live(o)
<1>. DEFINE N == NewTickets(o, orders[o].version, orders[o].quantity)
<1>1. /\ o \in DOMAIN orders /\ o \in Orders /\ orders[o].version \in Nat
      /\ orders[o].quantity \in Quantities
  BY DEF TypeOK, OrderRow, Paid, InStatus
<1>2. N \subseteq Live(o)
  BY DEF TicketsCurrent
<1>3. Live(o) \subseteq N
  <2>1. ASSUME NEW t \in Live(o)
        PROVE  t \in N
    <3>1. /\ t \in TicketId /\ t[1] = o /\ t[2] = orders[o].version
          /\ t[3] =< orders[o].quantity
      BY DEF Live, TypeOK, TicketsCurrent
    <3>. QED
      BY <1>1, <3>1, NewTicketsType
  <2>. QED
    BY <2>1
<1>4. Live(o) = N
  BY <1>2, <1>3
<1>5. IsFiniteSet(N) /\ Cardinality(N) = orders[o].quantity
  BY <1>1, NewTicketsType
<1>6. Issued(o) \subseteq Live(o)
  BY DEF Issued, Live
<1>. HIDE DEF N
<1>7. Cardinality(Issued(o)) = orders[o].quantity => Issued(o) = Live(o)
  BY <1>4, <1>5, <1>6, FS_Subset
<1>. QED
  BY <1>4, <1>5, <1>7 DEF N

(* No ticket has the version its order will have next. *)
LEMMA NewTicketsAreNew ==
  ASSUME TypeOK, TicketsCurrent, NEW o \in DOMAIN orders
  PROVE  \A t \in DOMAIN tickets :
             t[1] = o => t[2] \in Nat /\ t[2] =< orders[o].version
                                      /\ t[2] # orders[o].version + 1
<1>1. ASSUME NEW t \in DOMAIN tickets, t[1] = o
      PROVE  t[2] \in Nat /\ orders[o].version \in Nat /\ t[2] =< orders[o].version
  BY <1>1 DEF TypeOK, TicketsCurrent, TicketId, OrderRow
<1>. QED
  BY <1>1

-----------------------------------------------------------------------------
(* Creating an order.                                                      *)

LEMMA CommitOrderPreserves ==
  ASSUME LedgerInv, NEW w \in Workers, NEW o \in Orders, CommitOrder(w, o)
  PROVE  LedgerInv'
<1>. USE DEF LedgerInv
<1>1. PICK m : m = txn[w]
  OBVIOUS
<1>2. /\ m \in Txn /\ m.op = "order" /\ o \notin DOMAIN orders
      /\ m.user \in Users /\ m.key \in Keys /\ m.slot \in Slots
      /\ m.quantity \in Quantities /\ m.quantity \in Nat
      /\ Available(m.slot) >= m.quantity
  <2>1. /\ m \in Txn /\ m.op = "order" /\ o \notin DOMAIN orders
        /\ Available(m.slot) >= m.quantity
    BY <1>1 DEF CommitOrder, TypeOK
  <2>2. /\ m.user \in Users /\ m.key \in Keys /\ m.slot \in Slots
        /\ m.quantity \in Quantities
    BY <2>1, TxnFields
  <2>. QED
    BY <2>1, <2>2, QuantityAssumption DEF Quantities
<1>3. PICK row : row = [status |-> "PENDING_PAYMENT", user |-> m.user,
                        key |-> m.key, slot |-> m.slot, quantity |-> m.quantity,
                        version |-> 1, payKey |-> NoKey]
  OBVIOUS
<1>4. row \in OrderRow
  BY <1>2, <1>3 DEF OrderRow, OrderStatus
<1>5. /\ DOMAIN orders' = DOMAIN orders \cup {o}
      /\ orders'[o] = row
      /\ \A p \in DOMAIN orders : p # o /\ orders'[p] = orders[p]
  BY <1>1, <1>2, <1>3 DEF CommitOrder
<1>6. /\ Pending' = Pending \cup {o} /\ o \notin Pending /\ Pending \subseteq Orders
      /\ Paid' = Paid /\ o \notin Paid
  BY <1>2, <1>3, <1>5 DEF Pending, Paid, InStatus, TypeOK
<1>7. /\ inventory' = [inventory EXCEPT ![m.slot].reserved = @ + m.quantity]
      /\ UNCHANGED <<tickets, refunds, reschedules, validations, due, phase>>
      /\ Done(w)
  BY <1>1 DEF CommitOrder, clock
<1>8. \A s \in Slots :
          /\ inventory[s].reserved \in Nat /\ inventory[s].sold \in Nat
          /\ inventory'[s] \in [reserved : Nat, sold : Nat]
          /\ inventory'[s].sold = inventory[s].sold
          /\ inventory'[s].reserved = inventory[s].reserved + BookedBy(orders', o, s)
  BY <1>2, <1>3, <1>5, <1>7 DEF TypeOK, BookedBy
<1>9. TypeOK'
  <2>1. inventory' \in [Slots -> [reserved : Nat, sold : Nat]]
    BY <1>7, <1>8 DEF TypeOK
  <2>2. DOMAIN orders' \subseteq Orders /\ \A p \in DOMAIN orders' : orders'[p] \in OrderRow
    BY <1>4, <1>5 DEF TypeOK
  <2>3. /\ txn' \in [Workers -> Txn]
        /\ scheduleLock' \in [Users -> Workers \cup {Nobody}]
    BY <1>7, DoneSound
  <2>. QED
    BY <1>7, <2>1, <2>2, <2>3 DEF TypeOK
<1>10. LedgerExact'
  <2>1. ASSUME NEW s \in Slots
        PROVE  /\ Cardinality(BookedUnits(orders', Pending', s))
                    = Cardinality(BookedUnits(orders, Pending, s)) + BookedBy(orders', o, s)
               /\ BookedUnits(orders', Paid', s) = BookedUnits(orders, Paid, s)
    <3>1. orders'[o].quantity \in Quantities
      BY <1>2, <1>3, <1>5
    <3>2. Gained(orders', Pending, o, Pending')
      BY <1>6, <3>1 DEF Gained
    <3>3. Cardinality(BookedUnits(orders', Pending', s))
            = Cardinality(BookedUnits(orders', Pending, s)) + BookedBy(orders', o, s)
      BY <3>2, UnitsAdded
    <3>4. /\ BookedUnits(orders', Pending, s) = BookedUnits(orders, Pending, s)
          /\ BookedUnits(orders', Paid, s) = BookedUnits(orders, Paid, s)
      <4>1. /\ \A p \in Pending : /\ orders'[p].slot = orders[p].slot
                                  /\ orders'[p].quantity = orders[p].quantity
            /\ \A p \in Paid : /\ orders'[p].slot = orders[p].slot
                               /\ orders'[p].quantity = orders[p].quantity
        BY <1>5 DEF Pending, Paid, InStatus
      <4>. QED
        BY <4>1, UnitsKept
    <3>. QED
      BY <1>5, <1>6, <3>3, <3>4
  <2>2. \A s \in Slots : /\ inventory[s].reserved = Cardinality(BookedUnits(orders, Pending, s))
                         /\ inventory[s].sold = Cardinality(BookedUnits(orders, Paid, s))
    BY DEF LedgerExact, UnitCount, Units
  <2>3. \A s \in Slots :
            /\ inventory'[s].reserved = Cardinality(BookedUnits(orders', Pending', s))
            /\ inventory'[s].sold = Cardinality(BookedUnits(orders', Paid', s))
    BY <1>8, <2>1, <2>2
  <2>. QED
    BY <2>3 DEF LedgerExact, UnitCount, Units
<1>11. CountersBounded'
  <2>1. \A s \in Slots : /\ Capacity[s] \in Nat
                         /\ inventory[s].reserved + inventory[s].sold =< Capacity[s]
    BY CapacityAssumption DEF CountersBounded
  <2>2. Capacity[row.slot] - inventory[row.slot].reserved - inventory[row.slot].sold
          >= row.quantity
    BY <1>2, <1>3 DEF Available
  <2>3. \A s \in Slots : inventory'[s].reserved + inventory'[s].sold =< Capacity[s]
    BY <1>2, <1>3, <1>5, <1>8, <2>1, <2>2 DEF BookedBy
  <2>. QED
    BY <2>3 DEF CountersBounded
<1>12. TicketsCurrent'
  <2>1. \A p \in Paid : p \in DOMAIN orders
    BY DEF Paid, InStatus
  <2>. QED
    BY <1>5, <1>6, <1>7, <2>1 DEF TicketsCurrent, Live
<1>13. SnapshotsSound'
  BY <1>5, <1>7, DoneSound, SnapshotsPersist
<1>. QED
  BY <1>9, <1>10, <1>11, <1>12, <1>13

-----------------------------------------------------------------------------
(* Paying an order.                                                        *)

(* The rows and the counters after the commit of a payment. *)
LEMMA PaidRows ==
  ASSUME LedgerInv, NEW o \in Pending, NEW S \in SUBSET Pending, o \notin S,
         NEW key \in Keys, NEW version \in Nat,
         orders' = [Transitioned(S, "EXPIRED") EXCEPT ![o] = PaidRow(@, key)]
  PROVE  /\ DOMAIN orders' = DOMAIN orders
         /\ \A p \in DOMAIN orders :
                /\ orders'[p] \in OrderRow
                /\ orders'[p].slot = orders[p].slot
                /\ orders'[p].quantity = orders[p].quantity
                /\ p \notin S \cup {o} => orders'[p] = orders[p]
                /\ p \in S \cup {o} => orders'[p].version = orders[p].version + 1
         /\ Pending' = Pending \ (S \cup {o})
         /\ Paid' = Paid \cup {o}
<1>. DEFINE mid == Transitioned(S, "EXPIRED")
<1>1. "EXPIRED" \in OrderStatus /\ TypeOK
  BY DEF OrderStatus, LedgerInv
<1>2. /\ DOMAIN mid = DOMAIN orders
      /\ \A p \in DOMAIN orders :
             /\ mid[p] \in OrderRow
             /\ mid[p].slot = orders[p].slot /\ mid[p].quantity = orders[p].quantity
             /\ p \notin S => mid[p] = orders[p]
             /\ p \in S => /\ mid[p].status = "EXPIRED"
                           /\ mid[p].version = orders[p].version + 1
  BY <1>1, TransitionedRows
<1>3. o \in DOMAIN orders
  BY DEF Pending, InStatus
<1>. HIDE DEF mid
<1>4. PICK row : row = orders[o]
  OBVIOUS
<1>5. row \in OrderRow /\ mid[o] = row
  BY <1>1, <1>2, <1>3, <1>4 DEF TypeOK
<1>6. orders' = [mid EXCEPT ![o] = PaidRow(@, key)]
  BY DEF mid
<1>7. PICK new : new = PaidRow(row, key)
  OBVIOUS
<1>8. /\ new \in OrderRow /\ new.status = "PAID" /\ new.slot = row.slot
      /\ new.quantity = row.quantity /\ new.version = row.version + 1
  <2>1. row.version + 1 \in Nat /\ key \in Keys \cup {NoKey} /\ "PAID" \in OrderStatus
    BY <1>5 DEF OrderRow, OrderStatus
  <2>. QED
    BY <1>5, <1>7, <2>1 DEF OrderRow, PaidRow
<1>9. /\ DOMAIN orders' = DOMAIN orders /\ orders'[o] = new
      /\ \A p \in DOMAIN orders : p # o => orders'[p] = mid[p]
  BY <1>2, <1>3, <1>5, <1>6, <1>7
<1>10. \A p \in DOMAIN orders :
           /\ orders'[p] \in OrderRow
           /\ orders'[p].slot = orders[p].slot
           /\ orders'[p].quantity = orders[p].quantity
           /\ p \notin S \cup {o} => orders'[p] = orders[p]
           /\ p \in S \cup {o} => orders'[p].version = orders[p].version + 1
  BY <1>2, <1>4, <1>8, <1>9
<1>11. \A p \in DOMAIN orders : orders'[p].status
           = IF p = o THEN "PAID" ELSE IF p \in S THEN "EXPIRED" ELSE orders[p].status
  BY <1>2, <1>8, <1>9
<1>12. Pending' = Pending \ (S \cup {o}) /\ Paid' = Paid \cup {o}
  BY <1>3, <1>9, <1>11 DEF Pending, Paid, InStatus
<1>. QED
  BY <1>9, <1>10, <1>12

LEMMA PaidCounters ==
  ASSUME LedgerInv, NEW o \in Pending, NEW S \in SUBSET Pending, o \notin S,
         Releasable(S \cup {o}),
         inventory' = [Released(S \cup {o}) EXCEPT
                          ![orders[o].slot].sold = @ + orders[o].quantity],
         NEW s \in Slots
  PROVE  /\ inventory' \in [Slots -> [reserved : Nat, sold : Nat]]
         /\ UnitCount(S \cup {o}, s) \in Nat
         /\ BookedBy(orders, o, s) \in Nat
         /\ BookedBy(orders, o, s) =< UnitCount(S \cup {o}, s)
         /\ inventory'[s].reserved = inventory[s].reserved - UnitCount(S \cup {o}, s)
         /\ inventory'[s].sold = inventory[s].sold + BookedBy(orders, o, s)
<1>. USE DEF LedgerInv
<1>1. PICK row : row = orders[o]
  OBVIOUS
<1>2. /\ o \in Orders /\ S \in SUBSET Orders /\ S \cup {o} \in SUBSET Orders
      /\ row \in OrderRow
  BY <1>1 DEF Pending, InStatus, TypeOK
<1>3. row.slot \in Slots /\ row.quantity \in Quantities /\ row.quantity \in Nat
  BY <1>2, QuantityAssumption DEF OrderRow, Quantities
<1>4. /\ Released(S \cup {o}) \in [Slots -> [reserved : Nat, sold : Nat]]
      /\ \A t \in Slots :
             /\ UnitCount(S \cup {o}, t) \in Nat
             /\ Released(S \cup {o})[t].reserved
                  = inventory[t].reserved - UnitCount(S \cup {o}, t)
             /\ Released(S \cup {o})[t].sold = inventory[t].sold
  BY <1>2, ReleasedCounters
<1>5. PICK base : base = Released(S \cup {o})
  OBVIOUS
<1>6. inventory' = [base EXCEPT ![row.slot].sold = @ + row.quantity]
  BY <1>1, <1>5
<1>7. /\ base \in [Slots -> [reserved : Nat, sold : Nat]]
      /\ base[s].reserved = inventory[s].reserved - UnitCount(S \cup {o}, s)
      /\ base[s].sold = inventory[s].sold
  BY <1>4, <1>5
<1>8. /\ inventory' \in [Slots -> [reserved : Nat, sold : Nat]]
      /\ inventory'[s].reserved = base[s].reserved
      /\ inventory'[s].sold = base[s].sold + BookedBy(orders, o, s)
  <2>1. PICK old : old = base[row.slot]
    OBVIOUS
  <2>2. PICK new : new = [old EXCEPT !.sold = @ + row.quantity]
    OBVIOUS
  <2>3. inventory' = [base EXCEPT ![row.slot] = new]
    BY <1>6, <2>1, <2>2
  <2>4. old \in [reserved : Nat, sold : Nat]
    BY <1>3, <1>7, <2>1
  <2>5. /\ new \in [reserved : Nat, sold : Nat]
        /\ new.reserved = old.reserved /\ new.sold = old.sold + row.quantity
    BY <1>3, <2>2, <2>4
  <2>. QED
    <3>1. inventory' \in [Slots -> [reserved : Nat, sold : Nat]]
      BY <1>7, <2>3, <2>5
    <3>2. CASE row.slot = s
      BY <1>1, <1>3, <1>7, <2>1, <2>3, <2>5, <3>1, <3>2 DEF BookedBy
    <3>3. CASE row.slot # s
      <4>1. inventory'[s] = base[s] /\ base[s] \in [reserved : Nat, sold : Nat]
        BY <1>7, <2>3, <3>3
      <4>. QED
        BY <1>1, <3>1, <3>3, <4>1, SMTT(30) DEF BookedBy
    <3>. QED
      BY <3>2, <3>3
<1>9. BookedBy(orders, o, s) \in Nat /\ BookedBy(orders, o, s) =< UnitCount(S \cup {o}, s)
  <2>1. PICK T : T = S \cup {o}
    OBVIOUS
  <2>2. Gained(orders, S, o, T)
    BY <1>1, <1>2, <1>3, <2>1 DEF Gained
  <2>3. /\ Cardinality(BookedUnits(orders, S, s)) \in Nat
        /\ Cardinality(BookedUnits(orders, T, s))
             = Cardinality(BookedUnits(orders, S, s)) + BookedBy(orders, o, s)
        /\ BookedBy(orders, o, s) \in Nat
    BY <2>2, UnitsAdded
  <2>. QED
    BY <2>1, <2>3 DEF UnitCount, Units
<1>. QED
  BY <1>4, <1>7, <1>8, <1>9

LEMMA CommitPaymentPreserves ==
  ASSUME LedgerInv, NEW w \in Workers, CommitPayment(w)
  PROVE  LedgerInv'
<1>. USE DEF LedgerInv
<1>1. PICK m : m = txn[w]
  OBVIOUS
<1>2. PICK o : o = m.order
  OBVIOUS
<1>3. PICK S : S = StillDue(m.due)
  OBVIOUS
<1>4. /\ m \in Txn /\ m.op = "pay"
      /\ Matches(o, "PENDING_PAYMENT", m.version) /\ o \notin due /\ Releasable(S \cup {o})
      /\ orders' = [Transitioned(S, "EXPIRED") EXCEPT ![o] = PaidRow(@, m.key)]
      /\ inventory' = [Released(S \cup {o}) EXCEPT
                          ![orders[o].slot].sold = @ + orders[o].quantity]
      /\ tickets' = WithTickets(tickets, NewTickets(o, m.version + 1, orders[o].quantity),
                                orders[o].slot)
      /\ due' = due \ S /\ Done(w)
      /\ UNCHANGED <<refunds, reschedules, validations, phase>>
  BY <1>1, <1>2, <1>3 DEF CommitPayment, TypeOK
<1>5. m.key \in Keys /\ m.version \in Nat
  BY <1>4, TxnFields
<1>6. /\ o \in Pending /\ S \in SUBSET Pending /\ o \notin S
      /\ orders[o].version = m.version
  BY <1>3, <1>4 DEF Matches, Pending, StillDue
<1>7. /\ DOMAIN orders' = DOMAIN orders
      /\ \A p \in DOMAIN orders :
             /\ orders'[p] \in OrderRow
             /\ orders'[p].slot = orders[p].slot
             /\ orders'[p].quantity = orders[p].quantity
             /\ p \notin S \cup {o} => orders'[p] = orders[p]
             /\ p \in S \cup {o} => orders'[p].version = orders[p].version + 1
      /\ Pending' = Pending \ (S \cup {o})
      /\ Paid' = Paid \cup {o}
  BY <1>4, <1>5, <1>6, PaidRows
<1>8. /\ Pending \subseteq DOMAIN orders /\ Paid \subseteq DOMAIN orders
      /\ Pending \subseteq Orders /\ Paid \subseteq Orders
      /\ Pending \cap Paid = {}
  BY DEF Pending, Paid, InStatus, TypeOK
<1>9. /\ o \in DOMAIN orders /\ o \in Orders /\ o \notin Paid
      /\ orders[o].slot \in Slots /\ orders[o].quantity \in Quantities
  BY <1>6, <1>8 DEF TypeOK, OrderRow
<1>10. ASSUME NEW s \in Slots
       PROVE  /\ inventory' \in [Slots -> [reserved : Nat, sold : Nat]]
              /\ UnitCount(S \cup {o}, s) \in Nat
              /\ BookedBy(orders, o, s) \in Nat
              /\ BookedBy(orders, o, s) =< UnitCount(S \cup {o}, s)
              /\ inventory'[s].reserved = inventory[s].reserved - UnitCount(S \cup {o}, s)
              /\ inventory'[s].sold = inventory[s].sold + BookedBy(orders, o, s)
  BY <1>4, <1>6, PaidCounters
<1>11. LedgerExact'
  <2>1. ASSUME NEW s \in Slots
        PROVE  /\ Cardinality(BookedUnits(orders', Pending', s))
                    = Cardinality(BookedUnits(orders, Pending, s)) - UnitCount(S \cup {o}, s)
               /\ Cardinality(BookedUnits(orders', Paid', s))
                    = Cardinality(BookedUnits(orders, Paid, s)) + BookedBy(orders, o, s)
    <3>1. /\ \A p \in Pending' : /\ orders'[p].slot = orders[p].slot
                                /\ orders'[p].quantity = orders[p].quantity
          /\ \A p \in Paid' : /\ orders'[p].slot = orders[p].slot
                             /\ orders'[p].quantity = orders[p].quantity
      BY <1>7, <1>8, <1>9
    <3>2. /\ BookedUnits(orders', Pending', s) = BookedUnits(orders, Pending', s)
          /\ BookedUnits(orders', Paid', s) = BookedUnits(orders, Paid', s)
      BY <3>1, UnitsKept
    <3>3. PICK T : T = S \cup {o}
      OBVIOUS
    <3>4. Lost(Pending, T, Pending')
      BY <1>6, <1>7, <1>8, <3>3 DEF Lost
    <3>5. Cardinality(BookedUnits(orders, Pending', s))
            = Cardinality(BookedUnits(orders, Pending, s))
              - Cardinality(BookedUnits(orders, T, s))
      BY ONLY <3>4, UnitsTaken
    <3>6. Gained(orders, Paid, o, Paid')
      BY <1>7, <1>8, <1>9 DEF Gained
    <3>7. Cardinality(BookedUnits(orders, Paid', s))
            = Cardinality(BookedUnits(orders, Paid, s)) + BookedBy(orders, o, s)
      BY <3>6, UnitsAdded
    <3>. QED
      BY <3>2, <3>3, <3>5, <3>7 DEF UnitCount, Units
  <2>2. \A s \in Slots : /\ inventory[s].reserved = Cardinality(BookedUnits(orders, Pending, s))
                         /\ inventory[s].sold = Cardinality(BookedUnits(orders, Paid, s))
    BY DEF LedgerExact, UnitCount, Units
  <2>3. \A s \in Slots :
            /\ inventory'[s].reserved = Cardinality(BookedUnits(orders', Pending', s))
            /\ inventory'[s].sold = Cardinality(BookedUnits(orders', Paid', s))
    BY <1>10, <2>1, <2>2
  <2>. QED
    BY <2>3 DEF LedgerExact, UnitCount, Units
<1>12. CountersBounded'
  <2>1. ASSUME NEW s \in Slots
        PROVE  inventory'[s].reserved + inventory'[s].sold =< Capacity[s]
    <3>1. /\ inventory[s] \in [reserved : Nat, sold : Nat] /\ Capacity[s] \in Nat
          /\ inventory[s].reserved + inventory[s].sold =< Capacity[s]
      BY CapacityAssumption DEF CountersBounded, TypeOK
    <3>. QED
      BY <1>10, <3>1
  <2>. QED
    BY <2>1 DEF CountersBounded
<1>13. PICK N : N = NewTickets(o, m.version + 1, orders[o].quantity)
  OBVIOUS
<1>14. /\ N \subseteq TicketId
       /\ \A t \in N : /\ t[1] = o /\ t[2] = m.version + 1
                       /\ t[3] \in Nat /\ t[3] =< orders[o].quantity
  <2>1. m.version + 1 \in Nat
    BY <1>5
  <2>. QED
    BY <1>9, <1>13, <2>1, NewTicketsType
<1>15. \A t \in DOMAIN tickets :
           /\ t[1] = o => /\ t[2] \in Nat /\ t[2] =< m.version /\ t[2] # m.version + 1
                          /\ tickets[t].status = "VOID"
           /\ t \notin N
  <2>1. \A t \in DOMAIN tickets :
            t[1] = o => t[2] \in Nat /\ t[2] =< m.version /\ t[2] # m.version + 1
    BY <1>6, <1>9, NewTicketsAreNew
  <2>2. \A t \in DOMAIN tickets : t[1] = o => tickets[t].status = "VOID"
    BY <1>9 DEF TicketsCurrent
  <2>. QED
    BY <1>14, <2>1, <2>2
<1>16. /\ DOMAIN tickets' = DOMAIN tickets \cup N
       /\ \A t \in DOMAIN tickets : tickets'[t] = tickets[t]
       /\ \A t \in N : tickets'[t] = [status |-> "ISSUED", slot |-> orders[o].slot,
                                      version |-> 1]
  BY <1>4, <1>13, <1>15 DEF WithTickets
<1>17. TypeOK'
  <2>1. inventory' \in [Slots -> [reserved : Nat, sold : Nat]]
    BY <1>9, <1>10
  <2>2. \A t \in DOMAIN tickets' : t \in TicketId /\ tickets'[t] \in TicketRow
    BY <1>9, <1>14, <1>16 DEF TypeOK, TicketRow
  <2>3. /\ txn' \in [Workers -> Txn]
        /\ scheduleLock' \in [Users -> Workers \cup {Nobody}]
    BY <1>4, DoneSound
  <2>4. DOMAIN orders' \subseteq Orders /\ \A p \in DOMAIN orders' : orders'[p] \in OrderRow
    BY <1>7 DEF TypeOK
  <2>. QED
    BY <1>4, <2>1, <2>2, <2>3, <2>4 DEF TypeOK
<1>18. TicketsCurrent'
  <2>1. \A t \in DOMAIN tickets' :
            t[1] \in DOMAIN orders' /\ t[2] =< orders'[t[1]].version
    <3>1. ASSUME NEW t \in DOMAIN tickets
          PROVE  t[1] \in DOMAIN orders' /\ t[2] =< orders'[t[1]].version
      <4>1. /\ t[1] \in DOMAIN orders /\ t[2] \in Nat
            /\ t[2] =< orders[t[1]].version /\ orders[t[1]].version \in Nat
        BY DEF TicketsCurrent, TypeOK, TicketId, OrderRow
      <4>. QED
        BY <1>7, <4>1
    <3>2. ASSUME NEW t \in N
          PROVE  t[1] \in DOMAIN orders' /\ t[2] =< orders'[t[1]].version
      BY <1>5, <1>6, <1>7, <1>9, <1>14
    <3>. QED
      BY <1>16, <3>1, <3>2
  <2>2. ASSUME NEW t \in DOMAIN tickets', tickets'[t].status # "VOID"
        PROVE  /\ t[1] \in Paid' /\ t[2] = orders'[t[1]].version
               /\ t[3] =< orders'[t[1]].quantity
               /\ tickets'[t].slot = orders'[t[1]].slot
    <3>1. CASE t \in N
      BY <1>6, <1>7, <1>9, <1>14, <1>16, <3>1
    <3>2. CASE t \in DOMAIN tickets
      <4>1. /\ t[1] \in Paid /\ t[2] = orders[t[1]].version
            /\ t[3] =< orders[t[1]].quantity
            /\ tickets[t].slot = orders[t[1]].slot
            /\ tickets'[t] = tickets[t]
        BY <1>16, <2>2, <3>2 DEF TicketsCurrent
      <4>2. t[1] \in DOMAIN orders /\ t[1] \notin S \cup {o}
        BY <1>6, <1>8, <4>1
      <4>. QED
        BY <1>7, <4>1, <4>2
    <3>. QED
      BY <1>16, <3>1, <3>2
  <2>3. ASSUME NEW p \in Paid'
        PROVE  NewTickets(p, orders'[p].version, orders'[p].quantity) \subseteq Live(p)'
    <3>1. CASE p = o
      <4>1. N = NewTickets(p, orders'[p].version, orders'[p].quantity)
        BY <1>6, <1>7, <1>9, <1>13, <3>1
      <4>2. N \subseteq Live(p)'
        BY <1>14, <1>16, <3>1 DEF Live
      <4>. QED
        BY <4>1, <4>2
    <3>2. CASE p # o
      <4>1. p \in Paid /\ p \in DOMAIN orders /\ orders'[p] = orders[p]
        BY <1>6, <1>7, <1>8, <3>2
      <4>2. NewTickets(p, orders[p].version, orders[p].quantity) \subseteq Live(p)
        BY <4>1 DEF TicketsCurrent
      <4>3. Live(p) \subseteq Live(p)'
        BY <1>16 DEF Live
      <4>. QED
        BY <4>1, <4>2, <4>3
    <3>. QED
      BY <3>1, <3>2
  <2>. QED
    BY <2>1, <2>2, <2>3 DEF TicketsCurrent
<1>19. SnapshotsSound'
  <2>1. \A p \in DOMAIN orders :
            \/ orders'[p].version = orders[p].version + 1
            \/ orders'[p].version = orders[p].version /\ orders'[p].slot = orders[p].slot
    BY <1>7
  <2>. QED
    BY <1>4, <1>7, <1>16, <2>1, DoneSound, SnapshotsPersist
<1>. QED
  BY <1>11, <1>12, <1>17, <1>18, <1>19

-----------------------------------------------------------------------------
(* Refunding an order.                                                     *)

(* Voiding a ticket. *)
LEMMA VoidedRow ==
  ASSUME NEW row \in TicketRow
  PROVE  /\ [row EXCEPT !.status = "VOID", !.version = @ + 1] \in TicketRow
         /\ [row EXCEPT !.status = "VOID", !.version = @ + 1].status = "VOID"
<1>1. row.version + 1 \in Nat
  BY DEF TicketRow
<1>. QED
  BY <1>1 DEF TicketRow

(* When a refund or a reschedule finds as many unused tickets as the order *)
(* bought, it voids all the tickets the order had.                         *)
LEMMA VoidedTickets ==
  ASSUME TypeOK, TicketsCurrent, NEW o \in Paid, NEW after, after = Voided(o),
         Cardinality(Issued(o)) = orders[o].quantity
  PROVE  /\ DOMAIN after = DOMAIN tickets
         /\ Live(o) \subseteq DOMAIN tickets
         /\ \A t \in DOMAIN tickets \ Live(o) : after[t] = tickets[t]
         /\ \A t \in Live(o) : after[t].status = "VOID" /\ after[t] \in TicketRow
<1>1. Issued(o) = Live(o) /\ Live(o) \subseteq DOMAIN tickets
  BY LiveTickets DEF Live
<1>2. /\ DOMAIN after = DOMAIN tickets
      /\ \A t \in DOMAIN tickets \ Live(o) : after[t] = tickets[t]
      /\ \A t \in Live(o) :
             after[t] = [tickets[t] EXCEPT !.status = "VOID", !.version = @ + 1]
  BY <1>1 DEF Voided
<1>3. \A t \in DOMAIN tickets : tickets[t] \in TicketRow
  BY DEF TypeOK
<1>4. ASSUME NEW t \in Live(o)
      PROVE  after[t].status = "VOID" /\ after[t] \in TicketRow
  <2>1. PICK row : row = tickets[t]
    OBVIOUS
  <2>2. row \in TicketRow
    BY <1>1, <1>3, <2>1
  <2>3. after[t] = [row EXCEPT !.status = "VOID", !.version = @ + 1]
    BY <1>2, <2>1
  <2>. QED
    BY <2>2, <2>3, VoidedRow
<1>. QED
  BY <1>1, <1>2, <1>4

LEMMA CommitRefundPreserves ==
  ASSUME LedgerInv, NEW w \in Workers, CommitRefund(w)
  PROVE  LedgerInv'
<1>. USE DEF LedgerInv
<1>1. PICK m : m = txn[w]
  OBVIOUS
<1>2. PICK o : o = m.order
  OBVIOUS
<1>3. /\ m \in Txn /\ m.op = "refund" /\ SnapshotSound(m)
      /\ Matches(o, "PAID", m.version)
      /\ Cardinality(Issued(o)) = orders[o].quantity
      /\ inventory[m.slot].sold >= orders[o].quantity
      /\ tickets' = Voided(o)
      /\ orders' = Transitioned({o}, "REFUNDED")
      /\ inventory' = [inventory EXCEPT ![m.slot].sold = @ - orders[o].quantity]
      /\ refunds' = refunds \cup {[user |-> m.user, key |-> m.key, order |-> o]}
      /\ Done(w)
      /\ UNCHANGED <<reschedules, validations, due, phase>>
  BY <1>1, <1>2 DEF CommitRefund, TypeOK, SnapshotsSound, clock
<1>4. /\ m.user \in Users /\ m.key \in Keys /\ m.version \in Nat /\ m.slot \in Slots
      /\ o \in Orders
  BY <1>2, <1>3, TxnFields
<1>5. o \in Paid /\ o \in DOMAIN orders /\ orders[o].version = m.version
  BY <1>3 DEF Matches, Paid, InStatus
<1>6. /\ orders[o] \in OrderRow /\ orders[o].quantity \in Quantities
      /\ orders[o].quantity \in Nat /\ orders[o].slot = m.slot
  <2>1. orders[o] \in OrderRow /\ orders[o].quantity \in Quantities
    BY <1>5 DEF TypeOK, OrderRow
  <2>2. orders[o].slot = m.slot
    BY <1>2, <1>3, <1>5 DEF SnapshotSound
  <2>. QED
    BY <2>1, <2>2, QuantityAssumption DEF Quantities
<1>7. /\ DOMAIN orders' = DOMAIN orders
      /\ \A p \in DOMAIN orders :
             /\ orders'[p] \in OrderRow
             /\ orders'[p].slot = orders[p].slot
             /\ orders'[p].quantity = orders[p].quantity
             /\ p # o => orders'[p] = orders[p]
             /\ p = o => /\ orders'[p].status = "REFUNDED"
                         /\ orders'[p].version = orders[p].version + 1
  <2>1. "REFUNDED" \in OrderStatus
    BY DEF OrderStatus
  <2>2. \A p : p \in {o} <=> p = o
    OBVIOUS
  <2>. QED
    BY <1>3, <2>1, <2>2, TransitionedRows
<1>8. /\ Pending' = Pending /\ Pending \subseteq DOMAIN orders /\ o \notin Pending
      /\ Paid' = Paid \ {o} /\ Paid \subseteq DOMAIN orders /\ Paid \subseteq Orders
  BY <1>5, <1>7 DEF Pending, Paid, InStatus, TypeOK
<1>9. \A s \in Slots :
          /\ inventory[s] \in [reserved : Nat, sold : Nat]
          /\ BookedBy(orders, o, s) \in Nat
          /\ inventory'[s] \in [reserved : Nat, sold : Nat]
          /\ inventory'[s].reserved = inventory[s].reserved
          /\ inventory'[s].sold = inventory[s].sold - BookedBy(orders, o, s)
  <2>1. PICK old : old = inventory[m.slot]
    OBVIOUS
  <2>2. PICK q : q = orders[o].quantity
    OBVIOUS
  <2>3. PICK new : new = [old EXCEPT !.sold = @ - q]
    OBVIOUS
  <2>4. old \in [reserved : Nat, sold : Nat] /\ old.sold >= q /\ q \in Nat
    BY <1>3, <1>4, <1>6, <2>1, <2>2 DEF TypeOK
  <2>5. /\ new \in [reserved : Nat, sold : Nat]
        /\ new.reserved = old.reserved /\ new.sold = old.sold - q
    BY <2>3, <2>4
  <2>6. inventory' = [inventory EXCEPT ![m.slot] = new]
    BY <1>3, <2>1, <2>2, <2>3
  <2>7. ASSUME NEW s \in Slots, s = m.slot
        PROVE  /\ inventory'[s] = new /\ inventory[s] = old /\ BookedBy(orders, o, s) = q
    BY <1>6, <2>1, <2>2, <2>6, <2>7 DEF BookedBy, TypeOK
  <2>8. ASSUME NEW s \in Slots, s # m.slot
        PROVE  /\ inventory'[s] = inventory[s] /\ BookedBy(orders, o, s) = 0
    BY <1>6, <2>6, <2>8 DEF BookedBy, TypeOK
  <2>9. \A s \in Slots : inventory[s] \in [reserved : Nat, sold : Nat]
    BY DEF TypeOK
  <2>. QED
    BY <2>4, <2>5, <2>7, <2>8, <2>9
<1>10. LedgerExact'
  <2>1. ASSUME NEW s \in Slots
        PROVE  /\ BookedUnits(orders', Pending', s) = BookedUnits(orders, Pending, s)
               /\ Cardinality(BookedUnits(orders', Paid', s)) \in Nat
               /\ Cardinality(BookedUnits(orders, Paid, s))
                    = Cardinality(BookedUnits(orders', Paid', s)) + BookedBy(orders, o, s)
    <3>1. /\ \A p \in Pending' : /\ orders'[p].slot = orders[p].slot
                                /\ orders'[p].quantity = orders[p].quantity
          /\ \A p \in Paid' : /\ orders'[p].slot = orders[p].slot
                             /\ orders'[p].quantity = orders[p].quantity
      BY <1>7, <1>8
    <3>2. /\ BookedUnits(orders', Pending', s) = BookedUnits(orders, Pending', s)
          /\ BookedUnits(orders', Paid', s) = BookedUnits(orders, Paid', s)
      BY <3>1, UnitsKept
    <3>3. Gained(orders, Paid', o, Paid)
      BY <1>5, <1>6, <1>8 DEF Gained
    <3>4. /\ Cardinality(BookedUnits(orders, Paid', s)) \in Nat
          /\ Cardinality(BookedUnits(orders, Paid, s))
               = Cardinality(BookedUnits(orders, Paid', s)) + BookedBy(orders, o, s)
      BY ONLY <3>3, UnitsAdded
    <3>. QED
      BY <1>8, <3>2, <3>4
  <2>2. \A s \in Slots : /\ inventory[s].reserved = Cardinality(BookedUnits(orders, Pending, s))
                         /\ inventory[s].sold = Cardinality(BookedUnits(orders, Paid, s))
    BY DEF LedgerExact, UnitCount, Units
  <2>3. \A s \in Slots :
            /\ inventory'[s].reserved = Cardinality(BookedUnits(orders', Pending', s))
            /\ inventory'[s].sold = Cardinality(BookedUnits(orders', Paid', s))
    BY <1>9, <2>1, <2>2
  <2>. QED
    BY <2>3 DEF LedgerExact, UnitCount, Units
<1>11. CountersBounded'
  <2>1. ASSUME NEW s \in Slots
        PROVE  inventory'[s].reserved + inventory'[s].sold =< Capacity[s]
    <3>1. /\ Capacity[s] \in Nat
          /\ inventory[s].reserved + inventory[s].sold =< Capacity[s]
      BY CapacityAssumption DEF CountersBounded
    <3>. QED
      BY <1>9, <3>1
  <2>. QED
    BY <2>1 DEF CountersBounded
<1>12. /\ Live(o) \subseteq DOMAIN tickets
       /\ DOMAIN tickets' = DOMAIN tickets
       /\ \A t \in DOMAIN tickets \ Live(o) : tickets'[t] = tickets[t]
       /\ \A t \in Live(o) : tickets'[t].status = "VOID" /\ tickets'[t] \in TicketRow
  BY <1>3, <1>5, VoidedTickets
<1>13. TypeOK'
  <2>1. inventory' \in [Slots -> [reserved : Nat, sold : Nat]]
    BY <1>3, <1>9 DEF TypeOK
  <2>2. \A t \in DOMAIN tickets' : t \in TicketId /\ tickets'[t] \in TicketRow
    BY <1>12 DEF TypeOK
  <2>3. /\ txn' \in [Workers -> Txn]
        /\ scheduleLock' \in [Users -> Workers \cup {Nobody}]
    BY <1>3, DoneSound
  <2>4. DOMAIN orders' \subseteq Orders /\ \A p \in DOMAIN orders' : orders'[p] \in OrderRow
    BY <1>7 DEF TypeOK
  <2>5. refunds' \subseteq RefundRow
    BY <1>3, <1>4 DEF TypeOK, RefundRow
  <2>. QED
    BY <1>3, <2>1, <2>2, <2>3, <2>4, <2>5 DEF TypeOK
<1>14. TicketsCurrent'
  <2>1. \A t \in DOMAIN tickets' :
            t[1] \in DOMAIN orders' /\ t[2] =< orders'[t[1]].version
    <3>1. ASSUME NEW t \in DOMAIN tickets
          PROVE  t[1] \in DOMAIN orders' /\ t[2] =< orders'[t[1]].version
      <4>1. /\ t[1] \in DOMAIN orders /\ t[2] \in Nat
            /\ t[2] =< orders[t[1]].version /\ orders[t[1]].version \in Nat
        BY DEF TicketsCurrent, TypeOK, TicketId, OrderRow
      <4>. QED
        BY <1>7, <4>1
    <3>. QED
      BY <1>12, <3>1
  <2>2. ASSUME NEW t \in DOMAIN tickets', tickets'[t].status # "VOID"
        PROVE  /\ t[1] \in Paid' /\ t[2] = orders'[t[1]].version
               /\ t[3] =< orders'[t[1]].quantity
               /\ tickets'[t].slot = orders'[t[1]].slot
    <3>1. t \in DOMAIN tickets \ Live(o) /\ tickets'[t] = tickets[t]
      BY <1>12, <2>2
    <3>2. /\ t[1] \in Paid /\ t[2] = orders[t[1]].version
          /\ t[3] =< orders[t[1]].quantity
          /\ tickets[t].slot = orders[t[1]].slot
      BY <2>2, <3>1 DEF TicketsCurrent
    <3>3. t[1] # o
      BY <2>2, <3>1 DEF Live
    <3>. QED
      BY <1>7, <1>8, <3>1, <3>2, <3>3
  <2>3. ASSUME NEW p \in Paid'
        PROVE  NewTickets(p, orders'[p].version, orders'[p].quantity) \subseteq Live(p)'
    <3>1. p # o /\ p \in Paid /\ p \in DOMAIN orders /\ orders'[p] = orders[p]
      BY <1>7, <1>8
    <3>2. NewTickets(p, orders[p].version, orders[p].quantity) \subseteq Live(p)
      BY <3>1 DEF TicketsCurrent
    <3>3. Live(p) \subseteq Live(p)'
      BY <1>12, <3>1 DEF Live
    <3>. QED
      BY <3>1, <3>2, <3>3
  <2>. QED
    BY <2>1, <2>2, <2>3 DEF TicketsCurrent
<1>15. SnapshotsSound'
  <2>1. \A p \in DOMAIN orders :
            \/ orders'[p].version = orders[p].version + 1
            \/ orders'[p].version = orders[p].version /\ orders'[p].slot = orders[p].slot
    BY <1>7
  <2>. QED
    BY <1>3, <1>7, <1>12, <2>1, DoneSound, SnapshotsPersist
<1>. QED
  BY <1>10, <1>11, <1>13, <1>14, <1>15

-----------------------------------------------------------------------------
(* Rescheduling an order.                                                  *)

LEMMA MovedRowType ==
  ASSUME NEW row \in OrderRow, NEW target \in Slots
  PROVE  LET new == MovedRow(row, target)
         IN  /\ new \in OrderRow /\ new.slot = target /\ new.status = row.status
             /\ new.quantity = row.quantity /\ new.version = row.version + 1
<1>1. row.version + 1 \in Nat
  BY DEF OrderRow
<1>. QED
  BY <1>1 DEF OrderRow, MovedRow

(* The counters of the two slots between which q units move. *)
Moves(before, after, source, target, q) ==
    /\ before \in [Slots -> [reserved : Nat, sold : Nat]]
    /\ source \in Slots /\ target \in Slots /\ source # target
    /\ q \in Nat /\ before[source].sold >= q
    /\ after = [before EXCEPT ![target].sold = @ + q, ![source].sold = @ - q]

LEMMA MovedCounters ==
  ASSUME NEW before, NEW after, NEW source, NEW target, NEW q,
         Moves(before, after, source, target, q)
  PROVE  /\ after \in [Slots -> [reserved : Nat, sold : Nat]]
         /\ \A s \in Slots : after[s].reserved = before[s].reserved
         /\ after[source].sold = before[source].sold - q
         /\ after[target].sold = before[target].sold + q
         /\ \A s \in Slots : s # source /\ s # target => after[s].sold = before[s].sold
<1>. USE DEF Moves
<1>1. PICK old : old = before[source]
  OBVIOUS
<1>2. PICK old2 : old2 = before[target]
  OBVIOUS
<1>3. /\ old \in [reserved : Nat, sold : Nat] /\ old.sold >= q
      /\ old2 \in [reserved : Nat, sold : Nat]
  BY <1>1, <1>2
<1>4. PICK new : new = [old EXCEPT !.sold = @ - q]
  OBVIOUS
<1>5. PICK new2 : new2 = [old2 EXCEPT !.sold = @ + q]
  OBVIOUS
<1>6. /\ new \in [reserved : Nat, sold : Nat] /\ new2 \in [reserved : Nat, sold : Nat]
      /\ new.reserved = old.reserved /\ new.sold = old.sold - q
      /\ new2.reserved = old2.reserved /\ new2.sold = old2.sold + q
  BY <1>3, <1>4, <1>5
<1>7. after = [[before EXCEPT ![target] = new2] EXCEPT ![source] = new]
  BY <1>1, <1>2, <1>4, <1>5
<1>. QED
  BY <1>1, <1>2, <1>6, <1>7

LEMMA CommitReschedulePreserves ==
  ASSUME LedgerInv, NEW w \in Workers, CommitReschedule(w)
  PROVE  LedgerInv'
<1>. USE DEF LedgerInv
<1>1. PICK m : m = txn[w]
  OBVIOUS
<1>2. PICK o : o = m.order
  OBVIOUS
<1>3. PICK q : q = orders[o].quantity
  OBVIOUS
<1>4. /\ m \in Txn /\ m.op = "reschedule" /\ SnapshotSound(m)
      /\ Available(m.target) >= q
      /\ Cardinality(Issued(o)) = q
      /\ inventory[m.slot].sold >= q
      /\ Matches(o, "PAID", m.version)
      /\ inventory' = [inventory EXCEPT ![m.target].sold = @ + q, ![m.slot].sold = @ - q]
      /\ orders' = [orders EXCEPT ![o] = MovedRow(@, m.target)]
      /\ tickets' = WithTickets(Voided(o), NewTickets(o, m.version + 1, q), m.target)
      /\ reschedules' = reschedules \cup
             {[user |-> m.user, key |-> m.key, order |-> o,
               source |-> m.slot, target |-> m.target]}
      /\ Done(w)
      /\ UNCHANGED <<refunds, validations, due, phase>>
  BY <1>1, <1>2, <1>3 DEF CommitReschedule, TypeOK, SnapshotsSound, clock
<1>5. /\ m.user \in Users /\ m.key \in Keys /\ m.version \in Nat /\ m.slot \in Slots
      /\ m.target \in Slots /\ o \in Orders
  BY <1>2, <1>4, TxnFields
<1>6. /\ o \in Paid /\ o \in DOMAIN orders /\ orders[o].version = m.version
      /\ m.slot # m.target /\ orders[o].slot = m.slot
  <2>1. o \in Paid /\ o \in DOMAIN orders /\ orders[o].version = m.version
    BY <1>4 DEF Matches, Paid, InStatus
  <2>2. m.slot # m.target /\ orders[o].slot = m.slot
    BY <1>2, <1>4, <2>1 DEF SnapshotSound
  <2>. QED
    BY <2>1, <2>2
<1>7. q \in Quantities /\ q \in Nat /\ orders[o] \in OrderRow
  BY <1>3, <1>6, QuantityAssumption DEF TypeOK, OrderRow, Quantities
<1>8. /\ DOMAIN orders' = DOMAIN orders
      /\ \A p \in DOMAIN orders : p # o => orders'[p] = orders[p]
      /\ orders'[o] \in OrderRow /\ orders'[o].slot = m.target
      /\ orders'[o].status = "PAID" /\ orders'[o].quantity = q
      /\ orders'[o].version = m.version + 1
  <2>1. PICK row : row = orders[o]
    OBVIOUS
  <2>2. PICK new : new = MovedRow(row, m.target)
    OBVIOUS
  <2>3. /\ new \in OrderRow /\ new.slot = m.target /\ new.status = row.status
        /\ new.quantity = row.quantity /\ new.version = row.version + 1
    BY <1>5, <1>7, <2>1, <2>2, MovedRowType
  <2>4. row.status = "PAID"
    BY <1>6, <2>1 DEF Paid, InStatus
  <2>5. orders' = [orders EXCEPT ![o] = new]
    BY <1>4, <2>1, <2>2
  <2>. QED
    BY <1>3, <1>6, <2>1, <2>3, <2>4, <2>5
<1>9. /\ Pending' = Pending /\ Pending \subseteq DOMAIN orders /\ o \notin Pending
      /\ Paid' = Paid /\ Paid \subseteq DOMAIN orders /\ Paid \subseteq Orders
  BY <1>6, <1>8 DEF Pending, Paid, InStatus, TypeOK
<1>10. /\ inventory \in [Slots -> [reserved : Nat, sold : Nat]]
       /\ inventory' \in [Slots -> [reserved : Nat, sold : Nat]]
       /\ \A s \in Slots : inventory'[s].reserved = inventory[s].reserved
       /\ inventory'[m.slot].sold = inventory[m.slot].sold - q
       /\ inventory'[m.target].sold = inventory[m.target].sold + q
       /\ \A s \in Slots : s # m.slot /\ s # m.target =>
              inventory'[s].sold = inventory[s].sold
  <2>1. inventory \in [Slots -> [reserved : Nat, sold : Nat]]
    BY DEF TypeOK
  <2>2. Moves(inventory, inventory', m.slot, m.target, q)
    BY <1>4, <1>5, <1>6, <1>7, <2>1 DEF Moves
  <2>. QED
    BY <2>1, <2>2, MovedCounters
<1>11. ASSUME NEW s \in Slots
       PROVE  /\ BookedBy(orders, o, s) \in Nat /\ BookedBy(orders', o, s) \in Nat
              /\ inventory'[s].sold + BookedBy(orders, o, s)
                   = inventory[s].sold + BookedBy(orders', o, s)
  <2>1. BookedBy(orders, o, s) = IF s = m.slot THEN q ELSE 0
    BY <1>3, <1>6 DEF BookedBy
  <2>2. BookedBy(orders', o, s) = IF s = m.target THEN q ELSE 0
    BY <1>8 DEF BookedBy
  <2>3. inventory[s].sold \in Nat /\ inventory'[s].sold \in Nat
    BY <1>10
  <2>4. CASE s = m.slot
    BY <1>6, <1>7, <1>10, <2>1, <2>2, <2>3, <2>4
  <2>5. CASE s = m.target
    BY <1>6, <1>7, <1>10, <2>1, <2>2, <2>3, <2>5
  <2>6. CASE s # m.slot /\ s # m.target
    BY <1>10, <2>1, <2>2, <2>3, <2>6
  <2>. QED
    BY <2>4, <2>5, <2>6
<1>12. LedgerExact'
  <2>0. PICK R : R = Paid \ {o}
    OBVIOUS
  <2>1. ASSUME NEW s \in Slots
        PROVE  /\ BookedUnits(orders', Pending', s) = BookedUnits(orders, Pending, s)
               /\ Cardinality(BookedUnits(orders, R, s)) \in Nat
               /\ Cardinality(BookedUnits(orders, Paid, s))
                    = Cardinality(BookedUnits(orders, R, s)) + BookedBy(orders, o, s)
               /\ Cardinality(BookedUnits(orders', Paid', s))
                    = Cardinality(BookedUnits(orders, R, s)) + BookedBy(orders', o, s)
    <3>1. /\ \A p \in Pending' : /\ orders'[p].slot = orders[p].slot
                                /\ orders'[p].quantity = orders[p].quantity
          /\ \A p \in R : /\ orders'[p].slot = orders[p].slot
                          /\ orders'[p].quantity = orders[p].quantity
      BY <1>8, <1>9, <2>0
    <3>2. /\ BookedUnits(orders', Pending', s) = BookedUnits(orders, Pending', s)
          /\ BookedUnits(orders', R, s) = BookedUnits(orders, R, s)
      BY <3>1, UnitsKept
    <3>3. Gained(orders, R, o, Paid)
      BY <1>3, <1>6, <1>7, <1>9, <2>0 DEF Gained
    <3>4. Gained(orders', R, o, Paid')
      BY <1>6, <1>7, <1>8, <1>9, <2>0 DEF Gained
    <3>5. /\ Cardinality(BookedUnits(orders, R, s)) \in Nat
          /\ Cardinality(BookedUnits(orders, Paid, s))
               = Cardinality(BookedUnits(orders, R, s)) + BookedBy(orders, o, s)
      BY ONLY <3>3, UnitsAdded
    <3>6. Cardinality(BookedUnits(orders', Paid', s))
            = Cardinality(BookedUnits(orders', R, s)) + BookedBy(orders', o, s)
      BY ONLY <3>4, UnitsAdded
    <3>. QED
      BY <1>9, <3>2, <3>5, <3>6
  <2>2. \A s \in Slots : /\ inventory[s].reserved = Cardinality(BookedUnits(orders, Pending, s))
                         /\ inventory[s].sold = Cardinality(BookedUnits(orders, Paid, s))
    BY DEF LedgerExact, UnitCount, Units
  <2>3. ASSUME NEW s \in Slots
        PROVE  /\ inventory'[s].reserved = Cardinality(BookedUnits(orders', Pending', s))
               /\ inventory'[s].sold = Cardinality(BookedUnits(orders', Paid', s))
    <3>1. inventory[s].sold \in Nat /\ inventory'[s].sold \in Nat
      BY <1>10
    <3>2. /\ BookedBy(orders, o, s) \in Nat /\ BookedBy(orders', o, s) \in Nat
          /\ inventory'[s].sold + BookedBy(orders, o, s)
               = inventory[s].sold + BookedBy(orders', o, s)
      BY <1>11
    <3>3. /\ Cardinality(BookedUnits(orders, R, s)) \in Nat
          /\ inventory[s].sold
               = Cardinality(BookedUnits(orders, R, s)) + BookedBy(orders, o, s)
      BY <2>1, <2>2
    <3>4. inventory'[s].sold
            = Cardinality(BookedUnits(orders, R, s)) + BookedBy(orders', o, s)
      BY <3>1, <3>2, <3>3
    <3>. QED
      BY <1>10, <2>1, <2>2, <3>4
  <2>. QED
    BY <2>3 DEF LedgerExact, UnitCount, Units
<1>13. CountersBounded'
  <2>1. ASSUME NEW s \in Slots
        PROVE  inventory'[s].reserved + inventory'[s].sold =< Capacity[s]
    <3>1. /\ Capacity[s] \in Nat
          /\ inventory[s].reserved + inventory[s].sold =< Capacity[s]
          /\ inventory[s].reserved \in Nat /\ inventory[s].sold \in Nat
          /\ inventory'[s].sold \in Nat
      BY <1>10, CapacityAssumption, SMTT(30) DEF CountersBounded
    <3>2. CASE s = m.target
      BY <1>4, <1>7, <1>10, <3>1, <3>2 DEF Available
    <3>3. CASE s # m.target
      BY <1>7, <1>10, <3>1, <3>3
    <3>. QED
      BY <3>2, <3>3
  <2>. QED
    BY <2>1 DEF CountersBounded

<1>14. PICK N : N = NewTickets(o, m.version + 1, q)
  OBVIOUS
<1>15. /\ N \subseteq TicketId
       /\ \A t \in N : /\ t[1] = o /\ t[2] = m.version + 1
                       /\ t[3] \in Nat /\ t[3] =< q
  <2>1. m.version + 1 \in Nat
    BY <1>5
  <2>. QED
    BY <1>5, <1>7, <1>14, <2>1, NewTicketsType
<1>16. \A t \in DOMAIN tickets : t \notin N
  <2>1. \A t \in DOMAIN tickets : t[1] = o => t[2] # m.version + 1
    BY <1>6, NewTicketsAreNew
  <2>. QED
    BY <1>15, <2>1
<1>17. /\ DOMAIN tickets' = DOMAIN tickets \cup N
       /\ Live(o) \subseteq DOMAIN tickets
       /\ \A t \in DOMAIN tickets \ Live(o) : tickets'[t] = tickets[t]
       /\ \A t \in Live(o) : tickets'[t].status = "VOID" /\ tickets'[t] \in TicketRow
       /\ \A t \in N : tickets'[t] = [status |-> "ISSUED", slot |-> m.target,
                                      version |-> 1]
  <2>1. PICK after : after = Voided(o)
    OBVIOUS
  <2>2. /\ DOMAIN after = DOMAIN tickets
        /\ Live(o) \subseteq DOMAIN tickets
        /\ \A t \in DOMAIN tickets \ Live(o) : after[t] = tickets[t]
        /\ \A t \in Live(o) : after[t].status = "VOID" /\ after[t] \in TicketRow
    BY <1>3, <1>4, <1>6, <2>1, VoidedTickets
  <2>3. tickets' = WithTickets(after, N, m.target)
    BY <1>4, <1>14, <2>1
  <2>4. /\ DOMAIN tickets' = DOMAIN tickets \cup N
        /\ \A t \in DOMAIN tickets : tickets'[t] = after[t]
        /\ \A t \in N : tickets'[t] = [status |-> "ISSUED", slot |-> m.target,
                                       version |-> 1]
    BY <1>16, <2>2, <2>3, SMTT(30) DEF WithTickets
  <2>. QED
    BY <2>2, <2>4
<1>18. TypeOK'
  <2>1. \A t \in DOMAIN tickets' : t \in TicketId /\ tickets'[t] \in TicketRow
    <3>1. \A t \in N : tickets'[t] \in TicketRow
      BY <1>5, <1>17 DEF TicketRow
    <3>. QED
      BY <1>15, <1>17, <3>1 DEF TypeOK
  <2>2. /\ txn' \in [Workers -> Txn]
        /\ scheduleLock' \in [Users -> Workers \cup {Nobody}]
    BY <1>4, DoneSound
  <2>3. DOMAIN orders' \subseteq Orders /\ \A p \in DOMAIN orders' : orders'[p] \in OrderRow
    BY <1>8 DEF TypeOK
  <2>4. reschedules' \subseteq RescheduleRow
    BY <1>4, <1>5 DEF TypeOK, RescheduleRow
  <2>. QED
    BY <1>4, <1>10, <2>1, <2>2, <2>3, <2>4 DEF TypeOK
<1>19. TicketsCurrent'
  <2>1. \A t \in DOMAIN tickets' :
            t[1] \in DOMAIN orders' /\ t[2] =< orders'[t[1]].version
    <3>1. ASSUME NEW t \in DOMAIN tickets
          PROVE  t[1] \in DOMAIN orders' /\ t[2] =< orders'[t[1]].version
      <4>1. /\ t[1] \in DOMAIN orders /\ t[2] \in Nat
            /\ t[2] =< orders[t[1]].version /\ orders[t[1]].version \in Nat
        BY DEF TicketsCurrent, TypeOK, TicketId, OrderRow
      <4>. QED
        BY <1>5, <1>6, <1>8, <4>1
    <3>2. ASSUME NEW t \in N
          PROVE  t[1] \in DOMAIN orders' /\ t[2] =< orders'[t[1]].version
      BY <1>5, <1>6, <1>8, <1>15
    <3>. QED
      BY <1>17, <3>1, <3>2
  <2>2. ASSUME NEW t \in DOMAIN tickets', tickets'[t].status # "VOID"
        PROVE  /\ t[1] \in Paid' /\ t[2] = orders'[t[1]].version
               /\ t[3] =< orders'[t[1]].quantity
               /\ tickets'[t].slot = orders'[t[1]].slot
    <3>1. CASE t \in N
      BY <1>6, <1>8, <1>9, <1>15, <1>17, <3>1
    <3>2. CASE t \in DOMAIN tickets
      <4>1. t \in DOMAIN tickets \ Live(o) /\ tickets'[t] = tickets[t]
        BY <1>17, <2>2, <3>2
      <4>2. /\ t[1] \in Paid /\ t[2] = orders[t[1]].version
            /\ t[3] =< orders[t[1]].quantity
            /\ tickets[t].slot = orders[t[1]].slot
        BY <2>2, <4>1 DEF TicketsCurrent
      <4>3. t[1] # o
        BY <2>2, <4>1 DEF Live
      <4>. QED
        BY <1>8, <1>9, <4>1, <4>2, <4>3
    <3>. QED
      BY <1>17, <3>1, <3>2
  <2>3. ASSUME NEW p \in Paid'
        PROVE  NewTickets(p, orders'[p].version, orders'[p].quantity) \subseteq Live(p)'
    <3>1. CASE p = o
      <4>1. N = NewTickets(p, orders'[p].version, orders'[p].quantity)
        BY <1>8, <1>14, <3>1
      <4>2. N \subseteq Live(p)'
        BY <1>15, <1>17, <3>1 DEF Live
      <4>. QED
        BY <4>1, <4>2
    <3>2. CASE p # o
      <4>1. p \in Paid /\ p \in DOMAIN orders /\ orders'[p] = orders[p]
        BY <1>8, <1>9, <3>2
      <4>2. NewTickets(p, orders[p].version, orders[p].quantity) \subseteq Live(p)
        BY <4>1 DEF TicketsCurrent
      <4>3. Live(p) \subseteq Live(p)'
        BY <1>17, <3>2 DEF Live
      <4>. QED
        BY <4>1, <4>2, <4>3
    <3>. QED
      BY <3>1, <3>2
  <2>. QED
    BY <2>1, <2>2, <2>3 DEF TicketsCurrent
<1>20. SnapshotsSound'
  <2>1. \A p \in DOMAIN orders :
            \/ orders'[p].version = orders[p].version + 1
            \/ orders'[p].version = orders[p].version /\ orders'[p].slot = orders[p].slot
    BY <1>6, <1>8
  <2>. QED
    BY <1>4, <1>8, <1>17, <2>1, DoneSound, SnapshotsPersist
<1>. QED
  BY <1>12, <1>13, <1>18, <1>19, <1>20

-----------------------------------------------------------------------------
(* Admitting a visitor.                                                    *)

LEMMA CommitAdmissionPreserves ==
  ASSUME LedgerInv, NEW w \in Workers, CommitAdmission(w)
  PROVE  LedgerInv'
<1>. USE DEF LedgerInv
<1>1. PICK m : m = txn[w]
  OBVIOUS
<1>2. PICK t : t = m.ticket
  OBVIOUS
<1>3. /\ m \in Txn /\ m.op = "gate" /\ SnapshotSound(m)
      /\ tickets[t].status = "ISSUED"
      /\ tickets' = [tickets EXCEPT ![t] = UsedRow(@)]
      /\ validations' = validations \cup {[request |-> m.request, ticket |-> t]}
      /\ Done(w)
      /\ UNCHANGED <<orders, inventory, refunds, reschedules, due, phase>>
  BY <1>1, <1>2 DEF CommitAdmission, Takes, TypeOK, SnapshotsSound, clock
<1>4. t \in DOMAIN tickets /\ t \in TicketId /\ m.request \in GateRequests
  BY <1>2, <1>3, TxnFields DEF SnapshotSound
<1>5. /\ DOMAIN tickets' = DOMAIN tickets
      /\ \A x \in DOMAIN tickets : x # t => tickets'[x] = tickets[x]
      /\ tickets'[t] \in TicketRow /\ tickets'[t].status = "USED"
      /\ tickets'[t].slot = tickets[t].slot
  <2>1. PICK row : row = tickets[t]
    OBVIOUS
  <2>2. PICK new : new = UsedRow(row)
    OBVIOUS
  <2>3. row \in TicketRow
    BY <1>4, <2>1 DEF TypeOK
  <2>4. row.version + 1 \in Nat
    BY <2>3 DEF TicketRow
  <2>5. new \in TicketRow /\ new.status = "USED" /\ new.slot = row.slot
    BY <2>2, <2>3, <2>4 DEF TicketRow, UsedRow
  <2>6. tickets' = [tickets EXCEPT ![t] = new]
    BY <1>3, <2>1, <2>2
  <2>. QED
    BY <1>4, <2>1, <2>5, <2>6
<1>6. TypeOK'
  <2>1. \A x \in DOMAIN tickets' : x \in TicketId /\ tickets'[x] \in TicketRow
    BY <1>4, <1>5 DEF TypeOK
  <2>2. \A v \in validations' : v \in ValidationRow
    BY <1>3, <1>4 DEF TypeOK, ValidationRow
  <2>3. /\ txn' \in [Workers -> Txn]
        /\ scheduleLock' \in [Users -> Workers \cup {Nobody}]
    BY <1>3, DoneSound
  <2>. QED
    BY <1>3, <2>1, <2>2, <2>3 DEF TypeOK
<1>7. LedgerExact'
  BY <1>3 DEF LedgerExact, UnitCount, Units, Pending, Paid, InStatus
<1>8. CountersBounded'
  BY <1>3 DEF CountersBounded
<1>9. /\ \A x \in DOMAIN tickets :
             /\ tickets'[x].slot = tickets[x].slot
             /\ tickets'[x].status = "VOID" <=> tickets[x].status = "VOID"
      /\ Paid' = Paid
  BY <1>3, <1>5 DEF Paid, InStatus
<1>10. \A o : Live(o)' = Live(o)
  BY <1>5, <1>9 DEF Live
<1>11. TicketsCurrent'
  BY <1>3, <1>5, <1>9, <1>10 DEF TicketsCurrent
<1>12. SnapshotsSound'
  BY <1>3, <1>5, DoneSound, SnapshotsPersist
<1>. QED
  BY <1>6, <1>7, <1>8, <1>11, <1>12

-----------------------------------------------------------------------------
(* The inductive invariant.                                                *)

LEMMA InitEstablishes == Init => LedgerInv
<1>. SUFFICES ASSUME Init PROVE LedgerInv
  OBVIOUS
<1>. USE DEF Init
<1>1. TypeOK
  <2>1. Idle \in Txn
    BY TxnRecords
  <2>. QED
    BY <2>1 DEF TypeOK
<1>2. Pending = {} /\ Paid = {} /\ DOMAIN tickets = {}
  BY DEF Pending, Paid, InStatus
<1>3. LedgerExact
  <2>1. \A s \in Slots : BookedUnits(orders, {}, s) = {}
    BY DEF BookedUnits
  <2>. QED
    BY <1>2, <2>1, FS_EmptySet DEF LedgerExact, UnitCount, Units
<1>4. CountersBounded
  BY CapacityAssumption DEF CountersBounded
<1>5. TicketsCurrent
  BY <1>2 DEF TicketsCurrent
<1>6. SnapshotsSound
  BY IdleSound DEF SnapshotsSound
<1>. QED
  BY <1>1, <1>3, <1>4, <1>5, <1>6 DEF LedgerInv

LEMMA ServePreserves ==
  ASSUME LedgerInv, NEW w \in Workers, Serve(w)
  PROVE  LedgerInv'
<1>1. CASE \E u \in Users, next \in {"reply", "create", "cancel"} : BeginSweep(w, u, next)
  BY <1>1, BeginSweepPreserves
<1>2. CASE CommitSweep(w)
  BY <1>2, CommitSweepPreserves
<1>3. CASE \E k \in Keys, s \in Slots, q \in Quantities : LockToCreate(w, k, s, q)
  BY <1>3, LockToCreatePreserves
<1>4. CASE \E o \in Orders : CommitOrder(w, o)
  BY <1>4, CommitOrderPreserves
<1>5. CASE \E u \in Users, k \in Keys, o \in DOMAIN orders : ReadToPay(w, u, k, o)
  BY <1>5, ReadToPayPreserves
<1>6. CASE CommitPayment(w)
  BY <1>6, CommitPaymentPreserves
<1>7. CASE \E o \in DOMAIN orders : ReadToCancel(w, o)
  BY <1>7, ReadToCancelPreserves
<1>8. CASE CommitCancel(w)
  BY <1>8, CommitCancelPreserves
<1>9. CASE \E u \in Users, k \in Keys, o \in DOMAIN orders : ReadToRefund(w, u, k, o)
  BY <1>9, ReadToRefundPreserves
<1>10. CASE ReadItemToRefund(w)
  BY <1>10, ReadItemToRefundPreserves
<1>11. CASE CommitRefund(w)
  BY <1>11, CommitRefundPreserves
<1>12. CASE \E u \in Users, k \in Keys, o \in DOMAIN orders, s \in Slots :
                LockToReschedule(w, u, k, o, s)
  BY <1>12, LockToReschedulePreserves
<1>13. CASE CommitReschedule(w)
  BY <1>13, CommitReschedulePreserves
<1>14. CASE \E q \in GateRequests, t \in DOMAIN tickets : ReadAtGate(w, q, t)
  BY <1>14, ReadAtGatePreserves
<1>15. CASE CommitAdmission(w)
  BY <1>15, CommitAdmissionPreserves
<1>16. CASE Rollback(w)
  BY <1>16, RollbackPreserves
<1>. QED
  BY <1>1, <1>2, <1>3, <1>4, <1>5, <1>6, <1>7, <1>8, <1>9, <1>10, <1>11, <1>12,
     <1>13, <1>14, <1>15, <1>16 DEF Serve

LEMMA StutterPreserves ==
  ASSUME LedgerInv, UNCHANGED vars
  PROVE  LedgerInv'
<1>. USE DEF vars, database, clock, LedgerInv
<1>1. TypeOK'
  BY DEF TypeOK
<1>2. LedgerExact' /\ CountersBounded'
  BY DEF LedgerExact, CountersBounded, UnitCount, Units, Pending, Paid, InStatus
<1>3. TicketsCurrent'
  BY DEF TicketsCurrent, Paid, InStatus, Live
<1>4. SnapshotsSound'
  BY DEF SnapshotsSound, SnapshotSound
<1>. QED
  BY <1>1, <1>2, <1>3, <1>4

LEMMA StepPreserves == LedgerInv /\ [Next]_vars => LedgerInv'
<1>. SUFFICES ASSUME LedgerInv, [Next]_vars PROVE LedgerInv'
  OBVIOUS
<1>1. CASE (\E o \in Orders : HoldLapses(o)) \/ (\E s \in Slots : ClockAdvances(s))
  BY <1>1, TimePreserves
<1>2. CASE \E w \in Workers : Serve(w)
  BY <1>2, ServePreserves
<1>3. CASE UNCHANGED vars
  BY <1>3, StutterPreserves
<1>. QED
  BY <1>1, <1>2, <1>3 DEF Next

(* The counters are exact and within capacity, the tickets of every order  *)
(* are current, and what requests have read is at worst out of date, in    *)
(* every reachable state.                                                  *)
THEOREM LedgerInvariant == Spec => []LedgerInv
<1>1. Init => LedgerInv
  BY InitEstablishes
<1>2. LedgerInv /\ [Next]_vars => LedgerInv'
  BY StepPreserves
<1>. QED
  BY <1>1, <1>2, PTL DEF Spec

(* Rows, counters and snapshots keep their types; in particular no counter *)
(* is ever negative.                                                       *)
THEOREM TypeCorrect == Spec => []TypeOK
<1>1. LedgerInv => TypeOK
  BY DEF LedgerInv
<1>. QED
  BY <1>1, LedgerInvariant, PTL

(* The two counters of a slot always equal the units of its unpaid and of  *)
(* its paid orders.                                                        *)
THEOREM CountersAreExact == Spec => []LedgerExact
<1>1. LedgerInv => LedgerExact
  BY DEF LedgerInv
<1>. QED
  BY <1>1, LedgerInvariant, PTL

(* No slot is ever oversold, whatever its capacity and however many        *)
(* requests race for it.                                                   *)
THEOREM NeverOversold == Spec => []CapacityRespected
<1>1. LedgerInv => CapacityRespected
  BY DEF LedgerInv, LedgerExact, CountersBounded, CapacityRespected
<1>. QED
  BY <1>1, LedgerInvariant, PTL

(* A paid order holds exactly the tickets it bought, for the slot it is    *)
(* booked on, and no other order holds any.                                *)
THEOREM TicketsMatchOrders == Spec => []PaidOrderHoldsItsTickets
<1>1. LedgerInv => PaidOrderHoldsItsTickets
  <2>. SUFFICES ASSUME LedgerInv PROVE PaidOrderHoldsItsTickets
    OBVIOUS
  <2>. USE DEF LedgerInv
  <2>1. ASSUME NEW o \in Paid
        PROVE  /\ Cardinality(Live(o)) = orders[o].quantity
               /\ \A t \in Live(o) : tickets[t].slot = orders[o].slot
    <3>1. Cardinality(Live(o)) = orders[o].quantity
      BY LiveTickets
    <3>2. \A t \in Live(o) : tickets[t].slot = orders[o].slot
      BY DEF TicketsCurrent, Live
    <3>. QED
      BY <3>1, <3>2
  <2>2. ASSUME NEW o \in DOMAIN orders, o \notin Paid
        PROVE  Live(o) = {}
    BY <2>2 DEF TicketsCurrent, Live
  <2>. QED
    BY <2>1, <2>2 DEF PaidOrderHoldsItsTickets
<1>. QED
  BY <1>1, LedgerInvariant, PTL

-----------------------------------------------------------------------------
(***************************************************************************)
(* The second part: what the tables of the ledger remember: orders and     *)
(* their keys, admissions and after-sale rows.  Every step is summarised   *)
(* once, as a story about orders, tickets and after-sale rows, and every   *)
(* theorem follows from the stories and from the invariant of the first    *)
(* part.  With the after-sale tables in the invariant, every step of the   *)
(* service is then a step of TicketLedger, or leaves the ledger as it is.  *)
(***************************************************************************)

(* The stories.                                                            *)

(* The owner and the key of an order never change; what is over stays.     *)
SameOrder(row, new) ==
    /\ new.user = row.user /\ new.key = row.key
    /\ row.status \in {"REFUNDED", "EXPIRED", "CANCELLED"} => new = row

(* Orders are never deleted, and a new one has a key its user has not used.*)
OrderStory ==
    /\ \A o \in DOMAIN orders : o \in DOMAIN orders' /\ SameOrder(orders[o], orders'[o])
    /\ \/ DOMAIN orders' = DOMAIN orders
       \/ \E p : /\ DOMAIN orders' = DOMAIN orders \cup {p}
                 /\ ~ OrderKeyUsed(orders'[p].user, orders'[p].key)

Used == {t \in DOMAIN tickets : tickets[t].status = "USED"}

(* Used and voided tickets never change; a ticket is used by an admission, *)
(* which finds it issued and records a request not seen before.            *)
TicketStory ==
    /\ \A t \in DOMAIN tickets :
           /\ t \in DOMAIN tickets'
           /\ tickets[t].status \in {"USED", "VOID"} => tickets'[t] = tickets[t]
    /\ \/ validations' = validations /\ Used' = Used
       \/ \E v : /\ v.ticket \in DOMAIN tickets
                 /\ tickets[v.ticket].status = "ISSUED"
                 /\ ~ RequestSeen(v.request)
                 /\ validations' = validations \cup {v}
                 /\ Used' = Used \cup {v.ticket}

(* How many transitions the status of an order tells of; every reschedule  *)
(* adds one to its version.                                                *)
Stage(status) == CASE status = "PENDING_PAYMENT" -> 1
                   [] status = "REFUNDED" -> 3
                   [] OTHER -> 2

Aged(row, new, steps) ==
    /\ new.version = row.version + steps
    /\ Stage(new.status) = Stage(row.status) + steps

NothingSold ==
    /\ refunds' = refunds /\ reschedules' = reschedules
    /\ \A o \in DOMAIN orders' :
           IF o \in DOMAIN orders
           THEN \/ orders'[o] = orders[o]
                \/ Aged(orders[o], orders'[o], 1) /\ Stage(orders'[o].status) = 2
           ELSE orders'[o].version = 1 /\ orders'[o].status = "PENDING_PAYMENT"

OnlyChanged(o) ==
    /\ o \in DOMAIN orders /\ DOMAIN orders' = DOMAIN orders
    /\ \A p \in DOMAIN orders : p # o => orders'[p] = orders[p]
    /\ orders[o].status = "PAID"
    /\ orders'[o].version = orders[o].version + 1

RefundAdded(r) ==
    /\ OnlyChanged(r.order) /\ orders'[r.order].status = "REFUNDED"
    /\ r \notin refunds /\ refunds' = refunds \cup {r} /\ reschedules' = reschedules

MoveAdded(r) ==
    /\ OnlyChanged(r.order) /\ orders'[r.order].status = "PAID"
    /\ r \notin reschedules /\ reschedules' = reschedules \cup {r} /\ refunds' = refunds

SalesStory == NothingSold \/ (\E r : RefundAdded(r)) \/ (\E r : MoveAdded(r))

Story == OrderStory /\ TicketStory /\ SalesStory

-----------------------------------------------------------------------------
(* Every step has a story.                                                 *)

LEMMA QuietStory ==
  ASSUME UNCHANGED database
  PROVE  Story
<1>1. OrderStory
  BY DEF database, OrderStory, SameOrder
<1>2. TicketStory
  BY DEF database, TicketStory, Used
<1>3. SalesStory
  BY DEF database, SalesStory, NothingSold
<1>. QED
  BY <1>1, <1>2, <1>3 DEF Story

(* A step that leaves tickets and admissions alone. *)
LEMMA TicketsRest ==
  ASSUME tickets' = tickets, validations' = validations
  PROVE  TicketStory
BY DEF TicketStory, Used

LEMMA TransitionedOwner ==
  ASSUME TypeOK, NEW S, NEW status
  PROVE  \A o \in DOMAIN orders :
             /\ Transitioned(S, status)[o].user = orders[o].user
             /\ Transitioned(S, status)[o].key = orders[o].key
<1>1. ASSUME NEW o \in DOMAIN orders
      PROVE  /\ Transitioned(S, status)[o].user = orders[o].user
             /\ Transitioned(S, status)[o].key = orders[o].key
  <2>1. orders[o] \in OrderRow
    BY DEF TypeOK
  <2>2. CASE o \notin S
    BY <2>2 DEF Transitioned
  <2>3. CASE o \in S
    <3>1. Transitioned(S, status)[o]
            = [orders[o] EXCEPT !.status = status, !.version = @ + 1]
      BY <2>3 DEF Transitioned
    <3>. QED
      BY <2>1, <3>1 DEF OrderRow
  <2>. QED
    BY <2>2, <2>3
<1>. QED
  BY <1>1

(* Pending orders expire or are cancelled. *)
LEMMA EndedStory ==
  ASSUME LedgerInv, NEW S \in SUBSET Pending, NEW status \in {"EXPIRED", "CANCELLED"},
         orders' = Transitioned(S, status),
         UNCHANGED <<tickets, refunds, reschedules, validations>>
  PROVE  Story
<1>1. TypeOK /\ status \in OrderStatus
  BY DEF LedgerInv, OrderStatus
<1>2. /\ DOMAIN orders' = DOMAIN orders
      /\ \A o \in DOMAIN orders :
             /\ orders'[o].user = orders[o].user /\ orders'[o].key = orders[o].key
             /\ o \notin S => orders'[o] = orders[o]
             /\ o \in S => /\ orders'[o].status = status
                           /\ orders'[o].version = orders[o].version + 1
  BY <1>1, TransitionedRows, TransitionedOwner
<1>3. \A o \in S : o \in DOMAIN orders /\ orders[o].status = "PENDING_PAYMENT"
  BY DEF Pending, InStatus
<1>4. OrderStory
  BY <1>2, <1>3 DEF OrderStory, SameOrder
<1>5. SalesStory
  <2>1. ASSUME NEW o \in S
        PROVE  Aged(orders[o], orders'[o], 1) /\ Stage(orders'[o].status) = 2
    BY <1>2, <1>3 DEF Aged, Stage
  <2>. QED
    BY <1>2, <2>1 DEF SalesStory, NothingSold
<1>. QED
  BY <1>4, <1>5, TicketsRest DEF Story

LEMMA CommitSweepStory ==
  ASSUME LedgerInv, NEW w \in Workers, CommitSweep(w)
  PROVE  Story
<1>1. StillDue(txn[w].due) \in SUBSET Pending
  BY DEF StillDue
<1>. QED
  BY <1>1, EndedStory DEF CommitSweep

LEMMA CommitCancelStory ==
  ASSUME LedgerInv, NEW w \in Workers, CommitCancel(w)
  PROVE  Story
<1>1. {txn[w].order} \in SUBSET Pending
  BY DEF CommitCancel, Matches, Pending
<1>. QED
  BY <1>1, EndedStory DEF CommitCancel

LEMMA CommitOrderStory ==
  ASSUME LedgerInv, NEW w \in Workers, NEW o \in Orders, CommitOrder(w, o)
  PROVE  Story
<1>1. PICK m : m = txn[w]
  OBVIOUS
<1>2. PICK row : row = [status |-> "PENDING_PAYMENT", user |-> m.user,
                        key |-> m.key, slot |-> m.slot, quantity |-> m.quantity,
                        version |-> 1, payKey |-> NoKey]
  OBVIOUS
<1>3. /\ o \notin DOMAIN orders /\ ~ OrderKeyUsed(m.user, m.key)
      /\ orders' = [p \in DOMAIN orders \cup {o} |-> IF p = o THEN row ELSE orders[p]]
      /\ UNCHANGED <<tickets, refunds, reschedules, validations>>
  BY <1>1, <1>2 DEF CommitOrder
<1>4. /\ DOMAIN orders' = DOMAIN orders \cup {o} /\ orders'[o] = row
      /\ \A p \in DOMAIN orders : orders'[p] = orders[p]
  BY <1>3
<1>5. /\ row.user = m.user /\ row.key = m.key /\ row.version = 1
      /\ row.status = "PENDING_PAYMENT"
  BY <1>2
<1>6. OrderStory
  <2>1. ~ OrderKeyUsed(orders'[o].user, orders'[o].key)
    BY <1>3, <1>4, <1>5
  <2>2. \A p \in DOMAIN orders : p \in DOMAIN orders' /\ SameOrder(orders[p], orders'[p])
    BY <1>4 DEF SameOrder
  <2>. QED
    BY <1>4, <2>1, <2>2 DEF OrderStory
<1>7. SalesStory
  BY <1>3, <1>4, <1>5 DEF SalesStory, NothingSold
<1>. QED
  BY <1>3, <1>6, <1>7, TicketsRest DEF Story

-----------------------------------------------------------------------------
(* New tickets are issued, beside the ones there were.                     *)

LEMMA NewTicketsStory ==
  ASSUME LedgerInv, NEW o \in DOMAIN orders, NEW q \in Quantities,
         NEW base, DOMAIN base = DOMAIN tickets,
         \A t \in DOMAIN tickets :
             base[t] = tickets[t] \/ (tickets[t].status = "ISSUED" /\ base[t].status = "VOID"),
         NEW s, validations' = validations,
         tickets' = WithTickets(base, NewTickets(o, orders[o].version + 1, q), s)
  PROVE  TicketStory
<1>1. PICK N : N = NewTickets(o, orders[o].version + 1, q)
  OBVIOUS
<1>2. o \in Orders /\ orders[o].version + 1 \in Nat
  BY DEF LedgerInv, TypeOK, OrderRow
<1>3. \A t \in N : t[1] = o /\ t[2] = orders[o].version + 1
  BY <1>1, <1>2, NewTicketsType
<1>4. \A t \in DOMAIN tickets : t \notin N
  <2>1. \A t \in DOMAIN tickets : t[1] = o => t[2] # orders[o].version + 1
    BY NewTicketsAreNew DEF LedgerInv
  <2>. QED
    BY <1>3, <2>1
<1>5. tickets' = WithTickets(base, N, s)
  BY <1>1
<1>6. /\ DOMAIN tickets' = DOMAIN tickets \cup N
      /\ \A t \in DOMAIN tickets : tickets'[t] = base[t]
      /\ \A t \in N : tickets'[t].status = "ISSUED"
  BY <1>4, <1>5 DEF WithTickets
<1>7. Used' = Used
  <2>1. ASSUME NEW t
        PROVE  t \in Used' <=> t \in Used
    BY <1>6 DEF Used
  <2>. QED
    BY <2>1
<1>. QED
  BY <1>6, <1>7 DEF TicketStory

LEMMA CommitPaymentStory ==
  ASSUME LedgerInv, NEW w \in Workers, CommitPayment(w)
  PROVE  Story
<1>1. PICK m : m = txn[w]
  OBVIOUS
<1>2. PICK o : o = m.order
  OBVIOUS
<1>3. PICK S : S = StillDue(m.due)
  OBVIOUS
<1>4. /\ m \in Txn /\ m.op = "pay"
      /\ Matches(o, "PENDING_PAYMENT", m.version) /\ o \notin due
      /\ orders' = [Transitioned(S, "EXPIRED") EXCEPT ![o] = PaidRow(@, m.key)]
      /\ tickets' = WithTickets(tickets, NewTickets(o, m.version + 1, orders[o].quantity),
                                orders[o].slot)
      /\ UNCHANGED <<refunds, reschedules, validations>>
  BY <1>1, <1>2, <1>3 DEF CommitPayment, LedgerInv, TypeOK
<1>5. m.key \in Keys /\ m.version \in Nat
  BY <1>4, TxnFields
<1>6. /\ o \in Pending /\ S \in SUBSET Pending /\ o \notin S
      /\ orders[o].version = m.version
      /\ o \in DOMAIN orders /\ orders[o].quantity \in Quantities
  BY <1>3, <1>4 DEF Matches, Pending, InStatus, StillDue, LedgerInv, TypeOK, OrderRow
<1>7. /\ DOMAIN orders' = DOMAIN orders
      /\ \A p \in DOMAIN orders :
             /\ p \notin S \cup {o} => orders'[p] = orders[p]
             /\ p \in S \cup {o} => orders'[p].version = orders[p].version + 1
      /\ Pending' = Pending \ (S \cup {o})
      /\ Paid' = Paid \cup {o}
  BY <1>4, <1>5, <1>6, PaidRows
<1>8. \A p \in DOMAIN orders :
          orders'[p].user = orders[p].user /\ orders'[p].key = orders[p].key
  <2>1. PICK mid : mid = Transitioned(S, "EXPIRED")
    OBVIOUS
  <2>2. /\ DOMAIN mid = DOMAIN orders
        /\ \A p \in DOMAIN orders : mid[p].user = orders[p].user /\ mid[p].key = orders[p].key
        /\ mid[o] \in OrderRow
    <3>1. "EXPIRED" \in OrderStatus /\ TypeOK
      BY DEF OrderStatus, LedgerInv
    <3>. QED
      BY <1>6, <2>1, <3>1, TransitionedRows, TransitionedOwner
  <2>3. PICK row : row = mid[o]
    OBVIOUS
  <2>4. PICK new : new = PaidRow(row, m.key)
    OBVIOUS
  <2>5. new.user = row.user /\ new.key = row.key
    BY <2>2, <2>3, <2>4 DEF PaidRow, OrderRow
  <2>6. orders' = [mid EXCEPT ![o] = new]
    BY <1>4, <2>1, <2>3, <2>4
  <2>. QED
    BY <1>6, <2>2, <2>3, <2>5, <2>6
<1>9. ASSUME NEW p \in S \cup {o}
      PROVE  /\ p \in DOMAIN orders /\ orders[p].status = "PENDING_PAYMENT"
             /\ Stage(orders'[p].status) = 2
  <2>1. p \in DOMAIN orders /\ orders[p].status = "PENDING_PAYMENT"
    BY <1>6 DEF Pending, InStatus
  <2>2. orders'[p].status \in {"PAID", "EXPIRED"}
    <3>1. CASE p = o
      BY <1>6, <1>7, <3>1 DEF Paid, InStatus
    <3>2. CASE p # o
      <4>1. "EXPIRED" \in OrderStatus /\ TypeOK
        BY DEF OrderStatus, LedgerInv
      <4>2. p \in S
        BY <1>9, <3>2
      <4>3. Transitioned(S, "EXPIRED")[p].status = "EXPIRED"
        BY <2>1, <4>1, <4>2, TransitionedRows
      <4>4. p \in DOMAIN Transitioned(S, "EXPIRED")
        BY <2>1 DEF Transitioned
      <4>. QED
        BY <1>4, <3>2, <4>3, <4>4
    <3>. QED
      BY <3>1, <3>2
  <2>. QED
    BY <2>1, <2>2 DEF Stage
<1>10. OrderStory
  BY <1>7, <1>8, <1>9 DEF OrderStory, SameOrder
<1>11. SalesStory
  <2>1. ASSUME NEW p \in S \cup {o}
        PROVE  Aged(orders[p], orders'[p], 1) /\ Stage(orders'[p].status) = 2
    BY <1>7, <1>9 DEF Aged, Stage
  <2>. QED
    BY <1>4, <1>7, <2>1 DEF SalesStory, NothingSold
<1>12. TicketStory
  BY <1>4, <1>6, NewTicketsStory
<1>. QED
  BY <1>10, <1>11, <1>12 DEF Story

-----------------------------------------------------------------------------
(* After-sale requests and admissions.                                     *)

(* Voiding changes issued tickets only. *)
LEMMA VoidedOnlyIssued ==
  ASSUME TypeOK, NEW o, NEW after, after = Voided(o)
  PROVE  /\ DOMAIN after = DOMAIN tickets
         /\ \A t \in DOMAIN tickets :
                \/ after[t] = tickets[t]
                \/ tickets[t].status = "ISSUED" /\ after[t].status = "VOID"
<1>1. DOMAIN after = DOMAIN tickets
  BY DEF Voided
<1>2. ASSUME NEW t \in DOMAIN tickets
      PROVE  \/ after[t] = tickets[t]
             \/ tickets[t].status = "ISSUED" /\ after[t].status = "VOID"
  <2>1. CASE t \notin Issued(o)
    BY <2>1 DEF Voided
  <2>2. CASE t \in Issued(o)
    <3>1. PICK row : row = tickets[t]
      OBVIOUS
    <3>2. row \in TicketRow /\ row.status = "ISSUED"
      BY <2>2, <3>1 DEF TypeOK, Issued
    <3>3. after[t] = [row EXCEPT !.status = "VOID", !.version = @ + 1]
      BY <2>2, <3>1 DEF Voided
    <3>. QED
      BY <3>1, <3>2, <3>3, VoidedRow
  <2>. QED
    BY <2>1, <2>2
<1>. QED
  BY <1>1, <1>2

LEMMA CommitRefundStory ==
  ASSUME LedgerInv, NEW w \in Workers, CommitRefund(w)
  PROVE  Story
<1>1. PICK m : m = txn[w]
  OBVIOUS
<1>2. PICK o : o = m.order
  OBVIOUS
<1>3. PICK r : r = [user |-> m.user, key |-> m.key, order |-> o]
  OBVIOUS
<1>4. /\ Matches(o, "PAID", m.version)
      /\ ~ KeyUsed(refunds, m.user, m.key)
      /\ tickets' = Voided(o)
      /\ orders' = Transitioned({o}, "REFUNDED")
      /\ refunds' = refunds \cup {r}
      /\ UNCHANGED <<reschedules, validations>>
  BY <1>1, <1>2, <1>3 DEF CommitRefund
<1>5. r.user = m.user /\ r.key = m.key /\ r.order = o
  BY <1>3
<1>6. TypeOK /\ "REFUNDED" \in OrderStatus
  BY DEF LedgerInv, OrderStatus
<1>7. o \in DOMAIN orders /\ orders[o].status = "PAID"
  BY <1>4 DEF Matches, InStatus
<1>8. /\ DOMAIN orders' = DOMAIN orders
      /\ \A p \in DOMAIN orders :
             /\ orders'[p].user = orders[p].user /\ orders'[p].key = orders[p].key
             /\ p # o => orders'[p] = orders[p]
      /\ orders'[o].status = "REFUNDED"
      /\ orders'[o].version = orders[o].version + 1
  BY <1>4, <1>6, <1>7, TransitionedRows, TransitionedOwner
<1>9. OrderStory
  BY <1>7, <1>8 DEF OrderStory, SameOrder
<1>10. SalesStory
  <2>1. r \notin refunds
    BY <1>4, <1>5 DEF KeyUsed
  <2>2. OnlyChanged(o)
    BY <1>7, <1>8 DEF OnlyChanged
  <2>3. RefundAdded(r)
    BY <1>4, <1>5, <1>8, <2>1, <2>2 DEF RefundAdded
  <2>. QED
    BY <2>3 DEF SalesStory
<1>11. TicketStory
  <2>1. /\ DOMAIN tickets' = DOMAIN tickets
        /\ \A t \in DOMAIN tickets :
               \/ tickets'[t] = tickets[t]
               \/ tickets[t].status = "ISSUED" /\ tickets'[t].status = "VOID"
    BY <1>4, <1>6, VoidedOnlyIssued
  <2>2. Used' = Used
    BY <2>1 DEF Used
  <2>. QED
    BY <1>4, <2>1, <2>2 DEF TicketStory
<1>. QED
  BY <1>9, <1>10, <1>11 DEF Story

LEMMA CommitRescheduleStory ==
  ASSUME LedgerInv, NEW w \in Workers, CommitReschedule(w)
  PROVE  Story
<1>1. PICK m : m = txn[w]
  OBVIOUS
<1>2. PICK o : o = m.order
  OBVIOUS
<1>3. PICK r : r = [user |-> m.user, key |-> m.key, order |-> o,
                    source |-> m.slot, target |-> m.target]
  OBVIOUS
<1>4. /\ Matches(o, "PAID", m.version)
      /\ ~ KeyUsed(reschedules, m.user, m.key)
      /\ tickets' = WithTickets(Voided(o), NewTickets(o, m.version + 1, orders[o].quantity),
                                m.target)
      /\ orders' = [orders EXCEPT ![o] = MovedRow(@, m.target)]
      /\ reschedules' = reschedules \cup {r}
      /\ UNCHANGED <<refunds, validations>>
  BY <1>1, <1>2, <1>3 DEF CommitReschedule
<1>5. r.user = m.user /\ r.key = m.key /\ r.order = o
  BY <1>3
<1>6. /\ o \in DOMAIN orders /\ orders[o].status = "PAID" /\ orders[o].version = m.version
      /\ orders[o] \in OrderRow /\ orders[o].quantity \in Quantities /\ TypeOK
  BY <1>4 DEF Matches, InStatus, LedgerInv, TypeOK, OrderRow
<1>7. /\ DOMAIN orders' = DOMAIN orders
      /\ \A p \in DOMAIN orders : p # o => orders'[p] = orders[p]
      /\ orders'[o].user = orders[o].user /\ orders'[o].key = orders[o].key
      /\ orders'[o].status = "PAID" /\ orders'[o].version = orders[o].version + 1
  <2>1. PICK row : row = orders[o]
    OBVIOUS
  <2>2. PICK new : new = MovedRow(row, m.target)
    OBVIOUS
  <2>3. /\ new.user = row.user /\ new.key = row.key /\ new.status = row.status
        /\ new.version = row.version + 1
    BY <1>6, <2>1, <2>2 DEF MovedRow, OrderRow
  <2>4. orders' = [orders EXCEPT ![o] = new]
    BY <1>4, <2>1, <2>2
  <2>. QED
    BY <1>6, <2>1, <2>3, <2>4
<1>8. OrderStory
  BY <1>6, <1>7 DEF OrderStory, SameOrder
<1>9. SalesStory
  <2>1. r \notin reschedules
    BY <1>4, <1>5 DEF KeyUsed
  <2>2. OnlyChanged(o)
    BY <1>6, <1>7 DEF OnlyChanged
  <2>3. MoveAdded(r)
    BY <1>4, <1>5, <1>7, <2>1, <2>2 DEF MoveAdded
  <2>. QED
    BY <2>3 DEF SalesStory
<1>10. TicketStory
  <2>1. PICK after : after = Voided(o)
    OBVIOUS
  <2>2. /\ DOMAIN after = DOMAIN tickets
        /\ \A t \in DOMAIN tickets :
               \/ after[t] = tickets[t]
               \/ tickets[t].status = "ISSUED" /\ after[t].status = "VOID"
    BY <1>6, <2>1, VoidedOnlyIssued
  <2>3. tickets' = WithTickets(after, NewTickets(o, orders[o].version + 1, orders[o].quantity),
                               m.target)
    BY <1>4, <1>6, <2>1
  <2>. QED
    BY <1>4, <1>6, <2>2, <2>3, NewTicketsStory
<1>. QED
  BY <1>8, <1>9, <1>10 DEF Story

LEMMA CommitAdmissionStory ==
  ASSUME LedgerInv, NEW w \in Workers, CommitAdmission(w)
  PROVE  Story
<1>1. PICK m : m = txn[w]
  OBVIOUS
<1>2. PICK t : t = m.ticket
  OBVIOUS
<1>3. PICK v : v = [request |-> m.request, ticket |-> t]
  OBVIOUS
<1>4. /\ m.op = "gate" /\ SnapshotSound(m)
      /\ tickets[t].status = "ISSUED" /\ ~ RequestSeen(m.request)
      /\ tickets' = [tickets EXCEPT ![t] = UsedRow(@)]
      /\ validations' = validations \cup {v}
      /\ UNCHANGED <<orders, refunds, reschedules>>
  BY <1>1, <1>2, <1>3 DEF CommitAdmission, Takes, LedgerInv, SnapshotsSound
<1>5. v.request = m.request /\ v.ticket = t
  BY <1>3
<1>6. t \in DOMAIN tickets /\ tickets[t] \in TicketRow
  BY <1>2, <1>4 DEF SnapshotSound, LedgerInv, TypeOK
<1>7. /\ DOMAIN tickets' = DOMAIN tickets
      /\ \A x \in DOMAIN tickets : x # t => tickets'[x] = tickets[x]
      /\ tickets'[t].status = "USED"
  <2>1. PICK row : row = tickets[t]
    OBVIOUS
  <2>2. PICK new : new = UsedRow(row)
    OBVIOUS
  <2>3. new.status = "USED"
    BY <1>6, <2>1, <2>2 DEF UsedRow, TicketRow
  <2>4. tickets' = [tickets EXCEPT ![t] = new]
    BY <1>4, <2>1, <2>2
  <2>. QED
    BY <1>6, <2>3, <2>4
<1>8. OrderStory
  BY <1>4 DEF OrderStory, SameOrder
<1>9. SalesStory
  BY <1>4 DEF SalesStory, NothingSold
<1>10. TicketStory
  <2>1. Used' = Used \cup {t}
    <3>1. ASSUME NEW x
          PROVE  x \in Used' <=> x \in Used \cup {t}
      BY <1>6, <1>7 DEF Used
    <3>. QED
      BY <3>1
  <2>. QED
    BY <1>4, <1>5, <1>6, <1>7, <2>1 DEF TicketStory
<1>. QED
  BY <1>8, <1>9, <1>10 DEF Story

LEMMA ServeStory ==
  ASSUME LedgerInv, NEW w \in Workers, Serve(w)
  PROVE  Story
<1>1. CASE \E u \in Users, next \in {"reply", "create", "cancel"} : BeginSweep(w, u, next)
  BY <1>1, QuietStory DEF BeginSweep
<1>2. CASE CommitSweep(w)
  BY <1>2, CommitSweepStory
<1>3. CASE \E k \in Keys, s \in Slots, q \in Quantities : LockToCreate(w, k, s, q)
  BY <1>3, QuietStory DEF LockToCreate
<1>4. CASE \E o \in Orders : CommitOrder(w, o)
  BY <1>4, CommitOrderStory
<1>5. CASE \E u \in Users, k \in Keys, o \in DOMAIN orders : ReadToPay(w, u, k, o)
  BY <1>5, QuietStory DEF ReadToPay
<1>6. CASE CommitPayment(w)
  BY <1>6, CommitPaymentStory
<1>7. CASE \E o \in DOMAIN orders : ReadToCancel(w, o)
  BY <1>7, QuietStory DEF ReadToCancel
<1>8. CASE CommitCancel(w)
  BY <1>8, CommitCancelStory
<1>9. CASE \E u \in Users, k \in Keys, o \in DOMAIN orders : ReadToRefund(w, u, k, o)
  BY <1>9, QuietStory DEF ReadToRefund
<1>10. CASE ReadItemToRefund(w)
  BY <1>10, QuietStory DEF ReadItemToRefund
<1>11. CASE CommitRefund(w)
  BY <1>11, CommitRefundStory
<1>12. CASE \E u \in Users, k \in Keys, o \in DOMAIN orders, s \in Slots :
                LockToReschedule(w, u, k, o, s)
  BY <1>12, QuietStory DEF LockToReschedule
<1>13. CASE CommitReschedule(w)
  BY <1>13, CommitRescheduleStory
<1>14. CASE \E q \in GateRequests, t \in DOMAIN tickets : ReadAtGate(w, q, t)
  BY <1>14, QuietStory DEF ReadAtGate
<1>15. CASE CommitAdmission(w)
  BY <1>15, CommitAdmissionStory
<1>16. CASE Rollback(w)
  BY <1>16, QuietStory DEF Rollback
<1>. QED
  BY <1>1, <1>2, <1>3, <1>4, <1>5, <1>6, <1>7, <1>8, <1>9, <1>10, <1>11, <1>12,
     <1>13, <1>14, <1>15, <1>16 DEF Serve

LEMMA StepStory ==
  ASSUME LedgerInv, [Next]_vars
  PROVE  Story
<1>1. CASE (\E o \in Orders : HoldLapses(o)) \/ (\E s \in Slots : ClockAdvances(s))
  BY <1>1, QuietStory DEF HoldLapses, ClockAdvances
<1>2. CASE \E w \in Workers : Serve(w)
  BY <1>2, ServeStory
<1>3. CASE UNCHANGED vars
  BY <1>3, QuietStory DEF vars
<1>. QED
  BY <1>1, <1>2, <1>3 DEF Next

-----------------------------------------------------------------------------
(* Keys and admissions.                                                    *)

LEMMA KeysStep ==
  ASSUME KeyNamesOneOrder, OrderStory
  PROVE  KeyNamesOneOrder'
<1>1. \A o \in DOMAIN orders : /\ o \in DOMAIN orders'
                               /\ orders'[o].user = orders[o].user
                               /\ orders'[o].key = orders[o].key
  BY DEF OrderStory, SameOrder
<1>2. CASE DOMAIN orders' = DOMAIN orders
  BY <1>1, <1>2 DEF KeyNamesOneOrder
<1>3. CASE DOMAIN orders' # DOMAIN orders
  <2>1. PICK p : /\ DOMAIN orders' = DOMAIN orders \cup {p}
                 /\ ~ OrderKeyUsed(orders'[p].user, orders'[p].key)
    BY <1>3 DEF OrderStory
  <2>2. \A o \in DOMAIN orders :
            ~ (orders'[o].user = orders'[p].user /\ orders'[o].key = orders'[p].key)
    BY <1>1, <2>1 DEF OrderKeyUsed
  <2>. QED
    BY <1>1, <2>1, <2>2 DEF KeyNamesOneOrder
<1>. QED
  BY <1>2, <1>3

LEMMA AdmissionsStep ==
  ASSUME AdmissionsRecorded, TicketStory
  PROVE  AdmissionsRecorded'
<1>1. /\ \A v1, v2 \in validations :
             v1.request = v2.request \/ v1.ticket = v2.ticket => v1 = v2
      /\ {v.ticket : v \in validations} = Used
  BY DEF AdmissionsRecorded, Used
<1>2. /\ \A v1, v2 \in validations' :
             v1.request = v2.request \/ v1.ticket = v2.ticket => v1 = v2
      /\ {v.ticket : v \in validations'} = Used'
  <2>1. CASE validations' = validations /\ Used' = Used
    BY <1>1, <2>1
  <2>2. ASSUME NEW v, v.ticket \in DOMAIN tickets, tickets[v.ticket].status = "ISSUED",
               ~ RequestSeen(v.request), validations' = validations \cup {v},
               Used' = Used \cup {v.ticket}
        PROVE  /\ \A v1, v2 \in validations' :
                      v1.request = v2.request \/ v1.ticket = v2.ticket => v1 = v2
               /\ {x.ticket : x \in validations'} = Used'
    <3>1. v.ticket \notin Used
      BY <2>2 DEF Used
    <3>2. \A x \in validations : x.request # v.request /\ x.ticket # v.ticket
      BY <1>1, <2>2, <3>1 DEF RequestSeen
    <3>3. {x.ticket : x \in validations'} = Used'
      BY <1>1, <2>2
    <3>. QED
      BY <1>1, <2>2, <3>2, <3>3
  <2>. QED
    BY <2>1, <2>2 DEF TicketStory
<1>. QED
  BY <1>2 DEF AdmissionsRecorded, Used

-----------------------------------------------------------------------------
(* After-sale rows.                                                        *)

RowsOf(table, o) == {r \in table : r.order = o}

Recorded(o) ==
    /\ Cardinality(RowsOf(refunds, o)) = (IF orders[o].status = "REFUNDED" THEN 1 ELSE 0)
    /\ orders[o].version = Cardinality(RowsOf(reschedules, o)) + Stage(orders[o].status)

LEMMA RecordedAll == AfterSalesRecorded <=> \A o \in DOMAIN orders : Recorded(o)
BY DEF AfterSalesRecorded, Recorded, RowsOf, Stage

(* The rows of an order can be counted, and are about orders that exist.   *)
SalesInv ==
    /\ IsFiniteSet(refunds) /\ IsFiniteSet(reschedules)
    /\ \A r \in refunds \cup reschedules : r.order \in DOMAIN orders
    /\ \A o \in DOMAIN orders : Recorded(o)

LEMMA RowsAdded ==
  ASSUME NEW table, NEW r, r \notin table, IsFiniteSet(table), NEW after,
         after = table \cup {r}
  PROVE  /\ IsFiniteSet(after)
         /\ \A o : o # r.order => RowsOf(after, o) = RowsOf(table, o)
         /\ Cardinality(RowsOf(after, r.order)) = Cardinality(RowsOf(table, r.order)) + 1
<1>1. IsFiniteSet(after)
  BY FS_AddElement
<1>2. \A o : o # r.order => RowsOf(after, o) = RowsOf(table, o)
  BY DEF RowsOf
<1>3. RowsOf(after, r.order) = RowsOf(table, r.order) \cup {r}
  BY DEF RowsOf
<1>4. IsFiniteSet(RowsOf(table, r.order)) /\ r \notin RowsOf(table, r.order)
  BY FS_Subset DEF RowsOf
<1>5. Cardinality(RowsOf(table, r.order) \cup {r})
        = Cardinality(RowsOf(table, r.order)) + 1
  BY <1>4, FS_AddElement
<1>. QED
  BY <1>1, <1>2, <1>3, <1>5

LEMMA RowsCounted ==
  ASSUME NEW table, IsFiniteSet(table), NEW o
  PROVE  Cardinality(RowsOf(table, o)) \in Nat
<1>1. IsFiniteSet(RowsOf(table, o))
  BY FS_Subset DEF RowsOf
<1>. QED
  BY <1>1, FS_CardinalityType

LEMMA SalesStep ==
  ASSUME LedgerInv, SalesInv, SalesStory, DOMAIN orders \subseteq DOMAIN orders'
  PROVE  SalesInv'
<1>. USE DEF SalesInv
<1>1. ASSUME NEW o \in DOMAIN orders
      PROVE  /\ Cardinality(RowsOf(reschedules, o)) \in Nat
             /\ orders[o].version \in Nat /\ orders[o].status \in OrderStatus
             /\ Stage(orders[o].status) \in {1, 2, 3}
             /\ Stage(orders[o].status) = 3 <=> orders[o].status = "REFUNDED"
  <2>1. orders[o].version \in Nat /\ orders[o].status \in OrderStatus
    BY DEF LedgerInv, TypeOK, OrderRow
  <2>2. /\ Stage(orders[o].status) \in {1, 2, 3}
        /\ Stage(orders[o].status) = 3 <=> orders[o].status = "REFUNDED"
    BY <2>1 DEF Stage, OrderStatus
  <2>. QED
    BY <2>1, <2>2, RowsCounted
<1>2. CASE NothingSold
  <2>1. /\ refunds' = refunds /\ reschedules' = reschedules
        /\ \A r \in refunds' \cup reschedules' : r.order \in DOMAIN orders'
    BY <1>2 DEF NothingSold
  <2>2. ASSUME NEW o \in DOMAIN orders' PROVE Recorded(o)'
    <3>1. CASE o \in DOMAIN orders /\ orders'[o] = orders[o]
      BY <2>1, <3>1 DEF Recorded
    <3>2. CASE /\ o \in DOMAIN orders
               /\ Aged(orders[o], orders'[o], 1) /\ Stage(orders'[o].status) = 2
      <4>1. Stage(orders[o].status) = 1 /\ orders'[o].version = orders[o].version + 1
        BY <1>1, <3>2 DEF Aged
      <4>2. orders[o].status # "REFUNDED" /\ orders'[o].status # "REFUNDED"
        BY <3>2, <4>1 DEF Stage
      <4>3. Recorded(o) /\ Cardinality(RowsOf(reschedules, o)) \in Nat
        BY <1>1, <3>2
      <4>. QED
        BY <2>1, <3>2, <4>1, <4>2, <4>3 DEF Recorded
    <3>3. CASE o \notin DOMAIN orders
      <4>1. orders'[o].version = 1 /\ orders'[o].status = "PENDING_PAYMENT"
        BY <1>2, <3>3 DEF NothingSold
      <4>2. RowsOf(refunds, o) = {} /\ RowsOf(reschedules, o) = {}
        BY <3>3 DEF RowsOf
      <4>3. Stage(orders'[o].status) = 1
        BY <4>1 DEF Stage
      <4>. QED
        BY <2>1, <4>1, <4>2, <4>3, FS_EmptySet DEF Recorded
    <3>. QED
      BY <1>2, <3>1, <3>2, <3>3 DEF NothingSold
  <2>. QED
    BY <2>1, <2>2
<1>3. ASSUME NEW r, RefundAdded(r)
      PROVE  SalesInv'
  <2>1. PICK o : o = r.order
    OBVIOUS
  <2>2. /\ OnlyChanged(o) /\ orders'[o].status = "REFUNDED"
        /\ r \notin refunds /\ refunds' = refunds \cup {r} /\ reschedules' = reschedules
    BY <1>3, <2>1 DEF RefundAdded
  <2>3. /\ IsFiniteSet(refunds')
        /\ \A p : p # o => RowsOf(refunds', p) = RowsOf(refunds, p)
        /\ Cardinality(RowsOf(refunds', o)) = Cardinality(RowsOf(refunds, o)) + 1
    <3>1. PICK table, after : table = refunds /\ after = refunds'
      OBVIOUS
    <3>2. r \notin table /\ IsFiniteSet(table) /\ after = table \cup {r}
      BY <2>2, <3>1
    <3>3. /\ IsFiniteSet(after)
          /\ \A p : p # o => RowsOf(after, p) = RowsOf(table, p)
          /\ Cardinality(RowsOf(after, o)) = Cardinality(RowsOf(table, o)) + 1
      BY ONLY <2>1, <3>2, RowsAdded
    <3>. QED
      BY <3>1, <3>3
  <2>4. /\ o \in DOMAIN orders /\ DOMAIN orders' = DOMAIN orders
        /\ \A p \in DOMAIN orders : p # o => orders'[p] = orders[p]
        /\ orders[o].status = "PAID" /\ orders'[o].version = orders[o].version + 1
    BY <2>2 DEF OnlyChanged
  <2>5. Recorded(o)'
    <3>1. Recorded(o) /\ Cardinality(RowsOf(reschedules, o)) \in Nat
      BY <1>1, <2>4
    <3>2. Stage(orders[o].status) = 2 /\ Stage(orders'[o].status) = 3
      BY <2>2, <2>4 DEF Stage
    <3>. QED
      BY <2>2, <2>3, <2>4, <3>1, <3>2 DEF Recorded
  <2>6. ASSUME NEW p \in DOMAIN orders', p # o PROVE Recorded(p)'
    BY <2>2, <2>3, <2>4, <2>6, ZenonT(60) DEF Recorded
  <2>. QED
    BY <2>1, <2>2, <2>3, <2>4, <2>5, <2>6
<1>4. ASSUME NEW r, MoveAdded(r)
      PROVE  SalesInv'
  <2>1. PICK o : o = r.order
    OBVIOUS
  <2>2. /\ OnlyChanged(o) /\ orders'[o].status = "PAID"
        /\ r \notin reschedules /\ reschedules' = reschedules \cup {r} /\ refunds' = refunds
    BY <1>4, <2>1 DEF MoveAdded
  <2>3. /\ IsFiniteSet(reschedules')
        /\ \A p : p # o => RowsOf(reschedules', p) = RowsOf(reschedules, p)
        /\ Cardinality(RowsOf(reschedules', o)) = Cardinality(RowsOf(reschedules, o)) + 1
    <3>1. PICK table, after : table = reschedules /\ after = reschedules'
      OBVIOUS
    <3>2. r \notin table /\ IsFiniteSet(table) /\ after = table \cup {r}
      BY <2>2, <3>1
    <3>3. /\ IsFiniteSet(after)
          /\ \A p : p # o => RowsOf(after, p) = RowsOf(table, p)
          /\ Cardinality(RowsOf(after, o)) = Cardinality(RowsOf(table, o)) + 1
      BY ONLY <2>1, <3>2, RowsAdded
    <3>. QED
      BY <3>1, <3>3
  <2>4. /\ o \in DOMAIN orders /\ DOMAIN orders' = DOMAIN orders
        /\ \A p \in DOMAIN orders : p # o => orders'[p] = orders[p]
        /\ orders[o].status = "PAID" /\ orders'[o].version = orders[o].version + 1
    BY <2>2 DEF OnlyChanged
  <2>5. Recorded(o)'
    <3>1. Recorded(o) /\ Cardinality(RowsOf(reschedules, o)) \in Nat
      BY <1>1, <2>4
    <3>2. Stage(orders[o].status) = 2 /\ Stage(orders'[o].status) = 2
      BY <2>2, <2>4 DEF Stage
    <3>. QED
      BY <2>2, <2>3, <2>4, <3>1, <3>2 DEF Recorded
  <2>6. ASSUME NEW p \in DOMAIN orders', p # o PROVE Recorded(p)'
    BY <2>2, <2>3, <2>4, <2>6 DEF Recorded
  <2>. QED
    BY <2>1, <2>2, <2>3, <2>4, <2>5, <2>6
<1>. QED
  BY <1>2, <1>3, <1>4 DEF SalesStory

-----------------------------------------------------------------------------
(* What the tables remember, in every reachable state.                     *)

HistoryInv == LedgerInv /\ KeyNamesOneOrder /\ AdmissionsRecorded /\ SalesInv

LEMMA HistoryInit == Init => HistoryInv
<1>. SUFFICES ASSUME Init PROVE HistoryInv
  OBVIOUS
<1>1. LedgerInv
  BY InitEstablishes
<1>2. /\ DOMAIN orders = {} /\ DOMAIN tickets = {}
      /\ refunds = {} /\ reschedules = {} /\ validations = {}
  BY DEF Init
<1>3. KeyNamesOneOrder /\ AdmissionsRecorded
  BY <1>2 DEF KeyNamesOneOrder, AdmissionsRecorded
<1>4. SalesInv
  BY <1>2, FS_EmptySet DEF SalesInv
<1>. QED
  BY <1>1, <1>3, <1>4 DEF HistoryInv

LEMMA HistoryStep == HistoryInv /\ [Next]_vars => HistoryInv'
<1>. SUFFICES ASSUME HistoryInv, [Next]_vars PROVE HistoryInv'
  OBVIOUS
<1>1. OrderStory /\ TicketStory /\ SalesStory
  BY StepStory DEF HistoryInv, Story
<1>2. LedgerInv'
  BY StepPreserves DEF HistoryInv
<1>3. KeyNamesOneOrder' /\ AdmissionsRecorded'
  BY <1>1, KeysStep, AdmissionsStep DEF HistoryInv
<1>4. SalesInv'
  <2>1. DOMAIN orders \subseteq DOMAIN orders'
    BY <1>1 DEF OrderStory
  <2>. QED
    BY <1>1, <2>1, SalesStep DEF HistoryInv
<1>. QED
  BY <1>2, <1>3, <1>4 DEF HistoryInv

(* Keys, admissions and after-sale rows tell the truth about orders and    *)
(* tickets, in every reachable state.                                      *)
THEOREM HistoryInvariant == Spec => []HistoryInv
<1>1. Init => HistoryInv
  BY HistoryInit
<1>2. HistoryInv /\ [Next]_vars => HistoryInv'
  BY HistoryStep
<1>. QED
  BY <1>1, <1>2, PTL DEF Spec

(* An idempotency key of a user names at most one order, however often and *)
(* however concurrently the request is repeated.                           *)
THEOREM KeysNameOrders == Spec => []KeyNamesOneOrder
<1>1. HistoryInv => KeyNamesOneOrder
  BY DEF HistoryInv
<1>. QED
  BY <1>1, HistoryInvariant, PTL

(* Every used ticket has exactly one admission, and every request at the   *)
(* gates admits at most one ticket.                                        *)
THEOREM AdmissionsAreRecorded == Spec => []AdmissionsRecorded
<1>1. HistoryInv => AdmissionsRecorded
  BY DEF HistoryInv
<1>. QED
  BY <1>1, HistoryInvariant, PTL

(* An order has one refund row exactly when it is refunded and one         *)
(* reschedule row for every time it was moved.                             *)
THEOREM AfterSalesAreRecorded == Spec => []AfterSalesRecorded
<1>1. HistoryInv => AfterSalesRecorded
  BY RecordedAll DEF HistoryInv, SalesInv
<1>. QED
  BY <1>1, HistoryInvariant, PTL

(* No late commit revives an order or a ticket that is over.               *)
THEOREM OverStaysOver == Spec => FinalStatesStay
<1>. DEFINE Stay ==
         /\ \A o \in DOMAIN orders :
                orders[o].status \in {"REFUNDED", "EXPIRED", "CANCELLED"}
                => orders'[o] = orders[o]
         /\ \A t \in DOMAIN tickets :
                tickets[t].status \in {"USED", "VOID"} => tickets'[t] = tickets[t]
<1>1. ASSUME LedgerInv, [Next]_vars PROVE Stay
  <2>1. OrderStory /\ TicketStory
    BY <1>1, StepStory DEF Story
  <2>. QED
    BY <2>1 DEF OrderStory, SameOrder, TicketStory
<1>2. LedgerInv /\ [Next]_vars => [Stay]_vars
  BY <1>1
<1>. QED
  BY <1>2, LedgerInvariant, PTL DEF Spec, FinalStatesStay

(* Although a gate looks at the order before it takes the ticket and not   *)
(* again, it admits only on a ticket whose order is paid and booked on the *)
(* slot of the ticket at the moment it is taken.                           *)
THEOREM AdmissionIsCurrent == Spec => AdmittedOnCurrentTicket
<1>. DEFINE Current ==
         \A t \in DOMAIN tickets :
             tickets[t].status # "USED" /\ tickets'[t].status = "USED"
             => t[1] \in Paid /\ orders[t[1]].slot = tickets[t].slot
<1>1. ASSUME LedgerInv, [Next]_vars PROVE Current
  <2>1. TicketStory
    BY <1>1, StepStory DEF Story
  <2>2. ASSUME NEW t \in DOMAIN tickets,
               tickets[t].status # "USED", tickets'[t].status = "USED"
        PROVE  t[1] \in Paid /\ orders[t[1]].slot = tickets[t].slot
    <3>1. t \in Used' /\ t \notin Used
      BY <2>1, <2>2 DEF TicketStory, Used
    <3>2. tickets[t].status = "ISSUED"
      BY <2>1, <3>1 DEF TicketStory
    <3>. QED
      BY <1>1, <3>2 DEF LedgerInv, TicketsCurrent
  <2>. QED
    BY <2>2
<1>2. LedgerInv /\ [Next]_vars => [Current]_vars
  BY <1>1
<1>. QED
  BY <1>2, LedgerInvariant, PTL DEF Spec, AdmittedOnCurrentTicket

-----------------------------------------------------------------------------
(* The service implements TicketLedger.  Of a step only what it does to    *)
(* the pending and the paid orders matters.                                *)

(* Some pending orders end, and those in P pay. *)
Settled(S, P) ==
    /\ S \subseteq Pending /\ P \subseteq Pending
    /\ \A p \in Pending \cup Paid : /\ orders'[p].slot = orders[p].slot
                                    /\ orders'[p].quantity = orders[p].quantity
    /\ Pending' = Pending \ (S \cup P) /\ Paid' = Paid \cup P

LEMMA SettledMaps ==
  ASSUME TypeOK, NEW S, NEW P, Settled(S, P)
  PROVE  Ledger!Settle(S, P)
<1>1. /\ \A p \in Pending' : /\ orders'[p].slot = orders[p].slot
                             /\ orders'[p].quantity = orders[p].quantity
      /\ \A p \in Paid' : /\ orders'[p].slot = orders[p].slot
                          /\ orders'[p].quantity = orders[p].quantity
  BY DEF Settled
<1>2. ASSUME NEW s \in Slots
      PROVE  /\ BookedUnits(orders', Pending', s)
                  = BookedUnits(orders, Pending, s) \ ((S \cup P) \X Quantities)
             /\ BookedUnits(orders', Paid', s)
                  = BookedUnits(orders, Paid, s)
                    \cup (BookedUnits(orders, Pending, s) \cap (P \X Quantities))
  <2>1. /\ BookedUnits(orders', Pending', s) = BookedUnits(orders, Pending', s)
        /\ BookedUnits(orders', Paid', s) = BookedUnits(orders, Paid', s)
    BY <1>1, UnitsKept
  <2>2. PICK A, B, C, D : A = Pending /\ B = Paid /\ C = Pending' /\ D = Paid'
    OBVIOUS
  <2>3. S \subseteq A /\ P \subseteq A /\ C = A \ (S \cup P) /\ D = B \cup P
    BY <2>2 DEF Settled
  <2>4. BookedUnits(orders, C, s)
          = BookedUnits(orders, A, s) \ ((S \cup P) \X Quantities)
    BY ONLY <2>3 DEF BookedUnits
  <2>5. BookedUnits(orders, D, s)
          = BookedUnits(orders, B, s)
            \cup (BookedUnits(orders, A, s) \cap (P \X Quantities))
    BY ONLY <2>3 DEF BookedUnits
  <2>. QED
    BY <2>1, <2>2, <2>4, <2>5
<1>. QED
  BY <1>2 DEF Ledger!Settle, Ledger!UnitsOfOrders, Units, Quantities

(* A refund frees the units of a paid order. *)
Returned(o) ==
    /\ \A p \in Pending \cup Paid : /\ orders'[p].slot = orders[p].slot
                                    /\ orders'[p].quantity = orders[p].quantity
    /\ Pending' = Pending /\ Paid' = Paid \ {o}

LEMMA ReturnedMaps ==
  ASSUME TypeOK, NEW o, Returned(o)
  PROVE  Ledger!Return(o)
<1>1. /\ \A p \in Pending' : /\ orders'[p].slot = orders[p].slot
                             /\ orders'[p].quantity = orders[p].quantity
      /\ \A p \in Paid' : /\ orders'[p].slot = orders[p].slot
                          /\ orders'[p].quantity = orders[p].quantity
  BY DEF Returned
<1>2. ASSUME NEW s \in Slots
      PROVE  /\ BookedUnits(orders', Pending', s) = BookedUnits(orders, Pending, s)
             /\ BookedUnits(orders', Paid', s)
                  = BookedUnits(orders, Paid, s) \ ({o} \X Quantities)
  <2>1. /\ BookedUnits(orders', Pending', s) = BookedUnits(orders, Pending', s)
        /\ BookedUnits(orders', Paid', s) = BookedUnits(orders, Paid', s)
    BY <1>1, UnitsKept
  <2>2. PICK B, D : B = Paid /\ D = Paid'
    OBVIOUS
  <2>3. D = B \ {o}
    BY <2>2 DEF Returned
  <2>4. BookedUnits(orders, D, s) = BookedUnits(orders, B, s) \ ({o} \X Quantities)
    BY ONLY <2>3 DEF BookedUnits
  <2>. QED
    BY <2>1, <2>2, <2>4 DEF Returned
<1>. QED
  BY <1>2 DEF Ledger!Return, Ledger!UnitsOfOrders, Units, Quantities

(* The ledger counts the units the counters count. *)
LEMMA LedgerCounts ==
  ASSUME LedgerInv, NEW s \in Slots
  PROVE  /\ Ledger!Occupied(s) = inventory[s].reserved + inventory[s].sold
         /\ inventory[s].reserved \in Nat /\ inventory[s].sold \in Nat
<1>1. /\ inventory[s].reserved = Cardinality(Units(Pending, s))
      /\ inventory[s].sold = Cardinality(Units(Paid, s))
      /\ inventory[s].reserved \in Nat /\ inventory[s].sold \in Nat
  BY DEF LedgerInv, LedgerExact, UnitCount, TypeOK
<1>2. \A X : Ledger!Cardinality(X) = Cardinality(X)
  BY DEF Ledger!Cardinality, Cardinality
<1>. QED
  BY <1>1, <1>2 DEF Ledger!Occupied

LEMMA OrderReserves ==
  ASSUME LedgerInv, NEW w \in Workers, NEW o \in Orders, CommitOrder(w, o)
  PROVE  \E s \in Slots, q \in Quantities : Ledger!Reserve(o, s, q)
<1>1. PICK m : m = txn[w]
  OBVIOUS
<1>2. PICK s, q : s = m.slot /\ q = m.quantity
  OBVIOUS
<1>3. /\ m \in Txn /\ m.op = "order" /\ o \notin DOMAIN orders
      /\ Available(s) >= q
  BY <1>1, <1>2 DEF CommitOrder, LedgerInv, TypeOK
<1>4. s \in Slots /\ q \in Quantities /\ q \in Nat
  <2>1. m.slot \in Slots /\ m.quantity \in Quantities
    BY <1>3, TxnFields
  <2>. QED
    BY <1>2, <2>1, QuantityAssumption DEF Quantities
<1>5. PICK row : row = [status |-> "PENDING_PAYMENT", user |-> m.user,
                        key |-> m.key, slot |-> s, quantity |-> q,
                        version |-> 1, payKey |-> NoKey]
  OBVIOUS
<1>6. /\ DOMAIN orders' = DOMAIN orders \cup {o}
      /\ orders'[o] = row
      /\ \A p \in DOMAIN orders : p # o /\ orders'[p] = orders[p]
  BY <1>1, <1>2, <1>3, <1>5 DEF CommitOrder
<1>7. row.slot = s /\ row.quantity = q /\ row.status = "PENDING_PAYMENT"
  BY <1>5
<1>8. /\ Pending' = Pending \cup {o} /\ o \notin Pending
      /\ Paid' = Paid /\ o \notin Paid
      /\ Pending \subseteq DOMAIN orders /\ Paid \subseteq DOMAIN orders
  BY <1>3, <1>6, <1>7 DEF Pending, Paid, InStatus
<1>9. \A t \in Slots : ({o} \X Quantities) \cap (Units(Pending, t) \cup Units(Paid, t)) = {}
  <2>1. PICK A, B : A = Pending /\ B = Paid
    OBVIOUS
  <2>2. o \notin A /\ o \notin B
    BY <1>8, <2>1
  <2>3. \A t \in Slots :
            ({o} \X Quantities) \cap (BookedUnits(orders, A, t) \cup BookedUnits(orders, B, t)) = {}
    BY <2>2 DEF BookedUnits
  <2>. QED
    BY <2>1, <2>3 DEF Units
<1>10. ASSUME NEW t \in Slots
       PROVE  /\ BookedUnits(orders', Pending', t)
                   = IF t = s THEN BookedUnits(orders, Pending, t) \cup ({o} \X (1 .. q))
                              ELSE BookedUnits(orders, Pending, t)
              /\ BookedUnits(orders', Paid', t) = BookedUnits(orders, Paid, t)
  <2>1. /\ BookedUnits(orders', Pending, t) = BookedUnits(orders, Pending, t)
        /\ BookedUnits(orders', Paid, t) = BookedUnits(orders, Paid, t)
    <3>1. /\ \A p \in Pending : /\ orders'[p].slot = orders[p].slot
                                /\ orders'[p].quantity = orders[p].quantity
          /\ \A p \in Paid : /\ orders'[p].slot = orders[p].slot
                             /\ orders'[p].quantity = orders[p].quantity
      BY <1>6, <1>8
    <3>. QED
      BY <3>1, UnitsKept
  <2>2. BookedUnits(orders', {o}, t)
          = (IF orders'[o].slot = t THEN {o} \X (1 .. orders'[o].quantity) ELSE {})
    <3>1. orders'[o].quantity \in Quantities
      BY <1>4, <1>6, <1>7
    <3>2. PICK rows : rows = orders'
      OBVIOUS
    <3>3. BookedUnits(rows, {o}, t)
            = (IF rows[o].slot = t THEN {o} \X (1 .. rows[o].quantity) ELSE {})
      BY <3>1, <3>2, UnitsOfOrder
    <3>. QED
      BY <3>2, <3>3
  <2>3. BookedUnits(orders', Pending \cup {o}, t)
          = BookedUnits(orders', Pending, t) \cup BookedUnits(orders', {o}, t)
    BY UnitsAlgebra
  <2>. QED
    BY <1>6, <1>7, <1>8, <2>1, <2>2, <2>3
<1>11. Ledger!Occupied(s) + q =< Capacity[s]
  <2>1. /\ Ledger!Occupied(s) = inventory[s].reserved + inventory[s].sold
        /\ inventory[s].reserved \in Nat /\ inventory[s].sold \in Nat
    BY <1>4, LedgerCounts
  <2>2. Capacity[s] - inventory[s].reserved - inventory[s].sold >= q
    BY <1>3 DEF Available
  <2>3. Capacity[s] \in Nat
    BY <1>4, CapacityAssumption
  <2>. QED
    BY <1>4, <2>1, <2>2, <2>3
<1>12. Ledger!Reserve(o, s, q)
  <2>1. \A t \in Slots : ({o} \X (1 .. MaxQuantity))
                             \cap (Units(Pending, t) \cup Units(Paid, t)) = {}
    BY <1>9 DEF Quantities
  <2>. QED
    BY <1>4, <1>10, <1>11, <2>1
       DEF Ledger!Reserve, Ledger!UnitsOfOrders, Ledger!OrderUnits, Units
<1>. QED
  BY <1>4, <1>12

(* A reschedule exchanges the units of a paid order for as many of another *)
(* slot.                                                                   *)
LEMMA RescheduleMoves ==
  ASSUME LedgerInv, NEW w \in Workers, CommitReschedule(w)
  PROVE  \E o \in Orders, s, t \in Slots : Ledger!Move(o, s, t)
<1>1. PICK m : m = txn[w]
  OBVIOUS
<1>2. PICK o, s, t : o = m.order /\ s = m.slot /\ t = m.target
  OBVIOUS
<1>3. PICK q : q = orders[o].quantity
  OBVIOUS
<1>4. /\ m \in Txn /\ m.op = "reschedule" /\ SnapshotSound(m)
      /\ Available(t) >= q
      /\ Matches(o, "PAID", m.version)
      /\ orders' = [orders EXCEPT ![o] = MovedRow(@, t)]
  BY <1>1, <1>2, <1>3 DEF CommitReschedule, LedgerInv, TypeOK, SnapshotsSound
<1>5. s \in Slots /\ t \in Slots /\ o \in Orders
  <2>1. m.slot \in Slots /\ m.target \in Slots /\ m.order \in Orders
    BY <1>4, TxnFields
  <2>. QED
    BY <1>2, <2>1
<1>6. /\ o \in Paid /\ o \in DOMAIN orders /\ s # t /\ orders[o].slot = s
      /\ orders[o] \in OrderRow
  <2>1. o \in Paid /\ o \in DOMAIN orders /\ orders[o].version = m.version
    BY <1>4 DEF Matches, Paid, InStatus
  <2>2. s # t /\ orders[o].slot = s
    BY <1>2, <1>4, <2>1 DEF SnapshotSound
  <2>. QED
    BY <2>1, <2>2 DEF LedgerInv, TypeOK
<1>7. q \in Quantities /\ q \in Nat
  BY <1>3, <1>6, QuantityAssumption DEF OrderRow, Quantities
<1>8. /\ DOMAIN orders' = DOMAIN orders
      /\ \A p \in DOMAIN orders : p # o => orders'[p] = orders[p]
      /\ orders'[o].slot = t /\ orders'[o].quantity = q
      /\ orders'[o].status = orders[o].status
  <2>1. PICK row : row = orders[o]
    OBVIOUS
  <2>2. PICK new : new = MovedRow(row, t)
    OBVIOUS
  <2>3. new.slot = t /\ new.status = row.status /\ new.quantity = row.quantity
    BY <1>5, <1>6, <2>1, <2>2, MovedRowType
  <2>4. orders' = [orders EXCEPT ![o] = new]
    BY <1>4, <2>1, <2>2
  <2>. QED
    BY <1>3, <1>6, <2>1, <2>3, <2>4
<1>9. /\ Pending' = Pending /\ o \notin Pending /\ Pending \subseteq DOMAIN orders
      /\ Paid' = Paid /\ Paid \subseteq DOMAIN orders
  BY <1>6, <1>8 DEF Pending, Paid, InStatus
<1>10. PICK R : R = Paid \ {o}
  OBVIOUS
<1>11. ASSUME NEW x \in Slots
       PROVE  /\ BookedUnits(orders', Pending', x) = BookedUnits(orders, Pending, x)
              /\ BookedUnits(orders, Paid, x)
                   = BookedUnits(orders, R, x)
                     \cup (IF x = s THEN {o} \X (1 .. q) ELSE {})
              /\ BookedUnits(orders', Paid', x)
                   = BookedUnits(orders, R, x)
                     \cup (IF x = t THEN {o} \X (1 .. q) ELSE {})
              /\ BookedUnits(orders, R, x) \cap ({o} \X Quantities) = {}
  <2>1. /\ BookedUnits(orders', Pending, x) = BookedUnits(orders, Pending, x)
        /\ BookedUnits(orders', R, x) = BookedUnits(orders, R, x)
    <3>1. /\ \A p \in Pending : /\ orders'[p].slot = orders[p].slot
                                /\ orders'[p].quantity = orders[p].quantity
          /\ \A p \in R : /\ orders'[p].slot = orders[p].slot
                          /\ orders'[p].quantity = orders[p].quantity
      BY <1>8, <1>9, <1>10
    <3>. QED
      BY <3>1, UnitsKept
  <2>2. ASSUME NEW rows, rows[o].quantity = q
        PROVE  BookedUnits(rows, R \cup {o}, x)
                 = BookedUnits(rows, R, x)
                   \cup (IF rows[o].slot = x THEN {o} \X (1 .. q) ELSE {})
    <3>1. BookedUnits(rows, {o}, x)
            = (IF rows[o].slot = x THEN {o} \X (1 .. rows[o].quantity) ELSE {})
      BY <1>7, <2>2, UnitsOfOrder
    <3>2. BookedUnits(rows, R \cup {o}, x)
            = BookedUnits(rows, R, x) \cup BookedUnits(rows, {o}, x)
      BY UnitsAlgebra
    <3>. QED
      BY <2>2, <3>1, <3>2
  <2>3. PICK new : new = orders'
    OBVIOUS
  <2>4. /\ BookedUnits(new, R \cup {o}, x)
             = BookedUnits(new, R, x) \cup (IF t = x THEN {o} \X (1 .. q) ELSE {})
        /\ BookedUnits(orders, R \cup {o}, x)
             = BookedUnits(orders, R, x) \cup (IF s = x THEN {o} \X (1 .. q) ELSE {})
    BY <1>3, <1>6, <1>8, <2>2, <2>3
  <2>5. R \cup {o} = Paid
    BY <1>6, <1>10
  <2>6. BookedUnits(orders, R, x) \cap ({o} \X Quantities) = {}
    BY <1>10 DEF BookedUnits
  <2>. QED
    BY <1>9, <2>1, <2>3, <2>4, <2>5, <2>6
<1>12. {o} \X (1 .. q) \subseteq {o} \X Quantities
  BY <1>7, QuantityAssumption DEF Quantities
<1>13. \A x \in Slots \ {s} : ({o} \X Quantities) \cap BookedUnits(orders, Paid, x) = {}
  BY <1>11
<1>14. BookedUnits(orders, Paid, s) \cap ({o} \X Quantities) = {o} \X (1 .. q)
  <2>1. /\ BookedUnits(orders, Paid, s) = BookedUnits(orders, R, s) \cup ({o} \X (1 .. q))
        /\ BookedUnits(orders, R, s) \cap ({o} \X Quantities) = {}
    BY <1>5, <1>11
  <2>. QED
    BY <1>12, <2>1
<1>15. Cardinality({o} \X (1 .. q)) = q
  BY <1>7, ColumnCount
<1>16. Ledger!Occupied(t) + q =< Capacity[t]
  <2>1. /\ Ledger!Occupied(t) = inventory[t].reserved + inventory[t].sold
        /\ inventory[t].reserved \in Nat /\ inventory[t].sold \in Nat
    BY <1>5, LedgerCounts
  <2>2. Capacity[t] - inventory[t].reserved - inventory[t].sold >= q
    BY <1>4 DEF Available
  <2>3. Capacity[t] \in Nat
    BY <1>5, CapacityAssumption
  <2>. QED
    BY <1>7, <2>1, <2>2, <2>3
<1>17. ASSUME NEW x \in Slots
       PROVE  BookedUnits(orders', Paid', x)
                = IF x = t THEN BookedUnits(orders, Paid, x) \cup ({o} \X (1 .. q))
                  ELSE IF x = s THEN BookedUnits(orders, Paid, x) \ ({o} \X (1 .. q))
                  ELSE BookedUnits(orders, Paid, x)
  <2>1. CASE x = t
    BY <1>6, <1>11, <2>1
  <2>2. CASE x = s
    <3>1. /\ BookedUnits(orders', Paid', x) = BookedUnits(orders, R, x)
          /\ BookedUnits(orders, Paid, x) = BookedUnits(orders, R, x) \cup ({o} \X (1 .. q))
          /\ BookedUnits(orders, R, x) \cap ({o} \X Quantities) = {}
      BY <1>6, <1>11, <2>2
    <3>. QED
      BY <1>6, <1>12, <2>2, <3>1
  <2>3. CASE x # t /\ x # s
    BY <1>11, <2>3
  <2>. QED
    BY <2>1, <2>2, <2>3
<1>18. Ledger!Move(o, s, t)
  <2>1. PICK U, owned, F, G :
            /\ U = {o} \X (1 .. MaxQuantity) /\ owned = {o} \X (1 .. q)
            /\ F = [x \in Slots |-> BookedUnits(orders, Paid, x)]
            /\ G = [x \in Slots |-> BookedUnits(orders', Paid', x)]
    OBVIOUS
  <2>2. U = {o} \X Quantities
    BY <2>1 DEF Quantities
  <2>3. \A x \in Slots \ {s} : U \cap F[x] = {}
    BY <1>13, <2>1, <2>2
  <2>4. F[s] \cap U = owned
    BY <1>5, <1>14, <2>1, <2>2
  <2>5. Ledger!Occupied(t) + Ledger!Cardinality(owned) =< Capacity[t]
    <3>1. Ledger!Cardinality(owned) = Cardinality(owned)
      BY DEF Ledger!Cardinality, Cardinality
    <3>. QED
      BY <1>15, <1>16, <2>1, <3>1
  <2>6. G = [F EXCEPT ![s] = F[s] \ owned, ![t] = F[t] \cup owned]
    <3>1. \A x \in Slots : G[x] = IF x = t THEN F[x] \cup owned
                                  ELSE IF x = s THEN F[x] \ owned ELSE F[x]
      BY <1>17, <2>1
    <3>2. /\ F = [x \in Slots |-> F[x]] /\ G = [x \in Slots |-> G[x]]
      BY <2>1
    <3>. QED
      BY <1>6, <3>1, <3>2
  <2>7. /\ F = [x \in Slots |-> Units(Paid, x)]
        /\ G = [x \in Slots |-> Units(Paid, x)]'
        /\ [x \in Slots |-> Units(Pending, x)]' = [x \in Slots |-> Units(Pending, x)]
    BY <1>11, <2>1 DEF Units
  <2>. QED
    BY <1>6, <2>1, <2>3, <2>4, <2>5, <2>6, <2>7 DEF Ledger!Move, Ledger!UnitsOfOrders
<1>. QED
  BY <1>5, <1>18

(* A step that leaves the orders alone leaves the ledger alone. *)
LEMMA QuietMaps ==
  ASSUME orders' = orders
  PROVE  UNCHANGED Ledger!ledger
BY DEF Ledger!ledger, Units, Pending, Paid, InStatus

LEMMA EndedMaps ==
  ASSUME LedgerInv, NEW S \in SUBSET Pending, NEW status \in {"EXPIRED", "CANCELLED"},
         orders' = Transitioned(S, status)
  PROVE  Ledger!Next
<1>1. PICK new : new = Transitioned(S, status)
  OBVIOUS
<1>2. /\ DOMAIN new = DOMAIN orders
      /\ \A o \in DOMAIN orders : /\ new[o].slot = orders[o].slot
                                  /\ new[o].quantity = orders[o].quantity
      /\ {o \in DOMAIN new : new[o].status = "PENDING_PAYMENT"} = Pending \ S
      /\ {o \in DOMAIN new : new[o].status = "PAID"} = Paid
  BY <1>1, EndedOrders
<1>3. /\ Pending' = Pending \ (S \cup {}) /\ Paid' = Paid \cup {}
      /\ Pending \subseteq DOMAIN orders /\ Paid \subseteq DOMAIN orders
  BY <1>1, <1>2 DEF Pending, Paid, InStatus
<1>4. Settled(S, {})
  BY <1>1, <1>2, <1>3 DEF Settled
<1>5. Ledger!Settle(S, {}) /\ S \in SUBSET Orders
  BY <1>4, SettledMaps DEF LedgerInv, TypeOK, Pending, InStatus
<1>. QED
  BY <1>5 DEF Ledger!Next

LEMMA PaymentMaps ==
  ASSUME LedgerInv, NEW w \in Workers, CommitPayment(w)
  PROVE  Ledger!Next
<1>1. PICK m : m = txn[w]
  OBVIOUS
<1>2. PICK o, S : o = m.order /\ S = StillDue(m.due)
  OBVIOUS
<1>3. /\ m \in Txn /\ m.op = "pay"
      /\ Matches(o, "PENDING_PAYMENT", m.version) /\ o \notin due
      /\ orders' = [Transitioned(S, "EXPIRED") EXCEPT ![o] = PaidRow(@, m.key)]
  BY <1>1, <1>2 DEF CommitPayment, LedgerInv, TypeOK
<1>4. m.key \in Keys /\ m.version \in Nat
  BY <1>3, TxnFields
<1>5. o \in Pending /\ S \in SUBSET Pending /\ o \notin S
  BY <1>2, <1>3 DEF Matches, Pending, StillDue
<1>6. /\ \A p \in DOMAIN orders : /\ orders'[p].slot = orders[p].slot
                                  /\ orders'[p].quantity = orders[p].quantity
      /\ Pending' = Pending \ (S \cup {o})
      /\ Paid' = Paid \cup {o}
  BY <1>3, <1>4, <1>5, PaidRows
<1>7. Pending \subseteq DOMAIN orders /\ Paid \subseteq DOMAIN orders
  BY DEF Pending, Paid, InStatus
<1>8. Settled(S, {o})
  BY <1>5, <1>6, <1>7 DEF Settled
<1>9. Ledger!Settle(S, {o}) /\ S \in SUBSET Orders /\ o \in Orders
  BY <1>5, <1>8, SettledMaps DEF LedgerInv, TypeOK, Pending, InStatus
<1>. QED
  BY <1>9 DEF Ledger!Next

LEMMA RefundMaps ==
  ASSUME LedgerInv, NEW w \in Workers, CommitRefund(w)
  PROVE  Ledger!Next
<1>1. PICK o : o = txn[w].order
  OBVIOUS
<1>2. /\ Matches(o, "PAID", txn[w].version)
      /\ orders' = Transitioned({o}, "REFUNDED")
  BY <1>1 DEF CommitRefund
<1>3. TypeOK /\ "REFUNDED" \in OrderStatus
  BY DEF LedgerInv, OrderStatus
<1>4. o \in Paid /\ o \in Orders
  BY <1>2, <1>3 DEF Matches, Paid, InStatus, TypeOK
<1>5. /\ DOMAIN orders' = DOMAIN orders
      /\ \A p \in DOMAIN orders : /\ orders'[p].slot = orders[p].slot
                                  /\ orders'[p].quantity = orders[p].quantity
                                  /\ p # o => orders'[p] = orders[p]
      /\ orders'[o].status = "REFUNDED"
  BY <1>2, <1>3, <1>4, TransitionedRows DEF Paid, InStatus
<1>6. Pending' = Pending /\ Paid' = Paid \ {o}
  BY <1>4, <1>5 DEF Pending, Paid, InStatus
<1>7. Returned(o)
  BY <1>5, <1>6 DEF Returned, Pending, Paid, InStatus
<1>8. Ledger!Return(o)
  BY <1>3, <1>7, ReturnedMaps
<1>. QED
  BY <1>4, <1>8 DEF Ledger!Next

LEMMA ServeMaps ==
  ASSUME LedgerInv, NEW w \in Workers, Serve(w)
  PROVE  [Ledger!Next]_(Ledger!ledger)
<1>1. CASE orders' = orders
  BY <1>1, QuietMaps
<1>2. CASE CommitSweep(w)
  <2>1. StillDue(txn[w].due) \in SUBSET Pending
    BY DEF StillDue
  <2>. QED
    BY <1>2, <2>1, EndedMaps DEF CommitSweep
<1>3. CASE \E o \in Orders : CommitOrder(w, o)
  <2>1. \E o \in Orders, s \in Slots, q \in 1 .. MaxQuantity : Ledger!Reserve(o, s, q)
    BY <1>3, OrderReserves DEF Quantities
  <2>. QED
    BY <2>1 DEF Ledger!Next
<1>4. CASE CommitPayment(w)
  BY <1>4, PaymentMaps
<1>5. CASE CommitCancel(w)
  <2>1. {txn[w].order} \in SUBSET Pending
    BY <1>5 DEF CommitCancel, Matches, Pending
  <2>. QED
    BY <1>5, <2>1, EndedMaps DEF CommitCancel
<1>6. CASE CommitRefund(w)
  BY <1>6, RefundMaps
<1>7. CASE CommitReschedule(w)
  BY <1>7, RescheduleMoves DEF Ledger!Next
<1>8. CASE \/ CommitAdmission(w)
           \/ Rollback(w)
           \/ ReadItemToRefund(w)
           \/ \E o \in DOMAIN orders : ReadToCancel(w, o)
           \/ \E u \in Users, next \in {"reply", "create", "cancel"} : BeginSweep(w, u, next)
  BY <1>1, <1>8 DEF CommitAdmission, Rollback, ReadItemToRefund, ReadToCancel,
                    BeginSweep, database
<1>9. CASE \/ \E k \in Keys, s \in Slots, q \in Quantities : LockToCreate(w, k, s, q)
           \/ \E u \in Users, k \in Keys, o \in DOMAIN orders : ReadToPay(w, u, k, o)
           \/ \E u \in Users, k \in Keys, o \in DOMAIN orders : ReadToRefund(w, u, k, o)
           \/ \E u \in Users, k \in Keys, o \in DOMAIN orders, s \in Slots :
                  LockToReschedule(w, u, k, o, s)
           \/ \E q \in GateRequests, t \in DOMAIN tickets : ReadAtGate(w, q, t)
  BY <1>1, <1>9 DEF LockToCreate, ReadToPay, ReadToRefund, LockToReschedule,
                    ReadAtGate, database
<1>. QED
  BY <1>2, <1>3, <1>4, <1>5, <1>6, <1>7, <1>8, <1>9 DEF Serve

LEMMA StepMaps ==
  ASSUME LedgerInv, [Next]_vars
  PROVE  [Ledger!Next]_(Ledger!ledger)
<1>1. CASE (\E o \in Orders : HoldLapses(o)) \/ (\E s \in Slots : ClockAdvances(s))
  BY <1>1, QuietMaps DEF HoldLapses, ClockAdvances, database
<1>2. CASE \E w \in Workers : Serve(w)
  BY <1>2, ServeMaps
<1>3. CASE UNCHANGED vars
  BY <1>3, QuietMaps DEF vars, database
<1>. QED
  BY <1>1, <1>2, <1>3 DEF Next

(* Every behaviour of the service is one of the ledger: units are reserved *)
(* within the capacity of a slot, sold or freed as whole orders, returned  *)
(* by refunds and exchanged by reschedules, and nothing else moves a unit. *)
THEOREM ServiceImplementsLedger == Spec => ImplementsLedger
<1>1. Init => Ledger!Init
  <2>1. \A s : BookedUnits([o \in {} |-> {}], {}, s) = {}
    BY DEF BookedUnits
  <2>2. ASSUME Init
        PROVE  /\ Pending = {} /\ Paid = {}
               /\ \A s : Units(Pending, s) = {} /\ Units(Paid, s) = {}
    BY <2>1, <2>2 DEF Init, Pending, Paid, InStatus, Units
  <2>. QED
    BY <2>2 DEF Ledger!Init
<1>2. LedgerInv /\ [Next]_vars => [Ledger!Next]_(Ledger!ledger)
  BY StepMaps
<1>. QED
  BY <1>1, <1>2, LedgerInvariant, PTL DEF Spec, ImplementsLedger, Ledger!Spec
=============================================================================
