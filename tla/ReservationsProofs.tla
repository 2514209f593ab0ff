-------------------------- MODULE ReservationsProofs --------------------------
(***************************************************************************)
(* Proofs about reservations, for any number of users, keys, buckets,      *)
(* offers and concurrent requests, every capacity and every time a hold    *)
(* may run.                                                                *)
(***************************************************************************)
EXTENDS Reservations, CountingLemmas, FiniteSetTheorems, TLAPS

-----------------------------------------------------------------------------
(* The units that sets of rows ask for.  "rows" is the table, before or    *)
(* after a step.                                                           *)

LEMMA NeedsType ==
  ASSUME NEW o \in Offers, NEW b \in Buckets
  PROVE  Needs[o][b] \in 0 .. MaxQuantity /\ Needs[o][b] \in Nat
<1>1. Needs[o] \in [Buckets -> 0 .. MaxQuantity]
  BY OffersAssumption
<1>. QED
  BY <1>1, SizesAssumption

LEMMA UnitsFinite ==
  ASSUME NEW rows, NEW S \in SUBSET Reservation, NEW b
  PROVE  IsFiniteSet(RequestedUnits(rows, S, b))
<1>1. IsFiniteSet(Reservation)
  BY SizesAssumption, FS_Product DEF Reservation
<1>2. IsFiniteSet(S)
  BY <1>1, FS_Subset
<1>3. IsFiniteSet(1 .. MaxQuantity)
  BY SizesAssumption, FS_Interval
<1>4. IsFiniteSet(S \X (1 .. MaxQuantity))
  BY <1>2, <1>3, FS_Product
<1>5. RequestedUnits(rows, S, b) \subseteq S \X (1 .. MaxQuantity)
  BY DEF RequestedUnits
<1>. QED
  BY <1>4, <1>5, FS_Subset

LEMMA UnitsAlgebra ==
  ASSUME NEW rows, NEW A, NEW B, NEW b
  PROVE  /\ RequestedUnits(rows, A \cup B, b)
              = RequestedUnits(rows, A, b) \cup RequestedUnits(rows, B, b)
         /\ RequestedUnits(rows, A \ B, b)
              = RequestedUnits(rows, A, b) \ RequestedUnits(rows, B, b)
         /\ A \cap B = {} =>
              RequestedUnits(rows, A, b) \cap RequestedUnits(rows, B, b) = {}
         /\ B \subseteq A => RequestedUnits(rows, B, b) \subseteq RequestedUnits(rows, A, b)
BY DEF RequestedUnits

(* Rows that keep their offer keep their units. *)
LEMMA UnitsKept ==
  ASSUME NEW rows, NEW new, NEW A, NEW b, \A r \in A : new[r].offer = rows[r].offer
  PROVE  RequestedUnits(new, A, b) = RequestedUnits(rows, A, b)
BY DEF RequestedUnits

LEMMA UnitsOfRow ==
  ASSUME NEW rows, NEW r, NEW b \in Buckets, rows[r].offer \in Offers
  PROVE  /\ IsFiniteSet(RequestedUnits(rows, {r}, b))
         /\ Cardinality(RequestedUnits(rows, {r}, b)) = Needs[rows[r].offer][b]
         /\ Needs[rows[r].offer][b] \in Nat
<1>. DEFINE q == Needs[rows[r].offer][b]
<1>1. q \in 0 .. MaxQuantity /\ q \in Nat
  BY NeedsType
<1>2. RequestedUnits(rows, {r}, b) = {r} \X (1 .. q)
  BY <1>1, SizesAssumption DEF RequestedUnits
<1>3. IsFiniteSet({r} \X (1 .. q)) /\ Cardinality({r} \X (1 .. q)) = q
  BY <1>1, ColumnCount
<1>. QED
  BY <1>1, <1>2, <1>3

(* C is what a set A of rows is after it lost B, or gained r. *)
LEMMA UnitsTaken ==
  ASSUME NEW rows, NEW A \in SUBSET Reservation, NEW B \in SUBSET A, NEW b
  PROVE  /\ Cardinality(RequestedUnits(rows, A, b)) \in Nat
         /\ Cardinality(RequestedUnits(rows, B, b)) \in Nat
         /\ Cardinality(RequestedUnits(rows, B, b)) =< Cardinality(RequestedUnits(rows, A, b))
         /\ Cardinality(RequestedUnits(rows, A \ B, b))
              = Cardinality(RequestedUnits(rows, A, b)) - Cardinality(RequestedUnits(rows, B, b))
<1>1. IsFiniteSet(RequestedUnits(rows, A, b))
  BY UnitsFinite
<1>2. RequestedUnits(rows, B, b) \subseteq RequestedUnits(rows, A, b)
  BY UnitsAlgebra
<1>3. RequestedUnits(rows, A \ B, b) = RequestedUnits(rows, A, b) \ RequestedUnits(rows, B, b)
  BY UnitsAlgebra
<1>. QED
  BY <1>1, <1>2, <1>3, CountRemoved, FS_CardinalityType

LEMMA UnitsAdded ==
  ASSUME NEW rows, NEW A \in SUBSET Reservation, NEW r, r \notin A, NEW b \in Buckets,
         rows[r].offer \in Offers
  PROVE  /\ Cardinality(RequestedUnits(rows, A, b)) \in Nat
         /\ Cardinality(RequestedUnits(rows, A \cup {r}, b))
              = Cardinality(RequestedUnits(rows, A, b)) + Needs[rows[r].offer][b]
<1>1. IsFiniteSet(RequestedUnits(rows, A, b))
  BY UnitsFinite
<1>2. A \cap {r} = {}
  OBVIOUS
<1>3. /\ RequestedUnits(rows, A \cup {r}, b)
           = RequestedUnits(rows, A, b) \cup RequestedUnits(rows, {r}, b)
      /\ RequestedUnits(rows, A, b) \cap RequestedUnits(rows, {r}, b) = {}
  BY <1>2, UnitsAlgebra
<1>4. /\ IsFiniteSet(RequestedUnits(rows, {r}, b))
      /\ Cardinality(RequestedUnits(rows, {r}, b)) = Needs[rows[r].offer][b]
  BY UnitsOfRow, ZenonT(60)
<1>5. Cardinality(RequestedUnits(rows, A, b) \cup RequestedUnits(rows, {r}, b))
        = Cardinality(RequestedUnits(rows, A, b)) + Cardinality(RequestedUnits(rows, {r}, b))
  BY <1>1, <1>3, <1>4, CountAdded
<1>. QED
  BY <1>1, <1>3, <1>4, <1>5, FS_CardinalityType

-----------------------------------------------------------------------------
(* What requests remember.                                                 *)

LEMMA TxnFields ==
  ASSUME NEW m \in Txn
  PROVE  /\ m.op \in {"ask", "lock", "checked"} => m.row \in Reservation /\ m.offer \in Offers
         /\ m.op \in {"lock", "checked"} => m.swept \in SUBSET Reservation
         /\ m.op = "checked" => m.now \in Int
         /\ m.op \in {"confirm", "cancel", "review"} => m.row \in Reservation /\ m.version \in Nat
         /\ m.op = "cancel" => m.status \in {"HELD", "CONFIRMED"}
         /\ m.op = "review" => m.status \in {"CONFIRMED", "COMPLETED"}
<1>1. CASE m = Idle
  BY <1>1 DEF Idle
<1>2. CASE m \in AskTxn
  BY <1>2 DEF AskTxn
<1>3. CASE m \in LockTxn
  BY <1>3 DEF LockTxn
<1>4. CASE m \in CheckedTxn
  BY <1>4 DEF CheckedTxn
<1>5. CASE m \in ConfirmTxn
  BY <1>5 DEF ConfirmTxn
<1>6. CASE m \in CancelTxn
  BY <1>6 DEF CancelTxn
<1>7. CASE m \in ReviewTxn
  BY <1>7 DEF ReviewTxn
<1>. QED
  BY <1>1, <1>2, <1>3, <1>4, <1>5, <1>6, <1>7 DEF Txn

LEMMA TxnRecords ==
  /\ Idle \in Txn
  /\ \A r \in Reservation, o \in Offers : Asking(r, o) \in Txn
  /\ \A r \in Reservation, o \in Offers, S \in SUBSET Reservation :
         /\ Locking(r, o, S) \in Txn
         /\ \A now \in Int : Checked(r, o, S, now) \in Txn
  /\ \A r \in Reservation, v \in Nat : Confirming(r, v) \in Txn
  /\ \A r \in Reservation, v \in Nat :
         /\ \A s \in {"HELD", "CONFIRMED"} : Cancelling(r, s, v) \in Txn
         /\ \A s \in {"CONFIRMED", "COMPLETED"} : Reviewing(r, s, v) \in Txn
<1>1. \A r \in Reservation, o \in Offers : Asking(r, o) \in AskTxn
  BY DEF Asking, AskTxn
<1>2. \A r \in Reservation, o \in Offers, S \in SUBSET Reservation : Locking(r, o, S) \in LockTxn
  BY DEF Locking, LockTxn
<1>3. \A r \in Reservation, o \in Offers, S \in SUBSET Reservation, now \in Int :
          Checked(r, o, S, now) \in CheckedTxn
  BY DEF Checked, CheckedTxn
<1>4. \A r \in Reservation, v \in Nat : Confirming(r, v) \in ConfirmTxn
  BY DEF Confirming, ConfirmTxn
<1>5. \A r \in Reservation, v \in Nat, s \in {"HELD", "CONFIRMED"} :
          Cancelling(r, s, v) \in CancelTxn
  BY DEF Cancelling, CancelTxn
<1>6. \A r \in Reservation, v \in Nat, s \in {"CONFIRMED", "COMPLETED"} :
          Reviewing(r, s, v) \in ReviewTxn
  BY DEF Reviewing, ReviewTxn
<1>. QED
  BY <1>1, <1>2, <1>3, <1>4, <1>5, <1>6 DEF Txn

LEMMA Remembered ==
  ASSUME NEW w \in Workers, NEW m \in Txn, txn \in [Workers -> Txn], Remember(w, m)
  PROVE  /\ txn' \in [Workers -> Txn]
         /\ \A x \in Workers : txn'[x] = IF x = w THEN m ELSE txn[x]
BY DEF Remember

-----------------------------------------------------------------------------
(* Steps that move rows from one status to another.                        *)

(* The rows of R change, in nothing but their status, version and mark. *)
Moves(R) ==
    /\ DOMAIN reservations' = DOMAIN reservations
    /\ \A r \in DOMAIN reservations \ R : reservations'[r] = reservations[r]
    /\ \A r \in R : /\ reservations'[r] \in ReservationRow
                    /\ reservations'[r].offer = reservations[r].offer
                    /\ reservations'[r].expires = reservations[r].expires

(* What a review may have read. *)
Past == InStatus("CONFIRMED") \cup InStatus("CANCELLED") \cup InStatus("COMPLETED")

LEMMA MovedTable ==
  ASSUME BookingInv, NEW R \in SUBSET DOMAIN reservations, Moves(R)
  PROVE  /\ DOMAIN reservations' \subseteq Reservation
         /\ \A r \in DOMAIN reservations' :
               /\ reservations'[r] \in ReservationRow
               /\ reservations'[r].offer = reservations[r].offer
               /\ reservations'[r].expires = reservations[r].expires
         /\ \A A \in SUBSET DOMAIN reservations, b \in Buckets :
               RequestedUnits(reservations', A, b) = RequestedUnits(reservations, A, b)
<1>1. \A r \in DOMAIN reservations' :
        /\ reservations'[r] \in ReservationRow
        /\ reservations'[r].offer = reservations[r].offer
        /\ reservations'[r].expires = reservations[r].expires
  BY DEF Moves, BookingInv, TypeOK
<1>2. DOMAIN reservations' = DOMAIN reservations
  BY DEF Moves
<1>3. ASSUME NEW A \in SUBSET DOMAIN reservations, NEW b \in Buckets
      PROVE  RequestedUnits(reservations', A, b) = RequestedUnits(reservations, A, b)
  <2>1. \A r \in A : reservations'[r].offer = reservations[r].offer
    BY <1>1, <1>2
  <2>. QED
    BY <2>1, UnitsKept
<1>. QED
  BY <1>1, <1>2, <1>3 DEF BookingInv, TypeOK

(* Moving rows that no booking has locked, and none into a status that     *)
(* counts as a booking, leaves every other request as it was.              *)
LEMMA MovePreserves ==
  ASSUME BookingInv, NEW R \in SUBSET DOMAIN reservations, Moves(R),
         Standing' \subseteq Standing, Past \subseteq Past', clock' = clock,
         \A x \in Workers : txn'[x] \in {Idle, txn[x]},
         \A x \in Workers : txn'[x] # Idle /\ Booking(x) => R \cap txn[x].swept = {}
  PROVE  SnapshotsSound' /\ OneBookingPerUser' /\ ClashOnlyAfterLapse'
<1>. USE DEF BookingInv
<1>1. /\ DOMAIN reservations' = DOMAIN reservations
      /\ \A r \in DOMAIN reservations :
            /\ reservations'[r].offer = reservations[r].offer
            /\ reservations'[r].expires = reservations[r].expires
  BY MovedTable DEF Moves
<1>2. ASSUME NEW x \in Workers
      PROVE  SnapshotSound(txn[x])' 
  <2>. DEFINE m == txn[x]
  <2>1. CASE txn'[x] = Idle
    BY <2>1 DEF SnapshotSound, Idle
  <2>2. CASE txn'[x] = m /\ txn'[x] # Idle
    <3>1. SnapshotSound(m)
      BY DEF SnapshotsSound
    <3>2. ASSUME m.op \in {"lock", "checked"}
          PROVE  m.row \notin DOMAIN reservations' /\ m.swept \subseteq (Lapsed \cap OfUser(m.row[1]))'
      <4>1. m.row \notin DOMAIN reservations /\ m.swept \subseteq Lapsed \cap OfUser(m.row[1])
        BY <3>1, <3>2 DEF SnapshotSound
      <4>2. R \cap m.swept = {}
        BY <2>2, <3>2 DEF Booking
      <4>3. \A r \in m.swept : reservations'[r] = reservations[r] /\ r \in DOMAIN reservations
        BY <4>1, <4>2 DEF Moves, OfUser
      <4>. QED
        BY <1>1, <2>2, <4>1, <4>3 DEF Lapsed, OfUser, InStatus
    <3>3. ASSUME m.op = "checked"
          PROVE  /\ m.now =< clock'
                 /\ \A r \in (Standing' \cap OfUser(m.row[1])') \ m.swept :
                      Conflict(m.offer, reservations'[r].offer) => reservations'[r].expires =< m.now
      <4>1. /\ m.now =< clock
            /\ \A r \in (Standing \cap OfUser(m.row[1])) \ m.swept :
                 Conflict(m.offer, reservations[r].offer) => reservations[r].expires =< m.now
        BY <3>1, <3>3 DEF SnapshotSound
      <4>2. OfUser(m.row[1])' = OfUser(m.row[1])
        BY <1>1, <2>2 DEF OfUser
      <4>. QED
        BY <1>1, <4>1, <4>2 DEF Standing, InStatus
    <3>4. m.op = "review" => m.row \in Past'
      BY <3>1 DEF SnapshotSound, Past
    <3>5. \A o1, o2 : Conflict(o1, o2)' = Conflict(o1, o2)
      BY DEF Conflict, Lodgings, Periods, Lodging, RoomsOf, BucketsOf, CheckIn, Checkout, Overlaps
    <3>. QED
      BY <2>2, <3>2, <3>3, <3>4 DEF SnapshotSound, Past
  <2>. QED
    BY <2>1, <2>2
<1>3. SnapshotsSound'
  BY <1>2 DEF SnapshotsSound
<1>4. OneBookingPerUser'
  <2>1. \A x \in Workers : Booking(x)' => txn'[x] = txn[x] /\ Booking(x)
    BY DEF Booking, Idle
  <2>. QED
    BY <2>1 DEF OneBookingPerUser, SameUser
<1>5. ClashOnlyAfterLapse'
  <2>. SUFFICES ASSUME NEW r1 \in Standing', NEW r2 \in Standing', Clash(r1, r2)'
                PROVE  \/ reservations'[r1].expires =< BookedAt(r2)'
                       \/ reservations'[r2].expires =< BookedAt(r1)'
    BY DEF ClashOnlyAfterLapse
  <2>1. r1 \in Standing /\ r2 \in Standing /\ r1 \in DOMAIN reservations /\ r2 \in DOMAIN reservations
    BY DEF Standing, InStatus
  <2>2. Clash(r1, r2)
    BY <1>1, <2>1 DEF Clash, SameUser
  <2>. QED
    BY <1>1, <2>1, <2>2 DEF ClashOnlyAfterLapse, BookedAt
<1>. QED
  BY <1>3, <1>4, <1>5

LEMMA ChangedRows ==
  ASSUME NEW row \in ReservationRow, NEW v \in Nat
  PROVE  /\ ExpiredRow(row) \in ReservationRow /\ ConfirmedRow(row) \in ReservationRow
         /\ CancelledRow(row) \in ReservationRow /\ CompletedRow(row, v) \in ReservationRow
         /\ \A new \in {ExpiredRow(row), ConfirmedRow(row), CancelledRow(row), CompletedRow(row, v)} :
               new.offer = row.offer /\ new.expires = row.expires
         /\ ExpiredRow(row).status = "EXPIRED"
         /\ ConfirmedRow(row).status = "CONFIRMED"
         /\ CancelledRow(row).status = "CANCELLED"
         /\ CompletedRow(row, v).status = "COMPLETED"
         /\ \A new \in {ExpiredRow(row), ConfirmedRow(row), CompletedRow(row, v)} :
               new.cancelled = row.cancelled
         /\ CancelledRow(row).cancelled
<1>1. row.version + 1 \in Nat /\ v + 1 \in Nat
  BY DEF ReservationRow
<1>2. /\ ExpiredRow(row) \in ReservationRow /\ ConfirmedRow(row) \in ReservationRow
      /\ CancelledRow(row) \in ReservationRow /\ CompletedRow(row, v) \in ReservationRow
  BY <1>1 DEF ReservationRow, ExpiredRow, ConfirmedRow, CancelledRow, CompletedRow
<1>. QED
  BY <1>2 DEF ReservationRow, ExpiredRow, ConfirmedRow, CancelledRow, CompletedRow

(* Rows of the table before and after holds expire. *)
LEMMA ExpiryTable ==
  ASSUME BookingInv, NEW S \in SUBSET InStatus("HELD")
  PROVE  /\ DOMAIN AfterExpiry(S) = DOMAIN reservations
         /\ \A r \in S : /\ AfterExpiry(S)[r] \in ReservationRow
                         /\ AfterExpiry(S)[r].status = "EXPIRED"
                         /\ AfterExpiry(S)[r].offer = reservations[r].offer
                         /\ AfterExpiry(S)[r].expires = reservations[r].expires
         /\ \A r \in DOMAIN reservations \ S : AfterExpiry(S)[r] = reservations[r]
<1>1. \A r \in S : reservations[r] \in ReservationRow /\ r \in DOMAIN reservations
  BY DEF BookingInv, TypeOK, InStatus
<1>2. \A r \in S : AfterExpiry(S)[r] = ExpiredRow(reservations[r])
  BY <1>1 DEF AfterExpiry
<1>3. \A r \in DOMAIN reservations \ S : AfterExpiry(S)[r] = reservations[r]
  BY DEF AfterExpiry
<1>4. 1 \in Nat
  OBVIOUS
<1>5. DOMAIN AfterExpiry(S) = DOMAIN reservations
  BY DEF AfterExpiry
<1>6. \A r \in S : LET row == ExpiredRow(reservations[r])
                   IN  /\ row \in ReservationRow /\ row.status = "EXPIRED"
                       /\ row.offer = reservations[r].offer
                       /\ row.expires = reservations[r].expires
  BY <1>1, <1>4, ChangedRows
<1>. QED
  BY <1>2, <1>3, <1>5, <1>6

LEMMA ExpiryMoves ==
  ASSUME BookingInv, NEW S \in SUBSET InStatus("HELD"),
         reservations' = AfterExpiry(S), reviews' = reviews
  PROVE  /\ Moves(S)
         /\ InStatus("HELD")' = InStatus("HELD") \ S
         /\ Standing' \subseteq Standing /\ Past \subseteq Past'
         /\ Owning' = Owning
         /\ RowsMarked'
<1>1. /\ DOMAIN reservations' = DOMAIN reservations
      /\ \A r \in S : /\ reservations'[r] \in ReservationRow
                      /\ reservations'[r].status = "EXPIRED"
                      /\ reservations'[r].offer = reservations[r].offer
                      /\ reservations'[r].expires = reservations[r].expires
      /\ \A r \in DOMAIN reservations \ S : reservations'[r] = reservations[r]
  BY ExpiryTable
<1>2. Moves(S)
  BY <1>1 DEF Moves
<1>3. InStatus("HELD")' = InStatus("HELD") \ S
  BY <1>1 DEF InStatus
<1>4. /\ InStatus("CONFIRMED")' = InStatus("CONFIRMED")
      /\ InStatus("CANCELLED")' = InStatus("CANCELLED")
      /\ InStatus("COMPLETED")' = InStatus("COMPLETED")
  BY <1>1 DEF InStatus
<1>5. Standing' \subseteq Standing /\ Past \subseteq Past'
  BY <1>3, <1>4 DEF Standing, Past
<1>6. \A r \in InStatus("CONFIRMED") \cup InStatus("CANCELLED") \cup InStatus("COMPLETED") :
         reservations'[r] = reservations[r]
  BY <1>1 DEF InStatus
<1>7. Owning' = Owning
  BY <1>4, <1>6 DEF Owning
<1>8. \A r \in InStatus("HELD")' : reservations'[r] = reservations[r]
  BY <1>1, <1>3 DEF InStatus
<1>9. RowsMarked'
  BY <1>1, <1>3, <1>4, <1>6, <1>8 DEF RowsMarked, Standing, BookingInv
<1>. QED
  BY <1>2, <1>3, <1>5, <1>7, <1>9

(* One row changes. *)
LEMMA RowMoves ==
  ASSUME BookingInv, NEW r \in DOMAIN reservations, NEW row \in ReservationRow,
         row.offer = reservations[r].offer, row.expires = reservations[r].expires,
         reservations' = [reservations EXCEPT ![r] = row]
  PROVE  /\ Moves({r})
         /\ reservations'[r] = row
         /\ \A s : InStatus(s)' = IF row.status = s THEN InStatus(s) \cup {r}
                                                    ELSE InStatus(s) \ {r}
<1>1. /\ DOMAIN reservations' = DOMAIN reservations
      /\ reservations'[r] = row
      /\ \A q \in DOMAIN reservations \ {r} : reservations'[q] = reservations[q]
  OBVIOUS
<1>2. Moves({r})
  BY <1>1 DEF Moves
<1>3. ASSUME NEW s
      PROVE  InStatus(s)' = IF row.status = s THEN InStatus(s) \cup {r} ELSE InStatus(s) \ {r}
  BY <1>1 DEF InStatus
<1>. QED
  BY <1>1, <1>2, <1>3

-----------------------------------------------------------------------------
(* The counters before a step.                                             *)

LEMMA CountsBefore ==
  ASSUME BookingInv, NEW b \in Buckets
  PROVE  /\ InStatus("HELD") \in SUBSET Reservation /\ Owning \in SUBSET Reservation
         /\ held[b] \in Nat /\ confirmed[b] \in Nat /\ Capacity[b] \in Nat
         /\ held[b] = Cardinality(RequestedUnits(reservations, InStatus("HELD"), b))
         /\ confirmed[b] = Cardinality(RequestedUnits(reservations, Owning, b))
         /\ held[b] + confirmed[b] =< Capacity[b]
<1>1. InStatus("HELD") \in SUBSET Reservation /\ Owning \in SUBSET Reservation
  BY DEF InStatus, Owning, BookingInv, TypeOK
<1>2. held[b] \in Nat /\ confirmed[b] \in Nat /\ Capacity[b] \in Nat
  BY BucketsAssumption DEF BookingInv, TypeOK
<1>. QED
  BY <1>1, <1>2 DEF BookingInv, StockExact, NeverOverbooked, UnitCount

(* Holds that expire give back what they held. *)
LEMMA ExpiryCounts ==
  ASSUME BookingInv, NEW S \in SUBSET InStatus("HELD"), NEW b \in Buckets
  PROVE  /\ HeldAfterExpiry(S)[b] \in Nat
         /\ HeldAfterExpiry(S)[b] =< held[b]
         /\ HeldAfterExpiry(S)[b]
              = Cardinality(RequestedUnits(reservations, InStatus("HELD") \ S, b))
<1>1. /\ InStatus("HELD") \in SUBSET Reservation
      /\ held[b] \in Nat
      /\ held[b] = Cardinality(RequestedUnits(reservations, InStatus("HELD"), b))
  BY CountsBefore
<1>. DEFINE c(A) == Cardinality(RequestedUnits(reservations, A, b))
<1>2. /\ c(InStatus("HELD")) \in Nat /\ c(S) \in Nat
      /\ c(S) =< c(InStatus("HELD"))
      /\ c(InStatus("HELD") \ S) = c(InStatus("HELD")) - c(S)
  BY <1>1, UnitsTaken
<1>3. HeldAfterExpiry(S)[b] = held[b] - c(S)
  BY DEF HeldAfterExpiry, UnitCount
<1>. HIDE DEF c
<1>. QED
  BY <1>1, <1>2, <1>3 DEF c

LEMMA RowNeeds ==
  ASSUME BookingInv, NEW r \in DOMAIN reservations, NEW b \in Buckets
  PROVE  /\ reservations[r].offer \in Offers
         /\ Needs[reservations[r].offer][b] \in Nat
         /\ Cardinality(RequestedUnits(reservations, {r}, b)) = Needs[reservations[r].offer][b]
<1>1. reservations[r].offer \in Offers
  BY DEF BookingInv, TypeOK, ReservationRow
<1>. QED
  BY <1>1, UnitsOfRow

-----------------------------------------------------------------------------
(* Requests that read, and time.                                           *)

LEMMA SameTable ==
  ASSUME BookingInv, UNCHANGED database
  PROVE  /\ StockExact' /\ NeverOverbooked' /\ RowsMarked' /\ ClashOnlyAfterLapse'
         /\ Standing' = Standing /\ Past' = Past
<1>. USE DEF BookingInv, database
<1>1. /\ \A s : InStatus(s)' = InStatus(s)
      /\ Standing' = Standing /\ Past' = Past /\ Owning' = Owning
  BY DEF InStatus, Standing, Past, Owning
<1>2. StockExact'
  BY <1>1 DEF StockExact, UnitCount, RequestedUnits
<1>3. NeverOverbooked'
  BY DEF NeverOverbooked
<1>4. RowsMarked'
  BY <1>1 DEF RowsMarked
<1>5. \A r1, r2 \in Standing' : Clash(r1, r2)' => Clash(r1, r2)
  BY DEF Clash, SameUser
<1>6. ClashOnlyAfterLapse'
  BY <1>1, <1>5 DEF ClashOnlyAfterLapse, BookedAt
<1>. QED
  BY <1>1, <1>2, <1>3, <1>4, <1>6

(* What a request knows stays sound while the table does, as time passes.  *)
LEMMA SoundLater ==
  ASSUME BookingInv, UNCHANGED database, NEW m \in Txn, SnapshotSound(m),
         clock' \in Nat, clock =< clock'
  PROVE  /\ m.op \in {"lock", "checked"} =>
               /\ m.row \notin DOMAIN reservations'
               /\ m.swept \subseteq {r \in Lapsed' : r[1] = m.row[1]}
         /\ m.op = "checked" =>
               /\ m.now =< clock'
               /\ \A r \in {q \in Standing' : q[1] = m.row[1]} \ m.swept :
                     Conflict(m.offer, reservations'[r].offer) => reservations'[r].expires =< m.now
         /\ m.op = "review" => m.row \in Past'
<1>. USE DEF BookingInv, database
<1>1. clock \in Nat
  BY DEF TypeOK
<1>2. Lapsed \subseteq Lapsed'
  <2>1. \A r \in DOMAIN reservations : reservations[r].expires \in Int
    BY DEF TypeOK, ReservationRow
  <2>2. InStatus("HELD")' = InStatus("HELD") /\ InStatus("HELD") \subseteq DOMAIN reservations
    BY DEF InStatus
  <2>. QED
    BY <1>1, <2>1, <2>2 DEF Lapsed
<1>3. Standing' = Standing /\ Past' = Past
  BY SameTable
<1>4. ASSUME m.op \in {"lock", "checked"}
      PROVE  /\ m.row \notin DOMAIN reservations'
             /\ m.swept \subseteq {r \in Lapsed' : r[1] = m.row[1]}
  BY <1>2, <1>4 DEF SnapshotSound, OfUser
<1>5. ASSUME m.op = "checked"
      PROVE  /\ m.now =< clock'
             /\ \A r \in {q \in Standing' : q[1] = m.row[1]} \ m.swept :
                   Conflict(m.offer, reservations'[r].offer) => reservations'[r].expires =< m.now
  <2>1. /\ m.now \in Int /\ m.now =< clock
        /\ \A r \in (Standing \cap OfUser(m.row[1])) \ m.swept :
              Conflict(m.offer, reservations[r].offer) => reservations[r].expires =< m.now
    BY <1>5, TxnFields DEF SnapshotSound
  <2>2. m.now =< clock'
    BY <1>1, <2>1
  <2>3. {q \in Standing' : q[1] = m.row[1]} \subseteq Standing \cap OfUser(m.row[1])
    BY <1>3 DEF OfUser, Standing, InStatus
  <2>. QED
    BY <2>1, <2>2, <2>3
<1>6. m.op = "review" => m.row \in Past'
  BY <1>3 DEF SnapshotSound, Past
<1>. QED
  BY <1>4, <1>5, <1>6

LEMMA SoundAsRead ==
  ASSUME NEW x \in Workers,
         /\ txn'[x].op \in {"lock", "checked"} =>
               /\ txn'[x].row \notin DOMAIN reservations'
               /\ txn'[x].swept \subseteq {r \in Lapsed' : r[1] = txn'[x].row[1]}
         /\ txn'[x].op = "checked" =>
               /\ txn'[x].now =< clock'
               /\ \A r \in {q \in Standing' : q[1] = txn'[x].row[1]} \ txn'[x].swept :
                     Conflict(txn'[x].offer, reservations'[r].offer)
                     => reservations'[r].expires =< txn'[x].now
         /\ txn'[x].op = "review" => txn'[x].row \in Past'
  PROVE  SnapshotSound(txn[x])'
<1>1. ASSUME txn'[x].op \in {"lock", "checked"}
      PROVE  txn'[x].swept \subseteq (Lapsed \cap OfUser(txn[x].row[1]))'
  BY <1>1 DEF OfUser, Lapsed, InStatus
<1>2. (Standing \cap OfUser(txn[x].row[1]))' \subseteq {q \in Standing' : q[1] = txn'[x].row[1]}
  BY DEF OfUser
<1>. QED
  BY <1>1, <1>2 DEF SnapshotSound, Past

LEMMA ReadPreserves ==
  ASSUME BookingInv, NEW w \in Workers, NEW m \in Txn, SnapshotSound(m), Remember(w, m),
         UNCHANGED <<database, clock>>, OneBookingPerUser'
  PROVE  BookingInv'
<1>. USE DEF BookingInv, database
<1>1. /\ txn' \in [Workers -> Txn]
      /\ \A x \in Workers : txn'[x] = IF x = w THEN m ELSE txn[x]
  BY Remembered DEF TypeOK
<1>2. TypeOK'
  BY <1>1 DEF TypeOK, ReservationRow
<1>3. StockExact' /\ NeverOverbooked' /\ RowsMarked' /\ ClashOnlyAfterLapse'
  BY SameTable
<1>4. SnapshotsSound'
  <2>1. ASSUME NEW x \in Workers PROVE SnapshotSound(txn[x])'
    <3>1. SnapshotSound(txn'[x]) /\ txn'[x] \in Txn
      BY <1>1 DEF SnapshotsSound
    <3>2. clock \in Nat /\ clock' = clock
      BY DEF TypeOK
    <3>. QED
      BY <3>1, <3>2, SoundLater, SoundAsRead
  <2>. QED
    BY <2>1 DEF SnapshotsSound
<1>. QED
  BY <1>2, <1>3, <1>4

LEMMA TimePreserves ==
  ASSUME BookingInv, TimePasses
  PROVE  BookingInv'
<1>. USE DEF BookingInv, database, TimePasses
<1>1. clock \in Nat /\ clock' \in Nat /\ clock =< clock'
  BY DEF TypeOK
<1>2. TypeOK'
  BY <1>1 DEF TypeOK, ReservationRow
<1>3. StockExact' /\ NeverOverbooked' /\ RowsMarked' /\ ClashOnlyAfterLapse'
  BY SameTable
<1>4. SnapshotsSound'
  <2>1. ASSUME NEW x \in Workers PROVE SnapshotSound(txn[x])'
    <3>1. SnapshotSound(txn[x]) /\ txn[x] \in Txn /\ txn'[x] = txn[x]
      BY DEF SnapshotsSound, TypeOK
    <3>. QED
      BY <1>1, <3>1, SoundLater, SoundAsRead
  <2>. QED
    BY <2>1 DEF SnapshotsSound
<1>5. OneBookingPerUser'
  BY DEF OneBookingPerUser, Booking, SameUser
<1>. QED
  BY <1>2, <1>3, <1>4, <1>5

(* A request that takes no schedule row leaves the bookings apart. *)
LEMMA BookingsApart ==
  ASSUME BookingInv, NEW w \in Workers, NEW m \in Txn, Remember(w, m),
         m.op \notin {"lock", "checked"}
  PROVE  OneBookingPerUser'
<1>1. \A x \in Workers : txn'[x] = IF x = w THEN m ELSE txn[x]
  BY Remembered DEF BookingInv, TypeOK
<1>. QED
  BY <1>1 DEF OneBookingPerUser, Booking, SameUser, BookingInv

LEMMA RollbackPreserves ==
  ASSUME BookingInv, NEW w \in Workers, Rollback(w)
  PROVE  BookingInv'
<1>1. Idle \in Txn /\ Idle.op \notin {"lock", "checked"} /\ SnapshotSound(Idle)
  BY TxnRecords DEF Idle, SnapshotSound
<1>. QED
  BY <1>1, BookingsApart, ReadPreserves DEF Rollback

LEMMA AskToBookPreserves ==
  ASSUME BookingInv, NEW w \in Workers, NEW r \in Reservation, NEW o \in Offers,
         AskToBook(w, r, o)
  PROVE  BookingInv'
<1>1. /\ Asking(r, o) \in Txn /\ Asking(r, o).op \notin {"lock", "checked"}
      /\ SnapshotSound(Asking(r, o))
  BY TxnRecords DEF Asking, SnapshotSound
<1>. QED
  BY <1>1, BookingsApart, ReadPreserves DEF AskToBook

LEMMA ReadPreservesTable ==
  ASSUME BookingInv, NEW w \in Workers, NEW r \in DOMAIN reservations,
         ReadToConfirm(w, r) \/ ReadToCancel(w, r) \/ ReadToReview(w, r)
  PROVE  BookingInv'
<1>0. r \in Reservation /\ reservations[r].version \in Nat
  BY DEF BookingInv, TypeOK, ReservationRow
<1>. DEFINE v == reservations[r].version
            s == reservations[r].status
<1>1. CASE ReadToConfirm(w, r)
  <2>1. /\ Confirming(r, v) \in Txn /\ Confirming(r, v).op \notin {"lock", "checked"}
        /\ SnapshotSound(Confirming(r, v))
    BY <1>0, TxnRecords DEF Confirming, SnapshotSound
  <2>. QED
    BY <1>1, <2>1, BookingsApart, ReadPreserves DEF ReadToConfirm
<1>2. CASE ReadToCancel(w, r)
  <2>1. s \in {"HELD", "CONFIRMED"}
    BY <1>2 DEF ReadToCancel, InStatus
  <2>2. /\ Cancelling(r, s, v) \in Txn /\ Cancelling(r, s, v).op \notin {"lock", "checked"}
        /\ SnapshotSound(Cancelling(r, s, v))
    BY <1>0, <2>1, TxnRecords DEF Cancelling, SnapshotSound
  <2>. QED
    BY <1>2, <2>2, BookingsApart, ReadPreserves DEF ReadToCancel
<1>3. CASE ReadToReview(w, r)
  <2>1. s \in {"CONFIRMED", "COMPLETED"} /\ r \in Past
    BY <1>3 DEF ReadToReview, InStatus, Past
  <2>2. /\ Reviewing(r, s, v) \in Txn /\ Reviewing(r, s, v).op \notin {"lock", "checked"}
        /\ SnapshotSound(Reviewing(r, s, v))
    BY <1>0, <2>1, TxnRecords DEF Reviewing, SnapshotSound, Past
  <2>. QED
    BY <1>3, <2>2, BookingsApart, ReadPreserves DEF ReadToReview
<1>. QED
  BY <1>1, <1>2, <1>3


LEMMA LockSchedulePreserves ==
  ASSUME BookingInv, NEW w \in Workers, LockSchedule(w)
  PROVE  BookingInv'
<1>. USE DEF BookingInv
<1>. DEFINE r == txn[w].row
            o == txn[w].offer
            S == Lapsed \cap OfUser(r[1])
            m == Locking(r, o, S)
<1>1. r \in Reservation /\ o \in Offers
  BY TxnFields DEF LockSchedule, TypeOK
<1>2. S \in SUBSET Reservation
  BY DEF Lapsed, InStatus, TypeOK
<1>3. /\ m \in Txn /\ m.op = "lock" /\ m.row = r /\ m.swept = S
  BY <1>1, <1>2, TxnRecords, SMTT(30) DEF Locking
<1>4. SnapshotSound(m)
  BY <1>3 DEF SnapshotSound, LockSchedule
<1>5. Remember(w, m) /\ ScheduleFree(r[1]) /\ UNCHANGED <<database, clock>>
  BY DEF LockSchedule
<1>6. \A x \in Workers : txn'[x] = IF x = w THEN m ELSE txn[x]
  BY <1>3, <1>5, Remembered DEF TypeOK
<1>7. OneBookingPerUser'
  <2>1. \A x \in Workers \ {w} : Booking(x) => ~ SameUser(txn[x].row, r)
    BY <1>5 DEF ScheduleFree, SameUser
  <2>2. \A x \in Workers \ {w} : txn'[x] = txn[x]
    BY <1>6
  <2>3. txn'[w].row = r
    BY <1>3, <1>6
  <2>. HIDE DEF r, m
  <2>. QED
    BY <2>1, <2>2, <2>3 DEF OneBookingPerUser, Booking, SameUser
<1>. HIDE DEF m
<1>. QED
  BY <1>3, <1>4, <1>5, <1>7, ReadPreserves

LEMMA CheckBookingPreserves ==
  ASSUME BookingInv, NEW w \in Workers, CheckBooking(w)
  PROVE  BookingInv'
<1>. USE DEF BookingInv
<1>. DEFINE r == txn[w].row
            o == txn[w].offer
            S == txn[w].swept
            m == Checked(r, o, S, clock)
<1>1. txn[w].op = "lock" /\ r \in Reservation /\ o \in Offers /\ S \in SUBSET Reservation
  BY TxnFields DEF CheckBooking, TypeOK
<1>2. clock \in Int
  BY DEF TypeOK
<1>3. /\ m \in Txn /\ m.op = "checked" /\ m.row = r /\ m.offer = o /\ m.swept = S /\ m.now = clock
  BY <1>1, <1>2, TxnRecords DEF Checked
<1>4. r \notin DOMAIN reservations /\ S \subseteq Lapsed \cap OfUser(r[1])
  BY <1>1 DEF SnapshotsSound, SnapshotSound
<1>5. ASSUME NEW q \in (Standing \cap OfUser(r[1])) \ S, Conflict(o, reservations[q].offer)
      PROVE  reservations[q].expires =< clock
  <2>1. q \notin Active
    BY <1>5 DEF CheckBooking
  <2>2. q \in InStatus("HELD") /\ ~ (reservations[q].expires > clock)
    BY <1>5, <2>1 DEF Active, Standing
  <2>3. reservations[q].expires \in Int
    BY <2>2 DEF InStatus, TypeOK, ReservationRow
  <2>. QED
    BY <1>2, <2>2, <2>3
<1>6. SnapshotSound(m)
  <2>. HIDE DEF m, r, o, S
  <2>. QED
    BY <1>2, <1>3, <1>4, <1>5 DEF SnapshotSound
<1>7. Remember(w, m) /\ UNCHANGED <<database, clock>>
  BY DEF CheckBooking
<1>8. \A x \in Workers : txn'[x] = IF x = w THEN m ELSE txn[x]
  BY <1>3, <1>7, Remembered DEF TypeOK
<1>9. OneBookingPerUser'
  <2>1. \A x \in Workers : Booking(x)' => Booking(x) /\ txn'[x].row = txn[x].row
    <3>1. txn'[w].row = txn[w].row /\ Booking(w)
      BY <1>1, <1>3, <1>8 DEF Booking
    <3>2. \A x \in Workers \ {w} : txn'[x] = txn[x]
      BY <1>8
    <3>. QED
      BY <3>1, <3>2 DEF Booking
  <2>. QED
    BY <2>1 DEF OneBookingPerUser, SameUser
<1>. HIDE DEF m
<1>. QED
  BY <1>3, <1>6, <1>7, <1>9, ReadPreserves

-----------------------------------------------------------------------------
(* Steps that expire holds.                                                *)

(* Expiring S, whoever does it, keeps the counters and the rows in order.  *)
LEMMA ExpiryPreserves ==
  ASSUME BookingInv, NEW S \in SUBSET InStatus("HELD"),
         reservations' = AfterExpiry(S), held' = HeldAfterExpiry(S),
         UNCHANGED <<confirmed, reviews, clock>>,
         txn' \in [Workers -> Txn],
         \A x \in Workers : txn'[x] \in {Idle, txn[x]},
         \A x \in Workers : txn'[x] # Idle /\ Booking(x) => S \cap txn[x].swept = {}
  PROVE  BookingInv'
<1>. USE DEF BookingInv
<1>1. /\ Moves(S)
      /\ InStatus("HELD")' = InStatus("HELD") \ S
      /\ Standing' \subseteq Standing /\ Past \subseteq Past'
      /\ Owning' = Owning
      /\ RowsMarked'
  BY ExpiryMoves
<1>2. S \in SUBSET DOMAIN reservations
  BY DEF InStatus
<1>3. SnapshotsSound' /\ OneBookingPerUser' /\ ClashOnlyAfterLapse'
  BY <1>1, <1>2, MovePreserves
<1>4. /\ DOMAIN reservations' \subseteq Reservation
      /\ \A r \in DOMAIN reservations' : reservations'[r] \in ReservationRow
      /\ \A A \in SUBSET DOMAIN reservations, b \in Buckets :
            RequestedUnits(reservations', A, b) = RequestedUnits(reservations, A, b)
  BY <1>1, <1>2, MovedTable
<1>5. \A b \in Buckets : held'[b] = HeldAfterExpiry(S)[b] /\ held'[b] \in Nat
  BY ExpiryCounts
<1>6. held' \in [Buckets -> Nat]
  BY <1>5 DEF HeldAfterExpiry
<1>7. TypeOK'
  <2>1. DOMAIN reservations' = DOMAIN reservations
    BY <1>1 DEF Moves
  <2>. QED
    BY <1>4, <1>6, <2>1 DEF TypeOK, ReservationRow
<1>8. ASSUME NEW b \in Buckets
      PROVE  /\ held'[b] = UnitCount(InStatus("HELD"), b)'
             /\ confirmed'[b] = UnitCount(Owning, b)'
             /\ held'[b] + confirmed'[b] =< Capacity[b]
  <2>1. InStatus("HELD") \ S \in SUBSET DOMAIN reservations /\ Owning \in SUBSET DOMAIN reservations
    BY DEF InStatus, Owning
  <2>2. /\ held[b] \in Nat /\ confirmed[b] \in Nat /\ Capacity[b] \in Nat
        /\ confirmed[b] = Cardinality(RequestedUnits(reservations, Owning, b))
        /\ held[b] + confirmed[b] =< Capacity[b]
    BY CountsBefore
  <2>3. /\ held'[b] \in Nat /\ held'[b] =< held[b]
        /\ held'[b] = Cardinality(RequestedUnits(reservations, InStatus("HELD") \ S, b))
    BY ExpiryCounts
  <2>4. held'[b] = Cardinality(RequestedUnits(reservations', InStatus("HELD")', b))
    BY <1>1, <1>4, <2>1, <2>3
  <2>5. confirmed'[b] = Cardinality(RequestedUnits(reservations', Owning', b))
    BY <1>1, <1>4, <2>1, <2>2
  <2>. QED
    BY <2>2, <2>3, <2>4, <2>5 DEF UnitCount
<1>9. StockExact' /\ NeverOverbooked'
  BY <1>8 DEF StockExact, NeverOverbooked
<1>. QED
  BY <1>1, <1>3, <1>7, <1>9

LEMMA ExpireHoldsPreserves ==
  ASSUME BookingInv, NEW S \in SUBSET Lapsed, ExpireHolds(S)
  PROVE  BookingInv'
<1>1. S \in SUBSET InStatus("HELD")
  BY DEF Lapsed
<1>2. txn' \in [Workers -> Txn] /\ \A x \in Workers : txn'[x] = txn[x]
  BY DEF ExpireHolds, BookingInv, TypeOK
<1>3. \A x \in Workers : Booking(x) => S \cap txn[x].swept = {}
  BY DEF ExpireHolds, Unlocked
<1>. QED
  BY <1>1, <1>2, <1>3, ExpiryPreserves DEF ExpireHolds

(* The bookings under way are other users', and so are the holds they sweep.*)
LEMMA ReplayBookingPreserves ==
  ASSUME BookingInv, NEW w \in Workers, ReplayBooking(w)
  PROVE  BookingInv'
<1>. USE DEF BookingInv
<1>. DEFINE u == txn[w].row[1]
            S == Lapsed \cap OfUser(u)
<1>1. S \in SUBSET InStatus("HELD")
  BY DEF Lapsed
<1>2. Idle \in Txn
  BY TxnRecords
<1>3. /\ txn' \in [Workers -> Txn]
      /\ \A x \in Workers : txn'[x] = IF x = w THEN Idle ELSE txn[x]
  BY <1>2, Remembered DEF ReplayBooking, TypeOK
<1>4. \A x \in Workers : txn'[x] \in {Idle, txn[x]}
  BY <1>3
<1>5. ASSUME NEW x \in Workers, Booking(x)
      PROVE  S \cap txn[x].swept = {}
  <2>1. txn[x].row[1] # u
    BY <1>5 DEF ReplayBooking, ScheduleFree
  <2>2. txn[x].swept \subseteq OfUser(txn[x].row[1])
    BY <1>5 DEF SnapshotsSound, SnapshotSound, Booking
  <2>. QED
    BY <2>1, <2>2 DEF OfUser
<1>6. /\ reservations' = AfterExpiry(S) /\ held' = HeldAfterExpiry(S)
      /\ UNCHANGED <<confirmed, reviews, clock>>
  BY DEF ReplayBooking
<1>. HIDE DEF S
<1>. QED
  BY <1>1, <1>3, <1>4, <1>5, <1>6, ExpiryPreserves

-----------------------------------------------------------------------------
(* Steps that change the status of one row.                                *)

(* What the three of them share: r becomes row, w's request ends, and the  *)
(* counters are proved apart.                                              *)
LEMMA RowPreserves ==
  ASSUME BookingInv, NEW w \in Workers, NEW r \in DOMAIN reservations,
         NEW row \in ReservationRow,
         row.offer = reservations[r].offer, row.expires = reservations[r].expires,
         reservations' = [reservations EXCEPT ![r] = row],
         r \in Standing \/ row.status \notin {"HELD", "CONFIRMED"},
         r \in Past => row.status \in {"CONFIRMED", "CANCELLED", "COMPLETED"},
         Unlocked({r}) \/ r \notin InStatus("HELD"),
         held' \in [Buckets -> Nat], confirmed' \in [Buckets -> Nat],
         reviews' \subseteq DOMAIN reservations, clock' = clock, Remember(w, Idle)
  PROVE  TypeOK' /\ SnapshotsSound' /\ OneBookingPerUser' /\ ClashOnlyAfterLapse'
<1>. USE DEF BookingInv
<1>1. /\ Moves({r})
      /\ \A s : InStatus(s)' = IF row.status = s THEN InStatus(s) \cup {r} ELSE InStatus(s) \ {r}
  BY RowMoves
<1>2. Idle \in Txn
  BY TxnRecords
<1>3. /\ txn' \in [Workers -> Txn]
      /\ \A x \in Workers : txn'[x] = IF x = w THEN Idle ELSE txn[x]
  BY <1>2, Remembered DEF TypeOK
<1>4. Standing' \subseteq Standing
  BY <1>1 DEF Standing
<1>5. Past \subseteq Past'
  BY <1>1 DEF Past
<1>6. ASSUME NEW x \in Workers, Booking(x)
      PROVE  {r} \cap txn[x].swept = {}
  <2>1. txn[x].swept \subseteq InStatus("HELD")
    BY <1>6 DEF SnapshotsSound, SnapshotSound, Booking, Lapsed
  <2>. QED
    BY <1>6, <2>1 DEF Unlocked
<1>7. SnapshotsSound' /\ OneBookingPerUser' /\ ClashOnlyAfterLapse'
  <2>1. {r} \in SUBSET DOMAIN reservations /\ \A x \in Workers : txn'[x] \in {Idle, txn[x]}
    BY <1>3
  <2>. QED
    BY <1>1, <1>4, <1>5, <1>6, <2>1, MovePreserves
<1>8. /\ DOMAIN reservations' \subseteq Reservation
      /\ \A q \in DOMAIN reservations' : reservations'[q] \in ReservationRow
      /\ DOMAIN reservations' = DOMAIN reservations
  <2>1. {r} \in SUBSET DOMAIN reservations
    OBVIOUS
  <2>. QED
    BY <1>1, <2>1, MovedTable DEF Moves
<1>9. TypeOK'
  BY <1>3, <1>8 DEF TypeOK, ReservationRow
<1>. QED
  BY <1>7, <1>9

(* The counters of bucket b after a step that keeps every row's offer. *)
LEMMA CountsAfter ==
  ASSUME BookingInv, NEW R \in SUBSET DOMAIN reservations, Moves(R), NEW b \in Buckets,
         InStatus("HELD")' \subseteq DOMAIN reservations, Owning' \subseteq DOMAIN reservations
  PROVE  /\ UnitCount(InStatus("HELD"), b)'
              = Cardinality(RequestedUnits(reservations, InStatus("HELD")', b))
         /\ UnitCount(Owning, b)' = Cardinality(RequestedUnits(reservations, Owning', b))
BY MovedTable DEF UnitCount

(* A hold, or a confirmed row, leaves or joins the rows that are counted.  *)
LEMMA RowCounts ==
  ASSUME BookingInv, NEW r \in DOMAIN reservations, NEW b \in Buckets,
         NEW need, need = Needs[reservations[r].offer][b]
  PROVE  /\ need \in Nat
         /\ r \in InStatus("HELD") =>
               /\ need =< held[b]
               /\ Cardinality(RequestedUnits(reservations, InStatus("HELD") \ {r}, b))
                    = held[b] - need
         /\ r \in Owning =>
               /\ need =< confirmed[b]
               /\ Cardinality(RequestedUnits(reservations, Owning \ {r}, b)) = confirmed[b] - need
         /\ r \notin Owning =>
               Cardinality(RequestedUnits(reservations, Owning \cup {r}, b)) = confirmed[b] + need
<1>1. /\ InStatus("HELD") \in SUBSET Reservation /\ Owning \in SUBSET Reservation
      /\ held[b] = Cardinality(RequestedUnits(reservations, InStatus("HELD"), b))
      /\ confirmed[b] = Cardinality(RequestedUnits(reservations, Owning, b))
  BY CountsBefore
<1>2. /\ reservations[r].offer \in Offers /\ need \in Nat
      /\ Cardinality(RequestedUnits(reservations, {r}, b)) = need
  BY RowNeeds
<1>3. ASSUME r \in InStatus("HELD")
      PROVE  /\ need =< held[b]
             /\ Cardinality(RequestedUnits(reservations, InStatus("HELD") \ {r}, b))
                  = held[b] - need
  <2>1. PICK A : A = InStatus("HELD")
    OBVIOUS
  <2>2. A \in SUBSET Reservation /\ {r} \in SUBSET A
    BY <1>1, <1>3, <2>1
  <2>3. /\ Cardinality(RequestedUnits(reservations, {r}, b))
             =< Cardinality(RequestedUnits(reservations, A, b))
        /\ Cardinality(RequestedUnits(reservations, A \ {r}, b))
             = Cardinality(RequestedUnits(reservations, A, b))
               - Cardinality(RequestedUnits(reservations, {r}, b))
    BY <2>2, UnitsTaken
  <2>. QED
    BY <1>1, <1>2, <2>1, <2>3
<1>4. ASSUME r \in Owning
      PROVE  /\ need =< confirmed[b]
             /\ Cardinality(RequestedUnits(reservations, Owning \ {r}, b)) = confirmed[b] - need
  <2>1. PICK A : A = Owning
    OBVIOUS
  <2>2. A \in SUBSET Reservation /\ {r} \in SUBSET A
    BY <1>1, <1>4, <2>1
  <2>3. /\ Cardinality(RequestedUnits(reservations, {r}, b))
             =< Cardinality(RequestedUnits(reservations, A, b))
        /\ Cardinality(RequestedUnits(reservations, A \ {r}, b))
             = Cardinality(RequestedUnits(reservations, A, b))
               - Cardinality(RequestedUnits(reservations, {r}, b))
    BY <2>2, UnitsTaken
  <2>. QED
    BY <1>1, <1>2, <2>1, <2>3
<1>5. ASSUME r \notin Owning
      PROVE  Cardinality(RequestedUnits(reservations, Owning \cup {r}, b)) = confirmed[b] + need
  <2>1. PICK A : A = Owning
    OBVIOUS
  <2>2. A \in SUBSET Reservation /\ r \notin A
    BY <1>1, <1>5, <2>1
  <2>3. Cardinality(RequestedUnits(reservations, A \cup {r}, b))
          = Cardinality(RequestedUnits(reservations, A, b)) + Needs[reservations[r].offer][b]
    BY <1>2, <2>2, UnitsAdded, ZenonT(60)
  <2>. QED
    BY <1>1, <2>1, <2>3
<1>. QED
  BY <1>2, <1>3, <1>4, <1>5

(* What a confirmation, a cancellation and a review do to row r. *)
Confirms(r) ==
    /\ r \in InStatus("HELD") /\ Moves({r}) /\ reservations'[r].status = "CONFIRMED"
    /\ InStatus("HELD")' = InStatus("HELD") \ {r} /\ Owning' = Owning \cup {r}

Cancels(r) ==
    /\ r \in Standing /\ Moves({r}) /\ reservations'[r].status = "CANCELLED"
    /\ InStatus("HELD")' = InStatus("HELD") \ {r} /\ Owning' = Owning \ {r}

Completes(r) ==
    /\ r \in InStatus("CONFIRMED") \cup InStatus("CANCELLED") /\ Moves({r})
    /\ reservations'[r].status = "COMPLETED"
    /\ InStatus("HELD")' = InStatus("HELD") /\ Owning' = Owning

LEMMA CommitConfirmPreserves ==
  ASSUME BookingInv, NEW w \in Workers, CommitConfirm(w)
  PROVE  BookingInv' /\ \E r \in DOMAIN reservations : Confirms(r)
<1>. USE DEF BookingInv
<1>1. PICK r : r = txn[w].row
  OBVIOUS
<1>2. r \in InStatus("HELD") /\ r \in DOMAIN reservations /\ reservations[r] \in ReservationRow
  BY <1>1 DEF CommitConfirm, Matches, InStatus, TypeOK
<1>3. PICK row : row = ConfirmedRow(reservations[r])
  OBVIOUS
<1>4. /\ row \in ReservationRow
      /\ row.offer = reservations[r].offer /\ row.expires = reservations[r].expires
      /\ row.status = "CONFIRMED" /\ row.cancelled = reservations[r].cancelled
  <2>1. 1 \in Nat
    OBVIOUS
  <2>. QED
    BY <1>2, <1>3, <2>1, ChangedRows
<1>5. PICK need : need = Needs[reservations[r].offer]
  OBVIOUS
<1>6. /\ reservations' = [reservations EXCEPT ![r] = row]
      /\ held' = [b \in Buckets |-> held[b] - need[b]]
      /\ confirmed' = [b \in Buckets |-> confirmed[b] + need[b]]
      /\ reviews' = reviews /\ clock' = clock /\ Remember(w, Idle) /\ Unlocked({r})
  BY <1>1, <1>2, <1>3, <1>5 DEF CommitConfirm
<1>7. ~ row.cancelled /\ r \in Standing /\ r \notin Past /\ r \notin Owning
  BY <1>2, <1>4 DEF RowsMarked, Standing, Past, Owning, InStatus
<1>8. /\ Moves({r})
      /\ reservations'[r] = row
      /\ \A s : InStatus(s)' = IF row.status = s THEN InStatus(s) \cup {r} ELSE InStatus(s) \ {r}
  BY <1>2, <1>4, <1>6, RowMoves
<1>9. /\ InStatus("HELD")' = InStatus("HELD") \ {r}
      /\ InStatus("CONFIRMED")' = InStatus("CONFIRMED") \cup {r}
      /\ InStatus("CANCELLED")' = InStatus("CANCELLED")
      /\ InStatus("COMPLETED")' = InStatus("COMPLETED")
      /\ r \notin InStatus("COMPLETED") /\ r \notin InStatus("CANCELLED")
  <2>1. /\ r \notin InStatus("COMPLETED") /\ r \notin InStatus("CANCELLED")
        /\ r \in InStatus("HELD") \/ r \in InStatus("CONFIRMED")
    BY <1>2 DEF InStatus
  <2>. QED
    BY <1>4, <1>8, <2>1
<1>10. \A q \in DOMAIN reservations : q # r => reservations'[q] = reservations[q]
  BY <1>8 DEF Moves
<1>11. Owning' = Owning \cup {r}
  BY <1>7, <1>8, <1>9, <1>10 DEF Owning, InStatus
<1>12. RowsMarked'
  BY <1>6, <1>7, <1>8, <1>9, <1>10 DEF RowsMarked, Standing, InStatus, Moves
<1>13. ASSUME NEW b \in Buckets
       PROVE  /\ held'[b] \in Nat /\ confirmed'[b] \in Nat
              /\ held'[b] = UnitCount(InStatus("HELD"), b)'
              /\ confirmed'[b] = UnitCount(Owning, b)'
              /\ held'[b] + confirmed'[b] =< Capacity[b]
  <2>1. /\ held[b] \in Nat /\ confirmed[b] \in Nat /\ Capacity[b] \in Nat
        /\ held[b] + confirmed[b] =< Capacity[b]
    BY CountsBefore
  <2>2. /\ need[b] \in Nat /\ need[b] =< held[b]
        /\ Cardinality(RequestedUnits(reservations, InStatus("HELD") \ {r}, b)) = held[b] - need[b]
        /\ Cardinality(RequestedUnits(reservations, Owning \cup {r}, b)) = confirmed[b] + need[b]
    BY <1>2, <1>5, <1>7, RowCounts
  <2>3. /\ UnitCount(InStatus("HELD"), b)'
             = Cardinality(RequestedUnits(reservations, InStatus("HELD") \ {r}, b))
        /\ UnitCount(Owning, b)' = Cardinality(RequestedUnits(reservations, Owning \cup {r}, b))
    <3>1. /\ InStatus("HELD") \ {r} \subseteq DOMAIN reservations
          /\ Owning \cup {r} \subseteq DOMAIN reservations /\ {r} \in SUBSET DOMAIN reservations
      BY <1>2 DEF InStatus, Owning
    <3>. QED
      BY <1>8, <1>9, <1>11, <3>1, CountsAfter
  <2>4. held'[b] = held[b] - need[b] /\ confirmed'[b] = confirmed[b] + need[b]
    BY <1>6
  <2>5. held'[b] \in Nat /\ confirmed'[b] \in Nat /\ held'[b] + confirmed'[b] =< Capacity[b]
    BY <2>1, <2>2, <2>4
  <2>. QED
    BY <2>2, <2>3, <2>4, <2>5
<1>14. held' \in [Buckets -> Nat] /\ confirmed' \in [Buckets -> Nat]
  BY <1>6, <1>13
<1>15. StockExact' /\ NeverOverbooked'
  BY <1>13 DEF StockExact, NeverOverbooked
<1>16. reviews' \subseteq DOMAIN reservations
  BY <1>6 DEF TypeOK
<1>17. TypeOK' /\ SnapshotsSound' /\ OneBookingPerUser' /\ ClashOnlyAfterLapse'
  BY <1>2, <1>4, <1>6, <1>7, <1>14, <1>16, RowPreserves
<1>18. Confirms(r)
  BY <1>2, <1>4, <1>8, <1>9, <1>11 DEF Confirms
<1>. QED
  BY <1>2, <1>12, <1>15, <1>17, <1>18

LEMMA CommitCancelPreserves ==
  ASSUME BookingInv, NEW w \in Workers, CommitCancel(w)
  PROVE  BookingInv' /\ \E r \in DOMAIN reservations : Cancels(r)
<1>. USE DEF BookingInv
<1>1. PICK r : r = txn[w].row
  OBVIOUS
<1>2. /\ txn[w].status \in {"HELD", "CONFIRMED"} /\ r \in InStatus(txn[w].status)
      /\ r \in DOMAIN reservations /\ reservations[r] \in ReservationRow
  BY <1>1, TxnFields DEF CommitCancel, Matches, InStatus, TypeOK
<1>3. PICK row : row = CancelledRow(reservations[r])
  OBVIOUS
<1>4. /\ row \in ReservationRow
      /\ row.offer = reservations[r].offer /\ row.expires = reservations[r].expires
      /\ row.status = "CANCELLED" /\ row.cancelled
  <2>1. 1 \in Nat
    OBVIOUS
  <2>. QED
    BY <1>2, <1>3, <2>1, ChangedRows, SMTT(30)
<1>5. PICK need : need = Needs[reservations[r].offer]
  OBVIOUS
<1>6. /\ reservations' = [reservations EXCEPT ![r] = row]
      /\ \/ /\ r \in InStatus("HELD")
            /\ held' = [b \in Buckets |-> held[b] - need[b]]
            /\ confirmed' = confirmed
         \/ /\ r \in InStatus("CONFIRMED")
            /\ confirmed' = [b \in Buckets |-> confirmed[b] - need[b]]
            /\ held' = held
      /\ reviews' = reviews /\ clock' = clock /\ Remember(w, Idle) /\ Unlocked({r})
  BY <1>1, <1>2, <1>3, <1>5 DEF CommitCancel
<1>7. r \in Standing
  BY <1>2 DEF Standing
<1>8. /\ Moves({r})
      /\ reservations'[r] = row
      /\ \A s : InStatus(s)' = IF row.status = s THEN InStatus(s) \cup {r} ELSE InStatus(s) \ {r}
  BY <1>2, <1>4, <1>6, RowMoves
<1>9. /\ InStatus("HELD")' = InStatus("HELD") \ {r}
      /\ InStatus("CONFIRMED")' = InStatus("CONFIRMED") \ {r}
      /\ InStatus("CANCELLED")' = InStatus("CANCELLED") \cup {r}
      /\ InStatus("COMPLETED")' = InStatus("COMPLETED")
      /\ r \notin InStatus("COMPLETED") /\ r \notin InStatus("CANCELLED")
  <2>1. /\ r \notin InStatus("COMPLETED") /\ r \notin InStatus("CANCELLED")
        /\ r \in InStatus("HELD") \/ r \in InStatus("CONFIRMED")
    BY <1>2 DEF InStatus
  <2>. QED
    BY <1>4, <1>8, <2>1
<1>10. \A q \in DOMAIN reservations : q # r => reservations'[q] = reservations[q]
  BY <1>8 DEF Moves
<1>11. Owning' = Owning \ {r}
  BY <1>8, <1>9, <1>10 DEF Owning, InStatus
<1>12. RowsMarked'
  BY <1>4, <1>6, <1>8, <1>9, <1>10 DEF RowsMarked, Standing, InStatus, Moves
<1>13. ASSUME NEW b \in Buckets
       PROVE  /\ held'[b] \in Nat /\ confirmed'[b] \in Nat
              /\ held'[b] = UnitCount(InStatus("HELD"), b)'
              /\ confirmed'[b] = UnitCount(Owning, b)'
              /\ held'[b] + confirmed'[b] =< Capacity[b]
  <2>1. /\ held[b] \in Nat /\ confirmed[b] \in Nat /\ Capacity[b] \in Nat
        /\ held[b] + confirmed[b] =< Capacity[b]
        /\ held[b] = Cardinality(RequestedUnits(reservations, InStatus("HELD"), b))
        /\ confirmed[b] = Cardinality(RequestedUnits(reservations, Owning, b))
    BY CountsBefore
  <2>2. /\ need[b] \in Nat
        /\ r \in InStatus("HELD") =>
              /\ need[b] =< held[b]
              /\ Cardinality(RequestedUnits(reservations, InStatus("HELD") \ {r}, b))
                   = held[b] - need[b]
        /\ r \in Owning =>
              /\ need[b] =< confirmed[b]
              /\ Cardinality(RequestedUnits(reservations, Owning \ {r}, b)) = confirmed[b] - need[b]
    BY <1>2, <1>5, RowCounts
  <2>3. /\ UnitCount(InStatus("HELD"), b)'
             = Cardinality(RequestedUnits(reservations, InStatus("HELD") \ {r}, b))
        /\ UnitCount(Owning, b)' = Cardinality(RequestedUnits(reservations, Owning \ {r}, b))
    <3>1. /\ InStatus("HELD") \ {r} \subseteq DOMAIN reservations
          /\ Owning \ {r} \subseteq DOMAIN reservations /\ {r} \in SUBSET DOMAIN reservations
      BY <1>2 DEF InStatus, Owning
    <3>. QED
      BY <1>8, <1>9, <1>11, <3>1, CountsAfter
  <2>4. CASE r \in InStatus("HELD")
    <3>1. r \notin InStatus("CONFIRMED") /\ r \notin Owning
      BY <2>4 DEF Owning, InStatus
    <3>2. held'[b] = held[b] - need[b] /\ confirmed'[b] = confirmed[b] /\ Owning \ {r} = Owning
      BY <1>6, <3>1
    <3>3. held'[b] \in Nat /\ confirmed'[b] \in Nat /\ held'[b] + confirmed'[b] =< Capacity[b]
      BY <2>1, <2>2, <2>4, <3>2
    <3>. QED
      BY <2>1, <2>2, <2>3, <2>4, <3>2, <3>3
  <2>5. CASE r \in InStatus("CONFIRMED")
    <3>1. r \notin InStatus("HELD") /\ r \in Owning
      BY <2>5 DEF Owning, InStatus
    <3>2. confirmed'[b] = confirmed[b] - need[b] /\ held'[b] = held[b]
          /\ InStatus("HELD") \ {r} = InStatus("HELD")
      BY <1>6, <3>1
    <3>3. held'[b] \in Nat /\ confirmed'[b] \in Nat /\ held'[b] + confirmed'[b] =< Capacity[b]
      BY <2>1, <2>2, <3>1, <3>2
    <3>. QED
      BY <2>1, <2>2, <2>3, <3>1, <3>2, <3>3
  <2>. QED
    BY <1>2, <2>4, <2>5
<1>14. held' \in [Buckets -> Nat] /\ confirmed' \in [Buckets -> Nat]
  BY <1>6, <1>13 DEF TypeOK
<1>15. StockExact' /\ NeverOverbooked'
  BY <1>13 DEF StockExact, NeverOverbooked
<1>16. reviews' \subseteq DOMAIN reservations
  BY <1>6 DEF TypeOK
<1>17. TypeOK' /\ SnapshotsSound' /\ OneBookingPerUser' /\ ClashOnlyAfterLapse'
  BY <1>2, <1>4, <1>6, <1>7, <1>14, <1>16, RowPreserves
<1>18. Cancels(r)
  BY <1>4, <1>7, <1>8, <1>9, <1>11 DEF Cancels
<1>. QED
  BY <1>2, <1>12, <1>15, <1>17, <1>18

(* A completed row has its review already, so the row that a first review  *)
(* completes was confirmed, and at worst has been cancelled since.         *)
LEMMA CommitReviewPreserves ==
  ASSUME BookingInv, NEW w \in Workers, CommitReview(w)
  PROVE  /\ BookingInv'
         /\ reservations' = reservations \/ \E r \in DOMAIN reservations : Completes(r)
<1>. USE DEF BookingInv
<1>1. PICK r : r = txn[w].row
  OBVIOUS
<1>2. PICK seen : seen = txn[w].version
  OBVIOUS
<1>3. /\ r \notin reviews /\ seen \in Nat /\ r \in Past
      /\ r \in DOMAIN reservations /\ reservations[r] \in ReservationRow
  <2>1. seen \in Nat
    BY <1>2, TxnFields DEF CommitReview, TypeOK
  <2>2. r \notin reviews /\ r \in Past
    BY <1>1 DEF CommitReview, SnapshotsSound, SnapshotSound, Past
  <2>3. r \in DOMAIN reservations
    BY <2>2 DEF Past, InStatus
  <2>. QED
    BY <2>1, <2>2, <2>3 DEF TypeOK
<1>4. r \in InStatus("CONFIRMED") \/ r \in InStatus("CANCELLED")
  BY <1>3 DEF RowsMarked, Past
<1>5. /\ UNCHANGED <<held, confirmed, clock>> /\ Remember(w, Idle)
      /\ reviews' = reviews \cup {r}
  BY <1>1 DEF CommitReview
<1>6. reviews' \subseteq DOMAIN reservations
  BY <1>3, <1>5 DEF TypeOK
<1>7. /\ txn' \in [Workers -> Txn]
      /\ \A x \in Workers : txn'[x] \in {Idle, txn[x]}
  BY <1>5, TxnRecords, Remembered DEF TypeOK
<1>8. CASE reservations' = reservations
  <2>1. \A s : InStatus(s)' = InStatus(s)
    BY <1>8 DEF InStatus
  <2>2. Owning' = Owning /\ Standing' = Standing /\ Past' = Past
    BY <1>8, <2>1 DEF Owning, Standing, Past
  <2>3. StockExact' /\ NeverOverbooked'
    BY <1>5, <1>8, <2>1, <2>2, ZenonT(60) DEF StockExact, NeverOverbooked, UnitCount, RequestedUnits
  <2>4. RowsMarked'
    BY <1>5, <1>8, <2>1, <2>2 DEF RowsMarked
  <2>5. {} \in SUBSET DOMAIN reservations /\ Moves({})
    BY <1>8 DEF Moves
  <2>6. SnapshotsSound' /\ OneBookingPerUser' /\ ClashOnlyAfterLapse'
    BY <1>5, <1>7, <2>2, <2>5, MovePreserves
  <2>7. TypeOK'
    BY <1>5, <1>6, <1>7, <1>8 DEF TypeOK, ReservationRow
  <2>. QED
    BY <1>8, <2>3, <2>4, <2>6, <2>7
<1>9. CASE reservations' # reservations
  <2>1. PICK row : row = CompletedRow(reservations[r], seen)
    OBVIOUS
  <2>2. /\ row \in ReservationRow
        /\ row.offer = reservations[r].offer /\ row.expires = reservations[r].expires
        /\ row.status = "COMPLETED" /\ row.cancelled = reservations[r].cancelled
    BY <1>3, <2>1, ChangedRows
  <2>3. reservations' = [reservations EXCEPT ![r] = row]
    BY <1>1, <1>2, <1>3, <1>9, <2>1 DEF CommitReview
  <2>4. /\ Moves({r})
        /\ reservations'[r] = row
        /\ \A s : InStatus(s)' = IF row.status = s THEN InStatus(s) \cup {r} ELSE InStatus(s) \ {r}
    BY <1>3, <2>2, <2>3, RowMoves
  <2>5. r \notin InStatus("HELD") /\ r \notin InStatus("COMPLETED")
    BY <1>4 DEF InStatus
  <2>6. /\ InStatus("HELD")' = InStatus("HELD")
        /\ InStatus("CONFIRMED")' = InStatus("CONFIRMED") \ {r}
        /\ InStatus("CANCELLED")' = InStatus("CANCELLED") \ {r}
        /\ InStatus("COMPLETED")' = InStatus("COMPLETED") \cup {r}
    BY <2>2, <2>4, <2>5
  <2>7. \A q \in DOMAIN reservations : q # r => reservations'[q] = reservations[q]
    BY <2>4 DEF Moves
  <2>8. Owning' = Owning
    <3>1. row.cancelled \in BOOLEAN /\ (r \in InStatus("CONFIRMED") <=> ~ row.cancelled)
      BY <1>4, <2>2 DEF RowsMarked, Standing, InStatus, ReservationRow
    <3>2. r \in Owning <=> r \in Owning'
      BY <2>4, <2>5, <2>6, <3>1 DEF Owning
    <3>3. \A q \in DOMAIN reservations : q # r => (q \in Owning <=> q \in Owning')
      BY <2>6, <2>7 DEF Owning, InStatus
    <3>4. Owning \subseteq DOMAIN reservations /\ Owning' \subseteq DOMAIN reservations
      BY <1>3, <2>4 DEF Owning, InStatus, Moves
    <3>. QED
      BY <3>2, <3>3, <3>4
  <2>9. RowsMarked'
    BY <1>5, <2>4, <2>5, <2>6, <2>7 DEF RowsMarked, Standing, InStatus, Moves
  <2>10. ASSUME NEW b \in Buckets
         PROVE  /\ held'[b] = UnitCount(InStatus("HELD"), b)'
                /\ confirmed'[b] = UnitCount(Owning, b)'
    <3>1. /\ InStatus("HELD") \subseteq DOMAIN reservations
          /\ Owning \subseteq DOMAIN reservations /\ {r} \in SUBSET DOMAIN reservations
      BY <1>3 DEF InStatus, Owning
    <3>2. /\ UnitCount(InStatus("HELD"), b)'
               = Cardinality(RequestedUnits(reservations, InStatus("HELD"), b))
          /\ UnitCount(Owning, b)' = Cardinality(RequestedUnits(reservations, Owning, b))
      BY <2>4, <2>6, <2>8, <3>1, CountsAfter
    <3>. QED
      BY <1>5, <3>2, CountsBefore
  <2>11. StockExact' /\ NeverOverbooked'
    BY <1>5, <2>10 DEF StockExact, NeverOverbooked
  <2>12. held' \in [Buckets -> Nat] /\ confirmed' \in [Buckets -> Nat]
    BY <1>5 DEF TypeOK
  <2>13. TypeOK' /\ SnapshotsSound' /\ OneBookingPerUser' /\ ClashOnlyAfterLapse'
    BY <1>3, <1>5, <1>6, <2>2, <2>3, <2>5, <2>12, RowPreserves
  <2>14. Completes(r)
    BY <1>4, <2>2, <2>4, <2>6, <2>8 DEF Completes
  <2>. QED
    BY <1>3, <2>9, <2>11, <2>13, <2>14
<1>. QED
  BY <1>8, <1>9

-----------------------------------------------------------------------------
(* The commit of a booking.                                                *)

LEMMA ConflictSymmetric ==
  ASSUME NEW o1, NEW o2
  PROVE  Conflict(o1, o2) <=> Conflict(o2, o1)
<1>1. \A p, q : Overlaps(p, q) <=> Overlaps(q, p)
  BY DEF Overlaps
<1>. QED
  BY <1>1 DEF Conflict

(* The table after a booking of r that expires S. *)
Booked(r, S, new) ==
    /\ DOMAIN reservations' = DOMAIN reservations \cup {r}
    /\ reservations'[r] = new
    /\ \A q \in S : /\ reservations'[q] \in ReservationRow
                    /\ reservations'[q].status = "EXPIRED"
                    /\ reservations'[q].offer = reservations[q].offer
                    /\ reservations'[q].expires = reservations[q].expires
    /\ \A q \in DOMAIN reservations \ S : reservations'[q] = reservations[q]

Books(r, o, S) ==
    /\ r \in Reservation \ DOMAIN reservations /\ o \in Offers /\ S \subseteq InStatus("HELD")
    /\ \E new \in ReservationRow : new.offer = o /\ Booked(r, S, new)
    /\ Fits(o, HeldAfterExpiry(S))
    /\ InStatus("HELD")' = (InStatus("HELD") \ S) \cup {r} /\ Owning' = Owning

LEMMA BookedTable ==
  ASSUME BookingInv, NEW r, r \notin DOMAIN reservations,
         NEW S \in SUBSET InStatus("HELD"),
         NEW new, new.status = "HELD", new.cancelled = FALSE, Booked(r, S, new), reviews' = reviews
  PROVE  /\ InStatus("HELD")' = (InStatus("HELD") \ S) \cup {r}
         /\ Standing' \subseteq Standing \cup {r} /\ Standing' \cap S = {}
         /\ Past \subseteq Past'
         /\ Owning' = Owning
         /\ RowsMarked'
<1>. USE DEF BookingInv
<1>1. \A q \in DOMAIN reservations : q # r
  OBVIOUS
<1>2. InStatus("HELD")' = (InStatus("HELD") \ S) \cup {r}
  BY <1>1 DEF InStatus, Booked
<1>3. /\ InStatus("CONFIRMED")' = InStatus("CONFIRMED")
      /\ InStatus("CANCELLED")' = InStatus("CANCELLED")
      /\ InStatus("COMPLETED")' = InStatus("COMPLETED")
  BY <1>1 DEF InStatus, Booked
<1>4. \A q \in DOMAIN reservations \ S : reservations'[q] = reservations[q]
  BY DEF Booked
<1>5. \A s \in {"CONFIRMED", "CANCELLED", "COMPLETED"} : InStatus(s) \subseteq DOMAIN reservations \ S
  BY DEF InStatus
<1>6. Standing' \subseteq Standing \cup {r} /\ Standing' \cap S = {} /\ Past \subseteq Past'
  BY <1>2, <1>3, <1>5 DEF Standing, Past, InStatus
<1>7. Owning' = Owning
  BY <1>3, <1>4, <1>5 DEF Owning
<1>8. RowsMarked'
  <2>1. \A q \in Standing' : ~ reservations'[q].cancelled
    <3>1. reservations'[r].cancelled = FALSE
      BY DEF Booked
    <3>2. \A q \in Standing' \ {r} : q \in Standing /\ q \in DOMAIN reservations \ S
      BY <1>6 DEF Standing, InStatus
    <3>3. \A q \in Standing' \ {r} : reservations'[q] = reservations[q]
      BY <1>4, <3>2
    <3>4. \A q \in Standing : ~ reservations[q].cancelled
      BY DEF RowsMarked, Standing, InStatus
    <3>. QED
      BY <3>1, <3>2, <3>3, <3>4
  <2>2. \A q \in InStatus("CANCELLED") : reservations'[q].cancelled
    BY <1>4, <1>5 DEF RowsMarked
  <2>3. InStatus("COMPLETED") \subseteq reviews'
    BY DEF RowsMarked, InStatus
  <2>. QED
    BY <1>3, <2>1, <2>2, <2>3 DEF RowsMarked
<1>. QED
  BY <1>2, <1>6, <1>7, <1>8

LEMMA CommitBookingPreserves ==
  ASSUME BookingInv, NEW w \in Workers, CommitBooking(w)
  PROVE  BookingInv' /\ \E r \in Reservation, o \in Offers, S \in SUBSET Reservation : Books(r, o, S)
<1>. USE DEF BookingInv
<1>1. PICK m : m = txn[w]
  OBVIOUS
<1>2. PICK r, o, S : r = m.row /\ o = m.offer /\ S = m.swept
  OBVIOUS
<1>3. PICK new : new = NewRow(o)
  OBVIOUS
<1>4. /\ m.op = "checked" /\ m \in Txn /\ SnapshotSound(m) /\ Booking(w)
      /\ r \in Reservation /\ o \in Offers /\ S \in SUBSET Reservation /\ m.now \in Int
  <2>1. m.op = "checked" /\ m \in Txn /\ SnapshotSound(m) /\ Booking(w)
    BY <1>1 DEF CommitBooking, TypeOK, SnapshotsSound, Booking
  <2>. QED
    BY <1>2, <2>1, TxnFields
<1>5. /\ r \notin DOMAIN reservations /\ S \subseteq Lapsed \cap OfUser(r[1])
      /\ S \in SUBSET InStatus("HELD")
  BY <1>2, <1>4 DEF SnapshotSound, Lapsed
<1>6. /\ reservations' = [q \in DOMAIN reservations \cup {r} |->
                              IF q = r THEN new ELSE AfterExpiry(S)[q]]
      /\ held' = [b \in Buckets |-> HeldAfterExpiry(S)[b] + Needs[o][b]]
      /\ UNCHANGED <<confirmed, reviews, clock>> /\ Remember(w, Idle)
      /\ Fits(o, HeldAfterExpiry(S))
  BY <1>1, <1>2, <1>3 DEF CommitBooking
<1>7. clock \in Nat /\ clock + HoldTime \in Int /\ (clock + HoldTime) - HoldTime = clock
  BY SizesAssumption DEF TypeOK
<1>8. /\ new \in ReservationRow /\ new.status = "HELD" /\ new.cancelled = FALSE
      /\ new.offer = o /\ new.expires = clock + HoldTime
  BY <1>3, <1>4, <1>7 DEF NewRow, ReservationRow
<1>9. Booked(r, S, new)
  <2>1. /\ DOMAIN AfterExpiry(S) = DOMAIN reservations
        /\ \A q \in S : /\ AfterExpiry(S)[q] \in ReservationRow
                        /\ AfterExpiry(S)[q].status = "EXPIRED"
                        /\ AfterExpiry(S)[q].offer = reservations[q].offer
                        /\ AfterExpiry(S)[q].expires = reservations[q].expires
        /\ \A q \in DOMAIN reservations \ S : AfterExpiry(S)[q] = reservations[q]
    BY <1>5, ExpiryTable
  <2>2. S \subseteq DOMAIN reservations
    BY <1>5 DEF InStatus
  <2>3. \A q \in DOMAIN reservations : reservations'[q] = AfterExpiry(S)[q]
    BY <1>5, <1>6
  <2>4. DOMAIN reservations' = DOMAIN reservations \cup {r} /\ reservations'[r] = new
    BY <1>6
  <2>. QED
    BY <2>1, <2>2, <2>3, <2>4 DEF Booked
<1>10. /\ InStatus("HELD")' = (InStatus("HELD") \ S) \cup {r}
       /\ Standing' \subseteq Standing \cup {r} /\ Standing' \cap S = {}
       /\ Past \subseteq Past'
       /\ Owning' = Owning
       /\ RowsMarked'
  BY <1>5, <1>6, <1>8, <1>9, BookedTable
<1>11. /\ txn' \in [Workers -> Txn]
       /\ \A x \in Workers : txn'[x] = IF x = w THEN Idle ELSE txn[x]
  BY <1>6, TxnRecords, Remembered DEF TypeOK
<1>12. /\ \A q \in DOMAIN reservations : /\ reservations'[q].offer = reservations[q].offer
                                         /\ reservations'[q].expires = reservations[q].expires
       /\ \A q \in DOMAIN reservations' : reservations'[q] \in ReservationRow
       /\ DOMAIN reservations' = DOMAIN reservations \cup {r}
  BY <1>8, <1>9 DEF Booked, TypeOK
<1>13. ASSUME NEW b \in Buckets
       PROVE  /\ held'[b] \in Nat
              /\ held'[b] = UnitCount(InStatus("HELD"), b)'
              /\ confirmed'[b] = UnitCount(Owning, b)'
              /\ held'[b] + confirmed'[b] =< Capacity[b]
  <2>1. PICK left : left = HeldAfterExpiry(S)[b]
    OBVIOUS
  <2>2. PICK A : A = InStatus("HELD") \ S
    OBVIOUS
  <2>3. /\ left \in Nat /\ left =< held[b]
        /\ left = Cardinality(RequestedUnits(reservations, A, b))
    BY <1>5, <2>1, <2>2, ExpiryCounts
  <2>4. /\ held[b] \in Nat /\ confirmed[b] \in Nat /\ Capacity[b] \in Nat
        /\ confirmed[b] = Cardinality(RequestedUnits(reservations, Owning, b))
        /\ held[b] + confirmed[b] =< Capacity[b]
    BY CountsBefore
  <2>5. A \in SUBSET Reservation /\ A \in SUBSET DOMAIN reservations /\ r \notin A
    BY <1>5, <2>2 DEF InStatus, TypeOK
  <2>6. RequestedUnits(reservations', A, b) = RequestedUnits(reservations, A, b)
    <3>1. \A q \in A : reservations'[q].offer = reservations[q].offer
      BY <1>12, <2>5
    <3>. QED
      BY <3>1, UnitsKept
  <2>7. RequestedUnits(reservations', Owning, b) = RequestedUnits(reservations, Owning, b)
    <3>1. \A q \in Owning : reservations'[q].offer = reservations[q].offer
      BY <1>12 DEF Owning, InStatus
    <3>. QED
      BY <3>1, UnitsKept
  <2>8. reservations'[r].offer = o
    BY <1>8, <1>9 DEF Booked
  <2>9. Cardinality(RequestedUnits(reservations', A \cup {r}, b)) = left + Needs[o][b]
    <3>1. PICK rows : rows = reservations'
      OBVIOUS
    <3>2. A \in SUBSET Reservation /\ r \notin A /\ b \in Buckets /\ rows[r].offer \in Offers
      BY <1>4, <2>5, <2>8, <3>1
    <3>3. Cardinality(RequestedUnits(rows, A \cup {r}, b))
            = Cardinality(RequestedUnits(rows, A, b)) + Needs[rows[r].offer][b]
      BY ONLY <3>2, UnitsAdded, ZenonT(60)
    <3>. QED
      BY <2>3, <2>6, <2>8, <3>1, <3>3
  <2>10. Needs[o][b] \in Nat
    BY <1>4, NeedsType
  <2>11. held'[b] = left + Needs[o][b] /\ confirmed'[b] = confirmed[b]
    BY <1>6, <2>1
  <2>12. left + confirmed[b] + Needs[o][b] =< Capacity[b]
    <3>1. CASE Needs[o][b] > 0
      BY <1>6, <2>1, <3>1 DEF Fits, BucketsOf
    <3>2. CASE ~ (Needs[o][b] > 0)
      BY <2>3, <2>4, <2>10, <3>2
    <3>. QED
      BY <3>1, <3>2
  <2>13. held'[b] \in Nat /\ held'[b] + confirmed'[b] =< Capacity[b]
    BY <2>3, <2>4, <2>10, <2>11, <2>12
  <2>14. held'[b] = UnitCount(InStatus("HELD"), b)'
    BY <1>10, <2>2, <2>9, <2>11 DEF UnitCount
  <2>15. confirmed'[b] = UnitCount(Owning, b)'
    BY <1>10, <2>4, <2>7, <2>11 DEF UnitCount
  <2>. QED
    BY <2>13, <2>14, <2>15
<1>14. StockExact' /\ NeverOverbooked'
  BY <1>13 DEF StockExact, NeverOverbooked
<1>15. TypeOK'
  <2>1. held' \in [Buckets -> Nat]
    BY <1>6, <1>13
  <2>2. confirmed' \in [Buckets -> Nat] /\ clock' \in Nat
    BY <1>6 DEF TypeOK
  <2>3. reviews' \subseteq DOMAIN reservations'
    BY <1>6, <1>12 DEF TypeOK
  <2>4. DOMAIN reservations' \subseteq Reservation
    BY <1>4, <1>12 DEF TypeOK
  <2>. QED
    BY <1>11, <1>12, <2>1, <2>2, <2>3, <2>4 DEF TypeOK, ReservationRow
<1>16. SnapshotsSound'
  <2>1. ASSUME NEW x \in Workers PROVE SnapshotSound(txn[x])'
    <3>1. CASE x = w
      BY <1>11, <3>1 DEF SnapshotSound, Idle
    <3>2. CASE x # w
      <4>1. PICK n : n = txn[x]
        OBVIOUS
      <4>2. txn'[x] = n /\ n \in Txn /\ SnapshotSound(n)
        BY <1>11, <3>2, <4>1 DEF SnapshotsSound, TypeOK
      \* The other bookings under way are other users', and so are their rows.
      <4>3. ASSUME n.op \in {"lock", "checked"}
            PROVE  /\ n.row \notin DOMAIN reservations'
                   /\ n.swept \subseteq DOMAIN reservations \cap OfUser(n.row[1])
                   /\ \A q \in DOMAIN reservations' : q[1] = n.row[1] =>
                         q \in DOMAIN reservations /\ reservations'[q] = reservations[q]
        <5>1. Booking(x) /\ x \in Workers \ {w}
          BY <3>2, <4>1, <4>3 DEF Booking
        <5>2. /\ n.row \notin DOMAIN reservations
              /\ n.swept \subseteq Lapsed \cap OfUser(n.row[1])
          BY <4>2, <4>3 DEF SnapshotSound
        <5>3. n.row[1] # r[1]
          BY <1>1, <1>2, <1>4, <4>1, <5>1 DEF OneBookingPerUser, SameUser
        <5>4. Lapsed \subseteq DOMAIN reservations
          BY DEF Lapsed, InStatus
        <5>5. ASSUME NEW q \in DOMAIN reservations', q[1] = n.row[1]
              PROVE  q \in DOMAIN reservations /\ reservations'[q] = reservations[q]
          <6>1. q # r /\ q \notin S
            BY <1>5, <5>3, <5>5 DEF OfUser
          <6>. QED
            BY <1>9, <5>5, <6>1 DEF Booked
        <5>6. n.row \notin DOMAIN reservations'
          BY <1>12, <5>2, <5>3
        <5>. QED
          BY <5>2, <5>4, <5>5, <5>6
      <4>4. ASSUME n.op \in {"lock", "checked"}
            PROVE  n.swept \subseteq {q \in Lapsed' : q[1] = n.row[1]}
        <5>1. n.swept \subseteq Lapsed \cap OfUser(n.row[1])
          BY <4>2, <4>4 DEF SnapshotSound
        <5>2. ASSUME NEW q \in n.swept
              PROVE  q \in Lapsed' /\ q[1] = n.row[1]
          <6>1. q[1] = n.row[1] /\ q \in DOMAIN reservations'
            BY <1>12, <4>3, <4>4 DEF OfUser
          <6>2. reservations'[q] = reservations[q] /\ q \in Lapsed
            BY <4>3, <4>4, <5>1, <6>1
          <6>. QED
            BY <1>6, <6>1, <6>2 DEF Lapsed, InStatus
        <5>. QED
          BY <5>2
      <4>5. ASSUME n.op = "checked"
            PROVE  /\ n.now =< clock'
                   /\ \A q \in {p \in Standing' : p[1] = n.row[1]} \ n.swept :
                         Conflict(n.offer, reservations'[q].offer)
                         => reservations'[q].expires =< n.now
        <5>1. /\ n.now =< clock
              /\ \A q \in (Standing \cap OfUser(n.row[1])) \ n.swept :
                    Conflict(n.offer, reservations[q].offer) => reservations[q].expires =< n.now
          BY <4>2, <4>5 DEF SnapshotSound
        <5>2. ASSUME NEW q \in Standing', q[1] = n.row[1]
              PROVE  q \in Standing \cap OfUser(n.row[1]) /\ reservations'[q] = reservations[q]
          <6>1. q \in DOMAIN reservations'
            BY DEF Standing, InStatus
          <6>2. q \in DOMAIN reservations /\ reservations'[q] = reservations[q]
            BY <4>3, <4>5, <5>2, <6>1
          <6>. QED
            BY <1>5, <1>10, <5>2, <6>2 DEF OfUser
        <5>. QED
          BY <1>6, <5>1, <5>2
      <4>6. n.op = "review" => n.row \in Past'
        BY <1>10, <4>2 DEF SnapshotSound, Past
      <4>. QED
        BY <4>2, <4>3, <4>4, <4>5, <4>6, SoundAsRead
    <3>. QED
      BY <3>1, <3>2
  <2>. QED
    BY <2>1 DEF SnapshotsSound
<1>17. OneBookingPerUser'
  <2>1. Idle.op \notin {"lock", "checked"} /\ Idle \in Txn
    BY TxnRecords DEF Idle
  <2>. QED
    BY <1>6, <2>1, BookingsApart
<1>18. ClashOnlyAfterLapse'
  <2>1. ASSUME NEW q \in Standing, q \notin S, SameUser(q, r),
               Conflict(o, reservations[q].offer)
        PROVE  reservations'[q].expires =< BookedAt(r)'
    <3>1. q \in DOMAIN reservations /\ q \in OfUser(r[1])
      BY <2>1 DEF Standing, InStatus, OfUser, SameUser
    <3>2. reservations[q].expires =< m.now /\ m.now =< clock
      BY <1>2, <1>4, <2>1, <3>1 DEF SnapshotSound
    <3>3. BookedAt(r)' = clock
      BY <1>7, <1>8, <1>9 DEF BookedAt, Booked
    <3>4. reservations[q].expires \in Int /\ reservations'[q].expires = reservations[q].expires
      BY <1>12, <3>1 DEF TypeOK, ReservationRow
    <3>. QED
      BY <1>4, <1>7, <3>2, <3>3, <3>4
  <2>2. ASSUME NEW q \in Standing', q # r, SameUser(q, r),
               Conflict(o, reservations'[q].offer)
        PROVE  reservations'[q].expires =< BookedAt(r)'
    <3>1. q \in Standing /\ q \notin S /\ q \in DOMAIN reservations
      BY <1>10, <2>2 DEF Standing, InStatus
    <3>. QED
      BY <1>12, <2>1, <2>2, <3>1
  <2>3. reservations'[r].offer = o
    BY <1>8, <1>9 DEF Booked
  <2>4. ASSUME NEW r1 \in Standing', NEW r2 \in Standing', Clash(r1, r2)'
        PROVE  \/ reservations'[r1].expires =< BookedAt(r2)'
               \/ reservations'[r2].expires =< BookedAt(r1)'
    <3>1. /\ r1 # r2 /\ SameUser(r1, r2) /\ SameUser(r2, r1)
          /\ Conflict(reservations'[r1].offer, reservations'[r2].offer)
          /\ Conflict(reservations'[r2].offer, reservations'[r1].offer)
      BY <2>4, ConflictSymmetric DEF Clash, SameUser
    <3>2. CASE r2 = r
      BY <2>2, <2>3, <3>1, <3>2
    <3>3. CASE r1 = r
      BY <2>2, <2>3, <3>1, <3>3
    <3>4. CASE r1 # r /\ r2 # r
      <4>1. /\ r1 \in Standing /\ r2 \in Standing
            /\ r1 \in DOMAIN reservations /\ r2 \in DOMAIN reservations
        BY <1>10, <3>4 DEF Standing, InStatus
      <4>2. Clash(r1, r2)
        BY <1>12, <3>1, <4>1 DEF Clash
      <4>. QED
        BY <1>12, <4>1, <4>2 DEF ClashOnlyAfterLapse, BookedAt
    <3>. QED
      BY <3>2, <3>3, <3>4
  <2>. QED
    BY <2>4 DEF ClashOnlyAfterLapse
<1>19. Books(r, o, S)
  BY <1>4, <1>5, <1>6, <1>8, <1>9, <1>10 DEF Books
<1>. QED
  BY <1>4, <1>10, <1>14, <1>15, <1>16, <1>17, <1>18, <1>19

-----------------------------------------------------------------------------
LEMMA InitEstablishes ==
  ASSUME Init
  PROVE  BookingInv
<1>1. DOMAIN reservations = {} /\ \A s : InStatus(s) = {}
  BY DEF Init, InStatus
<1>2. TypeOK
  BY <1>1, TxnRecords DEF Init, TypeOK
<1>3. Owning = {} /\ Standing = {}
  BY <1>1 DEF Owning, Standing
<1>4. \A b \in Buckets : RequestedUnits(reservations, {}, b) = {}
  BY DEF RequestedUnits
<1>5. \A b \in Buckets : UnitCount(InStatus("HELD"), b) = 0 /\ UnitCount(Owning, b) = 0
  BY <1>1, <1>3, <1>4, FS_EmptySet DEF UnitCount
<1>6. StockExact
  BY <1>5 DEF Init, StockExact
<1>7. NeverOverbooked
  BY BucketsAssumption DEF Init, NeverOverbooked
<1>8. RowsMarked /\ ClashOnlyAfterLapse
  BY <1>1, <1>3 DEF RowsMarked, ClashOnlyAfterLapse
<1>9. SnapshotsSound /\ OneBookingPerUser
  BY DEF Init, SnapshotsSound, SnapshotSound, OneBookingPerUser, Booking, Idle
<1>. QED
  BY <1>2, <1>6, <1>7, <1>8, <1>9 DEF BookingInv

LEMMA StutterPreserves ==
  ASSUME BookingInv, UNCHANGED vars
  PROVE  BookingInv'
<1>. USE DEF vars, database, BookingInv
<1>1. StockExact' /\ NeverOverbooked' /\ RowsMarked' /\ ClashOnlyAfterLapse'
  BY SameTable
<1>2. TypeOK'
  BY DEF TypeOK, ReservationRow
<1>3. SnapshotsSound'
  <2>1. ASSUME NEW x \in Workers PROVE SnapshotSound(txn[x])'
    <3>1. SnapshotSound(txn[x]) /\ txn[x] \in Txn /\ txn'[x] = txn[x] /\ clock' = clock /\ clock \in Nat
      BY DEF SnapshotsSound, TypeOK
    <3>. QED
      BY <3>1, SoundLater, SoundAsRead
  <2>. QED
    BY <2>1 DEF SnapshotsSound
<1>4. OneBookingPerUser'
  BY DEF OneBookingPerUser, Booking, SameUser
<1>. QED
  BY <1>1, <1>2, <1>3, <1>4

(* What a step may do to the table. *)
Effect ==
    \/ reservations' = reservations
    \/ \E S \in SUBSET InStatus("HELD") : reservations' = AfterExpiry(S) /\ reviews' = reviews
    \/ \E r \in DOMAIN reservations : Confirms(r) \/ Cancels(r) \/ Completes(r)
    \/ \E r \in Reservation, o \in Offers, S \in SUBSET Reservation : Books(r, o, S)

LEMMA StepPreserves ==
  ASSUME BookingInv, [Next]_vars
  PROVE  BookingInv' /\ Effect
<1>1. CASE TimePasses
  BY <1>1, TimePreserves DEF TimePasses, Effect, database
<1>2. CASE Sweep
  <2>1. PICK S \in SUBSET Lapsed : ExpireHolds(S)
    BY <1>2 DEF Sweep, SweepAll, SweepUser
  <2>2. S \in SUBSET InStatus("HELD")
    BY DEF Lapsed
  <2>. QED
    BY <2>1, <2>2, ExpireHoldsPreserves DEF ExpireHolds, Effect
<1>3. ASSUME NEW w \in Workers, Request(w)
      PROVE  BookingInv' /\ Effect
  <2>1. CASE \E r \in Reservation, o \in Offers : AskToBook(w, r, o)
    BY <2>1, AskToBookPreserves DEF AskToBook, Effect, database
  <2>2. CASE LockSchedule(w) \/ CheckBooking(w)
    BY <2>2, LockSchedulePreserves, CheckBookingPreserves
       DEF LockSchedule, CheckBooking, Effect, database
  <2>3. CASE ReplayBooking(w)
    <3>1. PICK S \in SUBSET InStatus("HELD") : reservations' = AfterExpiry(S)
      BY <2>3 DEF ReplayBooking, Lapsed
    <3>. QED
      BY <2>3, <3>1, ReplayBookingPreserves DEF ReplayBooking, Effect
  <2>4. CASE CommitBooking(w)
    BY <2>4, CommitBookingPreserves DEF Effect
  <2>5. CASE \E r \in DOMAIN reservations :
                ReadToConfirm(w, r) \/ ReadToCancel(w, r) \/ ReadToReview(w, r)
    BY <2>5, ReadPreservesTable DEF ReadToConfirm, ReadToCancel, ReadToReview, Effect, database
  <2>6. CASE CommitConfirm(w) \/ CommitCancel(w) \/ CommitReview(w)
    BY <2>6, CommitConfirmPreserves, CommitCancelPreserves, CommitReviewPreserves DEF Effect
  <2>7. CASE Rollback(w)
    BY <2>7, RollbackPreserves DEF Rollback, Effect, database
  <2>. QED
    BY <1>3, <2>1, <2>2, <2>3, <2>4, <2>5, <2>6, <2>7 DEF Request, BookingStep
<1>4. CASE UNCHANGED vars
  BY <1>4, StutterPreserves DEF vars, Effect
<1>. QED
  BY <1>1, <1>2, <1>3, <1>4 DEF Next

-----------------------------------------------------------------------------
(* The invariant holds: counters, rows, marks and what every request       *)
(* remembers agree after every interleaving of requests, sweeps and time.  *)
THEOREM BookingInvariant == Spec => []BookingInv
<1>1. Init => BookingInv
  BY InitEstablishes
<1>2. BookingInv /\ [Next]_vars => BookingInv'
  BY StepPreserves
<1>. QED
  BY <1>1, <1>2, PTL DEF Spec

(* Every variable keeps its type. *)
THEOREM BookingTypeCorrect == Spec => []TypeOK
<1>1. BookingInv => TypeOK
  BY DEF BookingInv
<1>. QED
  BY <1>1, BookingInvariant, PTL

(* The counters of every bucket are exactly the units of the reservations  *)
(* that hold and own them (_allocate_held, expire_reservation_holds,       *)
(* confirm_reservation, cancel_reservation), for offers of any buckets.    *)
THEOREM StockIsExact == Spec => []StockExact
<1>1. BookingInv => StockExact
  BY DEF BookingInv
<1>. QED
  BY <1>1, BookingInvariant, PTL

(* No bucket is promised beyond its capacity. *)
THEOREM StockNeverOverbooked == Spec => []NeverOverbooked
<1>1. BookingInv => NeverOverbooked
  BY DEF BookingInv
<1>. QED
  BY <1>1, BookingInvariant, PTL

(* The schedule lock and the conflict check keep a user's bookings apart,  *)
(* up to holds that had run out when the other booking was made.           *)
THEOREM ClashesNeedALapse == Spec => []ClashOnlyAfterLapse
<1>1. BookingInv => ClashOnlyAfterLapse
  BY DEF BookingInv
<1>. QED
  BY <1>1, BookingInvariant, PTL

(* Confirmed rows leave their status by a review or a cancellation only,   *)
(* and expired and completed rows do not change.                           *)
THEOREM ConfirmedIsFinal == Spec => ConfirmedNeverExpires
<1>. DEFINE Kept == \A r \in DOMAIN reservations :
                /\ reservations[r].status = "CONFIRMED" =>
                       reservations'[r].status \in {"CONFIRMED", "COMPLETED", "CANCELLED"}
                /\ reservations[r].status \in {"EXPIRED", "COMPLETED"} =>
                       reservations'[r] = reservations[r]
<1>1. ASSUME BookingInv, [Next]_vars PROVE Kept
  <2>1. Effect
    BY <1>1, StepPreserves
  <2>2. CASE reservations' = reservations
    BY <2>2
  <2>3. ASSUME NEW S \in SUBSET InStatus("HELD"), reservations' = AfterExpiry(S), reviews' = reviews
        PROVE  Kept
    <3>1. Moves(S)
      BY <1>1, <2>3, ExpiryMoves
    <3>. QED
      BY <3>1 DEF Moves, InStatus
  <2>4. ASSUME NEW r \in DOMAIN reservations, Confirms(r) \/ Cancels(r) \/ Completes(r)
        PROVE  Kept
    <3>1. \A q \in DOMAIN reservations : q # r => reservations'[q] = reservations[q]
      BY <2>4 DEF Confirms, Cancels, Completes, Moves
    <3>2. /\ reservations[r].status \in {"HELD", "CONFIRMED", "CANCELLED"}
          /\ reservations[r].status = "CONFIRMED" =>
                 reservations'[r].status \in {"CANCELLED", "COMPLETED"}
      BY <2>4 DEF Confirms, Cancels, Completes, Standing, InStatus
    <3>. QED
      BY <3>1, <3>2
  <2>5. ASSUME NEW r \in Reservation, NEW o \in Offers, NEW S \in SUBSET Reservation, Books(r, o, S)
        PROVE  Kept
    <3>1. /\ S \subseteq InStatus("HELD")
          /\ \A q \in DOMAIN reservations \ S : reservations'[q] = reservations[q]
      BY <2>5 DEF Books, Booked
    <3>. QED
      BY <3>1 DEF InStatus
  <2>. QED
    BY <2>1, <2>2, <2>3, <2>4, <2>5 DEF Effect
<1>2. BookingInv /\ [Next]_vars => [Kept]_vars
  BY <1>1
<1>. QED
  BY <1>2, BookingInvariant, PTL DEF Spec, ConfirmedNeverExpires

-----------------------------------------------------------------------------
(* The tables implement StockLedger.                                       *)

OfferOf == [r \in DOMAIN reservations |-> reservations[r].offer]

(* The units the ledger counts are the units the counters count. *)
LEMMA LedgerUnits ==
  ASSUME BookingInv, NEW S \in SUBSET InStatus("HELD"), NEW b \in Buckets
  PROVE  /\ HeldAfterExpiry(S)[b] \in Nat
         /\ Stock!Free((InStatus("HELD") \ S) \cup Owning, b)
              = Capacity[b] - (HeldAfterExpiry(S)[b] + confirmed[b])
<1>1. PICK A, B : A = InStatus("HELD") \ S /\ B = Owning
  OBVIOUS
<1>2. /\ A \in SUBSET Reservation /\ B \in SUBSET Reservation /\ A \cap B = {}
      /\ A \cup B \subseteq DOMAIN reservations
  BY <1>1 DEF BookingInv, TypeOK, InStatus, Owning
<1>4. /\ HeldAfterExpiry(S)[b] \in Nat
      /\ HeldAfterExpiry(S)[b] = Cardinality(RequestedUnits(reservations, A, b))
  BY <1>1, ExpiryCounts
<1>5. confirmed[b] = Cardinality(RequestedUnits(reservations, B, b))
  BY <1>1, CountsBefore
<1>6. /\ RequestedUnits(reservations, A \cup B, b)
           = RequestedUnits(reservations, A, b) \cup RequestedUnits(reservations, B, b)
      /\ RequestedUnits(reservations, A, b) \cap RequestedUnits(reservations, B, b) = {}
  BY <1>2, UnitsAlgebra
<1>7. /\ IsFiniteSet(RequestedUnits(reservations, A, b))
      /\ IsFiniteSet(RequestedUnits(reservations, B, b))
  BY <1>2, UnitsFinite
<1>8. Cardinality(RequestedUnits(reservations, A \cup B, b))
        = HeldAfterExpiry(S)[b] + confirmed[b]
  <2>1. PICK X, Y : X = RequestedUnits(reservations, A, b) /\ Y = RequestedUnits(reservations, B, b)
    OBVIOUS
  <2>2. Cardinality(X \cup Y) = Cardinality(X) + Cardinality(Y)
    BY <1>6, <1>7, <2>1, CountAdded
  <2>. QED
    BY <1>4, <1>5, <1>6, <2>1, <2>2
<1>9. Stock!Free(A \cup B, b) = Capacity[b] - (HeldAfterExpiry(S)[b] + confirmed[b])
  <2>1. PICK C : C = A \cup B
    OBVIOUS
  <2>2. Stock!Occupied(C, b) = RequestedUnits(reservations, C, b)
    BY <1>2, <2>1 DEF Stock!Occupied, RequestedUnits
  <2>3. Stock!Free(C, b) = Capacity[b] - Cardinality(Stock!Occupied(C, b))
    <3>1. \A X : Stock!Cardinality(X) = Cardinality(X)
      BY DEF Stock!Cardinality, Cardinality
    <3>. QED
      BY <3>1 DEF Stock!Free
  <2>. QED
    BY <1>8, <2>1, <2>2, <2>3
<1>. QED
  BY <1>1, <1>4, <1>9

LEMMA MovesKeepOffers ==
  ASSUME BookingInv, NEW R \in SUBSET DOMAIN reservations, Moves(R)
  PROVE  OfferOf' = OfferOf
<1>1. /\ DOMAIN reservations' = DOMAIN reservations
      /\ \A r \in DOMAIN reservations : reservations'[r].offer = reservations[r].offer
  BY MovedTable DEF Moves
<1>. QED
  BY <1>1 DEF OfferOf

LEMMA BookingHolds ==
  ASSUME BookingInv, NEW r \in Reservation, NEW o \in Offers, NEW S \in SUBSET Reservation,
         Books(r, o, S)
  PROVE  Stock!Hold(r, o, S)
<1>1. /\ r \notin DOMAIN reservations /\ S \in SUBSET InStatus("HELD")
      /\ InStatus("HELD")' = (InStatus("HELD") \ S) \cup {r} /\ Owning' = Owning
  BY DEF Books
<1>2. /\ DOMAIN reservations' = DOMAIN reservations \cup {r}
      /\ reservations'[r].offer = o
      /\ \A q \in DOMAIN reservations : reservations'[q].offer = reservations[q].offer
  BY DEF Books, Booked
<1>3. OfferOf' = [d \in DOMAIN OfferOf \cup {r} |-> IF d = r THEN o ELSE OfferOf[d]]
  BY <1>1, <1>2 DEF OfferOf
<1>4. ASSUME NEW b \in Buckets
      PROVE  Needs[o][b] =< Stock!Free((InStatus("HELD") \ S) \cup Owning, b)
  <2>1. PICK left : left = HeldAfterExpiry(S)[b]
    OBVIOUS
  <2>2. /\ left \in Nat /\ left =< held[b]
        /\ Stock!Free((InStatus("HELD") \ S) \cup Owning, b) = Capacity[b] - (left + confirmed[b])
    BY <1>1, <2>1, LedgerUnits, ExpiryCounts
  <2>3. /\ held[b] \in Nat /\ confirmed[b] \in Nat /\ Capacity[b] \in Nat
        /\ held[b] + confirmed[b] =< Capacity[b]
    BY CountsBefore
  <2>4. Needs[o][b] \in Nat
    BY NeedsType
  <2>5. CASE Needs[o][b] > 0
    <3>1. left + confirmed[b] + Needs[o][b] =< Capacity[b]
      BY <2>1, <2>5 DEF Books, Fits, BucketsOf
    <3>. QED
      BY <2>2, <2>3, <2>4, <3>1
  <2>6. CASE ~ (Needs[o][b] > 0)
    BY <2>2, <2>3, <2>4, <2>6
  <2>. QED
    BY <2>5, <2>6
<1>. QED
  BY <1>1, <1>3, <1>4 DEF Stock!Hold, OfferOf

LEMMA EffectMaps ==
  ASSUME BookingInv, [Next]_vars
  PROVE  [Stock!Next]_(Stock!ledger)
<1>1. Effect
  BY StepPreserves
<1>2. CASE reservations' = reservations
  BY <1>2 DEF Stock!ledger, InStatus, Owning
<1>3. ASSUME NEW S \in SUBSET InStatus("HELD"), reservations' = AfterExpiry(S), reviews' = reviews
      PROVE  Stock!Next
  <2>1. /\ Moves(S) /\ InStatus("HELD")' = InStatus("HELD") \ S /\ Owning' = Owning
    BY <1>3, ExpiryMoves
  <2>2. S \in SUBSET DOMAIN reservations /\ S \cap Owning = {}
    BY DEF InStatus, Owning
  <2>3. OfferOf' = OfferOf
    BY <2>1, <2>2, MovesKeepOffers
  <2>4. Stock!Release(S) /\ S \in SUBSET (InStatus("HELD") \cup Owning)
    BY <2>1, <2>2, <2>3 DEF Stock!Release, OfferOf
  <2>. QED
    BY <2>4 DEF Stock!Next
<1>4. ASSUME NEW r \in DOMAIN reservations, Confirms(r)
      PROVE  Stock!Next
  <2>1. OfferOf' = OfferOf
    BY <1>4, MovesKeepOffers DEF Confirms
  <2>2. Stock!Confirm(r) /\ r \in InStatus("HELD")
    BY <1>4, <2>1 DEF Confirms, Stock!Confirm, OfferOf
  <2>. QED
    BY <2>2 DEF Stock!Next
<1>5. ASSUME NEW r \in DOMAIN reservations, Cancels(r)
      PROVE  Stock!Next
  <2>1. OfferOf' = OfferOf
    BY <1>5, MovesKeepOffers DEF Cancels
  <2>2. {r} \subseteq InStatus("HELD") \/ r \in Owning
    BY <1>5 DEF Cancels, Standing, Owning
  <2>3. Stock!Release({r})
    BY <1>5, <2>1, <2>2 DEF Cancels, Stock!Release, OfferOf
  <2>4. {r} \in SUBSET (InStatus("HELD") \cup Owning)
    BY <2>2
  <2>. QED
    BY <2>3, <2>4 DEF Stock!Next
<1>6. ASSUME NEW r \in DOMAIN reservations, Completes(r)
      PROVE  UNCHANGED Stock!ledger
  <2>1. OfferOf' = OfferOf
    BY <1>6, MovesKeepOffers DEF Completes
  <2>. QED
    BY <1>6, <2>1 DEF Completes, Stock!ledger, OfferOf
<1>7. ASSUME NEW r \in Reservation, NEW o \in Offers, NEW S \in SUBSET Reservation, Books(r, o, S)
      PROVE  Stock!Next
  <2>1. Stock!Hold(r, o, S) /\ S \in SUBSET InStatus("HELD")
    BY <1>7, BookingHolds DEF Books
  <2>. QED
    BY <2>1 DEF Stock!Next
<1>. QED
  BY <1>1, <1>2, <1>3, <1>4, <1>5, <1>6, <1>7 DEF Effect

(* Every behaviour of the marketplace is one of the ledger: units are      *)
(* taken, confirmed and given back as whole offers, and at most once.      *)
THEOREM MarketplaceImplementsLedger == Spec => ImplementsStock
<1>1. Init => Stock!Init
  BY DEF Init, Stock!Init, InStatus, Owning
<1>2. BookingInv /\ [Next]_vars => [Stock!Next]_(Stock!ledger)
  BY EffectMaps
<1>. QED
  BY <1>1, <1>2, BookingInvariant, PTL DEF Spec, ImplementsStock, Stock!Spec
=============================================================================
