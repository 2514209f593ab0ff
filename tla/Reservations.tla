----------------------------- MODULE Reservations -----------------------------
(***************************************************************************)
(* Reservations of experiences, stays, meals and bundles over shared       *)
(* inventory: services/reservations.py, with the booking and review        *)
(* operations of services/hospitality.py and the periodic sweep of         *)
(* realtime/queues.py.                                                     *)
(*                                                                         *)
(* The clock is explicit here, because a request reads it several times:   *)
(* once to expire the user's lapsed holds, again to look for conflicts,    *)
(* and once more to date its own hold.  Bookings of one user are serialized*)
(* by the row lock of user_schedule_locks; confirmations, cancellations,   *)
(* reviews and sweeps do not take that lock.                               *)
(***************************************************************************)
EXTENDS Integers, FiniteSets

CONSTANTS
    Users,          \* accounts
    Keys,           \* idempotency keys clients send
    Workers,        \* requests served concurrently
    Offers,         \* what a request may ask for: a product, a date, a quantity
    Buckets,        \* rows of inventory_buckets
    Rooms,          \* those with resource_type = "ROOM"
    Needs,          \* units of each bucket an offer takes; 0 when it needs none
    Begins,         \* starts_at of a bucket
    Finishes,       \* ends_at of a bucket
    ClosesAt,       \* when an offer can no longer be booked
    Capacity,       \* capacity of a bucket
    MaxQuantity,    \* the most units of one bucket that one offer takes
    HoldTime,       \* settings.reservation_hold_minutes
    Milestone,      \* the half hour of a check-in or a checkout
    SweepLimit,     \* the LIMIT of a sweep over all users
    Horizon         \* bound on the clock

Reservation == Users \X Keys    \* unique (user_id, idempotency_key)

ASSUME SizesAssumption ==
    /\ IsFiniteSet(Users) /\ IsFiniteSet(Keys)
    /\ MaxQuantity \in Nat
    /\ HoldTime \in Nat /\ Milestone \in Nat
ASSUME BucketsAssumption ==
    /\ Rooms \subseteq Buckets
    /\ Capacity \in [Buckets -> Nat]
    /\ Begins \in [Buckets -> Int] /\ Finishes \in [Buckets -> Int]
ASSUME OffersAssumption ==
    /\ Needs \in [Offers -> [Buckets -> 0 .. MaxQuantity]]
    /\ ClosesAt \in [Offers -> Int]

VARIABLES
    reservations,   \* the table reservations, by user and key
    held,           \* inventory_buckets.held
    confirmed,      \* inventory_buckets.confirmed
    reviews,        \* the reservations that have a row in reviews
    clock,          \* the time
    txn             \* what each request is doing

database == <<reservations, held, confirmed, reviews>>

vars == <<reservations, held, confirmed, reviews, clock, txn>>

-----------------------------------------------------------------------------
(* cancelled says that cancelled_at is set. *)
ReservationRow ==
    [status : {"HELD", "CONFIRMED", "COMPLETED", "CANCELLED", "EXPIRED"},
     offer : Offers, version : Nat, expires : Int, cancelled : BOOLEAN]

InStatus(status) == {r \in DOMAIN reservations : reservations[r].status = status}

OfUser(u) == {r \in DOMAIN reservations : r[1] = u}

(* Bug: the sweep tests the expiry only, not the status.                   *)
LapsedInAnyStatus ==
    {r \in InStatus("HELD") \cup InStatus("CONFIRMED") : reservations[r].expires =< clock}

Lapsed == {r \in InStatus("HELD") : reservations[r].expires =< clock}

(* _active_reservation_condition *)
Active == InStatus("CONFIRMED") \cup {r \in InStatus("HELD") : reservations[r].expires > clock}

(* Bug: the row is updated whatever has become of it.                      *)
MatchesAnyState(r, status, version) == r \in DOMAIN reservations

(* What the UPDATE of a reservation by identifier, status and version matches. *)
Matches(r, status, version) ==
    /\ r \in InStatus(status)
    /\ reservations[r].version = version

(* The units of bucket b that the rows of S ask for.  Their number is what *)
(* a loop over S and its allocations adds to or takes from a counter of b. *)
RequestedUnits(rows, S, b) ==
    {x \in S \X (1 .. MaxQuantity) : x[2] =< Needs[rows[x[1]].offer][b]}

UnitCount(S, b) == Cardinality(RequestedUnits(reservations, S, b))

-----------------------------------------------------------------------------
(* The conflict rule of two offers, over the periods they occupy: a timed  *)
(* allocation occupies its bucket's period, the rooms together occupy a    *)
(* check-in and a checkout, and two stays exclude each other altogether.   *)

Least(S)    == CHOOSE x \in S : \A y \in S : x =< y
Greatest(S) == CHOOSE x \in S : \A y \in S : x >= y
Earlier(x, y) == IF x =< y THEN x ELSE y
Later(x, y)   == IF x >= y THEN x ELSE y

BucketsOf(o) == {b \in Buckets : Needs[o][b] > 0}
RoomsOf(o)   == BucketsOf(o) \cap Rooms

Lodging(o) == <<Least({Begins[b] : b \in RoomsOf(o)}), Greatest({Finishes[b] : b \in RoomsOf(o)})>>

Lodgings(o) == IF RoomsOf(o) = {} THEN {} ELSE {Lodging(o)}

CheckIn(stay)  == <<stay[1], Earlier(stay[1] + Milestone, stay[2])>>
Checkout(stay) == <<Later(stay[1], stay[2] - Milestone), stay[2]>>

Periods(o) == {<<Begins[b], Finishes[b]>> : b \in BucketsOf(o) \ Rooms}
              \cup UNION {{CheckIn(stay), Checkout(stay)} : stay \in Lodgings(o)}

(* _overlaps, with no buffer *)
Overlaps(p, q) == p[1] < q[2] /\ q[1] < p[2]

Conflict(o1, o2) ==
    \/ \E p \in Lodgings(o1), q \in Lodgings(o2) : Overlaps(p, q)
    \/ \E p \in Periods(o1), q \in Periods(o2) : Overlaps(p, q)

-----------------------------------------------------------------------------
(* What a request remembers between two statements.                        *)

Idle == [op |-> "idle"]

Asking(r, o) == [op |-> "ask", row |-> r, offer |-> o]
Locking(r, o, S) == [op |-> "lock", row |-> r, offer |-> o, swept |-> S]
Checked(r, o, S, now) ==
    [op |-> "checked", row |-> r, offer |-> o, swept |-> S, now |-> now]
Confirming(r, v)    == [op |-> "confirm", row |-> r, version |-> v]
Cancelling(r, s, v) == [op |-> "cancel", row |-> r, status |-> s, version |-> v]
Reviewing(r, s, v)  == [op |-> "review", row |-> r, status |-> s, version |-> v]

AskTxn     == [op : {"ask"}, row : Reservation, offer : Offers]
LockTxn    == [op : {"lock"}, row : Reservation, offer : Offers, swept : SUBSET Reservation]
CheckedTxn == [op : {"checked"}, row : Reservation, offer : Offers,
               swept : SUBSET Reservation, now : Int]
ConfirmTxn == [op : {"confirm"}, row : Reservation, version : Nat]
CancelTxn  == [op : {"cancel"}, row : Reservation, status : {"HELD", "CONFIRMED"},
               version : Nat]
ReviewTxn  == [op : {"review"}, row : Reservation, status : {"CONFIRMED", "COMPLETED"},
               version : Nat]

Txn == {Idle} \cup AskTxn \cup LockTxn \cup CheckedTxn \cup ConfirmTxn
       \cup CancelTxn \cup ReviewTxn

Remember(w, m) == txn' = [txn EXCEPT ![w] = m]

(* Bug: the conflict check is not serialized.                              *)
ScheduleNotLocked(u) == u \in Users

(* Bug: an expired row is not locked until the booking commits.            *)
RowsNotLocked(S) == S \subseteq DOMAIN reservations

(* A booking owns the schedule row of its user, and the rows of the holds  *)
(* it expires, from the moment it locks them until it commits or fails.    *)
Booking(w) == txn[w].op \in {"lock", "checked"}

ScheduleFree(u) == \A w \in Workers : Booking(w) => txn[w].row[1] # u

Unlocked(S) == \A w \in Workers : Booking(w) => S \cap txn[w].swept = {}

(* What expire_reservation_holds does to the rows of S and their units.    *)
ExpiredRow(row) == [row EXCEPT !.status = "EXPIRED", !.version = @ + 1]

AfterExpiry(S) ==
    [r \in DOMAIN reservations |->
        IF r \in S THEN ExpiredRow(reservations[r]) ELSE reservations[r]]

(* Bug: the units of every lapsed hold are released with the rows of S.    *)
HeldAfterEveryExpiry(S) == [b \in Buckets |-> held[b] - UnitCount(Lapsed, b)]

HeldAfterExpiry(S) == [b \in Buckets |-> held[b] - UnitCount(S, b)]

(* Otherwise "Reservation inventory ledger is inconsistent". *)
CanRelease(S) == \A b \in Buckets : UnitCount(S, b) =< held[b]

-----------------------------------------------------------------------------
Init ==
    /\ reservations = [r \in {} |-> {}]
    /\ held = [b \in Buckets |-> 0]
    /\ confirmed = [b \in Buckets |-> 0]
    /\ reviews = {}
    /\ clock = 0
    /\ txn = [w \in Workers |-> Idle]

TimePasses ==
    /\ clock < Horizon
    /\ clock' = clock + 1
    /\ UNCHANGED <<database, txn>>

(* Every other end of a request: refused, beaten by another, disconnected. *)
Rollback(w) ==
    /\ txn[w] # Idle
    /\ Remember(w, Idle)
    /\ UNCHANGED <<database, clock>>

-----------------------------------------------------------------------------
(* create_experience_reservation, book_stay, book_dining, book_bundle:     *)
(* the window of the offer is checked before the wait for the lock.        *)
AskToBook(w, r, o) ==
    /\ txn[w] = Idle
    /\ r \in Reservation \ DOMAIN reservations
    /\ clock < ClosesAt[o]
    /\ Remember(w, Asking(r, o))
    /\ UNCHANGED <<database, clock>>

(* acquire_user_schedule_lock, and expire_reservation_holds for the user.  *)
(* The expiry stays uncommitted until the booking commits.                 *)
LockSchedule(w) ==
    LET m == txn[w]
        S == Lapsed \cap OfUser(m.row[1])
    IN  /\ m.op = "ask"
        /\ ScheduleFree(m.row[1])
        /\ m.row \notin DOMAIN reservations
        /\ Remember(w, Locking(m.row, m.offer, S))
        /\ UNCHANGED <<database, clock>>

(* Another request with the same key and payload was served meanwhile: the *)
(* repeated request commits what it swept and answers with that row.       *)
ReplayBooking(w) ==
    LET m == txn[w]
        S == Lapsed \cap OfUser(m.row[1])
    IN  /\ m.op = "ask"
        /\ ScheduleFree(m.row[1])
        /\ m.row \in DOMAIN reservations
        /\ reservations[m.row].offer = m.offer
        /\ CanRelease(S)
        /\ reservations' = AfterExpiry(S)
        /\ held' = HeldAfterExpiry(S)
        /\ Remember(w, Idle)
        /\ UNCHANGED <<confirmed, reviews, clock>>

(* _check_allocation_conflicts, on a later reading of the clock.  It reads *)
(* the clock again for every allocation; the last reading, which excuses   *)
(* the most holds, stands for all of them.                                 *)
CheckBooking(w) ==
    LET m == txn[w]
    IN  /\ m.op = "lock"
        /\ \A r \in (Active \cap OfUser(m.row[1])) \ m.swept :
               ~ Conflict(m.offer, reservations[r].offer)
        /\ Remember(w, Checked(m.row, m.offer, m.swept, clock))
        /\ UNCHANGED <<database, clock>>

(* Bug: confirmed units are not counted.                                   *)
FitsBesideHolds(o, left) ==
    \A b \in BucketsOf(o) : left[b] + Needs[o][b] =< Capacity[b]

Fits(o, left) ==
    \A b \in BucketsOf(o) : left[b] + confirmed[b] + Needs[o][b] =< Capacity[b]

NewRow(o) == [status |-> "HELD", offer |-> o, version |-> 1,
              expires |-> clock + HoldTime, cancelled |-> FALSE]

(* _allocate_held takes all the units or none, then the row is inserted.   *)
CommitBooking(w) ==
    LET m == txn[w]
        left == HeldAfterExpiry(m.swept)
    IN  /\ m.op = "checked"
        /\ CanRelease(m.swept)
        /\ m.row \notin DOMAIN reservations
        /\ Fits(m.offer, left)
        /\ reservations' = [r \in DOMAIN reservations \cup {m.row} |->
                               IF r = m.row THEN NewRow(m.offer) ELSE AfterExpiry(m.swept)[r]]
        /\ held' = [b \in Buckets |-> left[b] + Needs[m.offer][b]]
        /\ Remember(w, Idle)
        /\ UNCHANGED <<confirmed, reviews, clock>>

-----------------------------------------------------------------------------
(* expire_reservation_holds outside a booking.  The rows are selected on an*)
(* earlier reading of the clock and each is tested again when it is        *)
(* updated, so what a sweep expires is some of what has lapsed by now.     *)
ExpireHolds(S) ==
    /\ S # {} /\ S \subseteq Lapsed
    /\ Unlocked(S)
    /\ CanRelease(S)
    /\ reservations' = AfterExpiry(S)
    /\ held' = HeldAfterExpiry(S)
    /\ UNCHANGED <<confirmed, reviews, clock, txn>>

(* Bug: a sweep that finds more than its limit gives up.                   *)
SweepAllOrNothing(S) == S = Lapsed /\ Cardinality(S) =< SweepLimit /\ ExpireHolds(S)

(* The tick of the queue publisher, and the lists of sessions, offers and, *)
(* for an admin, reservations: bounded and over all users.                 *)
SweepAll(S) == Cardinality(S) =< SweepLimit /\ ExpireHolds(S)

(* A ticket order or reschedule, the user's list of reservations, and the  *)
(* confirmation of a lapsed hold: one user's, without a bound.             *)
SweepUser(u, S) == S \subseteq OfUser(u) /\ ExpireHolds(S)

-----------------------------------------------------------------------------
(* confirm_reservation reads the row and the clock, and updates the row on *)
(* the condition that its hold outlives the clock it read.                 *)
ReadToConfirm(w, r) ==
    /\ txn[w] = Idle
    /\ r \in InStatus("HELD") \ Lapsed
    /\ Remember(w, Confirming(r, reservations[r].version))
    /\ UNCHANGED <<database, clock>>

ConfirmedRow(row) == [row EXCEPT !.status = "CONFIRMED", !.version = @ + 1]

CommitConfirm(w) ==
    LET r == txn[w].row
    IN  /\ txn[w].op = "confirm"
        /\ Matches(r, "HELD", txn[w].version)
        /\ Unlocked({r})
        /\ \A b \in BucketsOf(reservations[r].offer) :
               /\ held[b] >= Needs[reservations[r].offer][b]
               /\ held[b] + confirmed[b] =< Capacity[b]
        /\ reservations' = [reservations EXCEPT ![r] = ConfirmedRow(@)]
        /\ held' = [b \in Buckets |-> held[b] - Needs[reservations[r].offer][b]]
        /\ confirmed' = [b \in Buckets |-> confirmed[b] + Needs[reservations[r].offer][b]]
        /\ Remember(w, Idle)
        /\ UNCHANGED <<reviews, clock>>

(* cancel_reservation, of a hold or of a confirmed reservation *)
ReadToCancel(w, r) ==
    /\ txn[w] = Idle
    /\ r \in InStatus("HELD") \cup InStatus("CONFIRMED")
    /\ Remember(w, Cancelling(r, reservations[r].status, reservations[r].version))
    /\ UNCHANGED <<database, clock>>

CancelledRow(row) ==
    [row EXCEPT !.status = "CANCELLED", !.version = @ + 1, !.cancelled = TRUE]

CommitCancel(w) ==
    LET m == txn[w]
        r == m.row
        need == Needs[reservations[r].offer]
    IN  /\ m.op = "cancel"
        /\ Matches(r, m.status, m.version)
        /\ Unlocked({r})
        /\ reservations' = [reservations EXCEPT ![r] = CancelledRow(@)]
        /\ \/ /\ m.status = "HELD"
              /\ \A b \in Buckets : held[b] >= need[b]
              /\ held' = [b \in Buckets |-> held[b] - need[b]]
              /\ confirmed' = confirmed
           \/ /\ m.status = "CONFIRMED"
              /\ \A b \in Buckets : confirmed[b] >= need[b]
              /\ confirmed' = [b \in Buckets |-> confirmed[b] - need[b]]
              /\ held' = held
        /\ Remember(w, Idle)
        /\ UNCHANGED <<reviews, clock>>

(* create_review: the visit is over.  A confirmed reservation is completed *)
(* through the object that was loaded, so its UPDATE names the identifier  *)
(* only and writes the version that was read plus one.                     *)
EndsAt(o) == Greatest({Finishes[b] : b \in BucketsOf(o)})

ReadToReview(w, r) ==
    /\ txn[w] = Idle
    /\ \/ r \in InStatus("CONFIRMED") /\ EndsAt(reservations[r].offer) =< clock
       \/ r \in InStatus("COMPLETED")
    /\ Remember(w, Reviewing(r, reservations[r].status, reservations[r].version))
    /\ UNCHANGED <<database, clock>>

CompletedRow(row, seen) == [row EXCEPT !.status = "COMPLETED", !.version = seen + 1]

CommitReview(w) ==
    LET m == txn[w]
        r == m.row
    IN  /\ m.op = "review"
        /\ r \notin reviews
        /\ reservations' = IF m.status = "COMPLETED" THEN reservations
                           ELSE [reservations EXCEPT ![r] = CompletedRow(@, m.version)]
        /\ reviews' = reviews \cup {r}
        /\ Remember(w, Idle)
        /\ UNCHANGED <<held, confirmed, clock>>

-----------------------------------------------------------------------------
BookingStep(w) ==
    \/ LockSchedule(w) \/ ReplayBooking(w) \/ CheckBooking(w) \/ CommitBooking(w)

Request(w) ==
    \/ \E r \in Reservation, o \in Offers : AskToBook(w, r, o)
    \/ BookingStep(w)
    \/ \E r \in DOMAIN reservations :
          ReadToConfirm(w, r) \/ ReadToCancel(w, r) \/ ReadToReview(w, r)
    \/ CommitConfirm(w) \/ CommitCancel(w) \/ CommitReview(w)
    \/ Rollback(w)

Sweep ==
    \E S \in SUBSET Lapsed : SweepAll(S) \/ \E u \in Users : SweepUser(u, S)

Next == TimePasses \/ Sweep \/ \E w \in Workers : Request(w)

Spec == Init /\ [][Next]_vars

(* Every request that began ends, and the publisher's sweep gets the rows  *)
(* it waits for although bookings keep locking them.                       *)
Fairness ==
    /\ \A w \in Workers : WF_vars(Rollback(w) \/ BookingStep(w))
    /\ SF_vars(\E S \in SUBSET Lapsed : SweepAll(S))

FairSpec == Spec /\ Fairness

-----------------------------------------------------------------------------
TypeOK ==
    /\ DOMAIN reservations \subseteq Reservation
    /\ \A r \in DOMAIN reservations : reservations[r] \in ReservationRow
    /\ held \in [Buckets -> Nat]
    /\ confirmed \in [Buckets -> Nat]
    /\ reviews \subseteq DOMAIN reservations
    /\ clock \in Nat
    /\ txn \in [Workers -> Txn]

(* The reservations whose units are still confirmed: a review may turn a   *)
(* cancelled reservation into a completed one, which owns nothing.         *)
Owning == InStatus("CONFIRMED") \cup {r \in InStatus("COMPLETED") : ~ reservations[r].cancelled}

(* The counters of every bucket are the units of the reservations that hold*)
(* and own them, through bookings that carry an uncommitted sweep, racing  *)
(* sweeps, confirmations and cancellations, and bundles of several buckets.*)
StockExact ==
    \A b \in Buckets :
        /\ held[b] = UnitCount(InStatus("HELD"), b)
        /\ confirmed[b] = UnitCount(Owning, b)

(* No bucket is promised to more visitors than it has room for.            *)
NeverOverbooked == \A b \in Buckets : held[b] + confirmed[b] =< Capacity[b]

(* The rows whose user may turn up. *)
Standing == InStatus("HELD") \cup InStatus("CONFIRMED")

SameUser(r1, r2) == r1[1] = r2[1]

Clash(r1, r2) ==
    /\ r1 # r2 /\ SameUser(r1, r2)
    /\ Conflict(reservations[r1].offer, reservations[r2].offer)

BookedAt(r) == reservations[r].expires - HoldTime

(* Two reservations of a user that are both held or confirmed clash only   *)
(* if the hold of one had run out when the other was booked: no order of   *)
(* two bookings, a sweep and a confirmation lets a user book into a period *)
(* that a running hold or a confirmed reservation occupies.                *)
ClashOnlyAfterLapse ==
    \A r1, r2 \in Standing :
        Clash(r1, r2) => \/ reservations[r1].expires =< BookedAt(r2)
                         \/ reservations[r2].expires =< BookedAt(r1)

(* docs/architecture.md, "Inventory and schedule safety": the schedule lock*)
(* avoids "two individually valid bookings that overlap when committed     *)
(* concurrently".                                                          *)
NoDoubleBooking == \A r1, r2 \in Active : ~ Clash(r1, r2)

(* docs/data-model.md, invariant 3: "Each transition is conditional and all*)
(* related rows commit together", so a cancelled reservation, whose units  *)
(* were given back, does not become anything else.                         *)
CancelledStays ==
    [][\A r \in InStatus("CANCELLED") : reservations'[r].status = "CANCELLED"]_vars

(* A confirmation is never taken back by an expiry, however late the sweep *)
(* that read the row as held, and an expired or completed reservation      *)
(* stays what it is.                                                       *)
ConfirmedNeverExpires ==
    [][\A r \in DOMAIN reservations :
          /\ reservations[r].status = "CONFIRMED" =>
                 reservations'[r].status \in {"CONFIRMED", "COMPLETED", "CANCELLED"}
          /\ reservations[r].status \in {"EXPIRED", "COMPLETED"} =>
                 reservations'[r] = reservations[r]]_vars

(* A lapsed hold is released in the end, although every booking of its user*)
(* locks it, and puts it back when the booking fails.                      *)
LapsedReservationReleased == \A r \in Reservation : (r \in Lapsed) ~> (r \notin Lapsed)

-----------------------------------------------------------------------------
(* The inductive invariant behind the safety properties.                   *)

(* cancelled_at is set exactly by a cancellation, and only a review makes  *)
(* a reservation completed.                                                *)
RowsMarked ==
    \A r \in DOMAIN reservations :
        /\ r \in Standing => ~ reservations[r].cancelled
        /\ r \in InStatus("CANCELLED") => reservations[r].cancelled
        /\ r \in InStatus("COMPLETED") => r \in reviews

(* A booking's key is free, the holds it expires are still the lapsed holds*)
(* of its user, and what conflicts with it and is not one of them had      *)
(* lapsed when it looked.  What a review read is at worst cancelled since. *)
SnapshotSound(m) ==
    /\ m.op \in {"lock", "checked"} =>
           /\ m.row \notin DOMAIN reservations
           /\ m.swept \subseteq Lapsed \cap OfUser(m.row[1])
    /\ m.op = "checked" =>
           /\ m.now =< clock
           /\ \A r \in (Standing \cap OfUser(m.row[1])) \ m.swept :
                  Conflict(m.offer, reservations[r].offer) => reservations[r].expires =< m.now
    /\ m.op = "review" =>
           m.row \in InStatus("CONFIRMED") \cup InStatus("CANCELLED") \cup InStatus("COMPLETED")

SnapshotsSound == \A w \in Workers : SnapshotSound(txn[w])

OneBookingPerUser ==
    \A v, w \in Workers :
        Booking(v) /\ Booking(w) /\ SameUser(txn[v].row, txn[w].row) => v = w

BookingInv == /\ TypeOK /\ StockExact /\ NeverOverbooked /\ RowsMarked
              /\ SnapshotsSound /\ OneBookingPerUser /\ ClashOnlyAfterLapse

-----------------------------------------------------------------------------
(* The marketplace keeps the promise of StockLedger, with several buckets  *)
(* per reservation and bookings that expire other reservations on the way. *)
Stock == INSTANCE StockLedger
            WITH Claims  <- Reservation,
                 offerOf <- [r \in DOMAIN reservations |-> reservations[r].offer],
                 holding <- InStatus("HELD"),
                 owning  <- Owning

(* Each commit takes, confirms or gives back whole reservations, once.     *)
ImplementsStock == Stock!Spec
=============================================================================
