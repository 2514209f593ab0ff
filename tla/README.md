# A verification project for the tourism services

TLA+ modules, TLC configurations and machine-checked proofs about the server of
this repository (`server/app`, FastAPI on asynchronous SQLAlchemy) and the parts of the
HarmonyOS client (`client/`) that race with it: the outbox, the sockets, the pages that show
what a socket and a REST answer tell them, the draft of a call for help. Paths below are relative
to the repository, line numbers to the commit the project was written against.

Sections 3 to 5 are the three booking components, each with a module, runs and proofs of its own.
Section 6 is the twelve components that share no rows with each other, which one run checks
side by side and whose properties are proved side by side. Section 7 is liveness, section 8 what is
proved and along which argument, and section 9 says what is not modelled.

## 1. The system

Several server processes serve HTTP requests; each request has a database session
of its own that is rolled back when the request ends in an exception
(`db/session.py:79-83`). The database is PostgreSQL at READ COMMITTED or SQLite in
WAL mode. The services follow one discipline: read rows, decide, then change them
with conditional `UPDATE ... WHERE status = ... AND version = ...` statements, check
the row count, and commit everything at once. Row locks are held to the end of
the transaction; locks and leader claims in Redis (`core/coordination.py`) are
advisory. Little runs by itself: two publishers (crowd, queues) tick on a
timer; expiry of ticket and reservation holds happens only when some request
sweeps them.

### 1.1 Inventory

| component | state it keeps | operations | what makes it correct |
|---|---|---|---|
| Ticketing `services/ticketing.py` | orders with one item, slot inventories (reserved, sold), tickets, refund and reschedule rows, gate validations | create, list, read, pay, cancel, refund, reschedule, sign a QR code, admit at a gate, expire holds | counters exact, no oversell, tickets follow their order, one order per key, one admission per ticket |
| Reservations `services/reservations.py` | user schedule locks, shared inventory buckets (held, confirmed), reservations, allocations | hold, confirm, cancel, expire, schedule conflict check | buckets exact, a user is not booked twice at one time |
| Hospitality `services/hospitality.py` | the same reservations, over several buckets; reviews | hold a stay, a meal or a bundle; review a visit | all buckets or none, one review per visit |
| Queues `services/queues.py`, `realtime/queues.py` | queue entries, join counters, FastPasses, the sequence of events | join, leave, buy a FastPass, advance the queue, publish | order of joining kept, FastPass quota exact, everybody is served |
| Commerce `services/commerce.py` | carts, product stock, shop orders | edit a cart, check out, pay, expire; the code has no cancellation of a shop order | stock exact, a checkout sells the cart it empties, final states stay |
| Points `services/points.py` | accounts with a version, ledger entries, redemptions, shares, reward stock | earn, redeem, verify a share | balance is the sum of the entries, one entry per source |
| Passport and green journey `services/passport.py` | stamps, green tasks, idempotency receipts | collect a stamp, complete a task | one reward per item, one outcome per key |
| Offline sync `services/offline.py`, `OfflineEmergencyView.ets` | device states, a user's log of mutations, the outbox of a device | push, pull, status; enqueue, sync, discard, reset | versions and cursors monotonic, nothing dropped before the log has it |
| Support `services/support.py`, `realtime/support.py`, `SupportSocket.ets` | conversations with a sequence, messages, the hub's queues, the page | post with an automatic answer, list, fan out, reconnect | messages numbered without gaps, replies behind questions |
| Groups `services/groups.py` | groups, members, places, revisions | create, join, set a meeting point, link an itinerary, set privacy, update one's status | a closed group keeps no place |
| Sessions `services/auth.py` | refresh sessions in families | register, log in, rotate, revoke, log out | a family has one session that renews |
| Coordination `core/coordination.py` | claims with expiry in Redis, a local fallback, one-time socket tickets | hold sorted keys, release, degrade; issue and take a ticket | one owner while a claim lasts, no circle of waits |
| Crowd `realtime/crowd.py`, `GuidePage.ets` | snapshots, the leader's claim, hub and channel, the page | elect, simulate, save, publish, follow | snapshots numbered, the page never goes back |
| Itinerary `services/itinerary.py`, `providers/planner.py` | plans with a revision, runs | generate, check, replan | a plan has no conflicts, a replan loses no stop |
| Safety `services/safety.py` | SOS requests; the draft of the device | submit, list, transition | recorded once, the draft is kept until then |
| Engagement `services/engagement.py` | feedback tickets, their events and ratings | submit, assign, resolve, rate | history explains the state, rated once |
| HTTP surface `api/`, `schemas/`, `main.py` | none of its own | validation, wiring, locks around a handler, answers after a commit | - |
| Providers `providers/` | none (demonstration providers) | authorise, plan, map, share | - |
| Client `client/entry/src/main/ets` | stores, sockets, the outbox, the draft | pages, HTTP, reconnecting sockets; it never renews a session by itself | see the components it takes part in |
| Migrations, seeds, load tests | the schema and the first rows | - | the constraints the modules rely on |

### 1.2 How they interact

* Ticketing and Reservations share the row lock `user_schedule_locks` of a user
  (`reservations.py:182-208`): creating a ticket order, rescheduling one and holding
  a reservation are serialised per user, and the holder sees every booking the
  others committed.
* Buying a FastPass changes a queue entry and a shared inventory bucket of
  Reservations in one transaction; leaving gives the unit back.
* Paying a shop order, collecting a stamp, completing a green task, sharing and redeeming write a
  points entry in the transaction of the caller, under the lock of the account.
* The queue publisher calls `advance_queue_tick` and fans its events out to sockets.
* A crowd publisher saves a snapshot, tells its own hub, and publishes to the others over Redis;
  replanning reads the latest snapshot.
* Handlers of checkouts, carts, bookings and posts hold advisory locks of `core/coordination.py` around the service
  call; none of the services relies on them, so no other module assumes them.

### 1.3 What is hard here

* **Stale reads.** Every operation decides on a row it read before other requests
  ran. Whether each of those decisions is checked again by the predicate of
  the later UPDATE is the subject of most properties.
* **Joint transactions.** A payment carries an uncommitted sweep with it, and both
  vanish when the payment fails.
* **Torn reads.** `refund_ticket_order` reads the order and its item with two SELECTs.
* **Retries.** Clients repeat requests with the same idempotency key, also at once.
* **Expiry without a sweeper.** Holds are released only by later requests, at most
  100 at a time.
* **Leader election that degrades.** Without Redis every worker ticks the queues and saves crowd
  snapshots.
* **Lost and late answers.** A device that gave up on a request does not know whether the server
  recorded it, and the request may still be under way when it sends the next.
* **Two sources of one page.** A socket and a REST answer tell a page the same thing in either order.
* **Calls that did their part and were not answered.** Redis may have taken a claim or a ticket whose
  caller falls back to its own memory.
* **Unconditional writes.** Groups are written by absolute values of what was loaded.

`PROJECT.json` lists the hazards one by one, each at its line.

## 2. The plan

In order of importance, the modules, all written; (P) marks those with theorems.

1. `Ticketing` (P), refining the abstract `TicketLedger` (P): section 3.
2. `QueueFastPass` (P): section 4.
3. `Reservations` (P), refining the abstract `StockLedger` (P): section 5. The obvious second
   abstraction, a calendar in which a user's bookings are disjoint, is not implemented by the code (5.4).
4. `PointsLedger`, the accounts, extended by `Commerce` (P) and by `Rewards` (P): 6.1 and 6.2.
5. `RefreshFamilies` (P): 6.3.
6. `OfflineSync`, `SupportChannel`, `CrowdFeed` (P): what devices and pages know, against what is committed (6.4 to 6.6).
7. `TravelGroup` (P): 6.7.
8. `AdvisoryLocks` and `SocketTickets` (P): 6.8 and 6.9.
9. `Itinerary`, `SosRequests`, `Feedback` (P): 6.10 to 6.12.

`AccountServices`, `FeedServices` and `RecordServices` hold instances of the twelve modules of 4 to 9, and `Services` composes
them (section 6); `ServiceActors` has the constants they share. `MCTicketing`, `MCQueueFastPass`, `MCReservations` and `MCServices`
make instances for TLC, `MCLiveness` one of the four that wait or retry (section 7).

The proofs are in eight modules. `CountingLemmas` is about counted sets, sequences and recursive functions, and every other one
extends it or cites what it needs from the library. `TicketingProofs`, `QueueFastPassProofs` and `ReservationsProofs` are
about the booking components; `AccountProofs`, `FeedProofs` and `RecordProofs` about the instances of `AccountServices`, `FeedServices` and
`RecordServices`, one section for each component; `ServicesProofs` about their composition.

What a continuation would add, in this order: that `TicketLedger` and `StockLedger` themselves never oversell, as theorems of the
abstract specifications; a bank account that `PointsLedger` implements; lost-contact alerts of groups; the order of row locks.

## 3. Ticketing

### 3.1 State and actions

| variable | in the code |
|---|---|
| `orders` | `ticket_orders` joined with their only item: the API takes exactly one slot per order |
| `due` | `expires_at <= now` for a pending order |
| `inventory` | `ticket_inventories.reserved`, `.sold`; `Capacity` is the third column |
| `tickets` | `electronic_tickets`, named by order, issuing version and number |
| `refunds`, `reschedules`, `validations` | the tables of those names |
| `phase` | the scenic clock relative to the refund deadline, the gate window and the visit date of a slot |
| `scheduleLock` | the row lock of `user_schedule_locks`, held to the end of the transaction |
| `txn` | the local variables of the request each worker serves |

A request is two or three actions: it reads (`BeginSweep`, `LockToCreate`, `ReadToPay`,
`ReadToCancel`, `ReadToRefund` and `ReadItemToRefund`, `LockToReschedule`, `ReadAtGate`)
and it commits (`CommitSweep`, `CommitOrder`, `CommitPayment`, `CommitCancel`,
`CommitRefund`, `CommitReschedule`, `CommitAdmission`). Between the two any other request
may run. A conditional UPDATE is a guard of the committing action, evaluated on the
state of that moment; the code evaluates it earlier, but it keeps the row locked from
then to COMMIT, so no other transaction changes what the predicate saw. `Rollback`
is every other end: a refused request, a lost update, a violated unique
constraint, a failing provider, a disconnected client, a crash.

Abstractions:

* Prices and quotes are left out; a quote that no longer matches is a `Rollback`.
* The signature and the lifetime of a QR code are left out: the gate may be shown any
  code the service could have signed, at any later time, which includes every code
  that is still valid.
* The face-entry demonstration writes nothing and is left out.
* `expire_reservation_holds`, called by create and reschedule, changes no ticket state
  and belongs to Reservations; so does the conflict with another booking, a `Rollback` here.
* The sweep inside a payment is one UPDATE per order followed by the payment's own;
  the model applies both at COMMIT.

### 3.2 The runs

| run | constants | checks |
|---|---|---|
| `ticketing_ledger` | a customer and an administrator, 1 key, 2 orders, 2 slots of capacity 3, quantities 1-2 | `TypeOK`, `LedgerExact`, `CapacityRespected`, `KeyNamesOneOrder`, `AfterSalesRecorded`, `FinalStatesStay`, `ImplementsLedger` |
| `ticketing_gate` | 1 order of up to 2 tickets, 2 slots, 2 gate requests, the clock runs to the gate window | `PaidOrderHoldsItsTickets`, `AdmissionsRecorded`, `AdmittedOnCurrentTicket` |
| `ticketing_paykey` | 2 orders, 2 keys, 1 slot | finding: `PaymentKeyNamesOneOrder` is violated |

Two workers are enough for every race the code can lose: each committing step
depends on one snapshot and on what one other transaction did since; what a third
one adds is a longer history, and histories are unbounded here, for the number of
requests is not bounded, only the number served at once. Two orders make a sweep of
one order select a proper subset; capacity 3 with quantities up to 2 lets two orders
fit or collide. With a single key every raced request repeats one; the two keys of the other runs
let requests differ. `Horizon` is how far the clock of a slot moves: 2 (gates open) in
the gate run, 0 elsewhere. `SweepLimit` is 100 in the code and 1 here, so a backlog
larger than one sweep occurs. Versions are bounded by the number of
reschedules the keys allow. Permutations of orders and workers are symmetries.
No run of these switches deadlock checking off.

### 3.3 Fairness

`FairSpec`, which `MCLiveness` uses (section 7), assumes that a started request is finished (`WF` of `Finish(w)`: it commits or
rolls back), and, strongly, that every user's list request is started again and again and
that its sweep does not fail each time. The server itself justifies only the first: no task in
it sweeps ticket holds. The second is an assumption about clients, and it is needed:
without it a lapsed hold stays. Weak fairness would not do, for the workers may always
be busy at the wrong moment.

### 3.4 The finding

`docs/data-model.md:103` promises that the same key with a different hash conflicts.
`pay_ticket_order` compares a payment key only with the key stored on the order being paid
(`ticketing.py:602`) and stores the hash without comparing it, and no constraint makes
payment keys unique, so one key pays two orders of a user. `ticketing_paykey` shows it.

### 3.5 What is proved

`TicketingProofs` proves, for every value of the constants that satisfies the named
assumptions of `Ticketing` (quantities and sweep limit positive, capacities natural, finitely
many identifiers, `Nobody` not a worker):

* `LedgerInvariant`: `Spec => []LedgerInv`;
* from it `TypeCorrect` (`TypeOK`), `CountersAreExact` (`LedgerExact`), `NeverOversold`
  (`CapacityRespected`) and `TicketsMatchOrders` (`PaidOrderHoldsItsTickets`).

`LedgerExact` is not inductive by itself. A refund takes the units from the slot it read before,
so it is exact only if a snapshot whose version is still current names the slot the
order is booked on (`SnapshotsSound`), and this holds because every reschedule
increments the version. A reschedule reissues tickets under the new version, so it
creates no name twice only if no ticket carries a version its order has not
reached (`TicketsCurrent`). `CountersBounded` is what the conditional UPDATE on the counters
keeps; with `LedgerExact` it gives `CapacityRespected`. `LedgerInv` is their conjunction with
`TypeOK`. The arithmetic is a set of lemmas on `BookedUnits`: how the cardinality for a
slot changes when an order is added, leaves, changes its status or its slot.

The second part of the module builds on it. `HistoryInv` adds to `LedgerInv` that a key names one order, that tickets,
validations and admissions agree, and that after-sale rows agree with the orders. Every step is first reduced to one
of a few stories of an order (`OrderStory`), of its tickets (`TicketStory`) and of the after-sale tables (`SalesStory`), which say what a
step may do to one row and hide the rest; the properties are then proved from the stories:

* `KeyNamesOneOrder`, `AfterSalesRecorded`, `AdmissionsRecorded` as invariants;
* `FinalStatesStay` and `AdmittedOnCurrentTicket`, which speak of steps;
* `ImplementsLedger`: initial states map to initial states, and every step to a step of `TicketLedger` or a
  stutter. A sweep is a `Settled` set of reservations, a refund or a cancellation `Returned` units,
  and so on (`StepMaps`).

Only liveness (`LapsedHoldReleased`) is left to TLC: it is out of the prover's reach.

## 4. Queues and FastPasses

### 4.1 State and actions

`QueueFastPass` is the queue of one experience with the FastPasses of one of its daily
buckets; experiences share nothing but the transaction of a tick.

| variable | in the code |
|---|---|
| `entries` | `queue_entries`; `place` is `join_sequence`, `wait` the estimate in units of `duration_minutes` |
| `nextSequence`, `counterLock` | `queue_counters.next_sequence` and the lock its increment holds to COMMIT |
| `passes` | `fast_passes`, by their unique `queue_entry_id`; `window` places the clock before, in or after `valid_from .. valid_to` |
| `confirmed` | `inventory_buckets.confirmed` |
| `txn` | the local variables of the requests and of the publishers |

| action | code |
|---|---|
| `LockToJoin`, `CommitJoin` | `join_queue`: taking the counter, the checks behind it, the INSERT with its unique constraints |
| `ReadEntryToLeave`, `ReadPassToLeave`, `CommitLeave` | `leave_queue`: the two SELECTs of `_load_queue_context`, then both UPDATEs of pass and bucket with the entry's |
| `ReadToBuy`, `CommitPurchase` | `buy_fast_pass` |
| `SelectEntries`, `SelectPasses`, `CommitTick` | `advance_queue_tick`, run by `QueuePublisher` |
| `WindowMoves` | time |
| `Rollback` | every other end, as in Ticketing; it gives the counter back |

A tick reads everybody in the queue, then the valid passes, and then applies one service
cycle: the first served finishes, the first called boards (and its pass is used), the
first waiting is called, the others get new estimates. Each UPDATE repeats the
status and version the snapshot had, so a row that changed is skipped: `Next1` and `Reestimates`
are evaluated on the state of the commit. The rows a tick expires are locked from its first
statement on, which `Held` makes the others wait for.

Abstractions: the event sequence, prices, itineraries and recommendations; the retry of a leave (a
`Rollback` and a new read); a replayed key, which changes nothing; a provider that fails or a window
that has closed, which are `Rollback`s. The reads of a purchase and of a join are one action, since
what they check only grows or is checked again at COMMIT.
`passes[e].window` moves by itself, so a tick whose `now` is old is a tick between whose statements
windows moved.

### 4.2 The runs

| run | constants | checks |
|---|---|---|
| `queue_quota` | 2 users, 2 entries, 1 key, 2 requests and 1 publisher at a time, capacity 1 | `TypeOK`, `QuotaExact`, `ActivePassHasLiveEntry`, `AtMostOneServing`, `NewcomersGoLast` |
| `queue_overlap` | 2 users and entries, 1 request, 2 publishers, capacity 2 | `NoOvertaking` |
| `queue_expiry` | as `queue_quota` | finding: `ExpiredPassReleasesUnit` is violated |

The number of entries bounds everything else: versions, places and passes. Two entries are
the pair every property speaks of; that a third between them changes nothing for the order is what the theorem
`InTurn` adds. Capacity 1 makes the second purchase fail until the first is given back.

With two publishers two parties may be served at once, because a second tick that began
before the first committed boards somebody while the first one's guest is still there:
`AtMostOneServing` is claimed for one publisher only. The leader claim is a rate limit of one
tick per interval (`realtime/queues.py:252-267`), so two ticks overlap when one
takes longer than an interval or when the claim degrades; `NoOvertaking` does not depend on it.

### 4.3 Fairness

The fairness is that of `MCLiveness` (section 7). A publisher is a loop that sleeps, ticks and survives every exception
(`realtime/queues.py:297-305`): it begins a tick again and again (`WF` of `SelectEntries`), and not each of
its ticks fails (`SF` of the two later steps, which a `Rollback` may disable in between).
Nothing is assumed of requests: they may stop for ever wherever they are. A passenger
without a FastPass is not starved, because a user has one active entry and each FastPass
admits one entry; the run has finitely many entries, so it says nothing of an unending stream of
newcomers with passes.

### 4.4 The finding

`docs/data-model.md:109` says that leaving and expiry release the unit a FastPass claimed.
`leave_queue` does; the expiry in `advance_queue_tick` (`queues.py:687-692`) sets the pass to
EXPIRED and does not touch the bucket. `queue_expiry` shows the counter and the passes part. `QuotaExact`
states what the code keeps instead: every pass but a cancelled one counts.

### 4.5 What is proved

`QueueFastPassProofs` proves, for finitely many entries, any natural capacity and default wait and
any number of users, keys, requests and publishers:

* `QueueInvariant`, and from it `QueueTypeCorrect` (`TypeOK`), `QuotaIsExact` (`QuotaExact`) and
  `ActivePassUsable` (`ActivePassHasLiveEntry`). The strengthening is `LeaverKnowsPass`: a leaver whose
  version is still current knows the active pass of its entry. It is why the order of the
  two SELECTs matters (entry first) and why a purchase must change the version of the
  entry (`ClaimedRow`), although it changes nothing else there.
* `Newcomers` (`NewcomersGoLast`), from `JoinerHasCounter` and `PlacesTaken`: only the holder of the
  counter joins, with a number above every place given.
* `OrderInvariant` and `InTurn` (`NoOvertaking`). A snapshot of any age is still good: no entry goes back to
  waiting and newcomers are placed last, so whoever waits now before somebody the tick saw was seen
  waiting too (`SnapshotSound`), and the sort puts it first unless the other one has a pass.

* `OneAtATime` (`AtMostOneServing`), for at most one publisher; with two that overlap it can fail. A tick that boards somebody has seen
  everybody who is served now (`ServingSeen`) and finishes one of them if there is any, so at most one is served
  after it (`OneServes`), whatever leaves and purchases change in the middle.

Only model-checked: `EveryoneIsServed`, which is liveness.

## 5. Reservations

### 5.1 State and actions

| variable | in the code |
|---|---|
| `reservations` | `reservations` with their `reservation_allocations`, by the unique user and idempotency key; `offer` stands for the allocations, `cancelled` for `cancelled_at` |
| `held`, `confirmed` | the counters of `inventory_buckets` |
| `reviews` | the reservations that have a row in `reviews` |
| `clock` | the time every `datetime.now(UTC)` reads |
| `txn` | the local variables of the request each worker serves; a booking in `lock` or `checked` owns the row of `user_schedule_locks` and the rows it has expired |

| action | code |
|---|---|
| `AskToBook` | the checks of the offer, before the wait for the lock (`create_experience_reservation`, and the same in `book_stay`, `book_dining`, `book_bundle`) |
| `LockSchedule`, `CheckBooking`, `CommitBooking` | `create_reservation_from_allocations`: lock and expire the user's lapsed holds, look for conflicts, take the units and insert |
| `ReplayBooking` | the second look for the key, which commits what was swept and answers with the existing row |
| `ReadToConfirm`, `CommitConfirm` | `confirm_reservation` |
| `ReadToCancel`, `CommitCancel` | `cancel_reservation` |
| `ReadToReview`, `CommitReview` | `create_review` |
| `SweepAll`, `SweepUser` | `expire_reservation_holds` called by the publisher and by lists, or for one user |
| `TimePasses`, `Rollback` | the clock, and every other end of a request |

The clock is a variable and not a flag per hold, because a booking reads it four
times and the findings live between two of those readings. An offer is what a request asks
for: `Needs` gives the units of every bucket, so an experience, a stay of several nights and a
bundle are the same operation. `Conflict` is the rule of `_check_allocation_conflicts` and
`check_marketplace_schedule_conflict` over the periods an offer occupies.

Abstractions:

* The allocation rows follow their reservation in every statement and are not kept apart.
* A conflict with a ticket order is a `Rollback` here, as a conflict with a reservation is in
  `Ticketing`; both take the same lock, so neither changes what the other decides on.
* A conflict check reads the clock once per allocation. `CheckBooking` uses the last
  reading, which excuses the most holds.
* Confirmation and cancellation keys decide only what a repeated request is answered.
* Administrators may act on any reservation: who asks is not part of the model, so
  this is included.
* Buckets a booking's uncommitted sweep has already given back stay locked to COMMIT. The model
  delays the update of the counters to COMMIT instead, which orders the same transactions.
* Offers are bookable and their prices valid; the choice of buckets reads only.

### 5.2 The runs

Time is counted in half hours, which is `Milestone`. The show and the boat start together; the dinner
follows the show; the stay covers check-in to checkout; the bundle takes two seats of the show
and a dinner. There are two dinners and five seats, so two bundles fit and a third fails on its second bucket.

| run | constants | checks |
|---|---|---|
| `stay_stock` | 2 users, 2 keys, the bundle, clock to 2 | `TypeOK`, `StockExact`, `NeverOverbooked`, `ImplementsStock` |
| `stay_calendar` | 1 user, 2 keys, show, boat and stay, clock to 3, fairness, no symmetry | `ClashOnlyAfterLapse`, `ConfirmedNeverExpires`, `LapsedReservationReleased` |
| `stay_double` | 1 user, 2 keys, show and boat, clock to 2 | finding: `NoDoubleBooking` is violated |
| `stay_review` | 1 user, 1 key, show, clock to 3 | finding: `CancelledStays` is violated |

All have two workers, `HoldTime` 1 and `SweepLimit` 1 (100 in the code), so a hold lapses while requests are
under way and a backlog larger than one sweep occurs. Two keys let a booking sweep an earlier hold of its user
and two bookings of a user race; both workers may use one key, which is a repeated request. Two users are what it
takes for units of one bucket to be given back twice without the counter noticing: somebody else must hold some.
`Horizon` 3 lets the show end, so it can be reviewed, which `ConfirmedNeverExpires` needs for what it says of completed bookings; 2 still lets a hold lapse and its row be booked over and confirmed
late. Deadlock checking is off: once the clock is at its horizon and the keys are used up, nothing is left to do, which
no state of the program corresponds to.

### 5.3 Fairness

`FairSpec` assumes that every booking under way ends (`WF` of its next step or a `Rollback`) and, strongly, that
the publisher's sweep gets through (`SF` of `SweepAll`). The publisher is a loop that survives every
exception (`realtime/queues.py:269-305`). Strong fairness is needed because bookings of the user lock
the lapsed rows again and again and put them back when they fail; the database justifies it, for an UPDATE that
waits for a row lock gets the row when the transaction that holds it ends. The clock need not move. The run has
finitely many reservations, so it does not show that `LIMIT 100` without an order serves everybody under an
unending stream of new lapsed holds.

### 5.4 The findings

*Two active bookings of one user may overlap.* A booking expires its user's lapsed holds on one reading of
the clock and looks for conflicts on a later one; a hold that lapses in between is neither expired nor a conflict.
`confirm_reservation` takes no schedule lock and compares the hold's expiry with a clock it read before, so it
may confirm that hold after the other booking committed. `docs/architecture.md:97` says the lock avoids just this.
`stay_double` shows it; `ClashOnlyAfterLapse` states what the code does keep.

*A review may overwrite a cancellation.* `create_review` assigns to the object it loaded, so its UPDATE names only
the identifier. `docs/data-model.md:105` says every transition is conditional. `stay_review` ends with a
completed and reviewed reservation whose units were given back. The counters stay exact, which is why `Owning`
leaves out completed rows that carry `cancelled_at`.

### 5.5 What is proved

`ReservationsProofs` proves, for finitely many users and keys, any offers, buckets, periods, capacities, hold time,
sweep limit and number of requests:

* `BookingInvariant`: `Spec => []BookingInv`; from it `BookingTypeCorrect` (`TypeOK`), `StockIsExact` (`StockExact`),
  `StockNeverOverbooked` (`NeverOverbooked`) and `ClashesNeedALapse` (`ClashOnlyAfterLapse`);
* `ConfirmedIsFinal` (`ConfirmedNeverExpires`) and `MarketplaceImplementsLedger` (`ImplementsStock`).

`StockExact` is not inductive by itself. A booking commits an expiry it decided on earlier, so the rows it swept must
still be lapsed holds (`SnapshotSound`), which the row locks give (`Unlocked`) between users and the schedule
lock between bookings of one user (`OneBookingPerUser`). A review completes the row it loaded without a condition, so the
rows a review may have read must never be held again, and a row that is completed twice would be counted twice
unless it was reviewed already (`RowsMarked`). `ClashOnlyAfterLapse` rests on the rest of `SnapshotSound`: every held or
confirmed row that conflicts with a checked booking had run out when it looked. That only a booking adds a row of its
user, and that none of the other steps makes a row held or confirmed that was neither, is `MovePreserves`.

The refinement uses the same facts: `Effect` lists what a step may do to the table, `StepPreserves` proves that a step
preserves the invariant and does one of those, and `EffectMaps` takes each to a step of `StockLedger`. That
conflict is symmetric is proved; nothing else about periods is used, so the argument does not depend on them.

Only model-checked: `LapsedReservationReleased` (liveness is out of the prover's reach).

## 6. The components of `Services`

Twelve components that share no rows: no request of one changes what another reads. `Services` puts instances of their modules side by
side (`Reward`, `Shop` and `Family` in `AccountServices`; `Sync`, `Support` and `Crowd` in `FeedServices`; `Group`, `Plan`, `Sos`, `Desk`, `Lock` and
`Ticket` in `RecordServices`); a behaviour is one of one component (`part`) in which the others rest in their initial state. Steps of two of them
commute and no property speaks of two, so nothing is lost against a full product. One run, `services`, checks all of them
(702,021 distinct states, about three minutes), and each of its properties is the conjunction of what the same kind of promise is in
each component (6.13). `MCServices` gives the constants their values, and its `MCInit` keeps components at rest from multiplying the initial states.

Everywhere a request is split where it waits: at an `await` of a statement, a lock or a provider. `Rollback`, `Abandon`, `Abort`,
`GiveUp` and `Fail` are its other ends: a refusal, a lost conditional UPDATE, a unique constraint, a deadlock broken by the database, a crash.

### 6.1 Points and rewards: `PointsLedger`, `Rewards`

`PointsLedger` is the part of `points.py` that everybody calls: `balance` is `point_accounts.balance`, `entries` the `point_entries` of an
account in commit order, `accountLock` the row lock its version update holds to COMMIT. `Rewards` and `Commerce` extend it.

| state | code | actions | code |
|---|---|---|---|
| `claims` | `passport_stamps`, `green_task_completions`, `content_shares` | `LookForKey`, `LookForTarget`, `LockToAward`, `CommitClaim` | `check_in_stamp`, `complete_green_task`, `verify_share` with `award_points` |
| `receipts` | `journey_idempotency_receipts` | `LoseClaim`, `RecordRejection` | the `IntegrityError` handlers |
| `redemptions`, `stock` | `redemptions`, `rewards.stock` | `AskToRedeem`, `LockToRedeem`, `CommitRedemption` | `redeem_reward` |
| `doing` | local variables | `Rollback`, `Restart` | every other end; the server stops, and the seed welcomes accounts before it serves again |

The identifier of a claim is new in every attempt, so the uniqueness of the ledger's source never stops a second award: what does is the unique
constraint on user and item (`ClaimAccepted`). Verifiers are reasons for a `Rollback`.

*Observation.* `docs/data-model.md:97` calls a receipt the record of an attempt at an item completed under another key. `ReceiptNamesOtherKey`
states it and is a definition without a run: a repetition that looks for its key before the first attempt commits, and for the item afterwards (`passport.py:217`), is answered
as a duplicate of another operation and leaves a receipt under the winner's own key. A later repetition finds the claim by its key, so the answer is given once.

*Observation.* `Restart` is the seed of the container's start order (`server/Dockerfile:19`). `README.md` also tells its reader to run `tourism-seed` by
hand; `seed.py:1016-1046` then adds 500 to a balance it loaded, without the account lock. Against a serving process an award in between
would be lost from the balance. It is outside the model, whose seed runs alone.

### 6.2 The shop: `Commerce`

| state | code | actions | code |
|---|---|---|---|
| `carts` | `cart_items` by user and product | `ReadToAdd`, `ReadToUpdate`, `ReadToRemove`, `FlushLine`, `CommitAdd`, `CommitUpdate`, `CommitRemove` | `add_cart_item`, `update_cart_item`, `remove_cart_item` |
| `stock` | `product_inventories.stock` | `LockCart`, `CommitCheckout` | `checkout_cart` |
| `orders` | `shop_orders` with lines, `due` as in Ticketing | `SelectDue`, `CommitSweep` | `expire_shop_orders` |
| `doing` | local variables and the rows a request has flushed | `ReadToPay`, `CommitPayment` | `pay_shop_order` |
| | | `OrderLapses`, `Rollback` | time; every other end |

Edits write absolute quantities computed from what they read, so an addition can be lost; no document says what two simultaneous additions amount
to, and the hazard is listed with that note. What matters is that a checkout, which reads the cart twice and locks it in between,
sells the cart of its commit (`CheckoutSellsTheCart`). A flushed line is a locked row: an update looks its price up after the quantity was
assigned, so the session writes the line early (`FlushLine`), and the DELETE of a checkout waits for it. Prices matter only for the points
a payment earns (`EffectivePrice`, `PointsFor`: the best campaign, in basis points, at least one point).

### 6.3 Sessions: `RefreshFamilies`

`sessions` are the rows of `refresh_sessions` in commit order, with `family` and `parent`; `accountState` is the user's `is_active`. `Register`; `CheckPassword`,
`CommitLogin`; `Consume`, `CommitRotation` (`rotate_refresh_token`: the conditional UPDATE keeps its row locked to COMMIT); `Replay`, `LogOut`
and `CommitRevocation` (`_revoke_family`: one UPDATE over the rows its snapshot has, which waits for locked ones and re-evaluates its
condition); `Lapse`, `Deactivate`, `Rollback`. Signatures, hashes and lifetimes are the guards they implement.

*Observation.* `docs/data-model.md:112` and `docs/api.md:44-45` say that a replay and a logout revoke the family. A revocation that begins while a
rotation is uncommitted does not see the row that rotation inserts: that session stays usable. `RevocationEndsFamily` states the
document's sentence and is kept as a definition; `RevokedIsFinal` is what does hold of every row a revocation reached.

### 6.4 Offline synchronisation: `OfflineSync`

One user, several devices. `log` is `offline_mutations` by `server_cursor`, `nextCursor` the user's counter, `confirmed` and `lastVersion` the
two columns of `device_sync_states`, `outbox` what a device has persisted, `sync` what its `syncNow` is waiting for, `doing` the requests.
On the device: `Enqueue`, `SendPush`, `SendPull`, `GiveUp` (no answer, or the app is closed; the request goes on),
`TurnedAway` (429), `Discard`, `Reset`, `LoadStatus`. On the server: `LockDevice`, `Replay`, `Apply`, `Refuse`, `CommitPush`, `CommitPull`,
`Rollback`. `Picked` keeps the members of an outbox at some positions, which is what a filter does. What a mutation is about is left out; a target that is gone is a `Refuse`.

*Observation.* A device is told to move its checkpoint only past what it has persisted (`docs/api.md:457-460`). The server moves the device's cursor when it
*answers* a pull (`offline.py:663`), and `LoadStatus`, when the app is opened again, gives that cursor to a device that has none, also if the answer of its first
pull was lost. `CheckpointIsPersisted` states the sentence and is a definition without a run; `CursorsExist` states what holds.

### 6.5 Support: `SupportChannel`

`log` is `support_messages`, `nextSequence` the conversation's counter, `doing` the posting requests, `page` what `SupportCenterView` shows and waits for. Posting:
`AgentSends`, `Send`, `Look` (the key), `Reserve` (numbers for the message and the automatic reply, under the row lock), `CommitPost`, `Broadcast` (after the
commit; a full queue, `Queued`, loses its oldest event; the messages of a post go in the order of their numbers), `Answer`, `Fail`, `GiveUp`.
Nothing in the code closes a conversation, so none is closed here.

The page: `Select` stops the socket it knows (`page.current`) and asks for the list, `Listed` shows it and starts a socket, `NotListed` does neither. Nothing in
`selectConversation` waits for an earlier list, so a second selection may overtake the first; then each answer starts a socket, the page knows the last one only, and the
older runs on. So `page.listing`, `socket` (the `SupportSocket`) and `queue` (what the hub holds for its connection) have a row for each selection, and
`Sockets` is the bound on the lists asked for and the sockets that run at once; a row whose socket has stopped or given up is used again. The socket: `Open`, `Disconnected`, `Reconnect`, `Deliver`;
the page shows the events of all of them, in whatever order.

*Observations.* A message committed between the list's SELECT and the registration of the connection is neither listed nor sent: the initial event
carries no messages although `docs/architecture.md:73` says the initial state includes the persisted ones (`ConnectedSeesPersisted`, a
definition without a run). The HTTP answer raises `lastMessageSequence`, after which lower events of others are rejected until the next selection.

### 6.6 Crowd snapshots: `CrowdFeed`

`snapshots` is the table, `window` the claim `publisher:crowd` of the period, `tick` the publisher of each process, `wire` the Redis channel as it reaches each
process, `connection` the page's socket, `page` what `GuidePage` shows. `Lead`, `Read`, `Write`, `Reread` (a repeated number is
refused by the unique constraint), `BroadcastLocal`, `Publish`, `Receive`; `Connect`, `Register`, `Deliver`; `Ask`, `Answered`; periods, lost leadership and
lost publications are steps. The densities themselves are what `Itinerary` reads and are not kept here. A hub keeps one event per connection, the latest
that came, which is the newest only when events come in order; the page's own
check is what keeps it from going back.

### 6.7 Groups: `TravelGroup`

`group` is the row of `travel_groups` (revision, switches, itinerary), `members`, `sharing` and `place` the rows of `group_members`, `inviting` the invite's lifetime.
A request loads all of it (`Begin`), decides, and writes what differs from what it loaded (`Join`, `Meet`, `Link`, `SetPrivacy`, `UpdateStatus`, `Abandon`).
`raced` is a history variable: members who wrote a place over a closing of the group's sharing. A location is written under `share_location`, closing erases
the places that were loaded; a member whose update and a closing did not see one another keeps a place. `docs/innovations.md:41` knows no such exception
(`ClosedKeepsNoPlace`, a definition no run checks); `ClosedKeepsOnlyRaced` says exactly who is excepted. The revision is an absolute `revision + 1` of what
was loaded, so two writes may leave the number of one of them. Lost-contact alerts are left out.

### 6.8 Advisory locks: `AdvisoryLocks`

`claims` are the owners of keys in Redis and in each process's own store, `doing` the requests, `lapsed` and `orphaned` history of faults. A request
holds the sorted keys of each of its stages (`Claim`, `Busy`, `NextStage`, `Work`, `CloseStage`, `CloseAll`); a checkout has two stages. `ShapesAssumption` says what
the routes ask for: the key of a cart alone and in the first stage (`api/routes/commerce.py:165-178`), every other call in one stage. `NoCircle` needs it: sorting orders the keys
of a stage, and nothing but the routes orders the stages. Faults: `Unavailable`, before or
after Redis did its part, then `Degrade` to the process's store where that is allowed; a lost release; `Lapse`, which is also the trimming of the local store.
Two requests in different stores may hold the same key: nothing is claimed across stores, and no service relies on it.

### 6.9 Socket tickets: `SocketTickets`

The one-time tickets of the queue and support sockets: `shared` in Redis, `own` in each process, `localOnly` those a process knows to be there only. `Issue`, `Consume`,
`Expire`, `Restart`, each call to Redis answered, never reached, or executed and not answered. A ticket whose own storing was not answered exists twice (`twice`) and may
be taken twice; no other may.

### 6.10 Itineraries: `Itinerary`

`snapshots`, `plan` (revision and stops in time order), `locked` (intervals of locked items), `legacy` (items with the admission windows of an older
build), `runs` (`plan_runs`), `shown` (the revision each page shows), `doing`. `Generated` and `Replanned` are the two solvers, as recursive functions over the candidates: scores, walks,
visits and buffers. `Candidates` and `OrdersBy` say what the two sorts return: every order that agrees with the comparison, and codes break ties, so there is one. `CrowdChanges`, `Solve`, `Write` (the conditional UPDATE on the revision), `GiveUp`, `Refresh`. Exclusions and wheelchair
routes only filter stops and walks. Nothing in the code sets `locked`; an itinerary may still hold locked rows, so they are enumerated in `Init`.
*Observations.* Replanned items keep their old `ordinal`; around a locked item only the buffer is kept, not the walk, which is why `LockedIsAvoided` says buffer.

### 6.11 Calls for help: `SosRequests`

`rows` are `sos_requests` by key, `flights` the requests on their way or half done, `deciding` what staff have read; on the device `form`, `draft` (persisted), `pending` (in memory), `waiting`,
`made`, `settled`. Device: `Edit`, `SaveOffline`, `Submit`, `GiveUp`, `Restart`. Server: `Look`, `Replay`, `Record`, `Refuse`, `Fail`; staff: `Decide`, `Transition`.
*Observations.* While a draft lives, an edited form is not what is sent. A draft made offline under a key whose answer was lost, with
another text, ends with 409 and is dropped as refused: the earlier text is what was recorded.

### 6.12 Feedback: `Feedback`

`ticket` (status, assignee, version), `events`, `ratings`, `doing`. `BeginAssign`, `BeginResolve`, `BeginFollowUp` load and check; `Update` is the conditional UPDATE, `Commit` the
transaction with its history entry and rating; `Abort`. The owner cannot withdraw a ticket; there is no such operation.

### 6.13 The run `services`

| property | of |
|---|---|
| `TypeOK` | all twelve |
| `AccountsAddUp` | `Rewards`, `Commerce`: `BalanceIsItsEntries`, `OneEntryPerSource` |
| `EntriesMatchFacts` | `Rewards`: `EntriesMatchFacts`; `Commerce`: `PaidOrdersEarned` |
| `StockExact` | `RewardStockExact`; `Commerce`: `StockExact` |
| `FamilyIsAChain` | `RefreshFamilies`: `OneLivePerFamily`, `FamilyIsAChain` |
| `LogsAreNumbered` | `OfflineSync`: `LogIsGapless`, `VersionsIncrease`; `SupportChannel`: `LogIsNumbered`, `RepliesFollow`; `CrowdFeed`: `SnapshotsAreNumbered` |
| `OnlyPersistedIsSeen` | `OfflineSync`: `CursorsExist`; `SupportChannel`: `OnlyPersistedIsSeen`; `CrowdFeed`: `EventsArePersisted` |
| `ClosedKeepsOnlyRaced` | `TravelGroup` |
| `PlansPassTheCheck` | `Itinerary`: `PlansPassTheCheck`, `LockedIsAvoided` |
| `HistoryExplains` | `Itinerary`: `OneRunPerRevision`, `RunExplainsThePlan`; `Feedback`: `HistoryIsTheTickets` |
| `DoneOnce` | `SosRequests`: `RecordedOnce`, `OneTransitionEach`; `Feedback`: `RatedOnce`; `SocketTickets`: `TakenOnce` |
| `LocksAreOwned` | `AdvisoryLocks`: `HoldersOwn`, `NothingLeaks`, `NoCircle` |
| `NoStaleCommit` | steps: `CheckoutSellsTheCart`, `ReplanKeepsTheStops`, `ResolvedByItsAssignee` |
| `FinalStatesStay` | steps: `OrdersAreFinal` (shop), `RevokedIsFinal` (sessions) |
| `KeptUntilRecorded` | steps: `OutboxKeepsUnsent`, `DraftKeptUntilRecorded` |
| `BoardNeverGoesBack` | steps of `CrowdFeed` |

Bounds. Two workers, two keys and two processes, for the reason given in 3.2: what a step decides depends on one snapshot and on what one other
transaction did since. Beyond that:

* rewards: one user, three items worth 2, 1 and 1 points, a reward of 2, accounts of at most four entries (an award, its rival, a redemption and the welcome);
* shop: one buyer, two products with stock 2 and 1 and lines of at most 2, so one checkout exhausts a product and a second fails on it;
* sessions: three rows, so a rotation can be repeated and a second family exists;
* synchronisation: pages of one mutation, at most two pages and two mutations per device; one request whose device gave it up; the second device sends one
  mutation and does not pull;
* support: one message of each party, one event per queue, one attempt to reconnect, two lists or sockets at once; while the second of them is in use
  one request posts at a time and no attempt to connect has failed;
* crowd: two snapshots; the page connects to the first process and one event is on its way;
* group: two users, four revisions, status sharing stays on, since no property is about it;
* itinerary: three stops, a window of 16 units, three revisions and two snapshots; an older build's plan has no bookings;
* SOS: two keys and two requests; feedback: four versions; locks: three keys, one fault; tickets: two tickets.

Workers are interchangeable and a symmetry. Deadlock checking is off: the bounds stop the components where the program would go on.

## 7. Liveness

`MCLiveness` is built like `MCServices` from the four components in which somebody waits: ticketing, queue, support, locks (about 293,000 states, three minutes,
no symmetry). `EveryWaitEnds` says that whoever waits does not wait for ever: `Waits ~> ~ Waits` for a lapsed hold that is not released, an entry in the queue, a socket that
is connecting or waits for its timer, and a request that takes its locks. Orders, entries, sockets and requests are interchangeable, so it speaks of one of each. It
covers `LapsedHoldReleased`, `EveryoneIsServed`, `SocketSettles` and `EveryRequestEnds` of the modules.

| part | fairness | why the code justifies it |
|---|---|---|
| ticketing | `WF` of a request's end; `SF` of a user's list request and of its sweep | 3.3: the first is the server's; the others are an assumption about clients |
| queue | `WF` of beginning a tick, `SF` of its later steps | 4.3: the publisher's loop survives every exception |
| support | `WF` of the reconnection timer and of an attempt's end | timers fire; an attempt opens or reports an error |
| locks | `WF` of what a request does next when no call fails | the event loop runs requests, and a wait for a claim has a deadline |

No fault has to happen, and none is prevented. The liveness of Reservations, `LapsedReservationReleased`, is checked by `stay_calendar` (5.3).

## 8. What is proved

Every safety invariant and every action property that a passing run checks is also a theorem, for every value of the constants that
satisfies the named assumptions; `AtMostOneServing` with the hypothesis of one publisher (4.5). So are the two refinements. The runs came first: TLC checked the properties, and the conjuncts that make them inductive, on the
small instances.

| module | results | strengthening |
|---|---|---|
| `TicketingProofs` | counters, capacity, tickets follow orders; keys, admissions, after-sale tables, final states, the refinement of `TicketLedger` | `LedgerInv`, `HistoryInv` (3.5) |
| `QueueFastPassProofs` | quota, passes, order of joining, one served at a time | `LeaverKnowsPass`, `SnapshotSound`, `ServingSeen` (4.5) |
| `ReservationsProofs` | stock, overbooking, clashes, final states, the refinement of `StockLedger` | `BookingInv` (5.5) |
| `AccountProofs` | points and rewards, the shop, sessions | `RewardsInv`, `ShopInv`, `FamilyInv` (8.1) |
| `FeedProofs` | offline synchronisation, the support channel, the crowd feed | `SyncInv`, `SupportInv`, `CrowdInv` (8.2) |
| `RecordProofs` | groups, itineraries, calls for help, feedback, locks, socket tickets | `GroupInv`, `PlanInv`, `SosInv`, `DeskInv`, `LocksInv`, `TicketsInv` (8.3) |
| `ServicesProofs` | the sixteen properties of the run `services` | none: a behaviour of `Services` is one of each component (8.4) |
| `CountingLemmas` | counted sets, sums, induction, largest members, recursive functions | - (8.5) |

### 8.1 Accounts

*Rewards* (`RewardsInv`) assumes that items and rewards are worth positive natural numbers, that stocks are natural, that the tables are finite and that
targets and keys are different things. An account, its entries, its claims and its redemptions say the same (`RewardMatched`). A new entry needs a new row of a claim or a
redemption, which a unique constraint lets in once; the loser of two overlapping attempts posts nothing, and the receipt it leaves is for an item that keeps
receipts (`RewardRequestsFit`). The balance follows by `EntryAppended`: an account grows by one entry at a time.

*The shop* (`ShopInv`) assumes natural stocks, finitely many users, keys and products, and that an order earns a positive natural number of points. A
sweep returns exactly the units of the orders its condition still matches, which `StockExact` needs; that a payment posts its entry once
rests on the order leaving `PENDING_PAYMENT` in the same commit (`PaidOrdersEarned`); that a checkout sells the cart of its commit rests on the cart lock keeping
every edit away between the second reading and the commit (`ShopCheckoutKnowsCart`).

*Sessions* (`FamilyInv`) assume nothing. A row has been updated by at most one open transaction (`FamilyOneHolder`, the row lock of `Consume`), and what a rotation holds is
marked by nobody until it commits (`FamilyHeldIsUsed`). So the mark and the successor appear at once, a session has one successor, in its own family, and at most one session
of a family is not consumed (`FamilyOneUnconsumed`), which says more than that one is usable.

### 8.2 Feeds

*Synchronisation* (`SyncInv`) assumes that a pull asks for at least one page (`MaxPages` positive). The log is gapless because a request that has taken cursors holds the user's counter to its
commit, and what it took starts right after the log (`SyncPushesFit`). Versions of a device increase because a push compares them under the lock of the
device's row. No mutation is logged twice because an identifier names one mutation everywhere: in outboxes, in batches on their way, in pushes that are not committed and in the log
(`SyncMutationsFit`). No cursor, stored, sent or answered, is past the log (`SyncCursorsFit`). A device drops what an answer names, and answers name what the log has
(`SyncResultsKnown`); that gives `OutboxKeepsUnsent`.

*Support* (`SupportInv`) assumes queues of positive size and a natural number of attempts. One request holds the conversation's row, from its second look at the key to the commit
(`SupportOneHoldsTheRow`), so the numbers and the key it has in hand are free when it commits. What is in a queue, in a list, in an answer, still to be sent or shown is a number of a
message of the log (`SupportSendsPosted`, `SupportSeesPosted`), and the log only grows.

*Crowd* (`CrowdInv`) assumes nothing. Snapshots are `1 .. n` (`CrowdNumbered`): who writes has read a number that exists, and the unique constraint refuses the next one to all but the first. Everything a
publisher, a channel, a connection or a page carries is at most `n` (`CrowdSeenUpTo`). An earlier type invariant bounded the numbers by `MaxSequence + 1`; three processes
that read before the first of them writes go beyond, so it held of the two processes of the run only, and the numbers are now naturals.

### 8.3 Records

*Groups* (`GroupInv`): an update of a status that loaded a sharing group either knows of every closing since, and then puts its member into `raced`, or
the group still shares (`GroupClosingIsNoticed`); only members have places (`GroupMembersOnly`), and a closing erases those it loaded and leaves the others to `raced`. The safety
property assumes nothing; the types need an owner who is a user and a bound on revisions.

*Itineraries* (`PlanInv`) assume finitely many stops, natural times and finitely many locked intervals (`TimesAssumption`, `LockedAssumption`), and positive bounds on revisions and snapshots. What each of the two solvers returns is
found by induction along the order of candidates, for a recursive function over the positions exists and is unique (8.5): the part that is built has no conflict, no stop twice, starts where a free start exists, and
stays clear of what is locked (`PlanWalkable`, `PlanStopsDiffer`, `PlanClearOf`); a replan has the stops of the plan in the order in which it took them. An answer that waits for its write still has the stops of the plan, since replans
never change them (`PlanAnswersAreSound`), which gives `ReplanKeepsTheStops`; the conditional UPDATE on the revision makes the run that is written the one that explains the plan.

*Calls for help* (`SosInv`) assume that `Nothing` is no row and that the keys are numbered. Every key that is on its way or recorded is settled or the draft's (`SosOneOpenKey`), and the device hears only of what its draft
says (`SosHearsOfTheDraft`); so a repetition finds the row it would write. What a member of staff decided on has a row that is still open in what was read (`SosDecisionsAreOpen`).

*Feedback* (`DeskInv`) assumes nothing. A version names one state of the ticket, so a request whose UPDATE matched decided on the ticket as it is (`DeskDecisionsAreLawful`), and one request
at a time has an UPDATE it has not committed (`DeskOneUpdates`).

*Locks* (`LocksInv`) assume finitely many requests, that Redis is no process, and the stages the routes ask for (6.8). Claims and what requests remember agree, up to lapses and lost releases (`LockOwned`,
`LockKept`). For `NoCircle` each wait has a rank: carts before the rest, Redis before a process's store, and then the key; a request waits for a claim above all it
holds (`LockInKeyOrder`, `LockLayered`), and a claim nobody knows of is one its owner has passed (`LockPassed`). So whoever waits, waits for a request that is further on
(`LockWaitsForWhoIsFurtherOn`), and in a circle somebody would be further on than itself.

*Socket tickets* (`TicketsInv`) assume nothing. A ticket whose storing was answered lies in one place, and in none once it was taken.

### 8.4 The composition

A step of `Services` is a step of one component while all variables of the others stay, so a behaviour of it is a behaviour of each component
(`RewardsRun`, `ShopRun` and ten more lemmas). The assumptions of the components are one assumption of `Services`, `ConstantsFit`, which TLC evaluates on the run's constants. Each property of
the run then follows from the theorems of its components.

### 8.5 Counting and recursion

`CountingLemmas` says how the cardinality of a counted set follows a changed row, and how a balance follows an added entry. The library's induction theorems take a predicate as a parameter, which the
provers cannot instantiate. `NatSetInduction` states induction of a set of numbers instead, from the well-foundedness of `<`, and `LargestExists`, `LargestBy` and `RecursionExists` (a function given by
its value at 0 and a step exists) follow. That is what the claims about `Picked`, `Generated` and `Replanned` rest on; those are recursive functions for that reason, not folds of a library.

### 8.6 Only model-checked

* Liveness, and with it fairness and ENABLED, which are out of the prover's reach: `EveryWaitEnds` and `LapsedReservationReleased`.
* That the findings are violations: the four runs that expect one.
* Five sentences of documents that the code does not keep under a race are definitions, neither checked nor proved; next to each, the run and a theorem say what does hold:
  `ReceiptNamesOtherKey` (6.1; `EntriesMatchFacts`), `RevocationEndsFamily` (6.3; `RevokedIsFinal`), `CheckpointIsPersisted` (6.4; `CursorsExist`), `ConnectedSeesPersisted`
  (6.5; `OnlyPersistedIsSeen`) and `ClosedKeepsNoPlace` (6.7; `ClosedKeepsOnlyRaced`). The hazards behind them are covered that far, and not in full.

## 9. Not modelled

* **Emergency packages, texts of the guide, venue and offer searches, catalogs:** reading only.
* **Lost-contact alerts** of groups (`create_lost_alert`) with their demonstration provider: one insert and a stand-in's answer.
* **Preferences and accessibility profiles:** single rows that are overwritten; nothing relates to them but the filters of a plan.
* **Rate limits:** a counter with a lifetime; a limited request is refused before its handler, which the modules have as a request that never happens
  or, for the outbox, as `TurnedAway`.
* **Validation, schemas, wiring of the HTTP surface:** inputs are enumerated among those that pass it.
* **Providers' insides:** demonstration stand-ins; a call that fails is a `Rollback`.
* **The order of row locks:** the database breaks a circle by aborting one transaction, a `Rollback` of the models; the program neither
  orders the locks nor retries, and promises nothing about it.
* **Layout and the remaining pages of the client:** they repeat requests, which the server modules take twice already.
* **The migrations as programs, load seeds, smoke and load tests:** the tables and constraints they create are what the variables are; the scripts run outside the server.
