---------------------------- MODULE QueueFastPass ----------------------------
(***************************************************************************)
(* The virtual queue of one experience and the FastPasses of one of its    *)
(* daily buckets: services/queues.py, with the publisher of                *)
(* realtime/queues.py that advances the queue.                             *)
(*                                                                         *)
(* As in Ticketing a request reads, other transactions run, and it commits *)
(* with conditional UPDATEs.  A publisher reads in two statements, the     *)
(* entries and then the valid passes, and commits a whole service cycle.   *)
(***************************************************************************)
EXTENDS Integers, FiniteSets

CONSTANTS
    Users,          \* accounts
    Entries,        \* identifiers uuid4 may give to a queue entry
    Keys,           \* idempotency keys clients send
    Workers,        \* requests served concurrently
    Publishers,     \* publisher tasks that may be inside a tick at one time
    Nobody,         \* the holder of the free counter row
    PassCapacity,   \* InventoryBucket.capacity
    DefaultWait     \* experience.wait_minutes in units of duration_minutes

ASSUME EntriesAssumption   == IsFiniteSet(Entries)
ASSUME CapacityAssumption  == PassCapacity \in Nat
ASSUME WaitAssumption      == DefaultWait \in Nat
ASSUME ProcessesAssumption == Workers \cap Publishers = {} /\ Nobody \notin Workers

VARIABLES
    entries,        \* queue_entries, by identifier
    nextSequence,   \* queue_counters.next_sequence
    passes,         \* fast_passes, by the entry they belong to
    confirmed,      \* inventory_buckets.confirmed
    counterLock,    \* who holds the row of queue_counters
    txn             \* what each request and publisher is doing

vars == <<entries, nextSequence, passes, confirmed, counterLock, txn>>

database == <<entries, nextSequence, passes, confirmed>>

-----------------------------------------------------------------------------
EntryRow == [status : {"WAITING", "CALLED", "SERVING", "COMPLETED", "LEFT"},
             user : Users, key : Keys, version : Nat, place : Nat, wait : Nat]

(* The validity window of a pass has not begun, is running, or is over.    *)
PassRow == [status : {"ACTIVE", "USED", "CANCELLED", "EXPIRED"},
            user : Users, key : Keys, window : {"early", "open", "over"}]

InStatus(status) == {e \in DOMAIN entries : entries[e].status = status}

InQueue == InStatus("WAITING") \cup InStatus("CALLED") \cup InStatus("SERVING")

Boardable == InStatus("WAITING") \cup InStatus("CALLED")

ActivePasses == {e \in DOMAIN passes : passes[e].status = "ACTIVE"}

(* What the UPDATE of an entry by identifier, status and version matches.  *)
Matches(e, status, version) ==
    /\ e \in InStatus(status)
    /\ entries[e].version = version

JoinKeyUsed(u, k) == \E e \in DOMAIN entries : entries[e].user = u /\ entries[e].key = k

PassKeyUsed(u, k) == \E e \in DOMAIN passes : passes[e].user = u /\ passes[e].key = k

-----------------------------------------------------------------------------
(* What a process remembers between two statements.                        *)

Idle == [op |-> "idle"]

Joining(u, k, place, wait) ==
    [op |-> "join", user |-> u, key |-> k, place |-> place, wait |-> wait]
Looking(e, row) ==
    [op |-> "look", entry |-> e, status |-> row.status, version |-> row.version]
Leaving(m, refund) ==
    [op |-> "leave", entry |-> m.entry, status |-> m.status, version |-> m.version,
     refund |-> refund]
Buying(e, row, k) ==
    [op |-> "buy", entry |-> e, status |-> row.status, version |-> row.version,
     user |-> row.user, key |-> k]
Selecting(expired, seen) == [op |-> "select", expired |-> expired, seen |-> seen]
Ticking(expired, seen, privileged) ==
    [op |-> "tick", expired |-> expired, seen |-> seen, privileged |-> privileged]

Remember(p, record) == txn' = [txn EXCEPT ![p] = record]

(* The first statement of a tick locks the rows of the passes it expires.  *)
PassesHeldBy(p) == IF txn[p].op \in {"select", "tick"} THEN txn[p].expired ELSE {}

Held(e, p) == \E q \in Publishers \ {p} : e \in PassesHeldBy(q)

-----------------------------------------------------------------------------
Init ==
    /\ entries = [e \in {} |-> {}]
    /\ nextSequence = 1
    /\ passes = [e \in {} |-> {}]
    /\ confirmed = 0
    /\ counterLock = Nobody
    /\ txn = [p \in Workers \cup Publishers |-> Idle]

(* Time passes. *)
WindowMoves(e) ==
    /\ e \in ActivePasses
    /\ \/ passes[e].window = "early" /\ passes' = [passes EXCEPT ![e].window = "open"]
       \/ passes[e].window = "open"  /\ passes' = [passes EXCEPT ![e].window = "over"]
    /\ UNCHANGED <<entries, nextSequence, confirmed, counterLock, txn>>

-----------------------------------------------------------------------------
(* join_queue.  The increment of the counter keeps its row locked until    *)
(* the entry is committed.                                                 *)

(* Bug: the counter is read without locking it.                            *)
CounterRead(w) == counterLock' = counterLock

CounterLocked(w) == counterLock = Nobody /\ counterLock' = w

LockToJoin(w, u, k) ==
    /\ txn[w] = Idle
    /\ CounterLocked(w)
    /\ ~ JoinKeyUsed(u, k)
    /\ \A e \in InQueue : entries[e].user # u
    /\ LET ahead == Cardinality(InQueue)
       IN  Remember(w, Joining(u, k, nextSequence,
                               IF ahead > DefaultWait THEN ahead ELSE DefaultWait))
    /\ UNCHANGED database

CommitJoin(w, e) ==
    /\ txn[w].op = "join"
    /\ e \in Entries \ DOMAIN entries
    /\ LET m == txn[w]
       IN  /\ ~ JoinKeyUsed(m.user, m.key)
           /\ \A f \in InQueue : entries[f].user # m.user
           /\ nextSequence' = m.place + 1
           /\ entries' = [f \in DOMAIN entries \cup {e} |->
                             IF f = e
                             THEN [status |-> "WAITING", user |-> m.user, key |-> m.key,
                                   version |-> 1, place |-> m.place, wait |-> m.wait]
                             ELSE entries[f]]
    /\ counterLock' = Nobody
    /\ Remember(w, Idle)
    /\ UNCHANGED <<passes, confirmed>>

-----------------------------------------------------------------------------
(* leave_queue.  The entry and its pass are read with two SELECTs.  A      *)
(* request that loses its UPDATE reads again, up to three times, which is  *)
(* a Rollback followed by a new ReadEntryToLeave.                          *)

ReadEntryToLeave(w, e) ==
    /\ txn[w] = Idle
    /\ e \in InQueue
    /\ Remember(w, Looking(e, entries[e]))
    /\ UNCHANGED <<database, counterLock>>

ReadPassToLeave(w) ==
    /\ txn[w].op = "look"
    /\ Remember(w, Leaving(txn[w], {txn[w].entry} \cap ActivePasses))
    /\ UNCHANGED <<database, counterLock>>

(* Bug: the unit of the pass is not given back.                            *)
UnitKept == confirmed

(* Bug: leaving gives the unit back twice.                                 *)
UnitReleasedTwice == confirmed - 2

UnitReleased == confirmed - 1

LeftRow(row) == [row EXCEPT !.status = "LEFT", !.version = @ + 1]

CommitLeave(w) ==
    /\ txn[w].op = "leave"
    /\ LET m == txn[w]
           e == m.entry
       IN  /\ Matches(e, m.status, m.version)
           /\ entries' = [entries EXCEPT ![e] = LeftRow(@)]
           /\ IF e \in m.refund
              THEN /\ e \in ActivePasses
                   /\ ~ Held(e, w)
                   /\ confirmed >= 1
                   /\ passes' = [passes EXCEPT ![e].status = "CANCELLED"]
                   /\ confirmed' = UnitReleased
              ELSE UNCHANGED <<passes, confirmed>>
    /\ Remember(w, Idle)
    /\ UNCHANGED <<nextSequence, counterLock>>

-----------------------------------------------------------------------------
(* buy_fast_pass.  The UPDATE that claims the entry changes nothing but    *)
(* its version.                                                            *)

ReadToBuy(w, e, k) ==
    /\ txn[w] = Idle
    /\ e \in Boardable \ DOMAIN passes
    /\ ~ PassKeyUsed(entries[e].user, k)
    /\ Remember(w, Buying(e, entries[e], k))
    /\ UNCHANGED <<database, counterLock>>

(* Bug: a FastPass is sold without claiming the entry.                     *)
Unclaimed(e) == entries

ClaimedRow(row) == [row EXCEPT !.version = @ + 1]

Claimed(e) == [entries EXCEPT ![e] = ClaimedRow(@)]

CommitPurchase(w, window) ==
    /\ txn[w].op = "buy"
    /\ LET m == txn[w]
           e == m.entry
       IN  /\ Matches(e, m.status, m.version)
           /\ confirmed + 1 =< PassCapacity
           /\ e \notin DOMAIN passes
           /\ ~ PassKeyUsed(m.user, m.key)
           /\ entries' = Claimed(e)
           /\ confirmed' = confirmed + 1
           /\ passes' = [f \in DOMAIN passes \cup {e} |->
                            IF f = e
                            THEN [status |-> "ACTIVE", user |-> m.user, key |-> m.key,
                                  window |-> window]
                            ELSE passes[f]]
    /\ Remember(w, Idle)
    /\ UNCHANGED <<nextSequence, counterLock>>

-----------------------------------------------------------------------------
(* advance_queue_tick.                                                     *)

(* The UPDATE that expires lapsed passes and the SELECT of the entries: in  *)
(* between only rows change that the SELECT then sees.                     *)
SelectEntries(p) ==
    /\ txn[p] = Idle
    /\ LET lapsed == {e \in ActivePasses : passes[e].window = "over"}
       IN  /\ \A e \in lapsed : ~ Held(e, p)
           /\ Remember(p, Selecting(lapsed, [e \in InQueue |-> entries[e]]))
    /\ UNCHANGED <<database, counterLock>>

(* The statement reads its own transaction's expiries, and compares the    *)
(* windows with the time at which the tick began.                          *)
SelectPasses(p) ==
    /\ txn[p].op = "select"
    /\ LET m == txn[p]
           Active == ActivePasses \ m.expired
       IN  \E privileged \in SUBSET Active :
               /\ \A e \in Active : passes[e].window = "open" => e \in privileged
               /\ \A e \in privileged : passes[e].window # "early"
               /\ Remember(p, Ticking(m.expired, m.seen, privileged))
    /\ UNCHANGED <<database, counterLock>>

Seen(m, status) == {e \in DOMAIN m.seen : m.seen[e].status = status}

(* Bug: those who joined last come first.                                  *)
AheadReversed(m, e) == {f \in Seen(m, m.seen[e].status) : m.seen[f].place > m.seen[e].place}

(* The entries in the same status that come before e: waiting ones with a  *)
(* valid pass first, then in the order they joined.                        *)
Ahead(m, e) ==
    LET favoured(f) == m.seen[e].status = "WAITING" /\ f \in m.privileged
    IN  {f \in Seen(m, m.seen[e].status) :
            IF favoured(f) = favoured(e) THEN m.seen[f].place < m.seen[e].place
                                         ELSE favoured(f)}

(* The first entry seen in a status, if its row is still as it was seen.   *)
Next1(m, status) ==
    {e \in Seen(m, status) : /\ Ahead(m, e) = {}
                             /\ Matches(e, status, m.seen[e].version)}

(* Bug: nobody's turn ever ends.                                           *)
FinishesNobody(m) == {}

Finishes(m) == Next1(m, "SERVING")

Boards(m) == Next1(m, "CALLED")

(* Bug: only holders of a valid pass are called.                           *)
CallsPrivileged(m) == Next1(m, "WAITING") \cap m.privileged

Calls(m) == Next1(m, "WAITING")

(* Those left waiting whose estimate changes: the place after the first.   *)
Reestimates(m) ==
    {e \in Seen(m, "WAITING") : /\ Ahead(m, e) # {}
                                /\ Matches(e, "WAITING", m.seen[e].version)
                                /\ entries[e].wait # Cardinality(Ahead(m, e))}

PassesAfter(m) ==
    [e \in DOMAIN passes |->
        IF e \in m.expired \cap ActivePasses
        THEN [passes[e] EXCEPT !.status = "EXPIRED"]
        ELSE IF e \in Boards(m) \cap ActivePasses
             THEN [passes[e] EXCEPT !.status = "USED"]
             ELSE passes[e]]

EntryAfter(m, e) ==
    LET row == ClaimedRow(entries[e])
    IN  CASE e \in Finishes(m)    -> [row EXCEPT !.status = "COMPLETED"]
          [] e \in Boards(m)      -> [row EXCEPT !.status = "SERVING", !.wait = 0]
          [] e \in Calls(m)       -> [row EXCEPT !.status = "CALLED", !.wait = 0]
          [] e \in Reestimates(m) -> [row EXCEPT !.wait = Cardinality(Ahead(m, e))]
          [] OTHER                -> entries[e]

CommitTick(p) ==
    /\ txn[p].op = "tick"
    /\ LET m == txn[p]
       IN  /\ \A e \in Boards(m) : ~ Held(e, p)
           /\ passes' = PassesAfter(m)
           /\ entries' = [e \in DOMAIN entries |-> EntryAfter(m, e)]
    /\ Remember(p, Idle)
    /\ UNCHANGED <<nextSequence, confirmed, counterLock>>

-----------------------------------------------------------------------------
(* Every other end of a request or a tick; it gives back the counter.      *)
Rollback(p) ==
    /\ txn[p] # Idle
    /\ Remember(p, Idle)
    /\ counterLock' = IF counterLock = p THEN Nobody ELSE counterLock
    /\ UNCHANGED database

Serve(w) ==
    \/ \E u \in Users, k \in Keys : LockToJoin(w, u, k)
    \/ \E e \in Entries : CommitJoin(w, e)
    \/ \E e \in DOMAIN entries : ReadEntryToLeave(w, e)
    \/ ReadPassToLeave(w)
    \/ CommitLeave(w)
    \/ \E e \in DOMAIN entries, k \in Keys : ReadToBuy(w, e, k)
    \/ \E window \in {"early", "open"} : CommitPurchase(w, window)

Publish(p) == SelectEntries(p) \/ SelectPasses(p) \/ CommitTick(p)

Next ==
    \/ \E e \in DOMAIN passes : WindowMoves(e)
    \/ \E w \in Workers : Serve(w)
    \/ \E p \in Publishers : Publish(p)
    \/ \E p \in Workers \cup Publishers : Rollback(p)

Spec == Init /\ [][Next]_vars

(* A publisher wakes after every interval, whatever became of its last     *)
(* tick, and not every tick fails.                                         *)
Fairness == \A p \in Publishers : /\ WF_vars(SelectEntries(p))
                                  /\ SF_vars(SelectPasses(p))
                                  /\ SF_vars(CommitTick(p))

FairSpec == Spec /\ Fairness

-----------------------------------------------------------------------------
(* Type invariant.                                                         *)
Request == {Idle}
           \cup [op : {"join"}, user : Users, key : Keys, place : Nat, wait : Nat]
           \cup [op : {"look"}, entry : Entries, status : {"WAITING", "CALLED", "SERVING"},
                 version : Nat]
           \cup [op : {"leave"}, entry : Entries, status : {"WAITING", "CALLED", "SERVING"},
                 version : Nat, refund : SUBSET Entries]
           \cup [op : {"buy"}, entry : Entries, status : {"WAITING", "CALLED"},
                 version : Nat, user : Users, key : Keys]

IsTick(m) ==
    /\ m.op \in {"select", "tick"}
    /\ m.expired \subseteq Entries
    /\ DOMAIN m.seen \subseteq Entries
    /\ \A e \in DOMAIN m.seen : m.seen[e] \in EntryRow

TypeOK ==
    /\ DOMAIN entries \subseteq Entries
    /\ \A e \in DOMAIN entries : entries[e] \in EntryRow
    /\ nextSequence \in Nat
    /\ DOMAIN passes \subseteq DOMAIN entries
    /\ \A e \in DOMAIN passes : passes[e] \in PassRow
    /\ confirmed \in Nat
    /\ counterLock \in Workers \cup {Nobody}
    /\ DOMAIN txn = Workers \cup Publishers
    /\ \A w \in Workers : txn[w] \in Request
    /\ \A p \in Publishers : txn[p] = Idle \/ IsTick(txn[p])

(* The confirmed units of the bucket are exactly the passes ever sold and  *)
(* not given back, and no more than there are to sell, although leaving,   *)
(* expiry, boarding and buying race over pass and bucket.                  *)
QuotaExact ==
    /\ confirmed = Cardinality({e \in DOMAIN passes : passes[e].status # "CANCELLED"})
    /\ confirmed =< PassCapacity

(* A pass that is still active belongs to somebody who can still use it:   *)
(* its entry is waiting or called, never left, boarding or served.         *)
ActivePassHasLiveEntry == ActivePasses \subseteq Boardable

(* docs/data-model.md, invariant 7: a FastPass "claims one confirmed       *)
(* shared-inventory unit; leaving/expiry releases it".                     *)
ExpiredPassReleasesUnit ==
    confirmed = Cardinality({e \in DOMAIN passes : passes[e].status \in {"ACTIVE", "USED"}})

(* A publisher serves one party at a time, even when passengers leave or   *)
(* buy passes in the middle of its tick and two of them are called.        *)
AtMostOneServing == Cardinality(InStatus("SERVING")) =< 1

(* Places in the queue are given in the order in which joining commits:    *)
(* nobody is put before or level with somebody already there.              *)
NewcomersLast ==
    \A e \in DOMAIN entries' \ DOMAIN entries : \A f \in DOMAIN entries :
        entries[f].place < entries'[e].place

NewcomersGoLast == [][NewcomersLast]_vars

(* Nobody is called before an earlier comer who goes on waiting, except on *)
(* a FastPass, however old the snapshot of the tick is.                    *)
CalledInTurn ==
    \A e, f \in DOMAIN entries :
        /\ entries[e].status = "WAITING" /\ entries'[e].status = "CALLED"
        /\ entries[f].status = "WAITING" /\ entries'[f].status = "WAITING"
        => entries[e].place < entries[f].place \/ e \in DOMAIN passes

NoOvertaking == [][CalledInTurn]_vars

(* Whoever queues is served in the end, or leaves.                         *)
EveryoneIsServed == \A e \in Entries : (e \in InQueue) ~> (e \notin InQueue)

-----------------------------------------------------------------------------
(* The inductive invariant behind the safety properties.                   *)

(* A request that is about to leave knows of the pass to give back, unless *)
(* the version of its entry has changed since.                             *)
LeaverKnowsPass(m) ==
    m.op \in {"look", "leave"} =>
        /\ m.entry \in DOMAIN entries
        /\ m.version =< entries[m.entry].version
        /\ /\ m.op = "leave"
           /\ m.version = entries[m.entry].version
           /\ m.entry \in ActivePasses
           => m.entry \in m.refund

(* Only the holder of the counter is joining, and it joins behind all.     *)
JoinerHasCounter(w) ==
    txn[w].op = "join" => counterLock = w /\ txn[w].place = nextSequence

PlacesTaken == \A e \in DOMAIN entries : entries[e].place < nextSequence

QueueInv ==
    /\ TypeOK /\ QuotaExact /\ ActivePassHasLiveEntry /\ PlacesTaken
    /\ \A w \in Workers : LeaverKnowsPass(txn[w]) /\ JoinerHasCounter(w)

(* What a tick has seen: places are right, everybody still waiting before  *)
(* somebody it saw was seen waiting, and privileges come from passes.      *)
SnapshotSound(m) ==
    m.op \in {"select", "tick"} =>
        /\ \A e \in DOMAIN m.seen :
               /\ e \in DOMAIN entries
               /\ m.seen[e].place = entries[e].place
               /\ \A f \in InStatus("WAITING") :
                      entries[f].place =< entries[e].place => f \in Seen(m, "WAITING")
        /\ m.op = "tick" => m.privileged \subseteq DOMAIN passes

PlacesDistinct ==
    \A e, f \in DOMAIN entries : entries[e].place = entries[f].place => e = f

OrderInv == /\ QueueInv /\ PlacesDistinct
            /\ \A p \in Publishers : SnapshotSound(txn[p])
=============================================================================
