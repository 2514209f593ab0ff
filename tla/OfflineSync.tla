----------------------------- MODULE OfflineSync -----------------------------
(***************************************************************************)
(* Offline mutations from the outbox of a device to the user's log and on  *)
(* to the user's other devices: push_mutations and pull_mutations of       *)
(* services/offline.py and syncNow of OfflineEmergencyView.ets, with       *)
(* answers that come late or never, an app that is closed at any time, and *)
(* requests that go on after their client has given up.  One user; nothing *)
(* in the protocol crosses users.                                          *)
(***************************************************************************)
EXTENDS Integers, Sequences, FiniteSets, FiniteSetsExt

CONSTANTS
    Devices,
    Workers,        \* requests served concurrently
    Nobody,         \* no request
    Unset,          \* a cursor the device has not got, or has thrown away
    PageLimit,      \* mutations per page of a pull (20)
    MaxPages,       \* pages per synchronisation (20)
    MaxMutations    \* bound: mutations a device ever queues

PagesAssumption == MaxPages \in Nat \ {0}

VARIABLES
    log,            \* offline_mutations, by server_cursor
    nextCursor,     \* user_sync_counters.next_cursor
    confirmed,      \* device_sync_states.cursor
    lastVersion,    \* device_sync_states.last_client_version
    outbox,         \* the OfflineOutbox each device has persisted
    sync,           \* what syncNow of each device is waiting for
    doing           \* what each request is doing

vars == <<log, nextCursor, confirmed, lastVersion, outbox, sync, doing>>

server == <<log, nextCursor, confirmed, lastVersion>>

-----------------------------------------------------------------------------
Mutation(d, n, version) == [device |-> d, id |-> n, version |-> version]

Known(m) == \E c \in DOMAIN log : log[c].device = m.device /\ log[c].id = m.id

(* A cursor the device has not got counts as 0. *)
Decoded(cursor) == IF cursor = Unset THEN 0 ELSE cursor

Idle == [op |-> "idle"]

Pushing(d, base, batch) ==
    [op |-> "push", step |-> "read", device |-> d, base |-> base, batch |-> batch,
     done |-> 0, last |-> 0, from |-> 0, rows |-> <<>>]

Pulling(d, cursor, read) == [op |-> "pull", device |-> d, cursor |-> cursor, read |-> read]

Continue(w, record) == doing' = [doing EXCEPT ![w] = record]

PushOf(w, d) == doing[w].op = "push" /\ doing[w].device = d

(* Rows held to the end of a transaction: the device's from the            *)
(* conditional UPDATE on, the counter's from the first cursor on.          *)
DeviceLocked(d) == \E w \in Workers : PushOf(w, d) /\ doing[w].step = "locked"

(* Bug: the counter is read without locking it. *)
CounterShared(w) == TRUE

CounterFree(w) ==
    \A v \in Workers \ {w} : doing[v].op = "push" => doing[v].rows = <<>>

-----------------------------------------------------------------------------
(* The device. *)

Resting == [step |-> "idle", request |-> Nobody, results |-> {}, pages |-> 0]

Waiting(step, w, results, pages) ==
    [step |-> step, request |-> w, results |-> results, pages |-> pages]

(* The members of a sequence at some of its positions, in their order.     *)
Picked(s, P) ==
    LET upTo[n \in 0 .. Len(s)] ==
            IF n = 0 THEN <<>>
            ELSE IF n \in P THEN Append(upTo[n - 1], s[n]) ELSE upTo[n - 1]
    IN  upTo[Len(s)]

Pending(d) ==
    LET items == outbox[d].items
    IN  Picked(items, {i \in DOMAIN items : ~ items[i].terminal})

(* nextClientVersion *)
NextVersion(d) ==
    Max({outbox[d].last} \cup
        {outbox[d].items[i].mutation.version : i \in DOMAIN outbox[d].items}) + 1

Awaits(d, w) == sync[d].request = w

Init ==
    /\ log = [c \in {} |-> {}]
    /\ nextCursor = 1
    /\ confirmed = [d \in Devices |-> 0]
    /\ lastVersion = [d \in Devices |-> 0]
    /\ outbox = [d \in Devices |->
                   [items |-> <<>>, made |-> 0, cursor |-> Unset, last |-> 0, applied |-> {}]]
    /\ sync = [d \in Devices |-> Resting]
    /\ doing = [w \in Workers |-> Idle]

(* enqueueMutation, at any time. *)
Enqueue(d) ==
    /\ outbox[d].made < MaxMutations
    /\ outbox' = [outbox EXCEPT
         ![d].made = @ + 1,
         ![d].items = Append(@, [mutation |-> Mutation(d, outbox[d].made + 1, NextVersion(d)),
                                 terminal |-> FALSE])]
    /\ UNCHANGED <<server, sync, doing>>

(* syncNow: push what is pending, otherwise begin to pull. *)
SendPush(d, w) ==
    /\ sync[d].step = "idle" /\ Pending(d) # <<>>
    /\ doing[w] = Idle
    /\ Continue(w, Pushing(d, Decoded(outbox[d].cursor),
                           [i \in DOMAIN Pending(d) |-> Pending(d)[i].mutation]))
    /\ sync' = [sync EXCEPT ![d] = Waiting("push", w, {}, 0)]
    /\ UNCHANGED <<server, outbox>>

(* The handler of the pull reads the state of the device first. *)
SendPull(d, w) ==
    /\ \/ sync[d].step = "idle" /\ Pending(d) = <<>>
       \/ sync[d].step = "pull" /\ sync[d].request = Nobody
    /\ doing[w] = Idle
    /\ Continue(w, Pulling(d, Decoded(outbox[d].cursor), confirmed[d]))
    /\ sync' = [sync EXCEPT ![d] = Waiting("pull", w, sync[d].results, sync[d].pages)]
    /\ UNCHANGED <<server, outbox>>

(* handleSyncFailure with no answer, 401 or 5xx: everything stays queued.  *)
(* The request, if it arrived, goes on.  Closing the app is the same, as   *)
(* everything but the wait is persisted.                                   *)
GiveUp(d) ==
    /\ sync[d].step # "idle"
    /\ sync' = [sync EXCEPT ![d] = Resting]
    /\ UNCHANGED <<server, outbox, doing>>

(* markOutboxFailure with 409 or another 4xx: everything queued, even      *)
(* since, becomes terminal.                                                *)
AllTerminal(d) ==
    [outbox EXCEPT ![d].items =
        [i \in DOMAIN @ |-> [@[i] EXCEPT !.terminal = TRUE]]]

(* 429 from the rate limit, before any handler runs. *)
TurnedAway(d) ==
    /\ sync[d].step = "pull" /\ sync[d].request = Nobody
    /\ outbox' = AllTerminal(d)
    /\ sync' = [sync EXCEPT ![d] = Resting]
    /\ UNCHANGED <<server, doing>>

(* discardTerminalMutations, resetSyncCursor and loadSyncStatus *)
Discard(d) ==
    /\ Pending(d) # outbox[d].items
    /\ outbox' = [outbox EXCEPT ![d].items = Pending(d)]
    /\ UNCHANGED <<server, sync, doing>>

Reset(d) ==
    /\ outbox[d].cursor # Unset
    /\ sync[d].step = "idle"
    /\ outbox' = [outbox EXCEPT ![d].cursor = Unset, ![d].applied = {}]
    /\ UNCHANGED <<server, sync, doing>>

LoadStatus(d) ==
    /\ sync[d].step = "idle"
    /\ outbox' = [outbox EXCEPT
         ![d].cursor = IF @ = Unset THEN confirmed[d] ELSE @,
         ![d].last = Max({@, lastVersion[d]})]
    /\ UNCHANGED <<server, sync, doing>>

-----------------------------------------------------------------------------
(* push_mutations: the UPDATE of the device's row, conditional on the      *)
(* version it has read, which every push changes.                          *)
LockDevice(w) ==
    /\ doing[w].op = "push" /\ doing[w].step = "read"
    /\ ~ DeviceLocked(doing[w].device)
    /\ Continue(w, [doing[w] EXCEPT !.step = "locked", !.last = lastVersion[doing[w].device]])
    /\ UNCHANGED <<server, outbox, sync>>

Current(w) == doing[w].batch[doing[w].done + 1]

Working(w) ==
    /\ doing[w].op = "push" /\ doing[w].step = "locked"
    /\ doing[w].done < Len(doing[w].batch)

(* A mutation the log has is replayed. *)
Replay(w) ==
    /\ Working(w) /\ Known(Current(w))
    /\ Continue(w, [doing[w] EXCEPT !.done = @ + 1, !.last = Max({@, Current(w).version})])
    /\ UNCHANGED <<server, outbox, sync>>

(* Bug: the version of a mutation is not compared. *)
NewerOrOlder(w) == TRUE

(* A new one must be newer than the device's last, and takes the next      *)
(* cursor of the counter, whose row it then holds.                         *)
Newer(w) == Current(w).version > doing[w].last

Apply(w) ==
    /\ Working(w) /\ ~ Known(Current(w))
    /\ Newer(w)
    /\ CounterFree(w)
    /\ Continue(w, [doing[w] EXCEPT !.done = @ + 1, !.last = Current(w).version,
                                    !.from = IF doing[w].rows = <<>> THEN nextCursor ELSE @,
                                    !.rows = Append(@, Current(w))])
    /\ UNCHANGED <<server, outbox, sync>>

(* SYNC_CONFLICT, SYNC_CLIENT_VERSION_STALE, or the target of a new        *)
(* acknowledgement is gone or has changed, which depends on what it is     *)
(* about: the whole push is undone.                                        *)
Refuse(w) ==
    /\ \/ doing[w].op = "push" /\ doing[w].step = "beaten"
       \/ Working(w) /\ ~ Known(Current(w))
    /\ LET d == doing[w].device
       IN  IF Awaits(d, w)
           THEN /\ outbox' = AllTerminal(d)
                /\ sync' = [sync EXCEPT ![d] = Resting]
           ELSE UNCHANGED <<outbox, sync>>
    /\ Continue(w, Idle)
    /\ UNCHANGED server

(* The cursors a push has taken. *)
Taken(w) == doing[w].from .. doing[w].from + Len(doing[w].rows) - 1

CommitPush(w) ==
    /\ doing[w].op = "push" /\ doing[w].step = "locked"
    /\ doing[w].done = Len(doing[w].batch)
    /\ LET m == doing[w]
           d == m.device
       IN  /\ log' = [c \in DOMAIN log \cup Taken(w) |->
                        IF c \in Taken(w) THEN m.rows[c - m.from + 1] ELSE log[c]]
           /\ nextCursor' = nextCursor + Len(m.rows)
           /\ lastVersion' = [lastVersion EXCEPT ![d] = m.last]
           /\ confirmed' = [confirmed EXCEPT ![d] = Max({@, m.base})]
           /\ sync' = IF Awaits(d, w)
                      THEN [sync EXCEPT ![d] = Waiting("pull", Nobody,
                                                       {m.batch[i] : i \in DOMAIN m.batch}, 0)]
                      ELSE sync
           /\ doing' = [v \in Workers |->
                          IF v = w THEN Idle
                          ELSE IF PushOf(v, d) THEN [doing[v] EXCEPT !.step = "beaten"]
                          ELSE doing[v]]
    /\ UNCHANGED outbox

-----------------------------------------------------------------------------
(* pull_mutations *)
Page(cursor) ==
    LET later == {c \in DOMAIN log : c > cursor}
    IN  {c \in later : Cardinality({b \in later : b =< c}) =< PageLimit}

More(cursor) == \E c \in DOMAIN log : c > cursor /\ c \notin Page(cursor)

(* Bug: the next cursor is computed from the length of a page. *)
EndOfFullPage(cursor) == cursor + PageLimit

EndOf(cursor) == Max({cursor} \cup Page(cursor))

(* Bug: a synchronisation empties the outbox. *)
NothingUnsent(d) == <<>>

(* removeAppliedOutboxItems *)
Unsent(d) ==
    LET items == outbox[d].items
    IN  Picked(items, {i \in DOMAIN items : items[i].mutation \notin sync[d].results})

(* The cursor is written if it is beyond the one that was read before the  *)
(* page.  A device that still waits stores the page and its end, and when  *)
(* it was the last one, is done with what it has pushed.                   *)
CommitPull(w) ==
    /\ doing[w].op = "pull"
    /\ LET m == doing[w]
           d == m.device
           end == EndOf(m.cursor)
           done == ~ More(m.cursor)
           full == sync[d].pages + 1 = MaxPages
       IN  /\ ~ DeviceLocked(d)
           /\ confirmed' = IF end > m.read THEN [confirmed EXCEPT ![d] = end] ELSE confirmed
           /\ IF ~ Awaits(d, w) THEN UNCHANGED <<outbox, sync>>
              ELSE /\ outbox' = [outbox EXCEPT
                        ![d].applied = @ \cup Page(m.cursor),
                        ![d].cursor = end,
                        ![d].items = IF done THEN Unsent(d) ELSE @,
                        ![d].last = IF done
                                    THEN Max({@} \cup {r.version : r \in sync[d].results})
                                    ELSE @]
                   /\ sync' = [sync EXCEPT
                        ![d] = IF done \/ full THEN Resting
                               ELSE Waiting("pull", Nobody, sync[d].results, sync[d].pages + 1)]
    /\ Continue(w, Idle)
    /\ UNCHANGED <<log, nextCursor, lastVersion>>

(* A crash, or a server error. *)
Rollback(w) ==
    /\ doing[w] # Idle
    /\ Continue(w, Idle)
    /\ sync' = [d \in Devices |-> IF Awaits(d, w) THEN Resting ELSE sync[d]]
    /\ UNCHANGED <<server, outbox>>

Next ==
    \/ \E d \in Devices :
        \/ \E w \in Workers : SendPush(d, w) \/ SendPull(d, w)
        \/ Enqueue(d) \/ GiveUp(d) \/ TurnedAway(d) \/ Discard(d) \/ Reset(d) \/ LoadStatus(d)
    \/ \E w \in Workers :
        \/ LockDevice(w) \/ Replay(w) \/ Apply(w) \/ Refuse(w) \/ CommitPush(w)
        \/ CommitPull(w) \/ Rollback(w)

Spec == Init /\ [][Next]_vars

-----------------------------------------------------------------------------
MutationRow == [device : Devices, id : Nat \ {0}, version : Nat \ {0}]

TypeOK ==
    /\ nextCursor \in Nat \ {0}
    /\ \A c \in DOMAIN log : c \in Nat \ {0} /\ log[c] \in MutationRow
    /\ confirmed \in [Devices -> Nat] /\ lastVersion \in [Devices -> Nat]
    /\ \A d \in Devices :
        /\ outbox[d].items \in Seq([mutation : MutationRow, terminal : BOOLEAN])
        /\ outbox[d].cursor \in Nat \cup {Unset} /\ outbox[d].last \in Nat
        /\ outbox[d].applied \in SUBSET Nat
    /\ \A d \in Devices :
        sync[d] \in [step : {"idle", "push", "pull"}, request : Workers \cup {Nobody},
                     results : SUBSET MutationRow, pages : 0 .. MaxPages]
    /\ \A w \in Workers : doing[w].op \in {"idle", "push", "pull"}

(* The log has no gap and no repetition: a reader of all cursors up to one *)
(* has seen all there will ever be below it, although pushes of several    *)
(* devices take cursors at once, are repeated, and are undone half way.    *)
LogIsGapless ==
    /\ DOMAIN log = 1 .. nextCursor - 1
    /\ \A b, c \in DOMAIN log :
        log[b].device = log[c].device /\ log[b].id = log[c].id => b = c

(* docs/architecture.md:103: in the log, and in the device's state, the    *)
(* versions of a device only increase, however its pushes overlap.         *)
VersionsIncrease ==
    /\ \A b, c \in DOMAIN log :
        log[b].device = log[c].device /\ b < c => log[b].version < log[c].version
    /\ \A c \in DOMAIN log : log[c].version =< lastVersion[log[c].device]

(* A cursor, wherever it is kept, never runs ahead of the log.             *)
CursorsExist ==
    \A d \in Devices :
        /\ confirmed[d] < nextCursor
        /\ outbox[d].cursor # Unset => outbox[d].cursor < nextCursor

(* An outbox gives up a mutation on its own only when the log has it.      *)
OutboxKeepsUnsent ==
    [][\A d \in Devices : \A i \in DOMAIN outbox[d].items :
        LET item == outbox[d].items[i]
        IN  ~ item.terminal =>
              \/ Known(item.mutation)
              \/ \E j \in DOMAIN outbox'[d].items : outbox'[d].items[j].mutation = item.mutation]_vars

(* docs/api.md:457-460: a device moves its checkpoint only past a page it  *)
(* has persisted, so that it misses no mutation of another device.         *)
CheckpointIsPersisted ==
    \A d \in Devices : outbox[d].cursor # Unset =>
        \A c \in DOMAIN log :
            c =< outbox[d].cursor /\ log[c].device # d => c \in outbox[d].applied
=============================================================================
