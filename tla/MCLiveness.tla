----------------------------- MODULE MCLiveness -----------------------------
(***************************************************************************)
(* What must eventually happen in the components that wait or retry.  A    *)
(* behaviour is one of one component, in which the others rest in their    *)
(* initial states; the fairness is that of the component.                  *)
(***************************************************************************)
EXTENDS Integers, Sequences, FiniteSets

CONSTANTS
    w1, w2, p1,             \* requests, and a process or publisher
    u1, u2, k1, k2,         \* users and idempotency keys
    o1, o2, s1, adult,      \* orders, a slot and its ticket type
    e1, e2,                 \* queue entries
    c1, c2,                 \* sockets of a page
    NoKey, Nobody, Redis

VARIABLES
    part,                   \* the component of this behaviour
    orders, due, inventory, tickets, refunds, reschedules, validations, phase,
    scheduleLock, ticketing,
    entries, nextSequence, passes, confirmed, counterLock, queueing,
    messages, messageSequence, posting, waitingEvents, page, socket,
    claims, locking, lapsed, orphaned

ticketingVars == <<orders, due, inventory, tickets, refunds, reschedules, validations,
                   phase, scheduleLock, ticketing>>
queueVars   == <<entries, nextSequence, passes, confirmed, counterLock, queueing>>
supportVars == <<messages, messageSequence, posting, waitingEvents, page, socket>>
locksVars   == <<claims, locking, lapsed, orphaned>>

vars == <<part, ticketingVars, queueVars, supportVars, locksVars>>

RoutesKeys == {<<{1}, {2, 3}>>, <<{1}>>, <<{2, 3}>>}

Ticketing == INSTANCE Ticketing WITH
    txn <- ticketing, Users <- {u1}, Admins <- {}, Orders <- {o1, o2}, Slots <- {s1},
    Keys <- {k1, k2}, GateRequests <- {}, Workers <- {w1, w2}, Capacity <- [s \in {s1} |-> 2],
    TypeOf <- [s \in {s1} |-> adult], MaxQuantity <- 1, SweepLimit <- 1,
    Horizon <- [s \in {s1} |-> 0]

Queue == INSTANCE QueueFastPass WITH
    txn <- queueing, Users <- {u1, u2}, Entries <- {e1, e2}, Keys <- {k1}, Workers <- {w1},
    Publishers <- {p1}, PassCapacity <- 1, DefaultWait <- 1

Support == INSTANCE SupportChannel WITH
    log <- messages, nextSequence <- messageSequence, doing <- posting,
    queue <- waitingEvents, Workers <- {w1, w2}, Sockets <- {c1, c2}, QueueSize <- 1, MaxAttempts <- 1,
    MaxSends <- 1, MaxAgentSends <- 0

Locks == INSTANCE AdvisoryLocks WITH
    doing <- locking, Requests <- {w1, w2}, Keys <- {1, 2, 3}, Shapes <- RoutesKeys,
    Processes <- {p1}, MaxFaults <- 1, AllowDegraded <- TRUE, Free <- Nobody

-----------------------------------------------------------------------------
(* The components at rest do not vary. *)
Init ==
    /\ part \in {"ticketing", "queue", "support", "locks"}
    /\ Ticketing!Init /\ Queue!Init /\ Support!Init /\ Locks!Init
    /\ part # "locks" => \A r \in {w1, w2} : locking[r].stages = <<{1}>>

Next ==
    \/ /\ part = "ticketing" /\ Ticketing!Next
       /\ UNCHANGED <<part, queueVars, supportVars, locksVars>>
    \/ /\ part = "queue" /\ Queue!Next
       /\ UNCHANGED <<part, ticketingVars, supportVars, locksVars>>
    \/ /\ part = "support" /\ Support!Next
       /\ UNCHANGED <<part, ticketingVars, queueVars, locksVars>>
    \/ /\ part = "locks" /\ Locks!Next
       /\ UNCHANGED <<part, ticketingVars, queueVars, supportVars>>

(* Ticketing!Fairness and its like, of the component that does not rest.   *)
TicketingFairness ==
    /\ \A w \in {w1, w2} : WF_ticketingVars(part = "ticketing" /\ Ticketing!Finish(w))
    /\ SF_ticketingVars(part = "ticketing" /\ Ticketing!Lists(u1))
    /\ SF_ticketingVars(part = "ticketing" /\ Ticketing!IsListed(u1))

QueueFairness ==
    /\ WF_queueVars(part = "queue" /\ Queue!SelectEntries(p1))
    /\ SF_queueVars(part = "queue" /\ Queue!SelectPasses(p1))
    /\ SF_queueVars(part = "queue" /\ Queue!CommitTick(p1))

SupportFairness ==
    \A s \in {c1, c2} : /\ WF_supportVars(part = "support" /\ Support!Reconnect(s))
                        /\ WF_supportVars(part = "support" /\ Support!Connects(s))

LocksFairness == \A r \in {w1, w2} : WF_locksVars(part = "locks" /\ Locks!Proceed(r))

FairSpec == /\ Init /\ [][Next]_vars
            /\ TicketingFairness /\ QueueFairness /\ SupportFairness /\ LocksFairness

-----------------------------------------------------------------------------
(* Who waits: a hold that has run out and is not released, an entry that   *)
(* is in the queue, a socket that is connecting, a request that takes its  *)
(* locks.  Orders, entries, sockets and requests are interchangeable.      *)
Waits ==
    \/ part = "ticketing" /\ o1 \in due
    \/ part = "queue" /\ e1 \in Queue!InQueue
    \/ part = "support" /\ socket[c1].state \in {"connecting", "waiting"}
    \/ part = "locks" /\ ~ Locks!Ended(w1)

(* Every wait ends.  A lapsed hold is released by a list of orders or by a *)
(* later request, although a sweep reads a bounded number of orders;       *)
(* whoever queues is called, served and done with, or leaves; a socket     *)
(* opens, gives up after its attempts, or is stopped; a request of two     *)
(* stages of locks runs or is refused, behind claims that lapsed or whose  *)
(* answers were lost.                                                      *)
EveryWaitEnds == Waits ~> ~ Waits
=============================================================================
