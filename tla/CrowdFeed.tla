------------------------------ MODULE CrowdFeed ------------------------------
(***************************************************************************)
(* Simulated crowd snapshots: the publishers of several processes that     *)
(* elect one of them per period, the hub of each process and the Redis     *)
(* channel between them, and the guide page that follows over a socket and *)
(* over REST at once: realtime/crowd.py, services/guide.py, GuidePage.ets. *)
(***************************************************************************)
EXTENDS Integers, Sequences, FiniteSets, FiniteSetsExt

CONSTANTS
    Processes,
    Nowhere,        \* no process, no answer
    MaxSequence     \* bound: snapshots ever taken

VARIABLES
    snapshots,      \* crowd_snapshots: which process took which
    window,         \* "publisher:crowd" has been claimed for this period
    tick,           \* what the publisher of each process is doing
    wire,           \* the channel, as it will reach each process
    connection,     \* the page's connection: its process, stage and queue
    page            \* what the page shows and waits for

vars == <<snapshots, window, tick, wire, connection, page>>

Latest == Max({0} \cup {s.sequence : s \in snapshots})

Waiting == [step |-> "sleep"]

Unconnected == [process |-> Nowhere, stage |-> "none", queue |-> <<>>]

Init ==
    /\ snapshots = {} /\ window = FALSE
    /\ tick = [p \in Processes |-> Waiting]
    /\ wire = [p \in Processes |-> <<>>]
    /\ connection = Unconnected
    /\ page = [shown |-> -1, answer |-> Nowhere]

Continue(p, record) == tick' = [tick EXCEPT ![p] = record]

-----------------------------------------------------------------------------
(* CrowdPublisher.publish_once *)

(* _is_tick_leader: the first in a period, or any that cannot ask.         *)
Lead(p) ==
    /\ tick[p].step = "sleep"
    /\ Latest < MaxSequence
    /\ \/ ~ window /\ window' = TRUE
       \/ UNCHANGED window
    /\ Continue(p, [step |-> "read"])
    /\ UNCHANGED <<snapshots, wire, connection, page>>

PeriodEnds ==
    /\ window
    /\ window' = FALSE
    /\ UNCHANGED <<snapshots, tick, wire, connection, page>>

(* simulate_crowd_tick *)
Read(p) ==
    /\ tick[p].step = "read"
    /\ Continue(p, [step |-> "write", base |-> Latest])
    /\ UNCHANGED <<snapshots, window, wire, connection, page>>

(* Bug: nothing makes attraction and sequence unique. *)
SequenceIsAny(n) == TRUE

(* Unique on attraction and sequence. *)
SequenceIsNew(n) == n \notin {s.sequence : s \in snapshots}

Write(p) ==
    /\ tick[p].step = "write"
    /\ SequenceIsNew(tick[p].base + 1)
    /\ snapshots' = snapshots \cup {[sequence |-> tick[p].base + 1, by |-> p]}
    /\ Continue(p, [step |-> "reread"])
    /\ UNCHANGED <<window, wire, connection, page>>

(* A crash, or a sequence that is taken: the tick is over. *)
TickFails(p) ==
    /\ tick[p].step # "sleep"
    /\ Continue(p, Waiting)
    /\ UNCHANGED <<snapshots, window, wire, connection, page>>

(* Bug: the event announces the number that the next tick will take. *)
RereadAhead(p) ==
    /\ tick[p].step = "reread"
    /\ Continue(p, [step |-> "local", event |-> Latest + 1])
    /\ UNCHANGED <<snapshots, window, wire, connection, page>>

Reread(p) ==
    /\ tick[p].step = "reread"
    /\ Continue(p, [step |-> "local", event |-> Latest])
    /\ UNCHANGED <<snapshots, window, wire, connection, page>>

(* ConnectionHub._broadcast_local: the newcomer replaces what waits. *)
Fanned(p, event) ==
    IF connection.stage = "open" /\ connection.process = p
    THEN [connection EXCEPT !.queue = <<event>>]
    ELSE connection

BroadcastLocal(p) ==
    /\ tick[p].step = "local"
    /\ connection' = Fanned(p, tick[p].event)
    /\ Continue(p, [tick[p] EXCEPT !.step = "publish"])
    /\ UNCHANGED <<snapshots, window, wire, page>>

(* Published, or lost with Redis. *)
Publish(p) ==
    /\ tick[p].step = "publish"
    /\ \/ wire' = [q \in Processes |->
                     IF q = p THEN wire[q] ELSE Append(wire[q], tick[p].event)]
       \/ UNCHANGED wire
    /\ Continue(p, Waiting)
    /\ UNCHANGED <<snapshots, window, connection, page>>

(* ConnectionHub._receive, of what another process has published. *)
Receive(p) ==
    /\ wire[p] # <<>>
    /\ connection' = Fanned(p, Head(wire[p]))
    /\ wire' = [wire EXCEPT ![p] = Tail(@)]
    /\ UNCHANGED <<snapshots, window, tick, page>>

-----------------------------------------------------------------------------
(* crowd_websocket: the snapshot is read and sent before the connection is *)
(* registered.                                                             *)
Connect(p) ==
    /\ connection = Unconnected
    /\ connection' = [process |-> p, stage |-> "greeted", queue |-> <<Latest>>]
    /\ UNCHANGED <<snapshots, window, tick, wire, page>>

(* Bug: the page shows whatever came last. *)
AcceptedAny(sequence) == TRUE

(* acceptCrowdSnapshot *)
Accepted(sequence) == sequence > page.shown

Showing(sequence) == IF Accepted(sequence) THEN [page EXCEPT !.shown = sequence] ELSE page

Register ==
    /\ connection.stage = "greeted"
    /\ page' = Showing(Head(connection.queue))
    /\ connection' = [connection EXCEPT !.stage = "open", !.queue = <<>>]
    /\ UNCHANGED <<snapshots, window, tick, wire>>

Deliver ==
    /\ connection.stage = "open" /\ connection.queue # <<>>
    /\ page' = Showing(Head(connection.queue))
    /\ connection' = [connection EXCEPT !.queue = <<>>]
    /\ UNCHANGED <<snapshots, window, tick, wire>>

Disconnect ==
    /\ connection # Unconnected
    /\ connection' = Unconnected
    /\ UNCHANGED <<snapshots, window, tick, wire, page>>

(* refreshCrowd, and its answer, which others may overtake. *)
Ask ==
    /\ page.answer = Nowhere
    /\ page' = [page EXCEPT !.answer = Latest]
    /\ UNCHANGED <<snapshots, window, tick, wire, connection>>

Answered ==
    /\ page.answer # Nowhere
    /\ page' = [Showing(page.answer) EXCEPT !.answer = Nowhere]
    /\ UNCHANGED <<snapshots, window, tick, wire, connection>>

Next ==
    \/ \E p \in Processes :
        \/ Lead(p) \/ Read(p) \/ Write(p) \/ TickFails(p) \/ Reread(p)
        \/ BroadcastLocal(p) \/ Publish(p) \/ Receive(p) \/ Connect(p)
    \/ PeriodEnds \/ Register \/ Deliver \/ Disconnect \/ Ask \/ Answered

Spec == Init /\ [][Next]_vars

-----------------------------------------------------------------------------
SnapshotRow == [sequence : Nat \ {0}, by : Processes]

Tick ==
    [step : {"sleep", "read", "reread"}] \cup [step : {"write"}, base : Nat]
        \cup [step : {"local", "publish"}, event : Nat]

TypeOK ==
    /\ snapshots \subseteq SnapshotRow
    /\ window \in BOOLEAN
    /\ tick \in [Processes -> Tick]
    /\ wire \in [Processes -> Seq(Nat)]
    /\ connection \in [process : Processes \cup {Nowhere}, stage : {"none", "greeted", "open"},
                       queue : Seq(Nat)]
    /\ Len(connection.queue) =< 1
    /\ page \in [shown : Nat \cup {-1}, answer : Nat \cup {Nowhere}]

(* Snapshots are numbered without a gap, and a number is one snapshot,     *)
(* even when the election fails and several processes tick at once.        *)
SnapshotsAreNumbered ==
    /\ {s.sequence : s \in snapshots} = 1 .. Latest
    /\ Cardinality(snapshots) = Latest

(* An event carries a number that has been persisted. *)
EventsArePersisted ==
    /\ \A p \in Processes : \A i \in DOMAIN wire[p] : wire[p][i] =< Latest
    /\ page.shown =< Latest
    /\ \A i \in DOMAIN connection.queue : connection.queue[i] =< Latest

(* docs/innovations.md:20: late and repeated snapshots, over REST and over *)
(* the socket, of whichever process, do not turn the board back.           *)
BoardNeverGoesBack == [][page'.shown >= page.shown]_vars
=============================================================================
