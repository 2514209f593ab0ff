------------------------------ MODULE Itinerary ------------------------------
(***************************************************************************)
(* A day's plan: services/itinerary.py and the pages that show it.  The    *)
(* best stops are placed one after the other within the window of the      *)
(* visit; a replan orders the same stops by the crowds last saved, places  *)
(* them again around what is locked, and is written only over the revision *)
(* that its page was showing.  Times are in units of the walking buffer's  *)
(* grain, from the start of the window.                                    *)
(***************************************************************************)
EXTENDS Integers, Sequences, FiniteSets, SequencesExt, FiniteSetsExt

CONSTANTS
    Stops,          \* attractions, as numbers in the order of their codes
    Entrance,
    Visit,          \* minutes spent at each
    Walk,           \* minutes between the places that a route connects
    Levels,         \* crowd levels that occur: 0 is LOW, 1 MEDIUM, 2 HIGH
    Merit,          \* of each for the visitor, whatever the crowds
    Buffer,         \* DEFAULT_WALKING_BUFFER_MINUTES
    Window,         \* duration_minutes
    LockedChoices,  \* sets of intervals that items of other sources may lock
    MostStops,      \* stops of a generated plan
    Pages,
    MaxRevision,    \* bound: revisions of the plan
    MaxSequence     \* bound: saved crowd snapshots

VARIABLES
    snapshots,      \* crowd_snapshots: the levels of each sequence number
    plan,           \* itineraries: the revision, and its stops in time order
    locked,         \* the intervals of locked items
    legacy,         \* whether an older build left admission windows in it
    runs,           \* plan_runs
    shown,          \* the revision each page shows
    doing           \* the replan each page has asked for

vars == <<snapshots, plan, locked, legacy, runs, shown, doing>>

Idle == [revision |-> 0]

Linked(a, b) == <<a, b>> \in DOMAIN Walk

Latest == snapshots[Len(snapshots)]

(* _overlaps: half-open intervals. *)
Overlaps(a, b) == a.start < b.end /\ b.start < a.end

Padded(interval) == [start |-> interval.start - Buffer, end |-> interval.end + Buffer]

Clear(interval, taken) == \A t \in taken : ~ Overlaps(interval, Padded(t))

(* _find_start moves past each interval in its way: the first start that   *)
(* is free.                                                                *)
Interval(start, stop) == [start |-> start, end |-> start + Visit[stop]]

(* Bug: what is locked is not looked at. *)
StartsAtOnce(first, stop, taken) == {first}

Starts(first, stop, taken) ==
    {s \in {first} \cup {t.end + Buffer : t \in taken} :
        s >= first /\ Clear(Interval(s, stop), taken)}

(* What one more stop needs: routes, a time, and the way back. *)
Before(route) == IF route = <<>> THEN [stop |-> Entrance, end |-> -Buffer] ELSE Last(route)

(* Bug: the walk to the next stop takes no time. *)
PlacedWithoutWalk(route, stop, taken) ==
    LET start == Min(Starts(Before(route).end + Buffer, stop, taken))
    IN  [stop |-> stop, start |-> start, end |-> start + Visit[stop]]

Placed(route, stop, taken) ==
    LET first == Before(route).end + Walk[<<Before(route).stop, stop>>] + Buffer
        start == Min(Starts(first, stop, taken))
    IN  [stop |-> stop, start |-> start, end |-> start + Visit[stop]]

Fits(route, stop, taken) ==
    /\ Linked(Before(route).stop, stop) /\ Linked(stop, Entrance)
    /\ Placed(route, stop, taken).end + Walk[<<stop, Entrance>>] <= Window

(* generate_itinerary: by score and code, as many as fit, past those that  *)
(* do not.                                                                 *)
CrowdScore == <<20, 0, -40>>

Score(stop) == Merit[stop] + CrowdScore[Latest[stop] + 1] - 2 * Walk[<<Entrance, stop>>]

Better(a, b) == Score(a) > Score(b) \/ (Score(a) = Score(b) /\ a < b)

Candidates ==
    LET linked == {s \in Stops : Linked(Entrance, s)}
    IN  {order \in [1 .. Cardinality(linked) -> linked] :
            \A i, j \in DOMAIN order : i < j => Better(order[i], order[j])}

Extend(route, stop) ==
    IF Len(route) < MostStops /\ Fits(route, stop, {}) THEN Append(route, Placed(route, stop, {}))
    ELSE route

Generated(order) ==
    LET upTo[n \in 0 .. Len(order)] == IF n = 0 THEN <<>> ELSE Extend(upTo[n - 1], order[n])
    IN  upTo[Len(order)]

Init ==
    /\ snapshots \in [{1} -> [Stops -> Levels]]
    /\ \E order \in Candidates : plan = [revision |-> 1, route |-> Generated(order)]
    /\ locked \in LockedChoices
    /\ legacy \in BOOLEAN
    /\ runs = <<[revision |-> 1, sequence |-> 0, avoids |-> TRUE]>>
    /\ shown = [p \in Pages |-> 1]
    /\ doing = [p \in Pages |-> Idle]

(* The publisher saves a snapshot. *)
CrowdChanges(levels) ==
    /\ Len(snapshots) < MaxSequence
    /\ snapshots' = Append(snapshots, levels)
    /\ UNCHANGED <<plan, locked, legacy, runs, shown, doing>>

-----------------------------------------------------------------------------
(* replan_itinerary: the same stops, the calm ones first if the visitor    *)
(* avoids crowds; all of them or none.                                     *)
CalmBefore(levels, a, b) == levels[a] < levels[b] \/ (levels[a] = levels[b] /\ a < b)

StopsOf(route) == {route[i].stop : i \in DOMAIN route}

OrdersBy(levels, route) ==
    {order \in [DOMAIN route -> StopsOf(route)] :
        \A i, j \in DOMAIN order : i < j => CalmBefore(levels, order[i], order[j])}

(* Bug: the crowds are those of the first snapshot. *)
InFormerOrder(route, avoids) ==
    IF avoids THEN OrdersBy(snapshots[1], route) ELSE {[i \in DOMAIN route |-> route[i].stop]}

InOrder(route, avoids) ==
    IF avoids THEN OrdersBy(Latest, route) ELSE {[i \in DOMAIN route |-> route[i].stop]}

Infeasible == <<[stop |-> Entrance, start |-> 0, end |-> 0]>>

(* Bug: what does not fit is left out. *)
ReplaceWhatFits(route, stop) ==
    IF Fits(route, stop, locked) THEN Append(route, Placed(route, stop, locked)) ELSE route

Replace(route, stop) ==
    IF route # Infeasible /\ Fits(route, stop, locked) THEN Append(route, Placed(route, stop, locked))
    ELSE Infeasible

Replanned(order) ==
    LET upTo[n \in 0 .. Len(order)] == IF n = 0 THEN <<>> ELSE Replace(upTo[n - 1], order[n])
    IN  upTo[Len(order)]

(* The page asks for a replan of the revision it shows; the plan is solved *)
(* in memory.                                                              *)
Solve(p, avoids) ==
    /\ doing[p] = Idle
    /\ plan.revision < MaxRevision
    /\ shown[p] = plan.revision
    /\ \E order \in InOrder(plan.route, avoids) :
        /\ Replanned(order) # Infeasible
        /\ doing' = [doing EXCEPT ![p] =
                [revision |-> shown[p], route |-> Replanned(order),
                 sequence |-> Len(snapshots), avoids |-> avoids]]
    /\ UNCHANGED <<snapshots, plan, locked, legacy, runs, shown>>

(* Bug: the UPDATE has no condition on the revision. *)
HoldsAnyway(p) == TRUE

(* The conditional UPDATE, the items and the run, in one transaction.      *)
(* assessReplan: the page shows an answer only if its revision is higher.  *)
Holds(p) == plan.revision = doing[p].revision

NextRevision(p) == doing[p].revision + 1

Write(p, heard) ==
    /\ doing[p] # Idle
    /\ Holds(p)
    /\ plan' = [revision |-> NextRevision(p), route |-> doing[p].route]
    /\ legacy' = FALSE
    /\ runs' = Append(runs, [revision |-> NextRevision(p), sequence |-> doing[p].sequence,
                             avoids |-> doing[p].avoids])
    /\ shown' = IF heard THEN [shown EXCEPT ![p] = NextRevision(p)] ELSE shown
    /\ doing' = [doing EXCEPT ![p] = Idle]
    /\ UNCHANGED <<snapshots, locked>>

(* REVISION_CONFLICT, or a failure. *)
GiveUp(p) ==
    /\ doing[p] # Idle
    /\ doing' = [doing EXCEPT ![p] = Idle]
    /\ UNCHANGED <<snapshots, plan, locked, legacy, runs, shown>>

Refresh(p) ==
    /\ doing[p] = Idle
    /\ shown' = [shown EXCEPT ![p] = plan.revision]
    /\ UNCHANGED <<snapshots, plan, locked, legacy, runs, doing>>

Next ==
    \/ \E levels \in [Stops -> Levels] : CrowdChanges(levels)
    \/ \E p \in Pages :
        \/ \E avoids \in BOOLEAN : Solve(p, avoids)
        \/ \E heard \in BOOLEAN : Write(p, heard)
        \/ GiveUp(p) \/ Refresh(p)

Spec == Init /\ [][Next]_vars

-----------------------------------------------------------------------------
TimesAssumption ==
    /\ IsFiniteSet(Stops) /\ Stops \subseteq Int /\ Levels \subseteq 0 .. 2
    /\ Visit \in [Stops -> Nat] /\ Merit \in [Stops -> Int]
    /\ Walk \in [DOMAIN Walk -> Nat] /\ Buffer \in Nat /\ Window \in Nat

LockedAssumption ==
    \A taken \in LockedChoices :
        IsFiniteSet(taken) /\ \A t \in taken : t.start \in Int /\ t.end \in Int

BoundsAssumption == MaxRevision \in Nat \ {0} /\ MaxSequence \in Nat \ {0}

ItemRow == [stop : Stops, start : Int, end : Int]

PlanRow == [revision : 1 .. MaxRevision, route : Seq(ItemRow)]

RunRow == [revision : 1 .. MaxRevision, sequence : 0 .. MaxSequence, avoids : BOOLEAN]

Solved ==
    [revision : 1 .. MaxRevision, route : Seq(ItemRow), sequence : 1 .. MaxSequence,
     avoids : BOOLEAN]

TypeOK ==
    /\ snapshots \in Seq([Stops -> Levels]) /\ Len(snapshots) \in 1 .. MaxSequence
    /\ plan \in PlanRow /\ runs \in Seq(RunRow)
    /\ locked \in LockedChoices /\ legacy \in BOOLEAN
    /\ shown \in [Pages -> 1 .. MaxRevision]
    /\ doing \in [Pages -> Solved \cup {Idle}]

(* check_itinerary_conflicts: of two neighbours, the gap must hold the     *)
(* walk and the buffer.                                                    *)
Conflicts(route) ==
    {i \in 1 .. Len(route) - 1 :
        \/ Overlaps(route[i], route[i + 1])
        \/ ~ Linked(route[i].stop, route[i + 1].stop)
        \/ route[i + 1].start - route[i].end < Walk[<<route[i].stop, route[i + 1].stop>>] + Buffer}

(* The planner and the conflict check agree: a plan of either operation    *)
(* has no conflict between its stops, and brings the visitor back to the   *)
(* entrance in time.                                                       *)
PlansPassTheCheck ==
    /\ Conflicts(plan.route) = {}
    /\ plan.route # <<>> =>
        Last(plan.route).end + Walk[<<Last(plan.route).stop, Entrance>>] <= Window

(* A replanned stop keeps the buffer from everything that is locked. *)
LockedIsAvoided ==
    plan.revision > 1 => \A i \in DOMAIN plan.route : Clear(plan.route[i], locked)

(* Each revision has the one run that made it, though two pages replanned  *)
(* at once.                                                                *)
OneRunPerRevision ==
    /\ Len(runs) = plan.revision
    /\ \A i \in DOMAIN runs : runs[i].revision = i

(* The plan is the one its run explains: a visitor who avoids crowds sees  *)
(* the stops in the order of the snapshot the run names.                   *)
RunExplainsThePlan ==
    LET run == Last(runs)
    IN  run.revision > 1 /\ run.avoids =>
            \A i, j \in DOMAIN plan.route : i < j =>
                CalmBefore(snapshots[run.sequence], plan.route[i].stop, plan.route[j].stop)

(* A replan neither loses nor adds a stop. *)
ReplanKeepsTheStops == [][StopsOf(plan'.route) = StopsOf(plan.route)]_vars
=============================================================================
