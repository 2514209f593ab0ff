---------------------------- MODULE AdvisoryLocks ----------------------------
(***************************************************************************)
(* The locks a request takes before its transaction: core/coordination.py. *)
(*                                                                         *)
(* A request holds the keys of each of its stages in their sorted order;   *)
(* a checkout has two, the cart and then what it buys.  The claims are in  *)
(* Redis, or in the process once Redis does not answer.  A claim may run   *)
(* out while it is held, a claim that Redis took may be answered too late, *)
(* and a release may be lost.                                              *)
(***************************************************************************)
EXTENDS Integers, Sequences, FiniteSets, Functions

CONSTANTS
    Requests,
    Keys,           \* as numbers in their sorted order
    Shapes,         \* the stages of keys that the routes ask for
    Processes,
    Redis,
    MaxFaults,      \* bound: claims lapsed under their owner, or lost, at a time
    AllowDegraded,  \* whether a process may fall back on its own claims
    Free

Stores == Processes \cup {Redis}

VARIABLES
    claims,         \* the owner of each key in each store
    doing,          \* each request: its stage, its store, and what it holds
    lapsed,         \* claims that ran out under their owner
    orphaned        \* claims whose owner does not know that it has them

vars == <<claims, doing, lapsed, orphaned>>

Holds(r) == Range(doing[r].held)

Stage(r) == Head(doing[r].stages)

HeldInStage(r) == Range(SubSeq(doing[r].held, doing[r].base + 1, Len(doing[r].held)))

Wanted(r) == {k \in Stage(r) : <<doing[r].store, k>> \notin HeldInStage(r)}

(* Bug: the keys are claimed in no order. *)
AnyWantedKey(r) == Wanted(r)

(* CoordinationLockManager._acquire walks the sorted keys. *)
NextKeys(r) == {k \in Wanted(r) : \A j \in Wanted(r) : k <= j}

NextClaims(r) == {<<doing[r].store, k>> : k \in NextKeys(r)}

Acquiring(r) == doing[r].at = "acquiring"

Faults == Cardinality(lapsed) + Cardinality(orphaned)

Init ==
    /\ claims = [c \in Stores \X Keys |-> Free]
    /\ doing \in [Requests -> [at : {"acquiring"}, stages : Shapes, held : {<<>>},
                               base : {0}, store : {Redis}, home : Processes]]
    /\ lapsed = {} /\ orphaned = {}

-----------------------------------------------------------------------------
(* The body of the route runs when the last stage is complete. *)
Progress(m) ==
    IF Len(m.stages) = 1 THEN [m EXCEPT !.at = "working"]
    ELSE [m EXCEPT !.stages = Tail(@), !.base = Len(m.held), !.store = Redis]

Complete(r) == Wanted(r) = {}

NextStage(r) ==
    /\ Acquiring(r) /\ Complete(r)
    /\ doing' = [doing EXCEPT ![r] = Progress(@)]
    /\ UNCHANGED <<claims, lapsed, orphaned>>

(* CoordinationBackend.claim: SET NX, or the local dictionary. *)
Claim(r, c) ==
    /\ Acquiring(r) /\ c \in NextClaims(r)
    /\ claims[c] = Free
    /\ claims' = [claims EXCEPT ![c] = r]
    /\ doing' = [doing EXCEPT ![r].held = Append(@, c)]
    /\ UNCHANGED <<lapsed, orphaned>>

(* Bug: who gives up forgets what is held. *)
BusyAndGone(r, c) ==
    /\ Acquiring(r) /\ c \in NextClaims(r)
    /\ claims[c] # Free
    /\ doing' = [doing EXCEPT ![r].at = "releasing", ![r].held = <<>>]
    /\ UNCHANGED <<claims, lapsed, orphaned>>

(* Bug: nobody gives up. *)
BusyWaiting(r, c) == FALSE

(* The deadline of the stage has passed: CoordinationBusyError. *)
Busy(r, c) ==
    /\ Acquiring(r) /\ c \in NextClaims(r)
    /\ claims[c] # Free
    /\ doing' = [doing EXCEPT ![r].at = "releasing"]
    /\ UNCHANGED <<claims, lapsed, orphaned>>

(* CoordinationUnavailableError, before or after Redis has done its part. *)
Unavailable(r, c, executed) ==
    /\ Acquiring(r) /\ doing[r].store = Redis /\ c \in NextClaims(r)
    /\ executed => claims[c] = Free /\ Faults < MaxFaults
    /\ IF executed
       THEN claims' = [claims EXCEPT ![c] = r] /\ orphaned' = orphaned \cup {<<r, c>>}
       ELSE UNCHANGED <<claims, orphaned>>
    /\ doing' = [doing EXCEPT ![r].at = IF AllowDegraded THEN "degrading" ELSE "releasing"]
    /\ UNCHANGED lapsed

(* Bug: a release does not compare the owner. *)
ReleasedBlindly(r, c) == [claims EXCEPT ![c] = Free]

(* release_claim compares the owner. *)
Released(r, c) == IF claims[c] = r THEN [claims EXCEPT ![c] = Free] ELSE claims

(* The exit stack closes backwards; a release that Redis never saw is only *)
(* logged.                                                                 *)
Close(r, reached) ==
    LET c == doing[r].held[Len(doing[r].held)]
    IN  /\ ~ reached => c[1] = Redis /\ Faults < MaxFaults
        /\ claims' = IF reached THEN Released(r, c) ELSE claims
        /\ orphaned' = IF ~ reached /\ claims[c] = r THEN orphaned \cup {<<r, c>>} ELSE orphaned
        /\ lapsed' = lapsed \ {<<r, c>>}
        /\ doing' = [doing EXCEPT ![r].held = SubSeq(@, 1, Len(@) - 1)]

CloseStage(r, reached) ==
    /\ doing[r].at = "degrading" /\ Len(doing[r].held) > doing[r].base
    /\ Close(r, reached)

CloseAll(r, reached) ==
    /\ doing[r].at = "releasing" /\ doing[r].held # <<>>
    /\ Close(r, reached)

Degrade(r) ==
    /\ doing[r].at = "degrading" /\ Len(doing[r].held) = doing[r].base
    /\ doing' = [doing EXCEPT ![r].at = "acquiring", ![r].store = doing[r].home]
    /\ UNCHANGED <<claims, lapsed, orphaned>>

(* The transaction has ended, whatever became of it. *)
Work(r) ==
    /\ doing[r].at = "working"
    /\ doing' = [doing EXCEPT ![r].at = "releasing"]
    /\ UNCHANGED <<claims, lapsed, orphaned>>

(* The time to live of a claim. *)
Lapse(c) ==
    /\ claims[c] # Free
    /\ claims' = [claims EXCEPT ![c] = Free]
    /\ orphaned' = orphaned \ {<<claims[c], c>>}
    /\ IF c \in Holds(claims[c])
       THEN Faults < MaxFaults /\ lapsed' = lapsed \cup {<<claims[c], c>>}
       ELSE UNCHANGED lapsed
    /\ UNCHANGED doing

(* What a request does unless a call fails. *)
Proceed(r) ==
    \/ NextStage(r) \/ Work(r) \/ Degrade(r)
    \/ \E c \in NextClaims(r) : Claim(r, c) \/ Busy(r, c)
    \/ CloseStage(r, TRUE) \/ CloseAll(r, TRUE)

Step(r) ==
    \/ Proceed(r)
    \/ \E c \in NextClaims(r), executed \in BOOLEAN : Unavailable(r, c, executed)
    \/ CloseStage(r, FALSE) \/ CloseAll(r, FALSE)

Next == (\E r \in Requests : Step(r)) \/ (\E c \in Stores \X Keys : Lapse(c))

Spec == Init /\ [][Next]_vars

(* The event loop runs a request that is not waiting for an answer, and    *)
(* the wait for a claim has a deadline.  No fault has to happen.           *)
FairSpec == Spec /\ \A r \in Requests : WF_vars(Proceed(r))

-----------------------------------------------------------------------------
RequestsAssumption == IsFiniteSet(Requests) /\ Free \notin Requests

StoresAssumption == Redis \notin Processes

(* The key of a cart is asked for alone, in a stage before the others: no  *)
(* route asks for it together with another, or after one.                  *)
Ordered(carts, stages) ==
    /\ stages \in Seq((SUBSET Keys) \ {{}})
    /\ \/ Len(stages) = 1 /\ (stages[1] \subseteq carts \/ stages[1] \cap carts = {})
       \/ Len(stages) = 2 /\ stages[1] \subseteq carts /\ stages[2] \cap carts = {}

ShapesAssumption ==
    /\ Keys \subseteq Int
    /\ \E carts \in SUBSET Keys : \A stages \in Shapes : Ordered(carts, stages)

Locking ==
    [at : {"acquiring", "degrading", "working", "releasing"}, stages : Seq(SUBSET Keys),
     held : Seq(Stores \X Keys), base : Nat, store : Stores, home : Processes]

TypeOK ==
    /\ claims \in [Stores \X Keys -> Requests \cup {Free}]
    /\ doing \in [Requests -> Locking]
    /\ \A r \in Requests : doing[r].at # "releasing" => doing[r].base <= Len(doing[r].held)
    /\ lapsed \subseteq Requests \X (Stores \X Keys)
    /\ orphaned \subseteq Requests \X (Stores \X Keys)

(* A request owns what it believes it holds unless the time of the claim   *)
(* ran out: two requests never hold one key of one store otherwise.        *)
HoldersOwn ==
    \A r \in Requests : \A c \in Holds(r) : claims[c] = r \/ <<r, c>> \in lapsed

(* A claim that nobody will release is one whose answer or whose release   *)
(* was lost: giving up, degrading and failing leave none behind.           *)
NothingLeaks ==
    \A c \in Stores \X Keys : LET r == claims[c] IN
        r # Free => c \in Holds(r) \/ <<r, c>> \in orphaned

(* Requests never wait for one another in a circle, whichever keys their   *)
(* stages share and whichever stores they ended up in.                     *)
WaitsFor(r) == IF Acquiring(r) THEN {claims[c] : c \in NextClaims(r)} \ {Free} ELSE {}

NoCircle ==
    ~ \E S \in (SUBSET Requests) \ {{}} :
        \A r \in S : \E s \in S : s \in WaitsFor(r) /\ Acquiring(s)

(* Every request runs its route or gives up, and lets go of everything,    *)
(* even behind a claim that its owner has lost.                            *)
Ended(r) == doing[r].at = "releasing" /\ doing[r].held = <<>>

EveryRequestEnds == \A r \in Requests : <>Ended(r)
=============================================================================
