---------------------------- MODULE SocketTickets ----------------------------
(***************************************************************************)
(* The one-time tickets that open a socket: QueueTicketStore and           *)
(* SupportTicketStore, over Redis, and over each process's own store while *)
(* Redis does not answer.  A call may fail before Redis has done its part  *)
(* or after it.                                                            *)
(***************************************************************************)
EXTENDS Integers, FiniteSets

CONSTANTS
    Tickets,
    Processes

VARIABLES
    shared,         \* tickets in Redis
    own,            \* tickets in the fallback store of each process
    localOnly,      \* tickets a process knows to be only there
    issued,
    taken,          \* times each ticket was handed out by a store
    twice           \* tickets stored in both places because an answer was lost

vars == <<shared, own, localOnly, issued, taken, twice>>

Init ==
    /\ shared = {} /\ twice = {}
    /\ own = [p \in Processes |-> {}]
    /\ localOnly = [p \in Processes |-> {}]
    /\ issued = {}
    /\ taken = [t \in Tickets |-> 0]

(* What became of a call to Redis. *)
Calls == {"answered", "unreached", "unanswered"}

Executed(call) == call # "unreached"

(* issue *)
Issue(p, t, call) ==
    /\ t \notin issued
    /\ issued' = issued \cup {t}
    /\ shared' = IF Executed(call) THEN shared \cup {t} ELSE shared
    /\ IF call = "answered"
       THEN UNCHANGED <<own, localOnly>>
       ELSE /\ own' = [own EXCEPT ![p] = @ \cup {t}]
            /\ localOnly' = [localOnly EXCEPT ![p] = @ \cup {t}]
    /\ twice' = IF call = "unanswered" THEN twice \cup {t} ELSE twice
    /\ UNCHANGED taken

(* consume: a ticket is taken before its channel and its time are          *)
(* compared, so that showing it at the wrong one spends it.                *)
Found(p, t, call) ==
    IF call = "answered" THEN t \in shared \/ (t \in localOnly[p] /\ t \in own[p])
    ELSE t \in own[p]

(* Bug: a ticket that is shown stays in the store of the process. *)
TakesNone(p, t, call) == FALSE

TakesOwn(p, t, call) ==
    call # "answered" \/ (t \notin shared /\ t \in localOnly[p])

Consume(p, t, call) ==
    /\ t \in issued
    /\ shared' = IF Executed(call) THEN shared \ {t} ELSE shared
    /\ own' = IF TakesOwn(p, t, call) THEN [own EXCEPT ![p] = @ \ {t}] ELSE own
    /\ localOnly' = [localOnly EXCEPT ![p] = @ \ {t}]
    /\ taken' = IF Found(p, t, call) THEN [taken EXCEPT ![t] = @ + 1] ELSE taken
    /\ UNCHANGED <<issued, twice>>

(* The time to live, the same in every store. *)
Expire(t) ==
    /\ t \in issued
    /\ shared' = shared \ {t}
    /\ own' = [p \in Processes |-> own[p] \ {t}]
    /\ localOnly' = [p \in Processes |-> localOnly[p] \ {t}]
    /\ UNCHANGED <<issued, taken, twice>>

(* A process starts again with empty stores. *)
Restart(p) ==
    /\ own' = [own EXCEPT ![p] = {}]
    /\ localOnly' = [localOnly EXCEPT ![p] = {}]
    /\ UNCHANGED <<shared, issued, taken, twice>>

Next ==
    \/ \E p \in Processes, t \in Tickets, call \in Calls :
        Issue(p, t, call) \/ Consume(p, t, call)
    \/ \E t \in Tickets : Expire(t)
    \/ \E p \in Processes : Restart(p)

Spec == Init /\ [][Next]_vars

-----------------------------------------------------------------------------
TypeOK ==
    /\ shared \subseteq Tickets /\ twice \subseteq Tickets
    /\ own \in [Processes -> SUBSET Tickets] /\ localOnly \in [Processes -> SUBSET Tickets]
    /\ issued \subseteq Tickets /\ taken \in [Tickets -> Nat]

(* A ticket is handed out once, to whichever process it is shown and       *)
(* however Redis fails between them, unless the answer to its own storing  *)
(* was lost and it was stored a second time.                               *)
TakenOnce == \A t \in Tickets \ twice : taken[t] <= 1
=============================================================================
