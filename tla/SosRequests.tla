----------------------------- MODULE SosRequests -----------------------------
(***************************************************************************)
(* Calls for help: the draft that a device keeps until one is recorded     *)
(* (OfflineEmergencyView.submitSos), the server that records each key once *)
(* (services/safety.py create_sos), and the staff who follow it up         *)
(* (transition_sos).  Requests and answers are lost or late, and the app   *)
(* restarts; nothing is dispatched.                                        *)
(***************************************************************************)
EXTENDS Integers, FiniteSets

CONSTANTS
    Messages,       \* what the form can hold
    Staff,
    Nothing,
    MaxKeys,        \* bound: idempotency keys the device makes
    MaxFlights      \* bound: requests the server is working on

KeyIds == 1 .. MaxKeys

VARIABLES
    rows,           \* sos_requests, by the user's idempotency key
    flights,        \* create_sos requests on their way or half done
    deciding,       \* transition_sos: the row each member of staff has read
    form,           \* the message on the screen
    draft,          \* outbox.local_sos, kept on the device
    pending,        \* PendingIdempotentOperation, kept in memory
    waiting,        \* whether submitSos awaits its answer
    made,           \* keys made so far
    settled         \* keys whose end the device knows

server == <<rows, flights, deciding>>

device == <<form, draft, pending, waiting, made, settled>>

vars == <<rows, flights, deciding, form, draft, pending, waiting, made, settled>>

-----------------------------------------------------------------------------
Row(m) == [message |-> m, status |-> "DEMO_RECEIVED", version |-> 1]

Draft(m, k, status) == [message |-> m, key |-> k, status |-> status]

(* A flight has arrived, or has found no row of its key. *)
Flight(k, m) == [key |-> k, message |-> m, at |-> "sent", heard |-> TRUE]

Init ==
    /\ rows = [k \in KeyIds |-> Nothing]
    /\ flights = {}
    /\ deciding = [s \in Staff |-> Nothing]
    /\ form \in Messages
    /\ draft = Nothing
    /\ pending = [message |-> Nothing, key |-> 0]
    /\ waiting = FALSE
    /\ made = 0
    /\ settled = {}

Edit(m) ==
    /\ form' = m
    /\ UNCHANGED <<draft, pending, waiting, made, settled>>
    /\ UNCHANGED server

(* PendingIdempotentOperation.getOrCreate makes a key for another message; *)
(* a draft that has not failed for good keeps its own.                     *)
MakesKey == pending.key = 0 \/ pending.message # form

PendingKey == IF MakesKey THEN made + 1 ELSE pending.key

LiveDraft == draft # Nothing /\ draft.status # "TERMINAL"

(* Bug: a draft that is kept gets a new key. *)
NewKeyToUse == PendingKey

KeyToUse == IF LiveDraft THEN draft.key ELSE PendingKey

TakeKey ==
    /\ ~ waiting
    /\ MakesKey => made < MaxKeys
    /\ pending' = [message |-> form, key |-> PendingKey]
    /\ made' = IF MakesKey THEN made + 1 ELSE made

(* submitSos without a network: the form becomes the draft. *)
SaveOffline ==
    /\ TakeKey
    /\ draft' = Draft(form, KeyToUse, "PENDING_SYNC")
    /\ UNCHANGED <<form, waiting, settled>>
    /\ UNCHANGED server

(* submitSos with one: a draft that is kept goes first. *)
ToSend ==
    IF LiveDraft THEN Draft(draft.message, draft.key, "PENDING_SYNC")
    ELSE Draft(form, KeyToUse, "PENDING_SYNC")

Submit ==
    /\ TakeKey
    /\ Cardinality(flights) < MaxFlights
    /\ draft' = ToSend
    /\ waiting' = TRUE
    /\ flights' = flights \cup {Flight(ToSend.key, ToSend.message)}
    /\ UNCHANGED <<form, settled, rows, deciding>>

(* A retriable failure, or the network went away: the answer will not be   *)
(* heard, whether or not the request arrives.                              *)
Unheard == {[f EXCEPT !.heard = FALSE] : f \in flights}

GiveUp(lost) ==
    /\ waiting
    /\ waiting' = FALSE
    /\ flights' = {f \in Unheard : ~ (lost /\ f.key = draft.key /\ f.at = "sent")}
    /\ UNCHANGED <<form, draft, pending, made, settled, rows, deciding>>

(* The app starts again: the outbox is restored, the rest is forgotten. *)
Restart(m) ==
    /\ form' = m
    /\ waiting' = FALSE
    /\ pending' = [message |-> Nothing, key |-> 0]
    /\ flights' = Unheard
    /\ UNCHANGED <<draft, made, settled, rows, deciding>>

-----------------------------------------------------------------------------
(* Bug: the hash of the request is not compared. *)
SameKey(f) == TRUE

(* create_sos: the first look. *)
SameRequest(f) == rows[f.key].message = f.message

Look(f) ==
    /\ f.at = "sent" /\ rows[f.key] = Nothing
    /\ flights' = (flights \ {f}) \cup {[f EXCEPT !.at = "absent"]}
    /\ UNCHANGED <<rows, deciding>> /\ UNCHANGED device

(* The device hears that its draft is recorded. *)
HearRecorded ==
    /\ waiting' = FALSE
    /\ draft' = Nothing
    /\ pending' = [message |-> Nothing, key |-> 0]
    /\ settled' = settled \cup {draft.key}
    /\ UNCHANGED <<form, made>>

(* A definitive refusal: the draft ends and its key with it. *)
HearRefused ==
    /\ waiting' = FALSE
    /\ draft' = [draft EXCEPT !.status = "TERMINAL"]
    /\ pending' = [message |-> Nothing, key |-> 0]
    /\ settled' = settled \cup {draft.key}
    /\ UNCHANGED <<form, made>>

Answer(f, recorded) ==
    /\ flights' = flights \ {f}
    /\ IF ~ f.heard THEN UNCHANGED device
       ELSE IF recorded THEN HearRecorded ELSE HearRefused

(* A replay, found before or by the unique index on user and key. *)
Replay(f) ==
    /\ rows[f.key] # Nothing
    /\ Answer(f, SameRequest(f))
    /\ UNCHANGED <<rows, deciding>>

Record(f) ==
    /\ f.at = "absent" /\ rows[f.key] = Nothing
    /\ rows' = [rows EXCEPT ![f.key] = Row(f.message)]
    /\ Answer(f, TRUE)
    /\ UNCHANGED deciding

(* The route node of the call does not exist. *)
Refuse(f) ==
    /\ f.at = "sent" /\ rows[f.key] = Nothing
    /\ Answer(f, FALSE)
    /\ UNCHANGED <<rows, deciding>>

(* The process dies. *)
Fail(f) ==
    /\ ~ f.heard
    /\ flights' = flights \ {f}
    /\ UNCHANGED <<rows, deciding>> /\ UNCHANGED device

-----------------------------------------------------------------------------
(* transition_sos *)
Successor == [DEMO_RECEIVED |-> "ACKNOWLEDGED", ACKNOWLEDGED |-> "RESOLVED"]

Decide(s, k) ==
    /\ deciding[s] = Nothing /\ rows[k] # Nothing
    /\ rows[k].status \in DOMAIN Successor
    /\ deciding' = [deciding EXCEPT ![s] = [key |-> k, row |-> rows[k]]]
    /\ UNCHANGED <<rows, flights>> /\ UNCHANGED device

(* Bug: the UPDATE has no condition on status and version. *)
UnchangedOrNot(read) == TRUE

Unchanged(read) ==
    rows[read.key].status = read.row.status /\ rows[read.key].version = read.row.version

Transition(s) ==
    /\ deciding[s] # Nothing
    /\ LET read == deciding[s]
       IN  rows' = IF Unchanged(read)
                   THEN [rows EXCEPT ![read.key].status = Successor[read.row.status],
                                     ![read.key].version = @ + 1]
                   ELSE rows
    /\ deciding' = [deciding EXCEPT ![s] = Nothing]
    /\ UNCHANGED flights /\ UNCHANGED device

Next ==
    \/ \E m \in Messages : Edit(m) \/ Restart(m)
    \/ SaveOffline \/ Submit
    \/ \E lost \in BOOLEAN : GiveUp(lost)
    \/ \E f \in flights : Look(f) \/ Refuse(f) \/ Replay(f) \/ Record(f) \/ Fail(f)
    \/ \E s \in Staff : Transition(s) \/ \E k \in KeyIds : Decide(s, k)

Spec == Init /\ [][Next]_vars

-----------------------------------------------------------------------------
SosRow == [message : Messages, status : {"DEMO_RECEIVED", "ACKNOWLEDGED", "RESOLVED"},
           version : 1 .. 3]

DraftRow == [message : Messages, key : KeyIds, status : {"PENDING_SYNC", "TERMINAL"}]

Decision == [key : KeyIds, row : SosRow]

FlightRow == [key : KeyIds, message : Messages, at : {"sent", "absent"}, heard : BOOLEAN]

NothingAssumption == Nothing \notin SosRow \cup DraftRow \cup Decision

KeysAssumption == MaxKeys \in Nat

TypeOK ==
    /\ rows \in [KeyIds -> SosRow \cup {Nothing}]
    /\ flights \subseteq FlightRow
    /\ deciding \in [Staff -> Decision \cup {Nothing}]
    /\ form \in Messages
    /\ draft \in DraftRow \cup {Nothing}
    /\ pending.message \in Messages \cup {Nothing} /\ pending.key \in 0 .. made
    /\ made \in 0 .. MaxKeys
    /\ waiting \in BOOLEAN /\ settled \subseteq KeyIds

(* A call that the device has not been answered about is recorded at most  *)
(* once, however often it was sent again, offline, restarted or edited in  *)
(* between.                                                                *)
RecordedOnce ==
    \A j, k \in KeyIds \ settled :
        rows[j] # Nothing /\ rows[k] # Nothing /\ rows[j].message = rows[k].message => j = k

(* The version counts the transitions: two members of staff never make the *)
(* same one.                                                               *)
OneTransitionEach ==
    \A k \in KeyIds : rows[k] # Nothing =>
        rows[k].version = CASE rows[k].status = "DEMO_RECEIVED" -> 1
                            [] rows[k].status = "ACKNOWLEDGED" -> 2
                            [] rows[k].status = "RESOLVED" -> 3

(* The device drops a draft only for a row that says what the draft said. *)
DraftKeptUntilRecorded ==
    [][draft # Nothing /\ draft' = Nothing =>
        rows'[draft.key] # Nothing /\ rows'[draft.key].message = draft.message]_vars
=============================================================================
