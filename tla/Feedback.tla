------------------------------ MODULE Feedback ------------------------------
(***************************************************************************)
(* Feedback tickets: services/engagement.py.  A visitor submits one, staff *)
(* are assigned, one of them resolves it, the visitor rates it.  Every     *)
(* operation loads the ticket, checks it, and then changes it where its    *)
(* status and version are still those it loaded; the change, the rating    *)
(* and the history entry are one transaction, after which the row stays    *)
(* locked until the commit.                                                *)
(***************************************************************************)
EXTENDS Integers, Sequences, SequencesExt

CONSTANTS
    Staff,          \* users with the support role
    Admins,         \* of them, the administrators
    Workers,        \* requests served concurrently
    Nobody,
    MaxVersion      \* bound: changes of the ticket

AdminsAreStaff == Admins \subseteq Staff

VARIABLES
    ticket,         \* feedback
    events,         \* feedback_events
    ratings,        \* feedback_followups, in their number
    doing           \* what each request has loaded or updated

vars == <<ticket, events, ratings, doing>>

Idle == [at |-> "idle"]

Event(action, from, to, actor) == [action |-> action, from |-> from, to |-> to, actor |-> actor]

(* create_feedback: the ticket and its first event. *)
Init ==
    /\ ticket = [status |-> "SUBMITTED", assignee |-> Nobody, version |-> 1]
    /\ events = <<Event("SUBMIT", "NONE", "SUBMITTED", Nobody)>>
    /\ ratings = 0
    /\ doing = [w \in Workers |-> Idle]

Continue(w, record) == doing' = [doing EXCEPT ![w] = record]

(* A request that passed its checks on the ticket it loaded. *)
Loaded(action, actor, assignee, to) ==
    [at |-> "loaded", action |-> action, actor |-> actor, assignee |-> assignee, to |-> to,
     read |-> ticket]

BeginAssign(w, actor, assignee) ==
    /\ doing[w] = Idle
    /\ ticket.status \in {"SUBMITTED", "IN_PROGRESS"}
    /\ Continue(w, Loaded("ASSIGN", actor, assignee, "IN_PROGRESS"))
    /\ UNCHANGED <<ticket, events, ratings>>

MayResolve(actor) == ticket.assignee = actor \/ actor \in Admins

BeginResolve(w, actor) ==
    /\ doing[w] = Idle
    /\ ticket.status = "IN_PROGRESS"
    /\ MayResolve(actor)
    /\ Continue(w, Loaded("RESOLVE", actor, ticket.assignee, "RESOLVED"))
    /\ UNCHANGED <<ticket, events, ratings>>

BeginFollowUp(w) ==
    /\ doing[w] = Idle
    /\ ticket.status = "RESOLVED" /\ ratings = 0
    /\ Continue(w, Loaded("FOLLOW_UP", Nobody, ticket.assignee, "CLOSED"))
    /\ UNCHANGED <<ticket, events, ratings>>

(* The conditional UPDATE takes the row's lock, or the request ends with   *)
(* FEEDBACK_CONFLICT.                                                      *)
RowIsFree == \A w \in Workers : doing[w].at # "updated"

(* Bug: the UPDATE has no condition. *)
StillThere(read) == TRUE

(* Bug: the UPDATE has no condition on the version. *)
StillInItsStatus(read) == ticket.status = read.status

StillAsRead(read) == ticket.status = read.status /\ ticket.version = read.version

Update(w) ==
    /\ doing[w].at = "loaded"
    /\ RowIsFree
    /\ Continue(w, IF StillAsRead(doing[w].read) THEN [doing[w] EXCEPT !.at = "updated"] ELSE Idle)
    /\ UNCHANGED <<ticket, events, ratings>>

(* The UPDATE adds one to the version of the row. *)
Commit(w) ==
    /\ doing[w].at = "updated"
    /\ LET m == doing[w]
       IN  /\ ticket' = [status |-> m.to, assignee |-> m.assignee, version |-> ticket.version + 1]
           /\ events' = Append(events, Event(m.action, m.read.status, m.to, m.actor))
           /\ ratings' = ratings + (IF m.action = "FOLLOW_UP" THEN 1 ELSE 0)
    /\ Continue(w, Idle)

(* The request fails, before its UPDATE or after it. *)
Abort(w) ==
    /\ doing[w] # Idle
    /\ Continue(w, Idle)
    /\ UNCHANGED <<ticket, events, ratings>>

Next ==
    \E w \in Workers :
        \/ ticket.version < MaxVersion /\ \E actor, assignee \in Staff : BeginAssign(w, actor, assignee)
        \/ \E actor \in Staff : BeginResolve(w, actor)
        \/ BeginFollowUp(w) \/ Update(w) \/ Commit(w) \/ Abort(w)

Spec == Init /\ [][Next]_vars

-----------------------------------------------------------------------------
Status == {"SUBMITTED", "IN_PROGRESS", "RESOLVED", "CLOSED"}

TicketRow == [status : Status, assignee : Staff \cup {Nobody}, version : Nat]

EventRow == [action : {"SUBMIT", "ASSIGN", "RESOLVE", "FOLLOW_UP"}, from : Status \cup {"NONE"},
             to : Status, actor : Staff \cup {Nobody}]

TypeOK ==
    /\ ticket \in TicketRow /\ events \in Seq(EventRow) /\ ratings \in Nat
    /\ \A w \in Workers : doing[w].at \in {"idle", "loaded", "updated"}

(* The history is the ticket's: one entry for each version, each from      *)
(* where the one before it led, the last to the present status.            *)
HistoryIsTheTickets ==
    /\ Len(events) = ticket.version
    /\ Last(events).to = ticket.status
    /\ \A i \in 1 .. Len(events) - 1 : events[i].to = events[i + 1].from

(* Nobody but an administrator resolves what has meanwhile been given to   *)
(* another: the resolution is by who is assigned when it commits.          *)
ResolvedByItsAssignee ==
    [][ticket'.status = "RESOLVED" /\ ticket.status # "RESOLVED" =>
        Last(events').actor \in Admins \cup {ticket.assignee}]_vars

(* A closed ticket has one rating, an open one none, and it stays closed. *)
RatedOnce == ratings = (IF ticket.status = "CLOSED" THEN 1 ELSE 0)
=============================================================================
