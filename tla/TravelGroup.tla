----------------------------- MODULE TravelGroup -----------------------------
(***************************************************************************)
(* A travel group: invitations, the owner's privacy switches and linked    *)
(* itinerary, and the members' status and location, by requests that load  *)
(* the group, work on what they have loaded, and write the difference:     *)
(* services/groups.py under READ COMMITTED.                                *)
(***************************************************************************)
EXTENDS Integers, FiniteSets

CONSTANTS
    Users,
    Owner,
    Workers,        \* requests served concurrently
    Itineraries,    \* the owner's
    Places,
    Nothing,        \* no coordinates, no itinerary, a field that is not given
    MaxRevision     \* bound: revisions of the group

OwnerAssumption == Owner \in Users

RevisionAssumption == MaxRevision \in Nat

VARIABLES
    group,          \* travel_groups: its revision, switches and itinerary
    members,        \* group_members: of whom
    sharing,        \* share_location of each
    place,          \* latitude_e6 and longitude_e6 of each
    inviting,       \* the invite has not expired
    doing,          \* what each request is doing
    raced           \* members who wrote a place over a closing of the group's sharing

vars == <<group, members, sharing, place, inviting, doing, raced>>

Idle == [op |-> "idle"]

Continue(w, record) == doing' = [doing EXCEPT ![w] = record]

Init ==
    /\ group = [revision |-> 1, location |-> FALSE, status |-> TRUE, itinerary |-> Nothing]
    /\ members = {Owner}
    /\ sharing = [u \in Users |-> FALSE]
    /\ place = [u \in Users |-> Nothing]
    /\ inviting = TRUE
    /\ doing = [w \in Workers |-> Idle]
    /\ raced = {}

(* accessible_group, and the rows the request will compare with. *)
Loaded(op, u) ==
    [op |-> op, user |-> u, group |-> group, places |-> place, sharing |-> sharing[u],
     closed |-> FALSE]

Begin(w, op, u) ==
    /\ doing[w] = Idle
    /\ group.revision < MaxRevision
    /\ op = "join" => inviting /\ u \notin members
    /\ op # "join" => u \in members
    /\ op \in {"privacy", "link"} => u = Owner
    /\ Continue(w, Loaded(op, u))
    /\ UNCHANGED <<group, members, sharing, place, inviting, raced>>

InviteExpires ==
    /\ inviting
    /\ inviting' = FALSE
    /\ UNCHANGED <<group, members, sharing, place, doing, raced>>

(* group.revision += 1 writes the revision that was loaded, plus one. *)
Touched(w) == [group EXCEPT !.revision = doing[w].group.revision + 1]

(* join_group: unique on group and user; the loser of a race is a member.  *)
Join(w) ==
    /\ doing[w].op = "join"
    /\ members' = members \cup {doing[w].user}
    /\ group' = IF doing[w].user \in members THEN group ELSE Touched(w)
    /\ Continue(w, Idle)
    /\ UNCHANGED <<sharing, place, inviting, raced>>

(* create_meeting_point *)
Meet(w) ==
    /\ doing[w].op = "meet"
    /\ group' = Touched(w)
    /\ Continue(w, Idle)
    /\ UNCHANGED <<members, sharing, place, inviting, raced>>

(* link_group_itinerary, for the revision a page holds. *)
Link(w, itinerary, expected) ==
    /\ doing[w].op = "link"
    /\ group' = IF group.revision = expected
                THEN [group EXCEPT !.itinerary = itinerary, !.revision = @ + 1]
                ELSE group
    /\ Continue(w, Idle)
    /\ UNCHANGED <<members, sharing, place, inviting, raced>>

(* Bug: the owner's own place is erased, and nobody else's. *)
ErasedOwn(w) == {u \in {Owner} : doing[w].places[u] # Nothing}

(* update_group_privacy: switching location off erases the places that     *)
(* were loaded.                                                            *)
Erased(w) == {u \in members : doing[w].places[u] # Nothing}

(* Requests that have loaded a group that shares. *)
Overtaken(w, v) ==
    IF v = w THEN Idle
    ELSE IF doing[v].op = "status" /\ doing[v].group.location
         THEN [doing[v] EXCEPT !.closed = TRUE] ELSE doing[v]

SetPrivacy(w, location, status) ==
    /\ doing[w].op = "privacy"
    /\ group.revision = doing[w].group.revision
    /\ group' = [group EXCEPT !.location = location, !.status = status, !.revision = @ + 1]
    /\ IF location
       THEN /\ Continue(w, Idle)
            /\ UNCHANGED <<place, raced>>
       ELSE /\ place' = [u \in Users |-> IF u \in Erased(w) THEN Nothing ELSE place[u]]
            /\ raced' = {u \in raced : place'[u] # Nothing}
                          \cup {u \in members : place[u] # Nothing /\ doing[w].places[u] = Nothing}
            /\ doing' = [v \in Workers |-> Overtaken(w, v)]
    /\ UNCHANGED <<members, sharing, inviting>>

(* A revision that has changed, a crash, or a refusal. *)
Abandon(w) ==
    /\ doing[w] # Idle
    /\ Continue(w, Idle)
    /\ UNCHANGED <<group, members, sharing, place, inviting, raced>>

(* update_member_status: what is written is what differs from what was     *)
(* loaded.                                                                 *)
WantsPlace(w, share, where) ==
    IF doing[w].group.location /\ share /\ where # Nothing THEN where
    ELSE IF where # Nothing \/ ~ share THEN Nothing
    ELSE doing[w].places[doing[w].user]

UpdateStatus(w, asked, where) ==
    /\ doing[w].op = "status"
    /\ LET m == doing[w]
           u == m.user
           share == IF asked = Nothing THEN m.sharing ELSE asked
           wanted == WantsPlace(w, share, where)
       IN  /\ sharing' = IF share # m.sharing THEN [sharing EXCEPT ![u] = share] ELSE sharing
           /\ place' = IF wanted # m.places[u] THEN [place EXCEPT ![u] = wanted] ELSE place
           /\ raced' = IF place'[u] = Nothing THEN raced \ {u}
                       ELSE IF m.closed /\ wanted # m.places[u] THEN raced \cup {u}
                       ELSE raced
    /\ group' = Touched(w)
    /\ Continue(w, Idle)
    /\ UNCHANGED <<members, inviting>>

Next ==
    \/ \E w \in Workers :
        \/ \E op \in {"join", "meet", "link", "privacy", "status"}, u \in Users : Begin(w, op, u)
        \/ Join(w) \/ Meet(w) \/ Abandon(w)
        \/ \E itinerary \in Itineraries \cup {Nothing}, expected \in 1 .. MaxRevision :
            Link(w, itinerary, expected)
        \/ \E location, status \in BOOLEAN : SetPrivacy(w, location, status)
        \/ \E asked \in {TRUE, FALSE, Nothing}, where \in Places \cup {Nothing} :
            UpdateStatus(w, asked, where)
    \/ InviteExpires

Spec == Init /\ [][Next]_vars

-----------------------------------------------------------------------------
GroupRow == [revision : 1 .. MaxRevision + 1, location : BOOLEAN, status : BOOLEAN,
             itinerary : Itineraries \cup {Nothing}]

MemberRow(u) == [sharing |-> sharing[u], place |-> place[u]]

TypeOK ==
    /\ group \in GroupRow
    /\ members \in SUBSET Users /\ Owner \in members
    /\ \A u \in Users : MemberRow(u) \in [sharing : BOOLEAN, place : Places \cup {Nothing}]
    /\ raced \in SUBSET members /\ inviting \in BOOLEAN
    /\ \A w \in Workers : doing[w].op \in {"idle", "join", "meet", "link", "privacy", "status"}

(* docs/innovations.md:41: a group that does not share locations keeps     *)
(* none, so that none reappears when it shares again: except the place of  *)
(* a member whose update and a closing did not see one another.            *)
ClosedKeepsOnlyRaced ==
    ~ group.location => \A u \in Users : place[u] # Nothing => u \in raced

(* The same without the exception. *)
ClosedKeepsNoPlace == ~ group.location => \A u \in Users : place[u] = Nothing
=============================================================================
