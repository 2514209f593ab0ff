---------------------------- MODULE RecordProofs ----------------------------
(***************************************************************************)
(* Proofs about the components of RecordServices, one section each:        *)
(* groups, plans, calls for help, feedback, locks and one-time tickets.    *)
(***************************************************************************)
EXTENDS RecordServices, SequenceTheorems, CountingLemmas

-----------------------------------------------------------------------------
(***************************************************************************)
(* Proofs about TravelGroup, for any members, requests and itineraries.    *)
(*                                                                         *)
(* A place outlives the closing of a group in two ways: its member's       *)
(* request had loaded a group that shared, which GroupClosingIsNoticed     *)
(* marks, or the owner's request had loaded the member without a place.    *)
(* That there is no third way is the induction: whoever writes a place in  *)
(* a closed group had loaded an open one.                                  *)
(***************************************************************************)

GroupAnyGroup == [revision : Int, location : BOOLEAN, status : BOOLEAN,
                  itinerary : Itineraries \cup {Nothing}]

GroupAnyPlaces == [Companions -> Places \cup {Nothing}]

GroupOperations == {"join", "meet", "link", "privacy", "status"}

GroupRequest(op) == [op : {op}, user : Companions, group : GroupAnyGroup, places : GroupAnyPlaces,
                     sharing : BOOLEAN, closed : BOOLEAN]

(* The types of the rows and of what the requests have loaded. *)
GroupRows ==
    /\ group \in GroupAnyGroup
    /\ sharing \in [Companions -> BOOLEAN]
    /\ place \in GroupAnyPlaces
    /\ groupDoing \in [Workers -> {Group!Idle} \cup UNION {GroupRequest(op) : op \in GroupOperations}]

(* Only members have a place, or may write one. *)
GroupMembersOnly ==
    /\ \A u \in Companions : place[u] # Nothing => u \in members
    /\ \A w \in Workers : groupDoing[w].op = "status" => groupDoing[w].user \in members

(* An update of a member's status that loaded a sharing group knows of     *)
(* every closing since.                                                    *)
GroupClosingIsNoticed ==
    \A w \in Workers :
        groupDoing[w].op = "status" /\ groupDoing[w].group.location /\ ~ groupDoing[w].closed =>
          group.location

GroupInv == GroupRows /\ GroupMembersOnly /\ GroupClosingIsNoticed /\ Group!ClosedKeepsOnlyRaced

(* What a request has loaded is typed. *)
LEMMA GroupFields ==
    ASSUME GroupRows, NEW w \in Workers, groupDoing[w].op # "idle"
    PROVE  /\ groupDoing[w] \in GroupRequest(groupDoing[w].op) /\ groupDoing[w].op \in GroupOperations
           /\ groupDoing[w].user \in Companions /\ groupDoing[w].group \in GroupAnyGroup
           /\ groupDoing[w].places \in GroupAnyPlaces
           /\ groupDoing[w].sharing \in BOOLEAN /\ groupDoing[w].closed \in BOOLEAN
  <1>1. PICK op \in GroupOperations : groupDoing[w] \in GroupRequest(op)
    BY DEF GroupRows, Group!Idle
  <1> QED BY <1>1 DEF GroupRequest

(* A request that ends without writing a place. *)
LEMMA GroupEndKeeps ==
    ASSUME GroupInv, NEW w \in Workers, Group!Continue(w, Group!Idle),
           group' \in GroupAnyGroup, group'.location = group.location, members \subseteq members',
           UNCHANGED <<sharing, place, raced>>
    PROVE  GroupInv'
  <1>1. GroupRows'
    BY DEF GroupInv, GroupRows, Group!Continue
  <1>2. groupDoing'[w] = Group!Idle /\ \A v \in Workers \ {w} : groupDoing'[v] = groupDoing[v]
    BY DEF GroupInv, GroupRows, Group!Continue
  <1>3. GroupMembersOnly'
    BY <1>2 DEF GroupInv, GroupMembersOnly, Group!Idle
  <1>4. GroupClosingIsNoticed'
    BY <1>2 DEF GroupInv, GroupClosingIsNoticed, Group!Idle
  <1>5. Group!ClosedKeepsOnlyRaced'
    BY DEF GroupInv, Group!ClosedKeepsOnlyRaced
  <1> QED BY <1>1, <1>3, <1>4, <1>5 DEF GroupInv

LEMMA GroupTouchedIsAGroup ==
    ASSUME GroupRows, NEW w \in Workers, groupDoing[w].op # "idle"
    PROVE  Group!Touched(w) \in GroupAnyGroup /\ Group!Touched(w).location = group.location
  <1>1. groupDoing[w].group.revision + 1 \in Int /\ group \in GroupAnyGroup
    BY GroupFields DEF GroupAnyGroup, GroupRows
  <1> QED BY <1>1 DEF Group!Touched, GroupAnyGroup

LEMMA GroupBeginKeeps ==
    ASSUME GroupInv, NEW w \in Workers, NEW op \in GroupOperations, NEW u \in Companions,
             Group!Begin(w, op, u)
    PROVE  GroupInv'
  <1>1. Group!Loaded(op, u) \in GroupRequest(op)
    BY DEF Group!Loaded, GroupRequest, GroupInv, GroupRows
  <1>2. /\ groupDoing'[w] = Group!Loaded(op, u)
           /\ \A v \in Workers \ {w} : groupDoing'[v] = groupDoing[v]
        /\ op # "join" => u \in members
        /\ UNCHANGED <<group, members, sharing, place, raced>>
    BY DEF Group!Begin, Group!Continue, GroupInv, GroupRows
  <1>3. GroupRows'
    BY <1>1 DEF GroupInv, GroupRows, Group!Begin, Group!Continue
  <1>4. /\ groupDoing'[w].op = op /\ groupDoing'[w].user = u /\ groupDoing'[w].group = group
    BY <1>2 DEF Group!Loaded
  <1>5. GroupMembersOnly'
    BY <1>2, <1>4 DEF GroupInv, GroupMembersOnly
  <1>6. GroupClosingIsNoticed'
    BY <1>2, <1>4 DEF GroupInv, GroupClosingIsNoticed
  <1>7. Group!ClosedKeepsOnlyRaced'
    BY <1>2 DEF GroupInv, Group!ClosedKeepsOnlyRaced
  <1> QED BY <1>3, <1>5, <1>6, <1>7 DEF GroupInv

LEMMA GroupLinkKeeps ==
    ASSUME GroupInv, NEW w \in Workers, NEW itinerary \in Itineraries \cup {Nothing},
           NEW expected, Group!Link(w, itinerary, expected)
    PROVE  GroupInv'
  <1>1. group \in GroupAnyGroup
    BY DEF GroupInv, GroupRows
  <1> PICK g : g = [group EXCEPT !.itinerary = itinerary]
    OBVIOUS
  <1> PICK n \in Int : n = group.revision + 1
    BY <1>1 DEF GroupAnyGroup
  <1> PICK h : h = [g EXCEPT !.revision = n]
    OBVIOUS
  <1>2. g \in GroupAnyGroup /\ g.location = group.location
    BY <1>1 DEF GroupAnyGroup
  <1>3. h \in GroupAnyGroup /\ h.location = group.location
    BY <1>1, <1>2 DEF GroupAnyGroup
  <1>4. group' \in {group, h}
    BY DEF Group!Link
  <1>5. group' \in GroupAnyGroup /\ group'.location = group.location
    BY <1>1, <1>3, <1>4
  <1> QED BY <1>5, GroupEndKeeps DEF Group!Link

(* The owner opens or closes the group. *)
LEMMA GroupPrivacyKeeps ==
    ASSUME GroupInv, NEW w \in Workers, NEW location \in BOOLEAN, NEW status \in BOOLEAN,
           Group!SetPrivacy(w, location, status)
    PROVE  GroupInv'
  <1>1. group' \in GroupAnyGroup /\ group'.location = location
    <2> PICK g : g = [group EXCEPT !.location = location]
      OBVIOUS
    <2> PICK h : h = [g EXCEPT !.status = status]
      OBVIOUS
    <2>1. group \in GroupAnyGroup
      BY DEF GroupInv, GroupRows
    <2> PICK n \in Int : n = group.revision + 1
      BY <2>1 DEF GroupAnyGroup
    <2> PICK k : k = [h EXCEPT !.revision = n]
      OBVIOUS
    <2>2. g \in GroupAnyGroup /\ g.location = location
      BY <2>1 DEF GroupAnyGroup
    <2>3. h \in GroupAnyGroup /\ h.location = location
      BY <2>2 DEF GroupAnyGroup
    <2>4. k \in GroupAnyGroup /\ k.location = location
      BY <2>1, <2>3 DEF GroupAnyGroup
    <2>5. group' = k
      BY DEF Group!SetPrivacy
    <2> QED BY <2>4, <2>5
  <1>2. CASE location
    <2>1. groupDoing' = [groupDoing EXCEPT ![w] = Group!Idle]
          /\ UNCHANGED <<members, sharing, place, raced>>
      BY <1>2 DEF Group!SetPrivacy, Group!Continue
    <2>2. GroupRows'
      BY <1>1, <2>1 DEF GroupInv, GroupRows
    <2>3. groupDoing'[w] = Group!Idle /\ \A v \in Workers \ {w} : groupDoing'[v] = groupDoing[v]
      BY <2>1 DEF GroupInv, GroupRows
    <2>4. GroupMembersOnly'
      BY <2>1, <2>3 DEF GroupInv, GroupMembersOnly, Group!Idle
    <2>5. GroupClosingIsNoticed' /\ Group!ClosedKeepsOnlyRaced'
      BY <1>1, <1>2 DEF GroupClosingIsNoticed, Group!ClosedKeepsOnlyRaced
    <2> QED BY <2>2, <2>4, <2>5 DEF GroupInv
  <1>3. CASE ~ location
    <2>1. /\ place' = [u \in Companions |-> IF u \in Group!Erased(w) THEN Nothing ELSE place[u]]
          /\ raced' = {u \in raced : place'[u] # Nothing}
                        \cup {u \in members : place[u] # Nothing /\ groupDoing[w].places[u] = Nothing}
          /\ groupDoing' = [v \in Workers |-> Group!Overtaken(w, v)]
          /\ UNCHANGED <<members, sharing>>
      BY <1>3 DEF Group!SetPrivacy
    <2>2. \A v \in Workers :
            /\ Group!Overtaken(w, v) \in {Group!Idle} \cup UNION {GroupRequest(op) :
                 op \in GroupOperations}
            /\ Group!Overtaken(w, v).op = "status" =>
                 /\ groupDoing[v].op = "status"
                 /\ Group!Overtaken(w, v).user = groupDoing[v].user
                 /\ Group!Overtaken(w, v).group.location => Group!Overtaken(w, v).closed
      <3> SUFFICES ASSUME NEW v \in Workers
                   PROVE  /\ Group!Overtaken(w, v) \in {Group!Idle} \cup UNION {GroupRequest(op) :
                               op \in GroupOperations}
                          /\ Group!Overtaken(w, v).op = "status" =>
                               /\ groupDoing[v].op = "status"
                               /\ Group!Overtaken(w, v).user = groupDoing[v].user
                               /\ Group!Overtaken(w, v).group.location => Group!Overtaken(w, v).closed
        OBVIOUS
      <3>1. CASE v = w
        BY <3>1 DEF Group!Overtaken, Group!Idle
      <3>2. CASE v # w /\ groupDoing[v].op = "status" /\ groupDoing[v].group.location
        <4>1. groupDoing[v] \in GroupRequest("status")
          BY <3>2, GroupFields DEF GroupInv
        <4>2. PICK r : r = [groupDoing[v] EXCEPT !.closed = TRUE]
          OBVIOUS
        <4>3. r \in GroupRequest("status") /\ r.user = groupDoing[v].user /\ r.closed = TRUE
              /\ "status" \in GroupOperations
          BY <4>1, <4>2 DEF GroupRequest, GroupOperations
        <4>4. Group!Overtaken(w, v) = r
          BY <3>2, <4>2 DEF Group!Overtaken
        <4> QED BY <3>2, <4>3, <4>4
      <3>3. CASE v # w /\ ~ (groupDoing[v].op = "status" /\ groupDoing[v].group.location)
        BY <3>3 DEF Group!Overtaken, GroupInv, GroupRows
      <3> QED BY <3>1, <3>2, <3>3
    <2>3. place' \in GroupAnyPlaces
      BY <2>1 DEF GroupInv, GroupRows, GroupAnyPlaces
    <2>4. GroupRows'
      BY <1>1, <2>1, <2>2, <2>3 DEF GroupInv, GroupRows
    <2>5. \A u \in Companions : place'[u] # Nothing => place[u] # Nothing /\ u \notin Group!Erased(w)
      BY <2>1
    <2>6. GroupMembersOnly'
      BY <2>1, <2>2, <2>5 DEF GroupInv, GroupMembersOnly
    <2>7. GroupClosingIsNoticed'
      BY <2>1, <2>2 DEF GroupClosingIsNoticed
    <2>8. Group!ClosedKeepsOnlyRaced'
      BY <2>1, <2>5 DEF GroupInv, GroupMembersOnly, Group!Erased, Group!ClosedKeepsOnlyRaced
    <2> QED BY <2>4, <2>6, <2>7, <2>8 DEF GroupInv
  <1> QED BY <1>2, <1>3

(* A member's update. *)
LEMMA GroupStatusKeeps ==
    ASSUME GroupInv, NEW w \in Workers, NEW asked \in {TRUE, FALSE, Nothing},
           NEW where \in Places \cup {Nothing}, Group!UpdateStatus(w, asked, where)
    PROVE  GroupInv'
  <1> PICK m : m = groupDoing[w]
    OBVIOUS
  <1> PICK u : u = m.user
    OBVIOUS
  <1> PICK share : share = IF asked = Nothing THEN m.sharing ELSE asked
    OBVIOUS
  <1> PICK wanted : wanted = Group!WantsPlace(w, share, where)
    OBVIOUS
  <1>1. /\ m.op = "status" /\ u \in Companions /\ m.places \in GroupAnyPlaces
        /\ m.sharing \in BOOLEAN /\ m.closed \in BOOLEAN /\ m.group.location \in BOOLEAN
        /\ u \in members
    BY GroupFields DEF GroupInv, Group!UpdateStatus, GroupMembersOnly, GroupAnyGroup
  <1>2. share \in BOOLEAN /\ wanted \in Places \cup {Nothing}
    BY <1>1 DEF Group!WantsPlace, GroupAnyPlaces
  <1>3. /\ sharing' = IF share # m.sharing THEN [sharing EXCEPT ![u] = share] ELSE sharing
        /\ place' = IF wanted # m.places[u] THEN [place EXCEPT ![u] = wanted] ELSE place
        /\ raced' = IF place'[u] = Nothing THEN raced \ {u}
                    ELSE IF m.closed /\ wanted # m.places[u] THEN raced \cup {u} ELSE raced
        /\ group' = Group!Touched(w) /\ Group!Continue(w, Group!Idle) /\ UNCHANGED members
    BY DEF Group!UpdateStatus
  <1>4. group' \in GroupAnyGroup /\ group'.location = group.location
    BY <1>1, <1>3, GroupTouchedIsAGroup DEF GroupInv
  <1>5. place' \in GroupAnyPlaces /\ sharing' \in [Companions -> BOOLEAN]
    BY <1>1, <1>2, <1>3 DEF GroupInv, GroupRows, GroupAnyPlaces
  <1>6. groupDoing'[w] = Group!Idle /\ \A v \in Workers \ {w} : groupDoing'[v] = groupDoing[v]
    BY <1>3 DEF GroupInv, GroupRows, Group!Continue
  <1>7. GroupRows'
    BY <1>3, <1>4, <1>5 DEF GroupInv, GroupRows, Group!Continue
  <1>8. \A x \in Companions \ {u} : place'[x] = place[x]
    BY <1>1, <1>3 DEF GroupInv, GroupRows, GroupAnyPlaces
  <1>9. GroupMembersOnly'
    BY <1>1, <1>3, <1>6, <1>8 DEF GroupInv, GroupMembersOnly, Group!Idle
  <1>10. GroupClosingIsNoticed'
    BY <1>4, <1>6 DEF GroupInv, GroupClosingIsNoticed, Group!Idle
  <1>11. ~ group.location /\ place'[u] # Nothing => u \in raced'
    <2> SUFFICES ASSUME ~ group.location, place'[u] # Nothing
                 PROVE  u \in raced'
      OBVIOUS
    <2>1. CASE wanted = m.places[u]
      BY <1>1, <1>3, <2>1 DEF GroupInv, Group!ClosedKeepsOnlyRaced
    <2>2. CASE wanted # m.places[u]
      <3>1. place'[u] = wanted
        BY <1>1, <1>3, <2>2 DEF GroupInv, GroupRows, GroupAnyPlaces
      <3>2. m.group.location
        BY <2>2, <3>1 DEF Group!WantsPlace
      <3>3. m.closed
        BY <1>1, <3>2 DEF GroupInv, GroupClosingIsNoticed
      <3> QED BY <1>3, <2>2, <3>3
    <2> QED BY <2>1, <2>2
  <1>12. \A x \in raced : x # u => x \in raced'
    BY <1>3
  <1>13. Group!ClosedKeepsOnlyRaced'
    BY <1>4, <1>8, <1>11, <1>12 DEF GroupInv, Group!ClosedKeepsOnlyRaced
  <1> QED BY <1>7, <1>9, <1>10, <1>13 DEF GroupInv

LEMMA GroupInitially ==
    ASSUME Group!Init
    PROVE  GroupInv
  <1>1. GroupRows
    BY DEF Group!Init, GroupRows, GroupAnyGroup, GroupAnyPlaces
  <1> QED BY <1>1 DEF Group!Init, GroupInv, GroupMembersOnly, GroupClosingIsNoticed,
             Group!ClosedKeepsOnlyRaced, Group!Idle

LEMMA GroupStepKeeps ==
    ASSUME GroupInv, [Group!Next]_(Group!vars)
    PROVE  GroupInv'
  <1>1. ASSUME NEW w \in Workers, Group!Join(w)
        PROVE  GroupInv'
    <2>1. groupDoing[w].op # "idle" /\ members \subseteq members' /\ group \in GroupAnyGroup
      BY <1>1 DEF Group!Join, GroupInv, GroupRows
    <2>2. group' \in GroupAnyGroup /\ group'.location = group.location
      BY <1>1, <2>1, GroupTouchedIsAGroup DEF Group!Join, GroupInv
    <2> QED BY <1>1, <2>1, <2>2, GroupEndKeeps DEF Group!Join
  <1>2. ASSUME NEW w \in Workers, Group!Meet(w)
        PROVE  GroupInv'
    <2>1. groupDoing[w].op # "idle"
      BY <1>2 DEF Group!Meet
    <2>2. group' \in GroupAnyGroup /\ group'.location = group.location
      BY <1>2, <2>1, GroupTouchedIsAGroup DEF Group!Meet, GroupInv
    <2> QED BY <1>2, <2>2, GroupEndKeeps DEF Group!Meet
  <1>3. ASSUME NEW w \in Workers, Group!Abandon(w)
        PROVE  GroupInv'
    BY <1>3, GroupEndKeeps DEF Group!Abandon, GroupInv, GroupRows
  <1>4. CASE Group!InviteExpires \/ UNCHANGED Group!vars
    BY <1>4 DEF Group!InviteExpires, Group!vars, GroupInv, GroupRows, GroupMembersOnly,
       GroupClosingIsNoticed, Group!ClosedKeepsOnlyRaced
  <1>5. ASSUME NEW w \in Workers, NEW op \in GroupOperations, NEW u \in Companions,
                 Group!Begin(w, op, u)
        PROVE  GroupInv'
    BY <1>5, GroupBeginKeeps
  <1>6. ASSUME NEW w \in Workers, NEW itinerary \in Itineraries \cup {Nothing},
               NEW expected \in 1 .. MaxGroupRevision, Group!Link(w, itinerary, expected)
        PROVE  GroupInv'
    BY <1>6, GroupLinkKeeps
  <1>7. ASSUME NEW w \in Workers, NEW location \in BOOLEAN, NEW status \in BOOLEAN,
               Group!SetPrivacy(w, location, status)
        PROVE  GroupInv'
    BY <1>7, GroupPrivacyKeeps
  <1>8. ASSUME NEW w \in Workers, NEW asked \in {TRUE, FALSE, Nothing},
               NEW where \in Places \cup {Nothing}, Group!UpdateStatus(w, asked, where)
        PROVE  GroupInv'
    BY <1>8, GroupStatusKeeps
  <1> QED BY <1>1, <1>2, <1>3, <1>4, <1>5, <1>6, <1>7, <1>8 DEF Group!Next, GroupOperations

(* Who writes a place over a closing is a member, and the revision is one  *)
(* that a request below the bound has written.                             *)
GroupBounded ==
    /\ group.revision \in 1 .. MaxGroupRevision + 1
    /\ members \subseteq Companions /\ Owner \in members /\ inviting \in BOOLEAN
    /\ raced \subseteq members
    /\ \A w \in Workers : groupDoing[w].op # "idle" =>
         groupDoing[w].group.revision \in 1 .. MaxGroupRevision - 1

LEMMA GroupInitiallyBounded ==
    ASSUME Group!OwnerAssumption, Group!RevisionAssumption, Group!Init
    PROVE  GroupBounded
  BY DEF Group!Init, GroupBounded, Group!Idle, Group!OwnerAssumption, Group!RevisionAssumption

LEMMA GroupTouchedIsBounded ==
    ASSUME Group!RevisionAssumption, GroupInv, GroupBounded, NEW w \in Workers,
             groupDoing[w].op # "idle"
    PROVE  Group!Touched(w).revision \in 1 .. MaxGroupRevision + 1
  <1>1. groupDoing[w].group.revision \in 1 .. MaxGroupRevision - 1
    BY DEF GroupBounded
  <1>2. Group!Touched(w).revision = groupDoing[w].group.revision + 1
    BY DEF Group!Touched, GroupInv, GroupRows, GroupAnyGroup
  <1> QED BY <1>1, <1>2 DEF Group!RevisionAssumption

(* A request that ends. *)
LEMMA GroupEndIsBounded ==
    ASSUME GroupInv, GroupBounded, NEW w \in Workers, Group!Continue(w, Group!Idle)
    PROVE  \A v \in Workers : groupDoing'[v].op # "idle" =>
             groupDoing'[v].group.revision \in 1 .. MaxGroupRevision - 1
  <1>1. \A v \in Workers : groupDoing'[v] = IF v = w THEN Group!Idle ELSE groupDoing[v]
    BY DEF Group!Continue, GroupInv, GroupRows
  <1> QED BY <1>1 DEF Group!Idle, GroupBounded

LEMMA GroupStepKeepsBounded ==
    ASSUME Group!RevisionAssumption, GroupInv, GroupBounded, [Group!Next]_(Group!vars)
    PROVE  GroupBounded'
  <1>1. ASSUME NEW w \in Workers, Group!Join(w)
        PROVE  GroupBounded'
    <2>1. groupDoing[w].op # "idle" /\ groupDoing[w].user \in Companions
      BY <1>1, GroupFields DEF Group!Join, GroupInv
    <2>2. group'.revision \in 1 .. MaxGroupRevision + 1
      BY <1>1, <2>1, GroupTouchedIsBounded DEF Group!Join, GroupBounded
    <2> QED BY <1>1, <2>1, <2>2, GroupEndIsBounded DEF Group!Join, GroupBounded
  <1>2. ASSUME NEW w \in Workers, Group!Meet(w)
        PROVE  GroupBounded'
    <2>1. groupDoing[w].op # "idle"
      BY <1>2 DEF Group!Meet
    <2>2. group'.revision \in 1 .. MaxGroupRevision + 1
      BY <1>2, <2>1, GroupTouchedIsBounded DEF Group!Meet
    <2> QED BY <1>2, <2>2, GroupEndIsBounded DEF Group!Meet, GroupBounded
  <1>3. ASSUME NEW w \in Workers, Group!Abandon(w)
        PROVE  GroupBounded'
    BY <1>3, GroupEndIsBounded DEF Group!Abandon, GroupBounded
  <1>4. CASE Group!InviteExpires \/ UNCHANGED Group!vars
    BY <1>4 DEF Group!InviteExpires, Group!vars, GroupBounded
  <1>5. ASSUME NEW w \in Workers, NEW op \in GroupOperations, NEW u \in Companions,
                 Group!Begin(w, op, u)
        PROVE  GroupBounded'
    <2>1. group.revision \in 1 .. MaxGroupRevision - 1
      BY <1>5 DEF Group!Begin, GroupBounded, Group!RevisionAssumption
    <2>2. \A v \in Workers : groupDoing'[v] = IF v = w THEN Group!Loaded(op, u) ELSE groupDoing[v]
      BY <1>5 DEF Group!Begin, Group!Continue, GroupInv, GroupRows
    <2>3. Group!Loaded(op, u).group = group
      BY DEF Group!Loaded
    <2> QED BY <1>5, <2>1, <2>2, <2>3 DEF Group!Begin, GroupBounded
  <1>6. ASSUME NEW w \in Workers, NEW itinerary \in Itineraries \cup {Nothing},
               NEW expected \in 1 .. MaxGroupRevision, Group!Link(w, itinerary, expected)
        PROVE  GroupBounded'
    <2>1. group \in GroupAnyGroup
      BY DEF GroupInv, GroupRows
    <2>2. group'.revision = group.revision \/ (group.revision = expected
            /\ group'.revision = expected + 1)
      BY <1>6, <2>1 DEF Group!Link, GroupAnyGroup
    <2>3. group'.revision \in 1 .. MaxGroupRevision + 1
      BY <1>6, <2>2 DEF GroupBounded, Group!RevisionAssumption
    <2> QED BY <1>6, <2>3, GroupEndIsBounded DEF Group!Link, GroupBounded
  <1>7. ASSUME NEW w \in Workers, NEW location \in BOOLEAN, NEW status \in BOOLEAN,
               Group!SetPrivacy(w, location, status)
        PROVE  GroupBounded'
    <2>1. groupDoing[w].op # "idle" /\ group.revision = groupDoing[w].group.revision
          /\ group \in GroupAnyGroup
      BY <1>7 DEF Group!SetPrivacy, GroupInv, GroupRows
    <2>2. group'.revision = group.revision + 1
      BY <1>7, <2>1 DEF Group!SetPrivacy, GroupAnyGroup
    <2>3. group'.revision \in 1 .. MaxGroupRevision + 1
      BY <2>1, <2>2 DEF GroupBounded, Group!RevisionAssumption
    <2>4. raced' \subseteq members /\ UNCHANGED <<members, inviting>>
      BY <1>7 DEF Group!SetPrivacy, GroupBounded
    <2>5. \A v \in Workers : groupDoing'[v].op # "idle" =>
            groupDoing'[v].group.revision \in 1 .. MaxGroupRevision - 1
      <3>1. CASE location
        BY <1>7, <3>1, GroupEndIsBounded DEF Group!SetPrivacy
      <3>2. CASE ~ location
        <4> SUFFICES ASSUME NEW v \in Workers, groupDoing'[v].op # "idle"
                     PROVE  groupDoing'[v].group.revision \in 1 .. MaxGroupRevision - 1
          OBVIOUS
        <4>1. groupDoing'[v] = Group!Overtaken(w, v)
          BY <1>7, <3>2 DEF Group!SetPrivacy
        <4>2. CASE v = w \/ ~ (groupDoing[v].op = "status" /\ groupDoing[v].group.location)
          BY <4>1, <4>2 DEF Group!Overtaken, Group!Idle, GroupBounded
        <4>3. CASE v # w /\ groupDoing[v].op = "status" /\ groupDoing[v].group.location
          <5>1. groupDoing'[v] = [groupDoing[v] EXCEPT !.closed = TRUE]
            BY <4>1, <4>3 DEF Group!Overtaken
          <5>2. groupDoing[v] \in GroupRequest("status")
            BY <4>3, GroupFields DEF GroupInv
          <5>3. groupDoing'[v].group = groupDoing[v].group
            BY <5>1, <5>2 DEF GroupRequest
          <5> QED BY <4>3, <5>3 DEF GroupBounded
        <4> QED BY <4>2, <4>3
      <3> QED BY <3>1, <3>2
    <2> QED BY <2>3, <2>4, <2>5 DEF GroupBounded
  <1>8. ASSUME NEW w \in Workers, NEW asked \in {TRUE, FALSE, Nothing},
               NEW where \in Places \cup {Nothing}, Group!UpdateStatus(w, asked, where)
        PROVE  GroupBounded'
    <2>1. groupDoing[w].op # "idle" /\ groupDoing[w].user \in members
      BY <1>8 DEF Group!UpdateStatus, GroupInv, GroupMembersOnly
    <2>2. group'.revision \in 1 .. MaxGroupRevision + 1
      BY <1>8, <2>1, GroupTouchedIsBounded DEF Group!UpdateStatus
    <2>3. raced' \subseteq members /\ UNCHANGED <<members, inviting>>
      BY <1>8, <2>1 DEF Group!UpdateStatus, GroupBounded
    <2> QED BY <1>8, <2>2, <2>3, GroupEndIsBounded DEF Group!UpdateStatus, GroupBounded
  <1> QED BY <1>1, <1>2, <1>3, <1>4, <1>5, <1>6, <1>7, <1>8 DEF Group!Next, GroupOperations

(* The rows of a group have the types of its tables, and its requests are  *)
(* where the operations put them.                                          *)
THEOREM GroupRowsAreTyped == Group!OwnerAssumption /\ Group!RevisionAssumption /\ Group!Spec =>
  []Group!TypeOK
  <1> SUFFICES ASSUME Group!OwnerAssumption, Group!RevisionAssumption
               PROVE  Group!Spec => []Group!TypeOK
    OBVIOUS
  <1>1. Group!Init => GroupInv /\ GroupBounded
    BY GroupInitially, GroupInitiallyBounded
  <1>2. GroupInv /\ GroupBounded /\ [Group!Next]_(Group!vars) => (GroupInv /\ GroupBounded)'
    BY GroupStepKeeps, GroupStepKeepsBounded
  <1>3. GroupInv /\ GroupBounded => Group!TypeOK
    <2> SUFFICES ASSUME GroupInv, GroupBounded PROVE Group!TypeOK
      OBVIOUS
    <2>1. group \in Group!GroupRow
      BY DEF GroupInv, GroupRows, GroupBounded, GroupAnyGroup, Group!GroupRow
    <2>2. \A u \in Companions :
            Group!MemberRow(u) \in [sharing : BOOLEAN, place : Places \cup {Nothing}]
      BY DEF GroupInv, GroupRows, GroupAnyPlaces, Group!MemberRow
    <2>3. \A w \in Workers : groupDoing[w].op \in {"idle", "join", "meet", "link", "privacy", "status"}
      BY GroupFields DEF GroupInv, GroupOperations
    <2> QED BY <2>1, <2>2, <2>3 DEF Group!TypeOK, GroupBounded
  <1> QED BY <1>1, <1>2, <1>3, PTL DEF Group!Spec

(* A closed group keeps the place of nobody but of members whose update    *)
(* raced the closing: update_group_privacy and update_member_status.       *)
THEOREM ClosedGroupsKeepRacedPlaces == Group!Spec => []Group!ClosedKeepsOnlyRaced
  <1>1. GroupInv => Group!ClosedKeepsOnlyRaced
    BY DEF GroupInv
  <1> QED BY <1>1, GroupInitially, GroupStepKeeps, PTL DEF Group!Spec

-----------------------------------------------------------------------------
(***************************************************************************)
(* The plans of Itinerary: what the planner makes passes the check, keeps  *)
(* clear of what is locked, and is what its last run says.                 *)
(***************************************************************************)

PlanAssumptions == Plan!TimesAssumption /\ Plan!LockedAssumption /\ Plan!BoundsAssumption

(* What is locked, as sets of intervals.                                   *)
PlanLockable(busy) == IsFiniteSet(busy) /\ \A t \in busy : t.start \in Int /\ t.end \in Int

PlanAnyItem == [stop : Stops \cup {Entrance}, start : Int, end : Int]

(* A route that can be walked, between its stops and back.                 *)
PlanWalkable(route) ==
    /\ \A i \in DOMAIN route :
          /\ Plan!Linked(route[i].stop, Entrance)
          /\ route[i].end + Walk[<<route[i].stop, Entrance>>] <= Day
    /\ \A i \in 1 .. Len(route) - 1 :
          /\ Plan!Linked(route[i].stop, route[i + 1].stop)
          /\ route[i + 1].start >= route[i].end + Walk[<<route[i].stop, route[i + 1].stop>>] + Buffer

PlanClearOf(route, busy) == \A i \in DOMAIN route : Plan!Clear(route[i], busy)

PlanStopsDiffer(route) == \A i, j \in DOMAIN route : route[i].stop = route[j].stop => i = j

PlanGoodRoute(route, busy) ==
    route \in Seq(Plan!ItemRow) /\ PlanWalkable(route) /\ PlanClearOf(route, busy)

(* What the instance counts with is what counts here. *)
LEMMA PlanCounts ==
    /\ \A Q : Plan!IsFiniteSet(Q) <=> IsFiniteSet(Q)
    /\ \A Q : Plan!Cardinality(Q) = Cardinality(Q)
  BY Zenon DEF Plan!IsFiniteSet, IsFiniteSet, Plan!Cardinality, Cardinality

(* What is linked is some minutes apart.                                   *)
LEMMA PlanWalksAreNumbers ==
    ASSUME Plan!TimesAssumption, NEW a, NEW b, Plan!Linked(a, b)
    PROVE  Walk[<<a, b>>] \in Nat
  BY DEF Plan!TimesAssumption, Plan!Linked

LEMMA PlanSmallestExists ==
    ASSUME NEW S, IsFiniteSet(S), S # {}, S \subseteq Int
    PROVE  Plan!Min(S) \in S /\ \A y \in S : Plan!Min(S) <= y
  <1> PICK T, g : T = {0 - x : x \in S} /\ g = [x \in S |-> 0 - x]
    OBVIOUS
  <1>1. T # {} /\ T \subseteq Int
    <2>1. \A x \in S : x \in Int /\ 0 - x \in Int /\ 0 - x \in T
      OBVIOUS
    <2>2. \E x \in S : TRUE
      OBVIOUS
    <2> QED BY <2>1, <2>2
  <1>2. IsFiniteSet(T)
    <2>1. g \in [S -> T] /\ \A t \in T : \E x \in S : g[x] = t
      OBVIOUS
    <2>2. g \in Surjection(S, T)
      BY <2>1 DEF Surjection
    <2> QED BY <2>2, FS_Surjection
  <1>3. PICK t \in T : \A u \in T : u =< t
    BY ONLY <1>1, <1>2, LargestExists
  <1>4. PICK x \in S : t = 0 - x
    OBVIOUS
  <1>5. \A y \in S : x <= y
    <2> SUFFICES ASSUME NEW y \in S PROVE x <= y
      OBVIOUS
    <2>1. 0 - y =< 0 - x
      BY <1>3, <1>4
    <2>2. x \in Int /\ y \in Int
      OBVIOUS
    <2> QED BY <2>1, <2>2
  <1> QED BY <1>5 DEF Plan!Min

(* There is a first free start, and it is free.                            *)
LEMMA PlanFirstStartIsFree ==
    ASSUME Plan!TimesAssumption, NEW first \in Int, NEW stop \in Stops, NEW busy, PlanLockable(busy),
           NEW s, s = Plan!Min(Plan!Starts(first, stop, busy))
    PROVE  s \in Int /\ s >= first /\ Plan!Clear(Plan!Interval(s, stop), busy)
  <1> PICK T, g : T = {t.end + Buffer : t \in busy} /\ g = [t \in busy |-> t.end + Buffer]
    OBVIOUS
  <1>1. Buffer \in Int /\ Visit[stop] \in Nat
    BY DEF Plan!TimesAssumption
  <1>2. T \subseteq Int
    BY <1>1 DEF PlanLockable
  <1>3. IsFiniteSet(T)
    <2>1. g \in [busy -> T] /\ \A x \in T : \E t \in busy : g[t] = x
      OBVIOUS
    <2>2. g \in Surjection(busy, T)
      BY <2>1 DEF Surjection
    <2> QED BY <2>2, FS_Surjection DEF PlanLockable
  <1> PICK A : A = {first} \cup T
    OBVIOUS
  <1>4. IsFiniteSet(A) /\ A # {} /\ A \subseteq Int
    <2>1. IsFiniteSet({first})
      BY FS_Singleton
    <2>2. IsFiniteSet(A)
      BY <1>3, <2>1, FS_Union
    <2> QED BY <1>2, <2>2
  <1>5. PICK x \in A : \A y \in A : y =< x
    BY ONLY <1>4, LargestExists
  <1>6. x >= first /\ x \in Int
    BY <1>4, <1>5
  <1>7. Plan!Clear(Plan!Interval(x, stop), busy)
    <2> SUFFICES ASSUME NEW t \in busy PROVE ~ Plan!Overlaps(Plan!Interval(x, stop), Plan!Padded(t))
      BY DEF Plan!Clear
    <2>1. t.end + Buffer \in A /\ t.end + Buffer \in Int
      BY <1>4
    <2>2. t.end + Buffer =< x
      BY <1>5, <2>1
    <2>3. ~ (x < t.end + Buffer)
      BY <1>6, <2>1, <2>2
    <2> QED BY <2>3 DEF Plan!Overlaps, Plan!Interval, Plan!Padded
  <1> PICK B : B = Plan!Starts(first, stop, busy)
    OBVIOUS
  <1>8. B = {y \in A : y >= first /\ Plan!Clear(Plan!Interval(y, stop), busy)}
    BY DEF Plan!Starts
  <1>9. x \in B /\ B \subseteq A
    BY <1>6, <1>7, <1>8
  <1>10. IsFiniteSet(B) /\ B # {} /\ B \subseteq Int
    BY <1>4, <1>9, FS_Subset
  <1>11. s \in B
    BY <1>10, PlanSmallestExists
  <1> QED BY <1>8, <1>10, <1>11

(* One more stop.                                                          *)
LEMMA PlanPlacedIsAnItem ==
    ASSUME Plan!TimesAssumption, NEW route \in Seq(PlanAnyItem), NEW stop \in Stops,
           NEW busy, PlanLockable(busy), Plan!Linked(Plan!Before(route).stop, stop),
           NEW item, item = Plan!Placed(route, stop, busy)
    PROVE  /\ item \in Plan!ItemRow /\ item.stop = stop
           /\ item.start >= Plan!Before(route).end + Walk[<<Plan!Before(route).stop, stop>>] + Buffer
           /\ Plan!Clear(item, busy)
  <1> PICK b : b = Plan!Before(route)
    OBVIOUS
  <1>1. b.end \in Int /\ b.stop \in Stops \cup {Entrance}
    <2>1. CASE route = <<>>
      BY <2>1 DEF Plan!Before, Plan!TimesAssumption
    <2>2. CASE route # <<>>
      <3>1. Len(route) \in 1 .. Len(route) /\ b = route[Len(route)]
        BY <2>2 DEF Plan!Before, Plan!Last
      <3>2. b \in PlanAnyItem
        BY <3>1
      <3> QED BY <3>2 DEF PlanAnyItem
    <2> QED BY <2>1, <2>2
  <1>2. Walk[<<b.stop, stop>>] \in Nat /\ Buffer \in Nat /\ Visit[stop] \in Nat
    BY PlanWalksAreNumbers DEF Plan!TimesAssumption
  <1> PICK first : first = b.end + Walk[<<b.stop, stop>>] + Buffer
    OBVIOUS
  <1> PICK s : s = Plan!Min(Plan!Starts(first, stop, busy))
    OBVIOUS
  <1>3. first \in Int
    BY <1>1, <1>2
  <1>4. s \in Int /\ s >= first /\ Plan!Clear(Plan!Interval(s, stop), busy)
    BY <1>3, PlanFirstStartIsFree
  <1>5. item = [stop |-> stop, start |-> s, end |-> s + Visit[stop]]
    BY DEF Plan!Placed
  <1>6. Plan!Clear(item, busy)
    BY <1>4, <1>5 DEF Plan!Clear, Plan!Overlaps, Plan!Interval
  <1> QED BY <1>2, <1>4, <1>5, <1>6 DEF Plan!ItemRow

PlanGrown(route, stop, busy, next) == next = Append(route, Plan!Placed(route, stop, busy))

LEMMA PlanOneMoreStop ==
    ASSUME Plan!TimesAssumption, NEW busy, PlanLockable(busy), NEW route, PlanGoodRoute(route, busy),
           NEW stop \in Stops, Plan!Fits(route, stop, busy),
           NEW next, PlanGrown(route, stop, busy, next)
    PROVE  /\ PlanGoodRoute(next, busy) /\ Len(next) = Len(route) + 1
           /\ next[Len(route) + 1].stop = stop
           /\ \A i \in DOMAIN route : next[i] = route[i]
  <1> PICK item, l : item = Plan!Placed(route, stop, busy) /\ l = Len(route)
    OBVIOUS
  <1>1. /\ route \in Seq(Plan!ItemRow) /\ PlanWalkable(route) /\ PlanClearOf(route, busy)
        /\ l \in Nat /\ DOMAIN route = 1 .. l
    BY DEF PlanGoodRoute
  <1>2. /\ Plan!Linked(Plan!Before(route).stop, stop) /\ Plan!Linked(stop, Entrance)
        /\ item.end + Walk[<<stop, Entrance>>] <= Day
    BY DEF Plan!Fits
  <1>3. route \in Seq(PlanAnyItem)
    <2>1. Plan!ItemRow \subseteq PlanAnyItem
      BY DEF Plan!ItemRow, PlanAnyItem
    <2> QED BY <1>1, <2>1, SequencesWiden
  <1>4. /\ item \in Plan!ItemRow /\ item.stop = stop
        /\ item.start >= Plan!Before(route).end + Walk[<<Plan!Before(route).stop, stop>>] + Buffer
        /\ Plan!Clear(item, busy)
    BY <1>2, <1>3, PlanPlacedIsAnItem
  <1>5. /\ next \in Seq(Plan!ItemRow) /\ Len(next) = l + 1 /\ DOMAIN next = 1 .. l + 1
        /\ next[l + 1] = item /\ \A i \in 1 .. l : next[i] = route[i]
    <2>1. next = Append(route, item)
      BY DEF PlanGrown
    <2> QED BY <1>1, <1>4, <2>1
  <1>6. \A i \in 1 .. l + 1 : i = l + 1 \/ i \in 1 .. l
    BY <1>1
  <1>7. PlanClearOf(next, busy)
    BY <1>1, <1>4, <1>5, <1>6 DEF PlanClearOf
  <1>8. \A i \in DOMAIN next :
          /\ Plan!Linked(next[i].stop, Entrance)
          /\ next[i].end + Walk[<<next[i].stop, Entrance>>] <= Day
    BY <1>1, <1>2, <1>4, <1>5, <1>6 DEF PlanWalkable
  <1>9. ASSUME NEW i \in 1 .. l
        PROVE  /\ Plan!Linked(next[i].stop, next[i + 1].stop)
               /\ next[i + 1].start >= next[i].end + Walk[<<next[i].stop, next[i + 1].stop>>] + Buffer
    <2>1. CASE i = l
      <3>1. route # <<>>
        BY <1>1, <2>1
      <3>2. Plan!Before(route) = route[l] /\ next[i] = route[l] /\ next[i + 1] = item
        BY <1>5, <2>1, <3>1 DEF Plan!Before, Plan!Last
      <3> QED BY <1>2, <1>4, <3>2
    <2>2. CASE i # l
      <3>1. i \in 1 .. l - 1 /\ i + 1 \in 1 .. l
        BY <1>1, <2>2
      <3>2. next[i] = route[i] /\ next[i + 1] = route[i + 1]
        BY <1>5, <3>1
      <3> QED BY <1>1, <3>1, <3>2 DEF PlanWalkable
    <2> QED BY <2>1, <2>2
  <1>10. Len(next) - 1 = l
    BY <1>1, <1>5
  <1>11. PlanWalkable(next)
    BY <1>8, <1>9, <1>10 DEF PlanWalkable
  <1> QED BY <1>1, <1>4, <1>5, <1>7, <1>11 DEF PlanGoodRoute

LEMMA PlanEmptyRouteIsGood ==
    ASSUME NEW busy
    PROVE  PlanGoodRoute(<<>>, busy) /\ <<>> \in Seq(PlanAnyItem) /\ Len(<<>>) = 0
  <1>1. <<>> \in Seq(Plan!ItemRow) /\ <<>> \in Seq(PlanAnyItem) /\ Len(<<>>) = 0 /\ DOMAIN <<>> = {}
    OBVIOUS
  <1>2. 1 .. Len(<<>>) - 1 = {}
    BY <1>1
  <1> QED BY <1>1, <1>2 DEF PlanGoodRoute, PlanWalkable, PlanClearOf

(* The planner takes one stop after the other.                             *)
PlanGeneratedUpTo(order, f) ==
    f = [n \in 0 .. Len(order) |-> IF n = 0 THEN <<>> ELSE Plan!Extend(f[n - 1], order[n])]

PlanReplannedUpTo(order, f) ==
    f = [n \in 0 .. Len(order) |-> IF n = 0 THEN <<>> ELSE Plan!Replace(f[n - 1], order[n])]

(* A function of the stops so far, from what each of them does.            *)
PlanStepwise(f, G, N) ==
    /\ f \in [0 .. N -> Seq(PlanAnyItem)] /\ f[0] = <<>>
    /\ \A n \in 1 .. N : f[n] = G[<<f[n - 1], n>>]

LEMMA PlanStepwiseExists ==
    ASSUME NEW N \in Nat, NEW G \in [Seq(PlanAnyItem) \X Nat -> Seq(PlanAnyItem)]
    PROVE  /\ \E f : PlanStepwise(f, G, N)
           /\ \A f : PlanStepwise(f, G, N) =>
                 f = [n \in 0 .. N |-> IF n = 0 THEN <<>> ELSE G[<<f[n - 1], n>>]]
  <1> PICK V, e : V = Seq(PlanAnyItem) /\ e = <<>>
    OBVIOUS
  <1>1. e \in V /\ StepOn(V, G)
    <2>1. e \in V
      BY PlanEmptyRouteIsGood
    <2> QED BY <2>1 DEF StepOn
  <1>2. PICK f : Recursion(f, V, e, N, G)
    BY <1>1, RecursionExists
  <1>3. PlanStepwise(f, G, N)
    BY <1>2 DEF Recursion, PlanStepwise
  <1>4. ASSUME NEW h, PlanStepwise(h, G, N)
        PROVE  h = [n \in 0 .. N |-> IF n = 0 THEN <<>> ELSE G[<<h[n - 1], n>>]]
    <2>1. \A n \in 0 .. N : n = 0 \/ n \in 1 .. N
      OBVIOUS
    <2>2. h \in [0 .. N -> Seq(PlanAnyItem)] /\ h[0] = <<>>
          /\ \A n \in 1 .. N : h[n] = G[<<h[n - 1], n>>]
      BY <1>4 DEF PlanStepwise
    <2> QED BY <2>1, <2>2
  <1> QED BY <1>3, <1>4

LEMMA PlanAppendsAnItem ==
    ASSUME Plan!TimesAssumption, NEW busy, PlanLockable(busy), NEW route \in Seq(PlanAnyItem),
           NEW stop \in Stops, Plan!Fits(route, stop, busy)
    PROVE  Append(route, Plan!Placed(route, stop, busy)) \in Seq(PlanAnyItem)
  <1>1. Plan!Placed(route, stop, busy) \in Plan!ItemRow
    BY PlanPlacedIsAnItem DEF Plan!Fits
  <1>2. Plan!ItemRow \subseteq PlanAnyItem
    BY DEF Plan!ItemRow, PlanAnyItem
  <1> QED BY <1>1, <1>2

LEMMA PlanGeneratedStepwise ==
    ASSUME Plan!TimesAssumption, NEW order \in Seq(Stops), NEW N, N = Len(order)
    PROVE  \E f \in [0 .. N -> Seq(PlanAnyItem)] :
              /\ f[0] = <<>> /\ \A n \in 1 .. N : f[n] = Plan!Extend(f[n - 1], order[n])
              /\ Plan!Generated(order) = f[N]
  <1> PICK V : V = Seq(PlanAnyItem)
    OBVIOUS
  <1> PICK G : G = [x \in V \X Nat |-> IF x[2] \in 1 .. N THEN Plan!Extend(x[1], order[x[2]]) ELSE x[1]]
    OBVIOUS
  <1>0. N \in Nat /\ \A n \in 1 .. N : order[n] \in Stops
    OBVIOUS
  <1>1. G \in [V \X Nat -> V]
    <2> SUFFICES ASSUME NEW r \in V, NEW n \in 1 .. N PROVE Plan!Extend(r, order[n]) \in V
      OBVIOUS
    <2>1. PlanLockable({})
      BY FS_EmptySet DEF PlanLockable
    <2> QED BY <1>0, <2>1, PlanAppendsAnItem DEF Plan!Extend
  <1>2. /\ \E f : PlanStepwise(f, G, N)
        /\ \A f : PlanStepwise(f, G, N) =>
              f = [n \in 0 .. N |-> IF n = 0 THEN <<>> ELSE G[<<f[n - 1], n>>]]
    <2>1. G \in [Seq(PlanAnyItem) \X Nat -> Seq(PlanAnyItem)]
      BY <1>1
    <2> QED BY ONLY <1>0, <2>1, PlanStepwiseExists
  <1>3. ASSUME NEW f, NEW n \in 1 .. N, f[n - 1] \in V
        PROVE  G[<<f[n - 1], n>>] = Plan!Extend(f[n - 1], order[n])
    <2> PICK x : x = <<f[n - 1], n>>
      OBVIOUS
    <2>1. x \in V \X Nat /\ x[1] = f[n - 1] /\ x[2] = n
      BY <1>0, <1>3
    <2>2. G[x] = Plan!Extend(f[n - 1], order[n])
      BY <2>1
    <2> QED BY <2>2
  <1>4. \E f : PlanGeneratedUpTo(order, f)
    <2> PICK f : PlanStepwise(f, G, N)
      BY <1>2
    <2>1. f = [n \in 0 .. N |-> IF n = 0 THEN <<>> ELSE G[<<f[n - 1], n>>]]
      BY <1>2
    <2>2. ASSUME NEW n \in 0 .. N, n # 0
          PROVE  G[<<f[n - 1], n>>] = Plan!Extend(f[n - 1], order[n])
      <3>1. n \in 1 .. N /\ n - 1 \in 0 .. N
        BY <1>0, <2>2
      <3>2. f[n - 1] \in V
        BY <3>1 DEF PlanStepwise
      <3> QED BY <1>3, <3>1, <3>2
    <2>3. f = [n \in 0 .. N |-> IF n = 0 THEN <<>> ELSE Plan!Extend(f[n - 1], order[n])]
      BY <2>1, <2>2
    <2> QED BY <2>3 DEF PlanGeneratedUpTo
  <1> PICK f : f = CHOOSE g : PlanGeneratedUpTo(order, g)
    OBVIOUS
  <1>5. PlanGeneratedUpTo(order, f) /\ Plan!Generated(order) = f[N]
    BY <1>4 DEF Plan!Generated, PlanGeneratedUpTo
  <1>6. /\ f = [n \in 0 .. N |-> IF n = 0 THEN <<>> ELSE Plan!Extend(f[n - 1], order[n])]
    BY <1>5 DEF PlanGeneratedUpTo
  <1>7. f[0] = <<>> /\ \A n \in 1 .. N : f[n] = Plan!Extend(f[n - 1], order[n])
    <2>1. 0 \in 0 .. N /\ \A n \in 1 .. N : n # 0 /\ n \in 0 .. N
      BY <1>0
    <2> QED BY <1>6, <2>1
  <1>8. \A n \in 0 .. N : f[n] \in V
    <2> DEFINE Right == {n \in Nat : n =< N => f[n] \in V}
    <2>1. 0 \in Right
      BY <1>7, PlanEmptyRouteIsGood
    <2>2. ASSUME NEW n \in Nat, n \in Right PROVE n + 1 \in Right
      <3> SUFFICES ASSUME n + 1 =< N PROVE f[n + 1] \in V
        OBVIOUS
      <3>1. n =< N /\ n + 1 \in 1 .. N /\ n + 1 - 1 = n
        BY <1>0
      <3>2. f[n + 1] = Plan!Extend(f[n], order[n + 1]) /\ f[n] \in V
        BY <1>7, <2>2, <3>1
      <3>3. G[<<f[n], n + 1>>] = Plan!Extend(f[n], order[n + 1])
        BY <1>3, <3>1, <3>2
      <3>4. <<f[n], n + 1>> \in V \X Nat
        BY <3>2
      <3> QED BY <1>1, <3>2, <3>3, <3>4
    <2> HIDE DEF Right
    <2>3. Nat \subseteq Right
      BY <2>1, <2>2, NatSetInduction
    <2> QED BY <1>0, <2>3 DEF Right
  <1>9. f \in [0 .. N -> V]
    BY <1>6, <1>8
  <1> QED BY <1>5, <1>7, <1>9

LEMMA PlanReplannedStepwise ==
    ASSUME Plan!TimesAssumption, PlanLockable(locked), NEW order \in Seq(Stops), NEW N, N = Len(order)
    PROVE  \E f \in [0 .. N -> Seq(PlanAnyItem)] :
              /\ f[0] = <<>> /\ \A n \in 1 .. N : f[n] = Plan!Replace(f[n - 1], order[n])
              /\ Plan!Replanned(order) = f[N]
  <1> PICK V : V = Seq(PlanAnyItem)
    OBVIOUS
  <1> PICK G : G = [x \in V \X Nat |-> IF x[2] \in 1 .. N THEN Plan!Replace(x[1], order[x[2]])
        ELSE x[1]]
    OBVIOUS
  <1>0. N \in Nat /\ \A n \in 1 .. N : order[n] \in Stops
    OBVIOUS
  <1>1. G \in [V \X Nat -> V]
    <2> SUFFICES ASSUME NEW r \in V, NEW n \in 1 .. N PROVE Plan!Replace(r, order[n]) \in V
      OBVIOUS
    <2>1. Plan!Infeasible \in V
      <3>1. [stop |-> Entrance, start |-> 0, end |-> 0] \in PlanAnyItem
        BY DEF PlanAnyItem
      <3> QED BY <3>1 DEF Plan!Infeasible
    <2> QED BY <1>0, <2>1, PlanAppendsAnItem DEF Plan!Replace
  <1>2. /\ \E f : PlanStepwise(f, G, N)
        /\ \A f : PlanStepwise(f, G, N) =>
              f = [n \in 0 .. N |-> IF n = 0 THEN <<>> ELSE G[<<f[n - 1], n>>]]
    <2>1. G \in [Seq(PlanAnyItem) \X Nat -> Seq(PlanAnyItem)]
      BY <1>1
    <2> QED BY ONLY <1>0, <2>1, PlanStepwiseExists
  <1>3. ASSUME NEW f, NEW n \in 1 .. N, f[n - 1] \in V
        PROVE  G[<<f[n - 1], n>>] = Plan!Replace(f[n - 1], order[n])
    <2> PICK x : x = <<f[n - 1], n>>
      OBVIOUS
    <2>1. x \in V \X Nat /\ x[1] = f[n - 1] /\ x[2] = n
      BY <1>0, <1>3
    <2>2. G[x] = Plan!Replace(f[n - 1], order[n])
      BY <2>1
    <2> QED BY <2>2
  <1>4. \E f : PlanReplannedUpTo(order, f)
    <2> PICK f : PlanStepwise(f, G, N)
      BY <1>2
    <2>1. f = [n \in 0 .. N |-> IF n = 0 THEN <<>> ELSE G[<<f[n - 1], n>>]]
      BY <1>2
    <2>2. ASSUME NEW n \in 0 .. N, n # 0
          PROVE  G[<<f[n - 1], n>>] = Plan!Replace(f[n - 1], order[n])
      <3>1. n \in 1 .. N /\ n - 1 \in 0 .. N
        BY <1>0, <2>2
      <3>2. f[n - 1] \in V
        BY <3>1 DEF PlanStepwise
      <3> QED BY <1>3, <3>1, <3>2
    <2>3. f = [n \in 0 .. N |-> IF n = 0 THEN <<>> ELSE Plan!Replace(f[n - 1], order[n])]
      BY <2>1, <2>2
    <2> QED BY <2>3 DEF PlanReplannedUpTo
  <1> PICK f : f = CHOOSE g : PlanReplannedUpTo(order, g)
    OBVIOUS
  <1>5. PlanReplannedUpTo(order, f) /\ Plan!Replanned(order) = f[N]
    BY <1>4 DEF Plan!Replanned, PlanReplannedUpTo
  <1>6. /\ f = [n \in 0 .. N |-> IF n = 0 THEN <<>> ELSE Plan!Replace(f[n - 1], order[n])]
    BY <1>5 DEF PlanReplannedUpTo
  <1>7. f[0] = <<>> /\ \A n \in 1 .. N : f[n] = Plan!Replace(f[n - 1], order[n])
    <2>1. 0 \in 0 .. N /\ \A n \in 1 .. N : n # 0 /\ n \in 0 .. N
      BY <1>0
    <2> QED BY <1>6, <2>1
  <1>8. \A n \in 0 .. N : f[n] \in V
    <2> DEFINE Right == {n \in Nat : n =< N => f[n] \in V}
    <2>1. 0 \in Right
      BY <1>7, PlanEmptyRouteIsGood
    <2>2. ASSUME NEW n \in Nat, n \in Right PROVE n + 1 \in Right
      <3> SUFFICES ASSUME n + 1 =< N PROVE f[n + 1] \in V
        OBVIOUS
      <3>1. n =< N /\ n + 1 \in 1 .. N /\ n + 1 - 1 = n
        BY <1>0
      <3>2. f[n + 1] = Plan!Replace(f[n], order[n + 1]) /\ f[n] \in V
        BY <1>7, <2>2, <3>1
      <3>3. G[<<f[n], n + 1>>] = Plan!Replace(f[n], order[n + 1])
        BY <1>3, <3>1, <3>2
      <3>4. <<f[n], n + 1>> \in V \X Nat
        BY <3>2
      <3> QED BY <1>1, <3>2, <3>3, <3>4
    <2> HIDE DEF Right
    <2>3. Nat \subseteq Right
      BY <2>1, <2>2, NatSetInduction
    <2> QED BY <1>0, <2>3 DEF Right
  <1>9. f \in [0 .. N -> V]
    BY <1>6, <1>8
  <1> QED BY <1>5, <1>7, <1>9

(* What the planner makes of an order of stops.                            *)
PlanFollows(route, order, n) ==
    Len(route) = n /\ \A i \in 1 .. n : route[i].stop = order[i]

PlanAmong(route, order, n) ==
    PlanStopsDiffer(route) /\ \A i \in DOMAIN route : \E k \in 1 .. n : route[i].stop = order[k]

PlanAllDiffer(order) == \A i, j \in DOMAIN order : order[i] = order[j] => i = j

PlanCalmFirst(levels, route) ==
    \A i, j \in DOMAIN route : i < j => Plan!CalmBefore(levels, route[i].stop, route[j].stop)

LEMMA PlanGeneratedIsGood ==
    ASSUME Plan!TimesAssumption, NEW order \in Seq(Stops), PlanAllDiffer(order)
    PROVE  PlanGoodRoute(Plan!Generated(order), {}) /\ PlanStopsDiffer(Plan!Generated(order))
  <1> PICK N : N = Len(order)
    OBVIOUS
  <1>1. N \in Nat /\ DOMAIN order = 1 .. N /\ \A n \in 1 .. N : order[n] \in Stops
    OBVIOUS
  <1>2. PICK f \in [0 .. N -> Seq(PlanAnyItem)] :
              /\ f[0] = <<>> /\ \A n \in 1 .. N : f[n] = Plan!Extend(f[n - 1], order[n])
              /\ Plan!Generated(order) = f[N]
    BY PlanGeneratedStepwise
  <1> DEFINE Right == {n \in Nat : n =< N => PlanGoodRoute(f[n], {}) /\ PlanAmong(f[n], order, n)}
  <1>3. 0 \in Right
    <2>1. PlanStopsDiffer(<<>>) /\ DOMAIN <<>> = {}
      BY DEF PlanStopsDiffer
    <2>2. PlanGoodRoute(<<>>, {}) /\ PlanAmong(<<>>, order, 0)
      BY <2>1, PlanEmptyRouteIsGood DEF PlanAmong
    <2> QED BY <1>2, <2>2
  <1>4. ASSUME NEW n \in Nat, n \in Right PROVE n + 1 \in Right
    <2> SUFFICES ASSUME n + 1 =< N PROVE PlanGoodRoute(f[n + 1], {})
                        /\ PlanAmong(f[n + 1], order, n + 1)
      OBVIOUS
    <2> PICK r, s, l : r = f[n] /\ s = order[n + 1] /\ l = Len(f[n])
      OBVIOUS
    <2>1. n =< N /\ n + 1 \in 1 .. N /\ n + 1 - 1 = n
      BY <1>1
    <2>2. PlanGoodRoute(r, {}) /\ PlanAmong(r, order, n) /\ f[n + 1] = Plan!Extend(r, s) /\ s \in Stops
      BY <1>1, <1>2, <1>4, <2>1
    <2>3. r \in Seq(Plan!ItemRow) /\ l \in Nat /\ DOMAIN r = 1 .. l
      BY <2>2 DEF PlanGoodRoute
    <2>4. CASE Plan!Fits(r, s, {}) /\ f[n + 1] = Append(r, Plan!Placed(r, s, {}))
      <3> PICK q : q = f[n + 1]
        OBVIOUS
      <3>1. /\ PlanGoodRoute(q, {}) /\ Len(q) = l + 1 /\ q[l + 1].stop = s
            /\ \A i \in 1 .. l : q[i] = r[i]
        <4>1. PlanLockable({})
          BY FS_EmptySet DEF PlanLockable
        <4>2. PlanGrown(r, s, {}, q) /\ Plan!Fits(r, s, {}) /\ PlanGoodRoute(r, {}) /\ s \in Stops
          BY <2>2, <2>4 DEF PlanGrown
        <4>3. /\ PlanGoodRoute(q, {}) /\ Len(q) = Len(r) + 1 /\ q[Len(r) + 1].stop = s
              /\ \A i \in DOMAIN r : q[i] = r[i]
          BY ONLY Plan!TimesAssumption, <4>1, <4>2, PlanOneMoreStop
        <4>4. l = Len(r) /\ DOMAIN r = 1 .. l
          BY <2>3
        <4> QED BY <4>3, <4>4
      <3>2. DOMAIN q = 1 .. l + 1 /\ \A i \in 1 .. l + 1 : i = l + 1 \/ i \in 1 .. l
        BY <2>3, <3>1 DEF PlanGoodRoute
      <3>3. \A i \in 1 .. l : \E k \in 1 .. n : q[i].stop = order[k]
        <4>1. \A i \in 1 .. l : \E k \in 1 .. n : r[i].stop = order[k]
          BY <2>2, <2>3 DEF PlanAmong
        <4> QED BY <3>1, <4>1, ZenonT(60)
      <3>4. \A k \in 1 .. n : k \in 1 .. N /\ k # n + 1 /\ k \in 1 .. n + 1
        BY <2>1
      <3>5. \A k \in 1 .. n : order[k] # s
        BY <1>1, <2>1, <3>4 DEF PlanAllDiffer
      <3>6. \A i \in 1 .. l : q[i].stop # s
        BY <3>3, <3>5
      <3>7. PlanStopsDiffer(q)
        <4> SUFFICES ASSUME NEW i \in 1 .. l + 1, NEW j \in 1 .. l + 1, q[i].stop = q[j].stop
                     PROVE  i = j
          BY <3>2 DEF PlanStopsDiffer
        <4>1. CASE i = l + 1 \/ j = l + 1
          BY <3>1, <3>2, <3>6, <4>1
        <4>2. CASE i \in 1 .. l /\ j \in 1 .. l
          BY <2>2, <2>3, <3>1, <4>2, ZenonT(60) DEF PlanAmong, PlanStopsDiffer
        <4> QED BY <3>2, <4>1, <4>2
      <3>8. \A i \in 1 .. l + 1 : \E k \in 1 .. n + 1 : q[i].stop = order[k]
        <4>1. n + 1 \in 1 .. n + 1
          OBVIOUS
        <4>2. q[l + 1].stop = order[n + 1]
          BY <3>1
        <4> QED BY <3>2, <3>3, <3>4, <4>1, <4>2
      <3> QED BY <3>1, <3>2, <3>7, <3>8 DEF PlanAmong
    <2>5. CASE f[n + 1] = r
      <3>1. \A k \in 1 .. n : k \in 1 .. n + 1
        OBVIOUS
      <3>2. PlanAmong(r, order, n + 1)
        BY <2>2, <3>1 DEF PlanAmong
      <3> QED BY <2>2, <2>5, <3>2
    <2> QED BY <2>2, <2>4, <2>5 DEF Plan!Extend
  <1> HIDE DEF Right
  <1>5. Nat \subseteq Right
    BY <1>3, <1>4, NatSetInduction
  <1>6. N \in Right /\ N =< N
    BY <1>1, <1>5
  <1> QED BY <1>2, <1>6 DEF Right, PlanAmong

LEMMA PlanReplannedIsGood ==
    ASSUME Plan!TimesAssumption, PlanLockable(locked), NEW order \in Seq(Stops),
           Plan!Replanned(order) # Plan!Infeasible
    PROVE  PlanGoodRoute(Plan!Replanned(order), locked)
           /\ PlanFollows(Plan!Replanned(order), order, Len(order))
  <1> PICK N : N = Len(order)
    OBVIOUS
  <1>1. N \in Nat /\ DOMAIN order = 1 .. N /\ \A n \in 1 .. N : order[n] \in Stops
    OBVIOUS
  <1>2. PICK f \in [0 .. N -> Seq(PlanAnyItem)] :
              /\ f[0] = <<>> /\ \A n \in 1 .. N : f[n] = Plan!Replace(f[n - 1], order[n])
              /\ Plan!Replanned(order) = f[N]
    BY PlanReplannedStepwise
  <1> DEFINE Right == {n \in Nat : n =< N => f[n] = Plan!Infeasible
                                             \/ (PlanGoodRoute(f[n], locked)
                                                  /\ PlanFollows(f[n], order, n))}
  <1>3. 0 \in Right
    <2>1. PlanFollows(<<>>, order, 0)
      BY PlanEmptyRouteIsGood DEF PlanFollows
    <2> QED BY <1>2, <2>1, PlanEmptyRouteIsGood
  <1>4. ASSUME NEW n \in Nat, n \in Right PROVE n + 1 \in Right
    <2> SUFFICES ASSUME n + 1 =< N, f[n + 1] # Plan!Infeasible
                 PROVE  PlanGoodRoute(f[n + 1], locked) /\ PlanFollows(f[n + 1], order, n + 1)
      OBVIOUS
    <2> PICK r, s : r = f[n] /\ s = order[n + 1]
      OBVIOUS
    <2>1. n =< N /\ n + 1 \in 1 .. N /\ n + 1 - 1 = n
      BY <1>1
    <2>2. f[n + 1] = Plan!Replace(r, s) /\ s \in Stops
      BY <1>1, <1>2, <2>1
    <2>3. r # Plan!Infeasible /\ Plan!Fits(r, s, locked)
          /\ f[n + 1] = Append(r, Plan!Placed(r, s, locked))
      BY <2>2 DEF Plan!Replace
    <2>4. PlanGoodRoute(r, locked) /\ PlanFollows(r, order, n)
      BY <1>4, <2>1, <2>3
    <2> PICK q : q = f[n + 1]
      OBVIOUS
    <2>5. /\ PlanGoodRoute(q, locked) /\ Len(q) = Len(r) + 1 /\ q[Len(r) + 1].stop = s
          /\ \A i \in DOMAIN r : q[i] = r[i]
      <3>1. PlanGrown(r, s, locked, q) /\ s \in Stops
        BY <2>2, <2>3 DEF PlanGrown
      <3> QED BY ONLY Plan!TimesAssumption, PlanLockable(locked), <2>3, <2>4, <3>1, PlanOneMoreStop
    <2>6. Len(r) = n /\ DOMAIN r = 1 .. n /\ \A i \in 1 .. n : r[i].stop = order[i]
      BY <2>4 DEF PlanFollows, PlanGoodRoute
    <2>7. \A i \in 1 .. n + 1 : i = n + 1 \/ i \in 1 .. n
      OBVIOUS
    <2>8. PlanFollows(q, order, n + 1)
      BY <2>5, <2>6, <2>7 DEF PlanFollows
    <2> QED BY <2>5, <2>8
  <1> HIDE DEF Right
  <1>5. Nat \subseteq Right
    BY <1>3, <1>4, NatSetInduction
  <1>6. N \in Right /\ N =< N
    BY <1>1, <1>5
  <1> QED BY <1>2, <1>6 DEF Right

(* The candidates are stops, each of them once.                            *)
LEMMA PlanCandidatesDiffer ==
    ASSUME Plan!TimesAssumption, Plan!Latest \in [Stops -> Levels], NEW order \in Plan!Candidates
    PROVE  order \in Seq(Stops) /\ PlanAllDiffer(order)
  <1> PICK S, n : S = {s \in Stops : Plan!Linked(Entrance, s)} /\ n = Cardinality(S)
    OBVIOUS
  <1>1. /\ order \in [1 .. n -> S]
        /\ \A i, j \in DOMAIN order : i < j => Plan!Better(order[i], order[j])
    BY PlanCounts DEF Plan!Candidates
  <1>2. ASSUME NEW a \in S PROVE ~ Plan!Better(a, a)
    <2>1. a \in Int /\ Plan!Score(a) \in Int
      <3>1. Plan!Latest[a] \in 0 .. 2 /\ Merit[a] \in Int /\ a \in Int /\ Walk[<<Entrance, a>>] \in Nat
        BY <1>2, PlanWalksAreNumbers DEF Plan!TimesAssumption
      <3>2. Plan!CrowdScore[Plan!Latest[a] + 1] \in Int
        BY <3>1 DEF Plan!CrowdScore
      <3> QED BY <3>1, <3>2 DEF Plan!Score
    <2> QED BY <2>1 DEF Plan!Better
  <1>3. PlanAllDiffer(order)
    <2> SUFFICES ASSUME NEW i \in DOMAIN order, NEW j \in DOMAIN order, order[i] = order[j]
                 PROVE  i = j
      BY DEF PlanAllDiffer
    <2>1. order[i] \in S /\ i \in Int /\ j \in Int
      BY <1>1
    <2>2. ~ (i < j) /\ ~ (j < i)
      BY <1>1, <1>2, <2>1
    <2> QED BY <2>1, <2>2
  <1>4. order \in Seq(Stops)
    <2>1. n \in Nat
      <3>1. IsFiniteSet(S)
        BY FS_Subset, PlanCounts DEF Plan!TimesAssumption
      <3> QED BY <3>1, FS_CardinalityType
    <2> QED BY <1>1, <2>1
  <1> QED BY <1>3, <1>4

(* An order of a replan has every stop of the plan, once.                  *)
LEMMA PlanOrdersKeepTheStops ==
    ASSUME Plan!TimesAssumption, Plan!Latest \in [Stops -> Levels], NEW route \in Seq(Plan!ItemRow),
           PlanStopsDiffer(route), NEW avoids \in BOOLEAN, NEW order \in Plan!InOrder(route, avoids)
    PROVE  /\ order \in Seq(Stops) /\ Len(order) = Len(route) /\ PlanAllDiffer(order)
           /\ {order[i] : i \in DOMAIN order} = Plan!StopsOf(route)
           /\ avoids => \A i, j \in DOMAIN order : i < j =>
                Plan!CalmBefore(Plan!Latest, order[i], order[j])
  <1> PICK n, S : n = Len(route) /\ S = Plan!StopsOf(route)
    OBVIOUS
  <1>1. /\ n \in Nat /\ DOMAIN route = 1 .. n /\ \A i \in 1 .. n : route[i].stop \in Stops
        /\ S = {route[i].stop : i \in 1 .. n} /\ S \subseteq Stops
    <2>1. n \in Nat /\ DOMAIN route = 1 .. n /\ \A i \in 1 .. n : route[i] \in Plan!ItemRow
      OBVIOUS
    <2>2. \A i \in 1 .. n : route[i].stop \in Stops
      BY <2>1 DEF Plan!ItemRow
    <2>3. S = {route[i].stop : i \in 1 .. n}
      BY <2>1 DEF Plan!StopsOf
    <2> QED BY <2>1, <2>2, <2>3
  <1>2. CASE ~ avoids
    <2>1. order = [i \in 1 .. n |-> route[i].stop]
      BY <1>1, <1>2 DEF Plan!InOrder
    <2>2. order \in Seq(Stops) /\ Len(order) = n /\ DOMAIN order = 1 .. n
      BY <1>1, <2>1
    <2>3. PlanAllDiffer(order)
      BY <1>1, <2>1 DEF PlanAllDiffer, PlanStopsDiffer
    <2> QED BY <1>1, <1>2, <2>1, <2>2, <2>3
  <1>3. CASE avoids
    <2>1. /\ order \in [1 .. n -> S]
          /\ \A i, j \in DOMAIN order : i < j => Plan!CalmBefore(Plan!Latest, order[i], order[j])
      BY <1>1, <1>3 DEF Plan!InOrder, Plan!OrdersBy
    <2>2. ASSUME NEW a \in S PROVE ~ Plan!CalmBefore(Plan!Latest, a, a)
      <3>1. a \in Int /\ Plan!Latest[a] \in Int
        BY <1>1 DEF Plan!TimesAssumption
      <3> QED BY <3>1 DEF Plan!CalmBefore
    <2>3. PlanAllDiffer(order)
      <3> SUFFICES ASSUME NEW i \in 1 .. n, NEW j \in 1 .. n, order[i] = order[j]
                   PROVE  i = j
        BY <2>1 DEF PlanAllDiffer
      <3>1. order[i] \in S /\ i \in Int /\ j \in Int
        BY <1>1, <2>1
      <3>2. ~ (i < j) /\ ~ (j < i)
        BY <2>1, <2>2, <3>1
      <3> QED BY <3>1, <3>2
    <2>4. {order[i] : i \in 1 .. n} = S
      <3> PICK g, I : g = [i \in 1 .. n |-> route[i].stop] /\ I = 1 .. n
        OBVIOUS
      <3>1. IsFiniteSet(I)
        BY <1>1, FS_Interval
      <3>2. g \in [I -> S] /\ (\A s \in S : \E i \in I : g[i] = s)
            /\ \A i, j \in I : g[i] = g[j] => i = j
        BY <1>1 DEF PlanStopsDiffer
      <3>3. g \in Surjection(I, S) /\ g \in Injection(I, S)
        BY <3>2 DEF Surjection, Injection, IsInjective
      <3>4. IsFiniteSet(S) /\ Cardinality(S) = Cardinality(I)
        BY <3>1, <3>3, FS_Surjection
      <3>5. order \in Injection(I, S)
        BY <2>1, <2>3 DEF PlanAllDiffer, Injection, IsInjective
      <3>6. order \in Surjection(I, S)
        BY <3>4, <3>5, FS_Injection
      <3> QED BY <2>1, <3>6 DEF Surjection
    <2>5. order \in Seq(Stops) /\ Len(order) = n /\ DOMAIN order = 1 .. n
      BY <1>1, <2>1
    <2> QED BY <1>3, <2>1, <2>3, <2>4, <2>5
  <1> QED BY <1>2, <1>3

(* The invariant.  The answer to a replan has the stops of the plan,       *)
(* whatever revision it is over, and stands on a snapshot that is saved.   *)
PlanAnswer(snaps, busy, stops, d) ==
    /\ d.revision < MaxPlanRevision /\ d.sequence \in 1 .. Len(snaps)
    /\ PlanGoodRoute(d.route, busy) /\ PlanStopsDiffer(d.route) /\ Plan!StopsOf(d.route) = stops
    /\ d.avoids => PlanCalmFirst(snaps[d.sequence], d.route)

PlanIsGood ==
    /\ PlanWalkable(plan.route) /\ PlanStopsDiffer(plan.route)
    /\ plan.revision > 1 => PlanClearOf(plan.route, locked)

PlanExplained(snaps, run, route) ==
    run.revision > 1 /\ run.avoids =>
        run.sequence \in 1 .. Len(snaps) /\ PlanCalmFirst(snaps[run.sequence], route)

PlanAnswersAreSound ==
    \A p \in Pages : planDoing[p] # Plan!Idle =>
        PlanAnswer(planSnapshots, locked, Plan!StopsOf(plan.route), planDoing[p])

PlanInv ==
    /\ Plan!TypeOK /\ PlanLockable(locked)
    /\ PlanIsGood /\ PlanAnswersAreSound
    /\ Plan!OneRunPerRevision /\ PlanExplained(planSnapshots, Plan!Last(runs), plan.route)

LEMMA PlanBusyIsSolved ==
    ASSUME PlanInv, NEW p \in Pages
    PROVE  /\ planDoing[p] # Plan!Idle => planDoing[p] \in Plan!Solved
           /\ \A d \in Plan!Solved : d # Plan!Idle
  <1>1. \A d \in Plan!Solved : d.revision # 0
    BY DEF Plan!Solved
  <1>2. Plan!Idle.revision = 0
    BY DEF Plan!Idle
  <1> QED BY <1>1, <1>2 DEF PlanInv, Plan!TypeOK

LEMMA PlanLatestIsSaved ==
    ASSUME PlanInv
    PROVE  /\ Len(planSnapshots) \in 1 .. Len(planSnapshots)
              /\ Plan!Latest = planSnapshots[Len(planSnapshots)]
           /\ Plan!Latest \in [Stops -> Levels]
  <1>1. planSnapshots \in Seq([Stops -> Levels]) /\ Len(planSnapshots) >= 1
        /\ Len(planSnapshots) \in Nat
    BY DEF PlanInv, Plan!TypeOK
  <1> QED BY <1>1 DEF Plan!Latest

LEMMA PlanInvGives ==
    ASSUME Plan!TimesAssumption, PlanInv
    PROVE  Plan!TypeOK /\ Plan!PlansPassTheCheck /\ Plan!LockedIsAvoided /\ Plan!OneRunPerRevision
           /\ Plan!RunExplainsThePlan
  <1> PICK r : r = plan.route
    OBVIOUS
  <1>1. r \in Seq(Plan!ItemRow) /\ PlanWalkable(r) /\ Buffer \in Nat
    BY DEF PlanInv, Plan!TypeOK, Plan!PlanRow, PlanIsGood, Plan!TimesAssumption
  <1>2. Plan!Conflicts(r) = {}
    <2> SUFFICES ASSUME NEW i \in 1 .. Len(r) - 1
                 PROVE  /\ ~ Plan!Overlaps(r[i], r[i + 1]) /\ Plan!Linked(r[i].stop, r[i + 1].stop)
                        /\ ~ (r[i + 1].start - r[i].end < Walk[<<r[i].stop, r[i + 1].stop>>] + Buffer)
      BY DEF Plan!Conflicts
    <2>1. /\ Plan!Linked(r[i].stop, r[i + 1].stop)
          /\ r[i + 1].start >= r[i].end + Walk[<<r[i].stop, r[i + 1].stop>>] + Buffer
      BY <1>1 DEF PlanWalkable
    <2>2. Walk[<<r[i].stop, r[i + 1].stop>>] \in Nat
      BY <2>1, PlanWalksAreNumbers
    <2>3. i \in 1 .. Len(r) /\ i + 1 \in 1 .. Len(r)
      BY <1>1
    <2>4. r[i].end \in Int /\ r[i + 1].start \in Int
      <3>1. r[i] \in Plan!ItemRow /\ r[i + 1] \in Plan!ItemRow
        BY <1>1, <2>3
      <3> QED BY <3>1 DEF Plan!ItemRow
    <2>5. ~ (r[i + 1].start < r[i].end)
      BY <1>1, <2>1, <2>2, <2>4
    <2>6. ~ (r[i + 1].start - r[i].end < Walk[<<r[i].stop, r[i + 1].stop>>] + Buffer)
      BY <1>1, <2>1, <2>2, <2>4, SMTT(30)
    <2> QED BY <2>1, <2>5, <2>6 DEF Plan!Overlaps
  <1>3. r # <<>> => Plan!Last(r).end + Walk[<<Plan!Last(r).stop, Entrance>>] <= Day
    <2> SUFFICES ASSUME r # <<>> PROVE Plan!Last(r).end + Walk[<<Plan!Last(r).stop, Entrance>>] <= Day
      OBVIOUS
    <2>1. Len(r) \in DOMAIN r
      BY <1>1
    <2> QED BY <1>1, <2>1 DEF PlanWalkable, Plan!Last
  <1>4. Plan!LockedIsAvoided
    BY DEF PlanInv, PlanIsGood, PlanClearOf, Plan!LockedIsAvoided
  <1>5. Plan!RunExplainsThePlan
    BY DEF PlanInv, PlanExplained, PlanCalmFirst, Plan!RunExplainsThePlan
  <1> QED BY <1>2, <1>3, <1>4, <1>5 DEF PlanInv, Plan!PlansPassTheCheck

LEMMA PlanInit ==
    ASSUME PlanAssumptions, Plan!Init
    PROVE  PlanInv
  <1>1. planSnapshots \in Seq([Stops -> Levels]) /\ Len(planSnapshots) = 1
    <2>1. planSnapshots \in [{1} -> [Stops -> Levels]] /\ {1} = 1 .. 1
      BY DEF Plan!Init
    <2>2. \A n \in Nat : \A f : f \in [1 .. n -> [Stops -> Levels]] =>
                               f \in Seq([Stops -> Levels]) /\ Len(f) = n
      OBVIOUS
    <2>3. planSnapshots \in [1 .. 1 -> [Stops -> Levels]] /\ 1 \in Nat
      BY <2>1
    <2> QED BY <2>2, <2>3
  <1>2. Plan!Latest \in [Stops -> Levels]
    BY <1>1 DEF Plan!Latest
  <1>3. PICK order \in Plan!Candidates : plan = [revision |-> 1, route |-> Plan!Generated(order)]
    BY DEF Plan!Init
  <1>4. order \in Seq(Stops) /\ PlanAllDiffer(order)
    BY <1>2, PlanCandidatesDiffer DEF PlanAssumptions
  <1>5. PlanGoodRoute(Plan!Generated(order), {}) /\ PlanStopsDiffer(Plan!Generated(order))
    BY <1>4, PlanGeneratedIsGood DEF PlanAssumptions
  <1>6. /\ plan.revision = 1 /\ plan.route = Plan!Generated(order) /\ plan.route \in Seq(Plan!ItemRow)
        /\ PlanWalkable(plan.route) /\ PlanStopsDiffer(plan.route)
    BY <1>3, <1>5 DEF PlanGoodRoute
  <1>7. PlanIsGood
    BY <1>6 DEF PlanIsGood
  <1>8. PlanLockable(locked)
    BY PlanCounts DEF Plan!Init, PlanAssumptions, Plan!LockedAssumption, PlanLockable
  <1>9. MaxPlanRevision \in Nat /\ MaxPlanRevision >= 1 /\ MaxReadings \in Nat /\ MaxReadings >= 1
    BY DEF PlanAssumptions, Plan!BoundsAssumption
  <1> PICK row : row = [revision |-> 1, sequence |-> 0, avoids |-> TRUE]
    OBVIOUS
  <1>10. row \in Plan!RunRow /\ runs = <<row>>
    BY <1>9 DEF Plan!Init, Plan!RunRow
  <1>11. runs \in Seq(Plan!RunRow) /\ Len(runs) = 1 /\ DOMAIN runs = {1} /\ runs[1] = row
         /\ row.revision = 1
    BY <1>10
  <1>12. Plan!OneRunPerRevision /\ PlanExplained(planSnapshots, Plan!Last(runs), plan.route)
    BY <1>6, <1>11 DEF Plan!OneRunPerRevision, PlanExplained, Plan!Last
  <1>13. PlanAnswersAreSound
    BY DEF Plan!Init, PlanAnswersAreSound
  <1>14. plan \in Plan!PlanRow
    BY <1>3, <1>6, <1>9 DEF Plan!PlanRow
  <1>15. shown \in [Pages -> 1 .. MaxPlanRevision]
         /\ planDoing \in [Pages -> Plan!Solved \cup {Plan!Idle}]
         /\ locked \in LockedChoices /\ legacy \in BOOLEAN
    BY <1>9 DEF Plan!Init
  <1>16. Plan!TypeOK
    BY <1>1, <1>9, <1>11, <1>14, <1>15 DEF Plan!TypeOK
  <1> QED BY <1>7, <1>8, <1>12, <1>13, <1>16 DEF PlanInv

(* Every step keeps it, and the stops.                                     *)
PlanSnapshotsGrow(snaps, next) ==
    Len(snaps) <= Len(next) /\ \A i \in 1 .. Len(snaps) : i \in 1 .. Len(next) /\ next[i] = snaps[i]

LEMMA PlanAnswerStays ==
    ASSUME NEW snaps, NEW next, PlanSnapshotsGrow(snaps, next), NEW busy, NEW stops, NEW d,
           PlanAnswer(snaps, busy, stops, d)
    PROVE  PlanAnswer(next, busy, stops, d)
  BY DEF PlanAnswer, PlanSnapshotsGrow

LEMMA PlanCrowdChangesKeeps ==
    ASSUME PlanAssumptions, PlanInv, NEW levels \in [Stops -> Levels], Plan!CrowdChanges(levels)
    PROVE  PlanInv' /\ Plan!StopsOf(plan'.route) = Plan!StopsOf(plan.route)
  <1> PICK next : next = planSnapshots'
    OBVIOUS
  <1>1. /\ next = Append(planSnapshots, levels) /\ Len(planSnapshots) < MaxReadings
        /\ UNCHANGED <<plan, locked, legacy, runs, shown, planDoing>>
    BY DEF Plan!CrowdChanges
  <1>2. /\ planSnapshots \in Seq([Stops -> Levels]) /\ Len(planSnapshots) \in 1 .. MaxReadings
        /\ Len(planSnapshots) \in Nat
    BY DEF PlanInv, Plan!TypeOK
  <1>3. /\ next \in Seq([Stops -> Levels]) /\ Len(next) = Len(planSnapshots) + 1
        /\ \A i \in 1 .. Len(planSnapshots) : next[i] = planSnapshots[i]
    BY <1>1, <1>2
  <1>4. Len(next) \in 1 .. MaxReadings /\ PlanSnapshotsGrow(planSnapshots, next)
    <2>1. MaxReadings \in Int
      BY DEF PlanAssumptions, Plan!BoundsAssumption
    <2> QED BY <1>1, <1>2, <1>3, <2>1 DEF PlanSnapshotsGrow
  <1>5. Plan!TypeOK'
    BY <1>1, <1>3, <1>4 DEF PlanInv, Plan!TypeOK
  <1>6. PlanAnswersAreSound'
    BY <1>1, <1>4, PlanAnswerStays DEF PlanInv, PlanAnswersAreSound
  <1>7. PlanExplained(next, Plan!Last(runs), plan.route)
    BY <1>4 DEF PlanInv, PlanExplained, PlanSnapshotsGrow
  <1>8. PlanExplained(planSnapshots, Plan!Last(runs), plan.route)'
    BY <1>1, <1>7
  <1> QED BY <1>1, <1>5, <1>6, <1>8 DEF PlanInv, PlanIsGood, Plan!OneRunPerRevision

LEMMA PlanSolveKeeps ==
    ASSUME PlanAssumptions, PlanInv, NEW p \in Pages, NEW avoids \in BOOLEAN, Plan!Solve(p, avoids)
    PROVE  PlanInv' /\ Plan!StopsOf(plan'.route) = Plan!StopsOf(plan.route)
  <1>1. /\ planDoing[p] = Plan!Idle /\ plan.revision < MaxPlanRevision /\ shown[p] = plan.revision
        /\ UNCHANGED <<planSnapshots, plan, locked, legacy, runs, shown>>
        /\ \E order \in Plan!InOrder(plan.route, avoids) :
              /\ Plan!Replanned(order) # Plan!Infeasible
              /\ planDoing' = [planDoing EXCEPT ![p] =
                          [revision |-> shown[p], route |-> Plan!Replanned(order),
                           sequence |-> Len(planSnapshots), avoids |-> avoids]]
    BY DEF Plan!Solve
  <1>2. PICK order \in Plan!InOrder(plan.route, avoids) :
              /\ Plan!Replanned(order) # Plan!Infeasible
              /\ planDoing' = [planDoing EXCEPT ![p] =
                          [revision |-> shown[p], route |-> Plan!Replanned(order),
                           sequence |-> Len(planSnapshots), avoids |-> avoids]]
    BY <1>1
  <1> PICK r, n, d : /\ r = Plan!Replanned(order) /\ n = Len(plan.route)
                     /\ d = [revision |-> shown[p], route |-> Plan!Replanned(order),
                             sequence |-> Len(planSnapshots), avoids |-> avoids]
    OBVIOUS
  <1>3. Plan!Latest = planSnapshots[Len(planSnapshots)] /\ Plan!Latest \in [Stops -> Levels]
        /\ Len(planSnapshots) \in 1 .. Len(planSnapshots)
    BY PlanLatestIsSaved
  <1>4. /\ plan.route \in Seq(Plan!ItemRow) /\ PlanStopsDiffer(plan.route)
           /\ plan.revision \in 1 .. MaxPlanRevision
    BY DEF PlanInv, Plan!TypeOK, Plan!PlanRow, PlanIsGood
  <1>5. /\ order \in Seq(Stops) /\ Len(order) = n /\ PlanAllDiffer(order)
        /\ {order[i] : i \in DOMAIN order} = Plan!StopsOf(plan.route)
        /\ avoids => \A i, j \in DOMAIN order : i < j =>
             Plan!CalmBefore(Plan!Latest, order[i], order[j])
    BY <1>2, <1>3, <1>4, PlanOrdersKeepTheStops DEF PlanAssumptions
  <1>6. PlanGoodRoute(r, locked) /\ PlanFollows(r, order, n)
    BY <1>2, <1>5, PlanReplannedIsGood DEF PlanAssumptions, PlanInv
  <1>7. /\ DOMAIN order = 1 .. n /\ DOMAIN r = 1 .. n /\ \A i \in 1 .. n : r[i].stop = order[i]
        /\ r \in Seq(Plan!ItemRow)
    BY <1>5, <1>6 DEF PlanFollows, PlanGoodRoute
  <1>8. PlanStopsDiffer(r) /\ Plan!StopsOf(r) = Plan!StopsOf(plan.route)
    <2>1. PlanStopsDiffer(r)
      BY <1>5, <1>7 DEF PlanStopsDiffer, PlanAllDiffer
    <2>2. Plan!StopsOf(r) = {order[i] : i \in 1 .. n}
      BY <1>7 DEF Plan!StopsOf
    <2> QED BY <1>5, <1>7, <2>1, <2>2
  <1>9. avoids => PlanCalmFirst(Plan!Latest, r)
    BY <1>5, <1>7 DEF PlanCalmFirst
  <1>10. /\ d.revision = plan.revision /\ d.route = r /\ d.sequence = Len(planSnapshots)
         /\ d.avoids = avoids
    BY <1>1
  <1>11. PlanAnswer(planSnapshots, locked, Plan!StopsOf(plan.route), d)
    BY <1>1, <1>3, <1>6, <1>8, <1>9, <1>10 DEF PlanAnswer
  <1>12. d \in Plan!Solved
    <2>1. Len(planSnapshots) \in 1 .. MaxReadings /\ shown[p] \in 1 .. MaxPlanRevision
      BY DEF PlanInv, Plan!TypeOK
    <2> QED BY <1>7, <2>1 DEF Plan!Solved
  <1>13. /\ planDoing' \in [Pages -> Plan!Solved \cup {Plan!Idle}] /\ planDoing'[p] = d
         /\ \A q \in Pages : q # p => planDoing'[q] = planDoing[q]
    BY <1>2, <1>12 DEF PlanInv, Plan!TypeOK
  <1>14. Plan!TypeOK'
    BY <1>1, <1>13 DEF PlanInv, Plan!TypeOK
  <1>15. PlanAnswersAreSound'
    <2> SUFFICES ASSUME NEW q \in Pages, planDoing'[q] # Plan!Idle
                 PROVE  PlanAnswer(planSnapshots, locked, Plan!StopsOf(plan.route), planDoing'[q])
      BY <1>1 DEF PlanAnswersAreSound
    <2>1. CASE q = p
      BY <1>11, <1>13, <2>1
    <2>2. CASE q # p
      BY <1>13, <2>2 DEF PlanInv, PlanAnswersAreSound
    <2> QED BY <2>1, <2>2
  <1> QED BY <1>1, <1>14, <1>15 DEF PlanInv, PlanIsGood, Plan!OneRunPerRevision

LEMMA PlanWriteKeeps ==
    ASSUME PlanAssumptions, PlanInv, NEW p \in Pages, NEW heard \in BOOLEAN, Plan!Write(p, heard)
    PROVE  PlanInv' /\ Plan!StopsOf(plan'.route) = Plan!StopsOf(plan.route)
  <1> PICK d, v : d = planDoing[p] /\ v = planDoing[p].revision + 1
    OBVIOUS
  <1>1. /\ d # Plan!Idle /\ plan.revision = d.revision
        /\ plan' = [revision |-> v, route |-> d.route]
        /\ legacy' = FALSE
        /\ runs' = Append(runs, [revision |-> v, sequence |-> d.sequence, avoids |-> d.avoids])
        /\ shown' = IF heard THEN [shown EXCEPT ![p] = v] ELSE shown
        /\ planDoing' = [planDoing EXCEPT ![p] = Plan!Idle]
        /\ UNCHANGED <<planSnapshots, locked>>
    BY DEF Plan!Write, Plan!Holds, Plan!NextRevision
  <1>2. d \in Plan!Solved /\ PlanAnswer(planSnapshots, locked, Plan!StopsOf(plan.route), d)
    BY <1>1, PlanBusyIsSolved DEF PlanInv, PlanAnswersAreSound
  <1>3. /\ d.revision \in 1 .. MaxPlanRevision /\ d.revision < MaxPlanRevision
           /\ MaxPlanRevision \in Nat
        /\ d.route \in Seq(Plan!ItemRow) /\ d.sequence \in 1 .. MaxReadings /\ d.avoids \in BOOLEAN
    BY <1>2 DEF Plan!Solved, PlanAnswer, PlanAssumptions, Plan!BoundsAssumption
  <1>4. v \in 1 .. MaxPlanRevision /\ v > 1
    BY <1>3
  <1> PICK row : row = [revision |-> v, sequence |-> d.sequence, avoids |-> d.avoids]
    OBVIOUS
  <1>5. row \in Plan!RunRow /\ row.revision = v /\ row.sequence = d.sequence /\ row.avoids = d.avoids
    BY <1>3, <1>4 DEF Plan!RunRow
  <1> PICK next : next = runs'
    OBVIOUS
  <1>6. /\ runs \in Seq(Plan!RunRow) /\ Len(runs) = d.revision
        /\ \A i \in DOMAIN runs : runs[i].revision = i
    BY <1>1 DEF PlanInv, Plan!TypeOK, Plan!OneRunPerRevision
  <1>7. /\ next \in Seq(Plan!RunRow) /\ Len(next) = v /\ DOMAIN next = 1 .. v /\ next[v] = row
        /\ \A i \in 1 .. d.revision : next[i] = runs[i]
    BY <1>1, <1>5, <1>6
  <1>8. Plan!Last(next) = row
    BY <1>7 DEF Plan!Last
  <1>9. plan' \in Plan!PlanRow /\ plan'.revision = v /\ plan'.route = d.route
    BY <1>1, <1>3, <1>4 DEF Plan!PlanRow
  <1>10. Plan!OneRunPerRevision'
    <2>1. \A i \in 1 .. v : i = v \/ i \in 1 .. d.revision
      BY <1>3
    <2>2. DOMAIN runs = 1 .. d.revision
      BY <1>6
    <2>3. \A i \in 1 .. v : next[i].revision = i
      BY <1>5, <1>6, <1>7, <2>1, <2>2
    <2> QED BY <1>7, <1>9, <2>3 DEF Plan!OneRunPerRevision
  <1>11. PlanIsGood'
    BY <1>1, <1>2, <1>9 DEF PlanIsGood, PlanAnswer, PlanGoodRoute
  <1>12. PlanExplained(planSnapshots, Plan!Last(runs), plan.route)'
    <2>1. PlanExplained(planSnapshots, row, d.route)
      BY <1>2, <1>5 DEF PlanExplained, PlanAnswer
    <2> QED BY <1>1, <1>8, <1>9, <2>1
  <1>13. Plan!StopsOf(d.route) = Plan!StopsOf(plan.route)
    BY <1>2 DEF PlanAnswer
  <1>14. PlanAnswersAreSound'
    <2> SUFFICES ASSUME NEW q \in Pages, planDoing'[q] # Plan!Idle
                 PROVE  PlanAnswer(planSnapshots, locked, Plan!StopsOf(d.route), planDoing'[q])
      BY <1>1, <1>9 DEF PlanAnswersAreSound
    <2>1. planDoing'[q] = planDoing[q] /\ planDoing[q] # Plan!Idle
      BY <1>1 DEF PlanInv, Plan!TypeOK
    <2> QED BY <1>13, <2>1 DEF PlanInv, PlanAnswersAreSound
  <1>15. Plan!TypeOK'
    BY <1>1, <1>4, <1>7, <1>9 DEF PlanInv, Plan!TypeOK
  <1> QED BY <1>1, <1>9, <1>10, <1>11, <1>12, <1>13, <1>14, <1>15 DEF PlanInv

LEMMA PlanPageKeeps ==
    ASSUME PlanInv, NEW p \in Pages, Plan!GiveUp(p) \/ Plan!Refresh(p)
    PROVE  PlanInv' /\ Plan!StopsOf(plan'.route) = Plan!StopsOf(plan.route)
  <1>1. /\ UNCHANGED <<planSnapshots, plan, locked, legacy, runs>>
        /\ shown' = shown \/ shown' = [shown EXCEPT ![p] = plan.revision]
        /\ planDoing' = planDoing \/ planDoing' = [planDoing EXCEPT ![p] = Plan!Idle]
    BY DEF Plan!GiveUp, Plan!Refresh
  <1>2. \A q \in Pages : planDoing'[q] = planDoing[q] \/ planDoing'[q] = Plan!Idle
    BY <1>1 DEF PlanInv, Plan!TypeOK
  <1>3. PlanAnswersAreSound'
    BY <1>1, <1>2 DEF PlanInv, PlanAnswersAreSound
  <1>4. plan.revision \in 1 .. MaxPlanRevision
    BY DEF PlanInv, Plan!TypeOK, Plan!PlanRow
  <1>5. Plan!TypeOK'
    BY <1>1, <1>4 DEF PlanInv, Plan!TypeOK
  <1> QED BY <1>1, <1>3, <1>5 DEF PlanInv, PlanIsGood, Plan!OneRunPerRevision

LEMMA PlanStep ==
    ASSUME PlanAssumptions, PlanInv, [Plan!Next]_(Plan!vars)
    PROVE  PlanInv' /\ (plan'.route = plan.route
             \/ Plan!StopsOf(plan'.route) = Plan!StopsOf(plan.route))
  <1>1. CASE UNCHANGED Plan!vars
    BY <1>1 DEF Plan!vars, PlanInv, Plan!TypeOK, PlanIsGood, PlanAnswersAreSound,
       Plan!OneRunPerRevision, PlanExplained
  <1>2. CASE Plan!Next
    BY <1>2, PlanCrowdChangesKeeps, PlanSolveKeeps, PlanWriteKeeps, PlanPageKeeps DEF Plan!Next
  <1> QED BY <1>1, <1>2

(* What the planner writes passes the check of conflicts and keeps clear   *)
(* of what is locked; each revision has its run, and the last run tells    *)
(* the order of the stops: generate_itinerary and replan_itinerary.        *)
THEOREM PlansAreSound ==
    ASSUME PlanAssumptions
    PROVE  Plan!Spec => [](/\ Plan!TypeOK /\ Plan!PlansPassTheCheck /\ Plan!LockedIsAvoided
                           /\ Plan!OneRunPerRevision /\ Plan!RunExplainsThePlan)
  <1>1. Plan!Init => PlanInv
    BY PlanInit
  <1>2. PlanInv /\ [Plan!Next]_(Plan!vars) => PlanInv'
    BY PlanStep
  <1>3. PlanInv => /\ Plan!TypeOK /\ Plan!PlansPassTheCheck /\ Plan!LockedIsAvoided
                   /\ Plan!OneRunPerRevision /\ Plan!RunExplainsThePlan
    BY PlanInvGives DEF PlanAssumptions
  <1> QED BY <1>1, <1>2, <1>3, PTL DEF Plan!Spec

(* A replan neither loses nor adds a stop.                                 *)
THEOREM ReplansKeepTheStops ==
    ASSUME PlanAssumptions
    PROVE  Plan!Spec => Plan!ReplanKeepsTheStops
  <1>1. Plan!Init => PlanInv
    BY PlanInit
  <1>2. PlanInv /\ [Plan!Next]_(Plan!vars) => PlanInv'
    BY PlanStep
  <1>3. PlanInv /\ [Plan!Next]_(Plan!vars) => [Plan!StopsOf(plan'.route) =
          Plan!StopsOf(plan.route)]_(Plan!vars)
    BY PlanStep
  <1> QED BY <1>1, <1>2, <1>3, PTL DEF Plan!Spec, Plan!ReplanKeepsTheStops

-----------------------------------------------------------------------------
(***************************************************************************)
(* Proofs about SosRequests, for any messages, staff, keys and flights.    *)
(* Whatever is on its way or recorded, under a key whose end the device    *)
(* does not know, is under the key of the draft that it keeps.             *)
(***************************************************************************)

SosAssumptions == Sos!NothingAssumption /\ Sos!KeysAssumption

(* Who waits has a draft, and hears only of what that draft says. *)
SosHearsOfTheDraft ==
    /\ waiting => Sos!LiveDraft
    /\ \A f \in flights : f.heard => waiting /\ f.key = draft.key /\ f.message = draft.message
    /\ \A f, g \in flights : f.heard /\ g.heard => f = g

SosAccounted(k) == k \in settled \/ (Sos!LiveDraft /\ k = draft.key)

SosOneOpenKey ==
    /\ \A f \in flights : SosAccounted(f.key)
    /\ \A k \in Sos!KeyIds : rows[k] # Nothing => SosAccounted(k)

SosVersionOf(status) == CASE status = "DEMO_RECEIVED" -> 1
                          [] status = "ACKNOWLEDGED" -> 2
                          [] status = "RESOLVED" -> 3

(* Staff decide on a row that is there, and may go on. *)
SosDecisionsAreOpen ==
    \A s \in Workers : deciding[s] # Nothing =>
        rows[deciding[s].key] # Nothing /\ deciding[s].row.status \in {"DEMO_RECEIVED", "ACKNOWLEDGED"}

SosInv ==
    /\ Sos!TypeOK
    /\ SosHearsOfTheDraft
    /\ SosOneOpenKey
    /\ Sos!OneTransitionEach
    /\ SosDecisionsAreOpen

LEMMA SosNothingIsNoRow ==
    ASSUME SosAssumptions
    PROVE  /\ \A r \in Sos!SosRow : r # Nothing
           /\ \A d \in Sos!DraftRow : d # Nothing
           /\ \A d \in Sos!Decision : d # Nothing
  BY DEF SosAssumptions, Sos!NothingAssumption

(* The rows stay, and with them what staff have read. *)
LEMMA SosRowsStay ==
    ASSUME SosInv, UNCHANGED <<rows, deciding>>
    PROVE  Sos!OneTransitionEach' /\ SosDecisionsAreOpen'
  BY DEF SosInv, Sos!OneTransitionEach, SosDecisionsAreOpen

(* The device alone moves, and its draft stays. *)
LEMMA SosDeviceMoves ==
    ASSUME SosInv, UNCHANGED <<rows, deciding, draft, settled, made>>,
           flights' \subseteq flights \cup Sos!Unheard,
           form' \in Messages, pending'.message \in Messages \cup {Nothing}, pending'.key \in 0 .. made,
           waiting' \in BOOLEAN,
           waiting' => waiting, \A f \in flights' : f.heard => waiting'
    PROVE  SosInv'
  <1>1. \A f \in Sos!Unheard : f \in Sos!FlightRow /\ ~ f.heard /\ \E g \in flights : f.key = g.key
    BY DEF Sos!Unheard, Sos!FlightRow, SosInv, Sos!TypeOK
  <1>2. Sos!TypeOK'
    BY <1>1 DEF SosInv, Sos!TypeOK
  <1>3. Sos!LiveDraft' = Sos!LiveDraft /\ \A k : SosAccounted(k)' = SosAccounted(k)
    BY DEF Sos!LiveDraft, SosAccounted
  <1>4. SosHearsOfTheDraft'
    BY <1>1, <1>3 DEF SosInv, SosHearsOfTheDraft
  <1>5. SosOneOpenKey'
    BY <1>1, <1>3 DEF SosInv, SosOneOpenKey
  <1> QED BY <1>2, <1>4, <1>5, SosRowsStay DEF SosInv

LEMMA SosPendingTaken ==
    ASSUME SosAssumptions, SosInv, Sos!TakeKey
    PROVE  /\ Sos!PendingKey \in Sos!KeyIds /\ made' \in 0 .. MaxSosKeys
           /\ pending' \in [message : Messages \cup {Nothing}, key : 0 .. made']
           /\ Sos!KeyToUse \in Sos!KeyIds /\ (Sos!LiveDraft => Sos!KeyToUse = draft.key)
  <1>1. MaxSosKeys \in Nat /\ made \in 0 .. MaxSosKeys /\ pending.key \in 0 .. made /\ form \in Messages
        /\ draft \in Sos!DraftRow \cup {Nothing}
    BY DEF SosAssumptions, Sos!KeysAssumption, SosInv, Sos!TypeOK
  <1>2. Sos!PendingKey \in Sos!KeyIds /\ made' \in 0 .. MaxSosKeys /\ Sos!PendingKey \in 0 .. made'
    BY <1>1 DEF Sos!TakeKey, Sos!PendingKey, Sos!MakesKey, Sos!KeyIds
  <1>3. Sos!LiveDraft => draft.key \in Sos!KeyIds
    BY <1>1 DEF Sos!LiveDraft, Sos!DraftRow
  <1> QED BY <1>1, <1>2, <1>3 DEF Sos!TakeKey, Sos!KeyToUse

(* A draft is kept under the open key, if there is one. *)
LEMMA SosDraftKept ==
    ASSUME SosAssumptions, SosInv, Sos!TakeKey, NEW m \in Messages, NEW k, k = Sos!KeyToUse,
             draft' = Sos!Draft(m, k, "PENDING_SYNC"),
           UNCHANGED <<form, rows, deciding, settled>>, waiting' \in BOOLEAN,
           flights' \subseteq flights \cup {Sos!Flight(k, m)},
           waiting' \/ flights' = flights
    PROVE  SosInv'
  <1>1. draft' \in Sos!DraftRow /\ draft' # Nothing /\ Sos!LiveDraft' /\ draft'.key = k
        /\ draft'.message = m
    BY SosPendingTaken, SosNothingIsNoRow DEF Sos!Draft, Sos!DraftRow, Sos!LiveDraft
  <1>2. Sos!Flight(k, m) \in Sos!FlightRow /\ Sos!Flight(k, m).key = k /\ Sos!Flight(k, m).message = m
    BY SosPendingTaken DEF Sos!Flight, Sos!FlightRow
  <1>3. Sos!TypeOK'
    BY <1>1, <1>2, SosPendingTaken DEF SosInv, Sos!TypeOK
  <1>4. ~ waiting /\ \A f \in flights : ~ f.heard
    BY DEF Sos!TakeKey, SosInv, SosHearsOfTheDraft
  <1>5. SosHearsOfTheDraft'
    BY <1>1, <1>2, <1>4 DEF SosHearsOfTheDraft
  <1>6. \A j \in Sos!KeyIds : SosAccounted(j) => SosAccounted(j)'
    BY <1>1, SosPendingTaken DEF SosAccounted
  <1>7. SosAccounted(k)'
    BY <1>1 DEF SosAccounted
  <1>8. \A f \in flights : f.key \in Sos!KeyIds
    BY DEF SosInv, Sos!TypeOK, Sos!FlightRow
  <1>9. SosOneOpenKey'
    <2>1. \A f \in flights' : SosAccounted(f.key)'
      <3> SUFFICES ASSUME NEW f \in flights'
                   PROVE  SosAccounted(f.key)'
        OBVIOUS
      <3>1. CASE f \in flights
        BY <1>6, <1>8, <3>1 DEF SosInv, SosOneOpenKey
      <3>2. CASE f = Sos!Flight(k, m)
        BY <1>1, <1>2, <3>2 DEF SosAccounted
      <3> QED BY <3>1, <3>2
    <2>2. \A j \in Sos!KeyIds : rows'[j] # Nothing => SosAccounted(j)'
      BY <1>6 DEF SosInv, SosOneOpenKey
    <2> QED BY <2>1, <2>2 DEF SosOneOpenKey
  <1> QED BY <1>3, <1>5, <1>9, SosRowsStay DEF SosInv

LEMMA SosDraftsKeep ==
    ASSUME SosAssumptions, SosInv, Sos!SaveOffline \/ Sos!Submit
    PROVE  SosInv'
  <1>1. Sos!TakeKey /\ form \in Messages /\ draft \in Sos!DraftRow \cup {Nothing} /\ waiting \in BOOLEAN
    BY DEF Sos!SaveOffline, Sos!Submit, SosInv, Sos!TypeOK
  <1>2. CASE Sos!SaveOffline
    BY <1>1, <1>2, SosDraftKept DEF Sos!SaveOffline, Sos!server
  <1>3. CASE Sos!Submit
    <2>1. \E m \in Messages : Sos!ToSend = Sos!Draft(m, Sos!KeyToUse, "PENDING_SYNC")
      BY <1>1 DEF Sos!ToSend, Sos!KeyToUse, Sos!LiveDraft, Sos!DraftRow
    <2>2. PICK m \in Messages : Sos!ToSend = Sos!Draft(m, Sos!KeyToUse, "PENDING_SYNC")
      BY <2>1
    <2>3. Sos!Flight(Sos!ToSend.key, Sos!ToSend.message) = Sos!Flight(Sos!KeyToUse, m)
      BY <2>2 DEF Sos!Draft
    <2> QED BY <1>1, <1>3, <2>2, <2>3, SosDraftKept DEF Sos!Submit
  <1> QED BY <1>2, <1>3

(* The server ends a flight, and the device may hear of it. *)
LEMMA SosAnswerKeeps ==
    ASSUME SosAssumptions, SosInv, NEW f \in flights, NEW recorded \in BOOLEAN, Sos!Answer(f, recorded),
           UNCHANGED deciding, rows' \in [Sos!KeyIds -> Sos!SosRow \cup {Nothing}],
           \A k \in Sos!KeyIds : k # f.key => rows'[k] = rows[k],
           Sos!OneTransitionEach', SosDecisionsAreOpen'
    PROVE  SosInv' /\ (draft # Nothing /\ draft' = Nothing => recorded /\ f.heard)
  <1>1. f.key \in Sos!KeyIds /\ SosAccounted(f.key) /\ f.heard \in BOOLEAN
    BY DEF SosInv, Sos!TypeOK, Sos!FlightRow, SosOneOpenKey
  <1>2. flights' = flights \ {f}
    BY DEF Sos!Answer
  <1>3. CASE ~ f.heard
    <2>1. UNCHANGED Sos!device
      BY <1>3 DEF Sos!Answer
    <2>2. Sos!LiveDraft' = Sos!LiveDraft /\ \A k : SosAccounted(k)' = SosAccounted(k)
      BY <2>1 DEF Sos!device, Sos!LiveDraft, SosAccounted
    <2>3. SosOneOpenKey'
      BY <1>1, <1>2, <2>2 DEF SosInv, SosOneOpenKey
    <2>4. SosHearsOfTheDraft'
      BY <1>2, <2>1, <2>2 DEF SosInv, SosHearsOfTheDraft, Sos!device
    <2>5. Sos!TypeOK'
      BY <1>2, <2>1 DEF SosInv, Sos!TypeOK, Sos!device
    <2> QED BY <2>1, <2>3, <2>4, <2>5 DEF SosInv, Sos!device
  <1>4. CASE f.heard
    <2>1. waiting /\ Sos!LiveDraft /\ f.key = draft.key /\ draft \in Sos!DraftRow
      BY <1>4 DEF SosInv, SosHearsOfTheDraft, Sos!LiveDraft, Sos!TypeOK
    <2>2. /\ waiting' = FALSE /\ settled' = settled \cup {draft.key} /\ UNCHANGED <<form, made>>
          /\ pending' = [message |-> Nothing, key |-> 0]
          /\ draft' = IF recorded THEN Nothing ELSE [draft EXCEPT !.status = "TERMINAL"]
      BY <1>4 DEF Sos!Answer, Sos!HearRecorded, Sos!HearRefused
    <2>3. [draft EXCEPT !.status = "TERMINAL"] \in Sos!DraftRow
          /\ [draft EXCEPT !.status = "TERMINAL"] # Nothing
      <3>1. [draft EXCEPT !.status = "TERMINAL"] =
              [message |-> draft.message, key |-> draft.key, status |-> "TERMINAL"]
        BY <2>1 DEF Sos!DraftRow
      <3>2. [draft EXCEPT !.status = "TERMINAL"] \in Sos!DraftRow
        BY <2>1, <3>1 DEF Sos!DraftRow
      <3> QED BY <3>2, SosNothingIsNoRow
    <2>4. ~ Sos!LiveDraft'
      BY <2>1, <2>2 DEF Sos!LiveDraft, Sos!DraftRow
    <2>5. Sos!TypeOK'
      <3>1. pending'.message \in Messages \cup {Nothing} /\ pending'.key \in 0 .. made'
            /\ made' \in 0 .. MaxSosKeys
        BY <2>2 DEF SosInv, Sos!TypeOK, SosAssumptions, Sos!KeysAssumption
      <3>2. settled' \subseteq Sos!KeyIds
        BY <2>1, <2>2 DEF SosInv, Sos!TypeOK, Sos!DraftRow
      <3> QED BY <1>2, <2>2, <2>3, <3>1, <3>2 DEF SosInv, Sos!TypeOK
    <2>6. \A k \in Sos!KeyIds : SosAccounted(k) => SosAccounted(k)'
      BY <2>1, <2>2 DEF SosAccounted
    <2>7. SosOneOpenKey'
      BY <1>1, <1>2, <2>6 DEF SosInv, SosOneOpenKey, Sos!TypeOK, Sos!FlightRow
    <2>8. \A g \in flights' : ~ g.heard
      BY <1>2, <1>4 DEF SosInv, SosHearsOfTheDraft
    <2>9. SosHearsOfTheDraft'
      BY <2>2, <2>8 DEF SosHearsOfTheDraft
    <2> QED BY <1>4, <2>2, <2>3, <2>5, <2>7, <2>9 DEF SosInv
  <1> QED BY <1>1, <1>3, <1>4

LEMMA SosRecordKeeps ==
    ASSUME SosAssumptions, SosInv, NEW f \in flights, Sos!Record(f)
    PROVE  /\ SosInv'
           /\ draft # Nothing /\ draft' = Nothing =>
                rows'[draft.key] # Nothing /\ rows'[draft.key].message = draft.message
  <1>1. f.key \in Sos!KeyIds /\ f.message \in Messages
    BY DEF SosInv, Sos!TypeOK, Sos!FlightRow
  <1>2. /\ Sos!Row(f.message) \in Sos!SosRow /\ Sos!Row(f.message) # Nothing
           /\ Sos!Row(f.message).message = f.message
        /\ Sos!Row(f.message).status = "DEMO_RECEIVED" /\ Sos!Row(f.message).version = 1
    BY <1>1, SosNothingIsNoRow DEF Sos!Row, Sos!SosRow
  <1>3. rows' \in [Sos!KeyIds -> Sos!SosRow \cup {Nothing}] /\ rows'[f.key] = Sos!Row(f.message)
        /\ \A k \in Sos!KeyIds : k # f.key => rows'[k] = rows[k]
    BY <1>1, <1>2 DEF Sos!Record, SosInv, Sos!TypeOK
  <1>4. Sos!OneTransitionEach'
    BY <1>2, <1>3 DEF SosInv, Sos!OneTransitionEach
  <1>5. SosDecisionsAreOpen'
    <2>1. \A s \in Workers : deciding[s] # Nothing => deciding[s].key \in Sos!KeyIds
      BY DEF SosInv, Sos!TypeOK, Sos!Decision
    <2> QED BY <1>2, <1>3, <2>1 DEF Sos!Record, SosInv, SosDecisionsAreOpen
  <1>6. Sos!Answer(f, TRUE) /\ UNCHANGED deciding
    BY DEF Sos!Record
  <1>7. SosInv' /\ (draft # Nothing /\ draft' = Nothing => f.heard)
    BY <1>3, <1>4, <1>5, <1>6, SosAnswerKeeps
  <1>8. f.heard => f.key = draft.key /\ f.message = draft.message
    BY DEF SosInv, SosHearsOfTheDraft
  <1> QED BY <1>2, <1>3, <1>7, <1>8

LEMMA SosRepliesKeep ==
    ASSUME SosAssumptions, SosInv, NEW f \in flights, Sos!Replay(f) \/ Sos!Refuse(f)
    PROVE  /\ SosInv'
           /\ draft # Nothing /\ draft' = Nothing =>
                rows'[draft.key] # Nothing /\ rows'[draft.key].message = draft.message
  <1>1. UNCHANGED <<rows, deciding>> /\ rows \in [Sos!KeyIds -> Sos!SosRow \cup {Nothing}]
    BY DEF Sos!Replay, Sos!Refuse, SosInv, Sos!TypeOK
  <1>2. f.heard => f.key = draft.key /\ f.message = draft.message
    BY DEF SosInv, SosHearsOfTheDraft
  <1>3. Sos!OneTransitionEach' /\ SosDecisionsAreOpen'
    BY <1>1, SosRowsStay
  <1>4. CASE Sos!Replay(f)
    <2>1. Sos!Answer(f, Sos!SameRequest(f)) /\ Sos!SameRequest(f) \in BOOLEAN
      BY <1>4 DEF Sos!Replay, Sos!SameRequest
    <2>2. SosInv' /\ (draft # Nothing /\ draft' = Nothing => Sos!SameRequest(f) /\ f.heard)
      BY <1>1, <1>3, <2>1, SosAnswerKeeps
    <2> QED BY <1>1, <1>2, <1>4, <2>2 DEF Sos!Replay, Sos!SameRequest
  <1>5. CASE Sos!Refuse(f)
    <2>1. Sos!Answer(f, FALSE)
      BY <1>5 DEF Sos!Refuse
    <2>2. SosInv' /\ (draft # Nothing /\ draft' = Nothing => FALSE)
      BY <1>1, <1>3, <2>1, SosAnswerKeeps
    <2> QED BY <2>2
  <1> QED BY <1>4, <1>5

LEMMA SosFlightsKeep ==
    ASSUME SosInv, NEW f \in flights, Sos!Look(f) \/ Sos!Fail(f)
    PROVE  SosInv'
  <1>1. UNCHANGED <<rows, deciding, form, draft, pending, waiting, made, settled>>
    BY DEF Sos!Look, Sos!Fail, Sos!device
  <1>2. f \in Sos!FlightRow
    BY DEF SosInv, Sos!TypeOK
  <1>3. \E g \in Sos!FlightRow : /\ g.key = f.key /\ g.message = f.message /\ g.heard = f.heard
                                /\ flights' \subseteq (flights \ {f}) \cup {g}
    BY <1>2 DEF Sos!Look, Sos!Fail, Sos!FlightRow
  <1>4. PICK g \in Sos!FlightRow : /\ g.key = f.key /\ g.message = f.message /\ g.heard = f.heard
                                 /\ flights' \subseteq (flights \ {f}) \cup {g}
    BY <1>3
  <1>5. Sos!TypeOK'
    BY <1>1, <1>4 DEF SosInv, Sos!TypeOK
  <1>6. Sos!LiveDraft' = Sos!LiveDraft /\ \A k : SosAccounted(k)' = SosAccounted(k)
    BY <1>1 DEF Sos!LiveDraft, SosAccounted
  <1>7. SosHearsOfTheDraft'
    BY <1>1, <1>4, <1>6 DEF SosInv, SosHearsOfTheDraft
  <1>8. SosOneOpenKey'
    BY <1>1, <1>4, <1>6 DEF SosInv, SosOneOpenKey
  <1> QED BY <1>1, <1>5, <1>7, <1>8, SosRowsStay DEF SosInv

(* Staff read a row, and move it on if it is as they read it. *)
LEMMA SosDeviceRests ==
    ASSUME SosInv, UNCHANGED flights, UNCHANGED Sos!device,
             rows' \in [Sos!KeyIds -> Sos!SosRow \cup {Nothing}],
           deciding' \in [Workers -> Sos!Decision \cup {Nothing}],
           \A k \in Sos!KeyIds : rows'[k] # Nothing => rows[k] # Nothing,
           Sos!OneTransitionEach', SosDecisionsAreOpen'
    PROVE  SosInv'
  <1>1. Sos!LiveDraft' = Sos!LiveDraft /\ \A k : SosAccounted(k)' = SosAccounted(k)
    BY DEF Sos!device, Sos!LiveDraft, SosAccounted
  <1> QED BY <1>1 DEF SosInv, Sos!TypeOK, SosHearsOfTheDraft, SosOneOpenKey, Sos!device

LEMMA SosDecideKeeps ==
    ASSUME SosAssumptions, SosInv, NEW s \in Workers, NEW k \in Sos!KeyIds, Sos!Decide(s, k)
    PROVE  SosInv'
  <1> DEFINE d == [key |-> k, row |-> rows[k]]
  <1>1. d \in Sos!Decision /\ d # Nothing /\ rows[d.key] # Nothing
        /\ d.row.status \in {"DEMO_RECEIVED", "ACKNOWLEDGED"}
    <2>1. rows[k] \in Sos!SosRow /\ rows[k].status \in {"DEMO_RECEIVED", "ACKNOWLEDGED"}
      BY DEF Sos!Decide, SosInv, Sos!TypeOK, Sos!Successor
    <2>2. d \in Sos!Decision
      BY <2>1 DEF Sos!Decision
    <2> QED BY <2>1, <2>2, SosNothingIsNoRow DEF Sos!Decide
  <1>2. deciding' = [deciding EXCEPT ![s] = d] /\ UNCHANGED <<rows, flights>> /\ UNCHANGED Sos!device
    BY DEF Sos!Decide
  <1> HIDE DEF d
  <1>3. SosDecisionsAreOpen'
    BY <1>1, <1>2 DEF SosInv, Sos!TypeOK, SosDecisionsAreOpen
  <1>4. Sos!OneTransitionEach'
    BY <1>2 DEF SosInv, Sos!OneTransitionEach
  <1> QED BY <1>1, <1>2, <1>3, <1>4, SosDeviceRests DEF SosInv, Sos!TypeOK

LEMMA SosTransitionKeeps ==
    ASSUME SosAssumptions, SosInv, NEW s \in Workers, Sos!Transition(s)
    PROVE  SosInv'
  <1> DEFINE read == deciding[s]
             k == read.key
             row == rows[k]
             next == [message |-> row.message, status |-> Sos!Successor[read.row.status],
               version |-> row.version + 1]
  <1>1. read # Nothing /\ read \in Sos!Decision /\ k \in Sos!KeyIds /\ row # Nothing
        /\ row \in Sos!SosRow
        /\ read.row.status \in {"DEMO_RECEIVED", "ACKNOWLEDGED"}
    BY DEF Sos!Transition, SosInv, Sos!TypeOK, Sos!Decision, SosDecisionsAreOpen
  <1>2. deciding' = [deciding EXCEPT ![s] = Nothing] /\ UNCHANGED flights /\ UNCHANGED Sos!device
    BY DEF Sos!Transition
  <1>3. CASE ~ Sos!Unchanged(read)
    <2>1. rows' = rows
      BY <1>3 DEF Sos!Transition
    <2>2. SosDecisionsAreOpen' /\ Sos!OneTransitionEach'
      BY <1>2, <2>1 DEF SosInv, Sos!TypeOK, SosDecisionsAreOpen, Sos!OneTransitionEach
    <2> QED BY <1>2, <2>1, <2>2, SosDeviceRests DEF SosInv, Sos!TypeOK
  <1>4. CASE Sos!Unchanged(read)
    <2>1. row.status = read.row.status /\ row.version = SosVersionOf(row.status)
      BY <1>1, <1>4 DEF Sos!Unchanged, SosInv, Sos!OneTransitionEach, SosVersionOf
    <2>2. rows' = [rows EXCEPT ![k].status = Sos!Successor[read.row.status], ![k].version = @ + 1]
      BY <1>4 DEF Sos!Transition
    <2>3. rows' = [rows EXCEPT ![k] = next]
      BY <1>1, <2>2 DEF Sos!SosRow, SosInv, Sos!TypeOK
    <2>4. next.status = (IF row.status = "DEMO_RECEIVED" THEN "ACKNOWLEDGED" ELSE "RESOLVED")
      BY <1>1, <2>1 DEF Sos!Successor
    <2>5. next \in Sos!SosRow /\ next.version = SosVersionOf(next.status)
      BY <1>1, <2>1, <2>4 DEF Sos!SosRow, SosVersionOf
    <2>6. next # Nothing
      BY <2>5, SosNothingIsNoRow
    <2>7. rows' \in [Sos!KeyIds -> Sos!SosRow \cup {Nothing}] /\ rows'[k] = next
          /\ \A j \in Sos!KeyIds : j # k => rows'[j] = rows[j]
      BY <1>1, <2>3, <2>5 DEF SosInv, Sos!TypeOK
    <2>8. Sos!OneTransitionEach'
      <3> HIDE DEF next, k
      <3> QED BY <2>5, <2>7 DEF SosInv, Sos!OneTransitionEach, SosVersionOf
    <2>9. SosDecisionsAreOpen'
      <3>1. \A t \in Workers : deciding'[t] # Nothing =>
              deciding'[t] = deciding[t] /\ deciding[t].key \in Sos!KeyIds
        BY <1>2 DEF SosInv, Sos!TypeOK, Sos!Decision
      <3> HIDE DEF next, k
      <3> QED BY <2>6, <2>7, <3>1 DEF SosInv, SosDecisionsAreOpen
    <2>10. deciding' \in [Workers -> Sos!Decision \cup {Nothing}]
      BY <1>2 DEF SosInv, Sos!TypeOK
    <2>11. \A j \in Sos!KeyIds : rows'[j] # Nothing => rows[j] # Nothing
      BY <1>1, <2>7
    <2> HIDE DEF next, k, row
    <2> QED BY <1>2, <2>7, <2>8, <2>9, <2>10, <2>11, SosDeviceRests
  <1> QED BY <1>3, <1>4

LEMMA SosDeviceKeeps ==
    ASSUME SosAssumptions, SosInv,
           (\E m \in Messages : Sos!Edit(m) \/ Sos!Restart(m))
             \/ (\E lost \in BOOLEAN : Sos!GiveUp(lost))
    PROVE  SosInv' /\ UNCHANGED draft
  <1>1. /\ made \in 0 .. MaxSosKeys /\ MaxSosKeys \in Nat /\ waiting \in BOOLEAN /\ form \in Messages
        /\ pending.message \in Messages \cup {Nothing} /\ pending.key \in 0 .. made
        /\ \A f \in flights : f.heard => waiting
    BY DEF SosAssumptions, Sos!KeysAssumption, SosInv, Sos!TypeOK, SosHearsOfTheDraft
  <1>2. \A f \in Sos!Unheard : ~ f.heard
    BY DEF Sos!Unheard, SosInv, Sos!TypeOK, Sos!FlightRow
  <1>3. CASE \E m \in Messages : Sos!Edit(m)
    BY <1>1, <1>3, SosDeviceMoves DEF Sos!Edit, Sos!server
  <1>4. CASE \E m \in Messages : Sos!Restart(m)
    <2>1. PICK m \in Messages : Sos!Restart(m)
      BY <1>4
    <2>2. pending' = [message |-> Nothing, key |-> 0] /\ flights' = Sos!Unheard /\ waiting' = FALSE
          /\ form' = m
          /\ UNCHANGED <<draft, made, settled, rows, deciding>>
      BY <2>1 DEF Sos!Restart
    <2>3. pending'.message \in Messages \cup {Nothing} /\ pending'.key \in 0 .. made
      BY <1>1, <2>2
    <2> QED BY <1>2, <2>2, <2>3, SosDeviceMoves
  <1>5. CASE \E lost \in BOOLEAN : Sos!GiveUp(lost)
    BY <1>1, <1>2, <1>5, SosDeviceMoves DEF Sos!GiveUp
  <1> QED BY <1>3, <1>4, <1>5

(* A draft goes only when a row says what it said. *)
LEMMA SosStepKeeps ==
    ASSUME SosAssumptions, SosInv, [Sos!Next]_(Sos!vars)
    PROVE  /\ SosInv'
           /\ draft # Nothing /\ draft' = Nothing =>
                rows'[draft.key] # Nothing /\ rows'[draft.key].message = draft.message
  <1>1. CASE Sos!SaveOffline \/ Sos!Submit
    <2>1. draft' # Nothing
      <3>1. Sos!TakeKey /\ form \in Messages /\ draft \in Sos!DraftRow \cup {Nothing}
        BY <1>1 DEF Sos!SaveOffline, Sos!Submit, SosInv, Sos!TypeOK
      <3>2. draft' \in Sos!DraftRow
        BY <1>1, <3>1, SosPendingTaken DEF Sos!SaveOffline, Sos!Submit, Sos!ToSend, Sos!Draft,
           Sos!DraftRow, Sos!LiveDraft, Sos!KeyToUse
      <3> QED BY <3>2, SosNothingIsNoRow
    <2> QED BY <1>1, <2>1, SosDraftsKeep
  <1>2. CASE \E f \in flights : Sos!Look(f) \/ Sos!Fail(f)
    BY <1>2, SosFlightsKeep DEF Sos!Look, Sos!Fail, Sos!device
  <1>3. CASE \E s \in Workers : Sos!Transition(s) \/ \E k \in Sos!KeyIds : Sos!Decide(s, k)
    BY <1>3, SosTransitionKeeps, SosDecideKeeps DEF Sos!Transition, Sos!Decide, Sos!device
  <1>4. CASE UNCHANGED Sos!vars
    BY <1>4, SosDeviceRests, SosRowsStay DEF Sos!vars, Sos!device, SosInv, Sos!TypeOK
  <1>5. CASE (\E m \in Messages : Sos!Edit(m) \/ Sos!Restart(m))
               \/ (\E lost \in BOOLEAN : Sos!GiveUp(lost))
    BY <1>5, SosDeviceKeeps
  <1>6. CASE \E f \in flights : Sos!Record(f) \/ Sos!Replay(f) \/ Sos!Refuse(f)
    BY <1>6, SosRecordKeeps, SosRepliesKeep
  <1> QED BY <1>1, <1>2, <1>3, <1>4, <1>5, <1>6 DEF Sos!Next

LEMMA SosInitially ==
    ASSUME SosAssumptions, Sos!Init
    PROVE  SosInv
  <1>1. Sos!TypeOK
    <2>1. MaxSosKeys \in Nat /\ made = 0 /\ pending = [message |-> Nothing, key |-> 0]
      BY DEF SosAssumptions, Sos!KeysAssumption, Sos!Init
    <2>2. pending.message = Nothing /\ pending.key \in 0 .. made /\ made \in 0 .. MaxSosKeys
      BY <2>1
    <2> QED BY <2>2 DEF Sos!Init, Sos!TypeOK
  <1> QED BY <1>1 DEF Sos!Init, SosInv, SosHearsOfTheDraft, SosOneOpenKey, Sos!OneTransitionEach,
             SosDecisionsAreOpen

THEOREM SosInvariant == SosAssumptions /\ Sos!Spec => []SosInv
  <1> SUFFICES ASSUME SosAssumptions PROVE Sos!Spec => []SosInv
    OBVIOUS
  <1>1. Sos!Init => SosInv
    BY SosInitially
  <1>2. SosInv /\ [Sos!Next]_(Sos!vars) => SosInv'
    BY SosStepKeeps
  <1> QED BY <1>1, <1>2, PTL DEF Sos!Spec

(* A call that the device has not been answered about is recorded at most  *)
(* once, and two members of staff never make the same transition of it.    *)
THEOREM CallsAreRecordedOnce == SosAssumptions /\ Sos!Spec =>
  [](Sos!TypeOK /\ Sos!RecordedOnce /\ Sos!OneTransitionEach)
  <1>1. SosInv => Sos!TypeOK /\ Sos!RecordedOnce /\ Sos!OneTransitionEach
    BY DEF SosInv, SosOneOpenKey, SosAccounted, Sos!RecordedOnce
  <1> QED BY <1>1, SosInvariant, PTL

(* The device drops a draft only for a row that says what the draft said. *)
THEOREM DraftsAreKept == SosAssumptions /\ Sos!Spec => Sos!DraftKeptUntilRecorded
  <1> SUFFICES ASSUME SosAssumptions PROVE Sos!Spec => Sos!DraftKeptUntilRecorded
    OBVIOUS
  <1>1. Sos!Spec => []SosInv
    BY SosInvariant
  <1>2. SosInv /\ [Sos!Next]_(Sos!vars) =>
           [draft # Nothing /\ draft' = Nothing =>
              rows'[draft.key] # Nothing /\ rows'[draft.key].message = draft.message]_(Sos!vars)
    BY SosStepKeeps
  <1> QED BY <1>1, <1>2, PTL DEF Sos!Spec, Sos!DraftKeptUntilRecorded

-----------------------------------------------------------------------------
(***************************************************************************)
(* Proofs about Feedback, for any staff, requests and number of changes. A *)
(* version names one state of the ticket: a request that finds the version *)
(* it read decides on the ticket as it is, until it commits.               *)
(***************************************************************************)

DeskDecision == [at : {"loaded", "updated"}, action : {"ASSIGN", "RESOLVE", "FOLLOW_UP"},
                 actor : Staff \cup {Nobody}, assignee : Staff \cup {Nobody}, to : Desk!Status,
                 read : Desk!TicketRow]

DeskRows ==
    /\ ticket \in Desk!TicketRow /\ events \in Seq(Desk!EventRow) /\ ratings \in Nat
    /\ feedbackDoing \in [Workers -> {Desk!Idle} \cup DeskDecision]

(* What an action decides, from the ticket that its request read. *)
DeskLawful(m) ==
    \/ m.action = "ASSIGN" /\ m.to = "IN_PROGRESS" /\ m.read.status \in {"SUBMITTED", "IN_PROGRESS"}
    \/ /\ m.action = "RESOLVE" /\ m.to = "RESOLVED" /\ m.read.status = "IN_PROGRESS"
       /\ m.assignee = m.read.assignee /\ m.actor \in Admins \cup {m.read.assignee}
    \/ m.action = "FOLLOW_UP" /\ m.to = "CLOSED" /\ m.read.status = "RESOLVED"

(* A version that was read is past, or its ticket is the present one. *)
DeskVersionIsATicket(m, t) ==
    m.read.version =< t.version /\ (m.read.version = t.version => m.read = t)

DeskDecisionsAreLawful ==
    \A w \in Workers : feedbackDoing[w] # Desk!Idle =>
        /\ DeskLawful(feedbackDoing[w]) /\ DeskVersionIsATicket(feedbackDoing[w], ticket)
        /\ feedbackDoing[w].at = "updated" => feedbackDoing[w].read = ticket

DeskOneUpdates ==
    \A v, w \in Workers : feedbackDoing[v].at = "updated" /\ feedbackDoing[w].at = "updated" => v = w

DeskInv ==
    /\ DeskRows
    /\ DeskDecisionsAreLawful
    /\ DeskOneUpdates
    /\ Desk!HistoryIsTheTickets
    /\ Desk!RatedOnce

LEMMA DeskDecisionFields ==
    ASSUME DeskRows, NEW w \in Workers, feedbackDoing[w].at # "idle"
    PROVE  feedbackDoing[w] \in DeskDecision /\ feedbackDoing[w] # Desk!Idle
  BY DEF DeskRows, Desk!Idle

LEMMA DeskIdleIs ==
    ASSUME DeskRows, NEW w \in Workers
    PROVE  feedbackDoing[w].at = "idle" <=> feedbackDoing[w] = Desk!Idle
  BY DEF DeskRows, Desk!Idle, DeskDecision

(* A request reads, loses its ticket or gives up: the record stays.        *)
LEMMA DeskRequestMoves ==
    ASSUME DeskInv, NEW w \in Workers, NEW m \in {Desk!Idle} \cup DeskDecision, Desk!Continue(w, m),
           UNCHANGED <<ticket, events, ratings>>,
           m # Desk!Idle => /\ DeskLawful(m) /\ DeskVersionIsATicket(m, ticket)
                            /\ m.at = "updated" => m.read = ticket /\ Desk!RowIsFree
    PROVE  DeskInv'
  <1>1. feedbackDoing' \in [Workers -> {Desk!Idle} \cup DeskDecision] /\ feedbackDoing'[w] = m
        /\ \A v \in Workers \ {w} : feedbackDoing'[v] = feedbackDoing[v]
    BY DEF DeskInv, DeskRows, Desk!Continue
  <1>2. DeskRows'
    BY <1>1 DEF DeskInv, DeskRows
  <1>3. Desk!HistoryIsTheTickets' /\ Desk!RatedOnce'
    BY DEF DeskInv, Desk!HistoryIsTheTickets, Desk!RatedOnce
  <1>4. DeskDecisionsAreLawful'
    <2> SUFFICES ASSUME NEW v \in Workers, feedbackDoing'[v] # Desk!Idle
                 PROVE  /\ DeskLawful(feedbackDoing'[v])
                           /\ DeskVersionIsATicket(feedbackDoing'[v], ticket')
                        /\ feedbackDoing'[v].at = "updated" => feedbackDoing'[v].read = ticket'
      BY DEF DeskDecisionsAreLawful, DeskLawful
    <2>1. CASE v = w
      BY <1>1, <2>1 DEF DeskVersionIsATicket
    <2>2. CASE v # w
      BY <1>1, <2>2 DEF DeskInv, DeskDecisionsAreLawful, DeskVersionIsATicket
    <2> QED BY <2>1, <2>2
  <1>5. m.at = "updated" => m # Desk!Idle
    BY DEF Desk!Idle
  <1>6. DeskOneUpdates'
    BY <1>1, <1>5 DEF DeskInv, DeskOneUpdates, Desk!RowIsFree
  <1> QED BY <1>2, <1>3, <1>4, <1>6 DEF DeskInv

LEMMA DeskBeginsLawfully ==
    ASSUME DeskInv, NEW w \in Workers, NEW actor \in Staff \cup {Nobody},
             NEW assignee \in Staff \cup {Nobody},
           NEW action \in {"ASSIGN", "RESOLVE", "FOLLOW_UP"}, NEW to \in Desk!Status,
           DeskLawful(Desk!Loaded(action, actor, assignee, to)),
           Desk!Continue(w, Desk!Loaded(action, actor, assignee, to)),
             UNCHANGED <<ticket, events, ratings>>
    PROVE  DeskInv'
  <1>1. Desk!Loaded(action, actor, assignee, to) \in DeskDecision
    BY DEF DeskInv, DeskRows, DeskDecision, Desk!Loaded
  <1>2. ticket.version \in Nat
    BY DEF DeskInv, DeskRows, Desk!TicketRow
  <1>3. DeskVersionIsATicket(Desk!Loaded(action, actor, assignee, to), ticket)
        /\ Desk!Loaded(action, actor, assignee, to).at = "loaded"
    BY <1>2 DEF DeskVersionIsATicket, Desk!Loaded
  <1> QED BY <1>1, <1>3, DeskRequestMoves

LEMMA DeskUpdateKeeps ==
    ASSUME DeskInv, NEW w \in Workers, Desk!Update(w)
    PROVE  DeskInv'
  <1>1. feedbackDoing[w] \in DeskDecision /\ feedbackDoing[w] # Desk!Idle
    BY DeskDecisionFields DEF Desk!Update, DeskInv
  <1>2. CASE ~ Desk!StillAsRead(feedbackDoing[w].read)
    BY <1>2, DeskRequestMoves DEF Desk!Update
  <1>3. CASE Desk!StillAsRead(feedbackDoing[w].read)
    <2> DEFINE m == [feedbackDoing[w] EXCEPT !.at = "updated"]
    <2>1. m \in DeskDecision /\ m.action = feedbackDoing[w].action /\ m.to = feedbackDoing[w].to
          /\ m.read = feedbackDoing[w].read
          /\ m.assignee = feedbackDoing[w].assignee /\ m.actor = feedbackDoing[w].actor
      BY <1>1 DEF DeskDecision
    <2>2. DeskLawful(feedbackDoing[w]) /\ DeskVersionIsATicket(feedbackDoing[w], ticket)
      BY <1>1 DEF DeskInv, DeskDecisionsAreLawful
    <2>3. DeskLawful(m) /\ DeskVersionIsATicket(m, ticket)
      BY <2>1, <2>2 DEF DeskLawful, DeskVersionIsATicket
    <2>4. m.read = ticket
      BY <1>3, <2>1, <2>3 DEF Desk!StillAsRead, DeskVersionIsATicket
    <2>5. Desk!Continue(w, m) /\ Desk!RowIsFree /\ UNCHANGED <<ticket, events, ratings>>
      BY <1>3 DEF Desk!Update
    <2> HIDE DEF m
    <2> QED BY <2>1, <2>3, <2>4, <2>5, DeskRequestMoves
  <1> QED BY <1>2, <1>3

(* The history and the rating follow a lawful decision on the ticket.      *)
LEMMA DeskCommitKeeps ==
    ASSUME DeskInv, NEW w \in Workers, Desk!Commit(w)
    PROVE  DeskInv'
  <1> DEFINE m == feedbackDoing[w]
             entry == Desk!Event(m.action, m.read.status, m.to, m.actor)
  <1>1. m \in DeskDecision /\ m # Desk!Idle /\ m.at = "updated"
    BY DeskDecisionFields DEF Desk!Commit, DeskInv
  <1>2. DeskLawful(m) /\ m.read = ticket
    BY <1>1 DEF DeskInv, DeskDecisionsAreLawful
  <1>3. /\ ticket \in Desk!TicketRow /\ events \in Seq(Desk!EventRow) /\ ratings \in Nat
        /\ ticket.version \in Nat /\ ticket.status \in Desk!Status
        /\ Len(events) = ticket.version /\ events[Len(events)].to = ticket.status
        /\ \A i \in 1 .. Len(events) - 1 : events[i].to = events[i + 1].from
    BY DEF DeskInv, DeskRows, Desk!TicketRow, Desk!HistoryIsTheTickets, Desk!Last
  <1>4. /\ ticket' = [status |-> m.to, assignee |-> m.assignee, version |-> ticket.version + 1]
        /\ events' = Append(events, entry)
        /\ ratings' = ratings + (IF m.action = "FOLLOW_UP" THEN 1 ELSE 0)
        /\ feedbackDoing' = [feedbackDoing EXCEPT ![w] = Desk!Idle]
    BY DEF Desk!Commit, Desk!Continue
  <1>5. /\ ticket' \in Desk!TicketRow /\ ticket'.version = ticket.version + 1
        /\ ticket'.status = m.to /\ ticket'.assignee = m.assignee
    BY <1>1, <1>3, <1>4 DEF Desk!TicketRow, DeskDecision
  <1>6. entry \in Desk!EventRow /\ entry.to = m.to /\ entry.from = ticket.status
    BY <1>1, <1>2, <1>3 DEF Desk!Event, Desk!EventRow, DeskDecision
  <1>7. /\ feedbackDoing' \in [Workers -> {Desk!Idle} \cup DeskDecision]
           /\ feedbackDoing'[w] = Desk!Idle
        /\ \A v \in Workers \ {w} : feedbackDoing'[v] = feedbackDoing[v]
    BY <1>4 DEF DeskInv, DeskRows
  <1>8. DeskRows'
    BY <1>3, <1>4, <1>5, <1>6, <1>7 DEF DeskRows
  <1>9. Desk!HistoryIsTheTickets'
    <2>1. /\ Len(events') = Len(events) + 1 /\ events'[Len(events) + 1] = entry
          /\ \A i \in 1 .. Len(events) : events'[i] = events[i]
      BY <1>3, <1>4, <1>6
    <2>2. Len(events) \in Nat
      BY <1>3
    <2>3. \A i \in 1 .. Len(events') - 1 : events'[i].to = events'[i + 1].from
      <3> SUFFICES ASSUME NEW i \in 1 .. Len(events)
                   PROVE  events'[i].to = events'[i + 1].from
        BY <2>1, <2>2
      <3>1. CASE i = Len(events)
        BY <1>3, <1>6, <2>1, <2>2, <3>1
      <3>2. CASE i # Len(events)
        <4>1. i \in 1 .. Len(events) - 1 /\ i + 1 \in 1 .. Len(events)
          BY <2>2, <3>2
        <4> QED BY <1>3, <2>1, <4>1
      <3> QED BY <3>1, <3>2
    <2> QED BY <1>3, <1>5, <1>6, <2>1, <2>3 DEF Desk!HistoryIsTheTickets, Desk!Last
  <1>10. Desk!RatedOnce'
    BY <1>1, <1>2, <1>3, <1>4, <1>5 DEF DeskInv, Desk!RatedOnce, DeskLawful
  <1>11. \A v \in Workers : feedbackDoing'[v].at = "updated" => FALSE
    <2> SUFFICES ASSUME NEW v \in Workers, feedbackDoing'[v].at = "updated"
                 PROVE  FALSE
      OBVIOUS
    <2>1. v # w
      BY <1>7 DEF Desk!Idle
    <2> QED BY <1>1, <1>7, <2>1 DEF DeskInv, DeskOneUpdates
  <1>12. DeskDecisionsAreLawful'
    <2> SUFFICES ASSUME NEW v \in Workers, feedbackDoing'[v] # Desk!Idle
                 PROVE  /\ DeskLawful(feedbackDoing'[v])
                           /\ DeskVersionIsATicket(feedbackDoing'[v], ticket')
                        /\ feedbackDoing'[v].at = "updated" => feedbackDoing'[v].read = ticket'
      BY DEF DeskDecisionsAreLawful, DeskLawful
    <2>1. v # w /\ feedbackDoing'[v] = feedbackDoing[v]
      BY <1>7
    <2>2. DeskLawful(feedbackDoing[v]) /\ DeskVersionIsATicket(feedbackDoing[v], ticket)
          /\ feedbackDoing[v] \in DeskDecision
      BY <2>1 DEF DeskInv, DeskDecisionsAreLawful, DeskRows
    <2>3. feedbackDoing[v].read.version \in Nat
      BY <2>2 DEF DeskDecision, Desk!TicketRow
    <2>4. DeskVersionIsATicket(feedbackDoing'[v], ticket')
      BY <1>3, <1>5, <2>1, <2>2, <2>3 DEF DeskVersionIsATicket
    <2> QED BY <1>11, <2>1, <2>2, <2>4
  <1> QED BY <1>8, <1>9, <1>10, <1>11, <1>12 DEF DeskInv, DeskOneUpdates

LEMMA DeskStepKeeps ==
    ASSUME DeskInv, [Desk!Next]_(Desk!vars)
    PROVE  DeskInv'
  <1>1. ASSUME NEW w \in Workers, NEW actor \in Staff, NEW assignee \in Staff,
               Desk!BeginAssign(w, actor, assignee)
        PROVE  DeskInv'
    <2>1. DeskLawful(Desk!Loaded("ASSIGN", actor, assignee, "IN_PROGRESS"))
      BY <1>1 DEF DeskLawful, Desk!Loaded, Desk!BeginAssign
    <2> QED BY <1>1, <2>1, DeskBeginsLawfully DEF Desk!BeginAssign, Desk!Status
  <1>2. ASSUME NEW w \in Workers, NEW actor \in Staff, Desk!BeginResolve(w, actor)
        PROVE  DeskInv'
    <2>1. DeskLawful(Desk!Loaded("RESOLVE", actor, ticket.assignee, "RESOLVED"))
      BY <1>2 DEF DeskLawful, Desk!Loaded, Desk!BeginResolve, Desk!MayResolve
    <2>2. ticket.assignee \in Staff \cup {Nobody}
      BY DEF DeskInv, DeskRows, Desk!TicketRow
    <2> QED BY <1>2, <2>1, <2>2, DeskBeginsLawfully DEF Desk!BeginResolve, Desk!Status
  <1>3. ASSUME NEW w \in Workers, Desk!BeginFollowUp(w)
        PROVE  DeskInv'
    <2>1. DeskLawful(Desk!Loaded("FOLLOW_UP", Nobody, ticket.assignee, "CLOSED"))
      BY <1>3 DEF DeskLawful, Desk!Loaded, Desk!BeginFollowUp
    <2>2. ticket.assignee \in Staff \cup {Nobody}
      BY DEF DeskInv, DeskRows, Desk!TicketRow
    <2> QED BY <1>3, <2>1, <2>2, DeskBeginsLawfully DEF Desk!BeginFollowUp, Desk!Status
  <1>4. ASSUME NEW w \in Workers, Desk!Abort(w)
        PROVE  DeskInv'
    BY <1>4, DeskRequestMoves DEF Desk!Abort
  <1>5. CASE UNCHANGED Desk!vars
    BY <1>5 DEF Desk!vars, DeskInv, DeskRows, DeskDecisionsAreLawful, DeskVersionIsATicket,
       DeskOneUpdates, Desk!HistoryIsTheTickets, Desk!RatedOnce
  <1> QED BY <1>1, <1>2, <1>3, <1>4, <1>5, DeskUpdateKeeps, DeskCommitKeeps DEF Desk!Next

LEMMA DeskInitially == Desk!Init => DeskInv
  <1> SUFFICES ASSUME Desk!Init PROVE DeskInv
    OBVIOUS
  <1>1. DeskRows
    BY DEF Desk!Init, DeskRows, Desk!TicketRow, Desk!EventRow, Desk!Event, Desk!Status
  <1>2. DeskDecisionsAreLawful /\ DeskOneUpdates
    BY DEF Desk!Init, DeskDecisionsAreLawful, DeskOneUpdates, Desk!Idle
  <1>3. Desk!HistoryIsTheTickets /\ Desk!RatedOnce
    BY DEF Desk!Init, Desk!HistoryIsTheTickets, Desk!RatedOnce, Desk!Event, Desk!Last
  <1> QED BY <1>1, <1>2, <1>3 DEF DeskInv

THEOREM FeedbackInvariant == Desk!Spec => []DeskInv
  BY DeskInitially, DeskStepKeeps, PTL DEF Desk!Spec

(* The events of a ticket tell how it came to be as it is, and it is rated *)
(* once, when it is closed: services/engagement.py.                        *)
THEOREM FeedbackHistoryExplains == Desk!Spec =>
  [](Desk!TypeOK /\ Desk!HistoryIsTheTickets /\ Desk!RatedOnce)
  <1>1. DeskInv => Desk!TypeOK /\ Desk!HistoryIsTheTickets /\ Desk!RatedOnce
    BY DEF DeskInv, DeskRows, Desk!TypeOK, DeskDecision, Desk!Idle
  <1> QED BY <1>1, FeedbackInvariant, PTL

(* A resolution is by who is assigned when it commits, or an administrator.*)
THEOREM ResolutionsAreOfTheAssignee == Desk!Spec => Desk!ResolvedByItsAssignee
  <1>1. ASSUME DeskInv, [Desk!Next]_(Desk!vars), ticket'.status = "RESOLVED", ticket.status # "RESOLVED"
        PROVE  Desk!Last(events').actor \in Admins \cup {ticket.assignee}
    <2>1. PICK w \in Workers : Desk!Commit(w)
      BY <1>1 DEF Desk!Next, Desk!vars, Desk!BeginAssign, Desk!BeginResolve, Desk!BeginFollowUp,
         Desk!Update, Desk!Abort
    <2>2. feedbackDoing[w] \in DeskDecision /\ feedbackDoing[w] # Desk!Idle
          /\ feedbackDoing[w].at = "updated"
      BY <1>1, <2>1, DeskDecisionFields DEF Desk!Commit, DeskInv
    <2>3. DeskLawful(feedbackDoing[w]) /\ feedbackDoing[w].read = ticket
      BY <1>1, <2>2 DEF DeskInv, DeskDecisionsAreLawful
    <2>4. feedbackDoing[w].to = "RESOLVED"
      BY <1>1, <2>1 DEF Desk!Commit
    <2>5. feedbackDoing[w].actor \in Admins \cup {ticket.assignee}
      BY <2>3, <2>4 DEF DeskLawful
    <2>6. events \in Seq(Desk!EventRow)
      BY <1>1 DEF DeskInv, DeskRows
    <2> DEFINE entry == Desk!Event(feedbackDoing[w].action, feedbackDoing[w].read.status,
          feedbackDoing[w].to, feedbackDoing[w].actor)
    <2>7. events' = Append(events, entry) /\ entry.actor = feedbackDoing[w].actor
      BY <2>1 DEF Desk!Commit, Desk!Event
    <2>8. Len(events') = Len(events) + 1 /\ events'[Len(events) + 1] = entry
      BY <2>6, <2>7
    <2> QED BY <2>5, <2>7, <2>8 DEF Desk!Last
  <1> QED BY <1>1, FeedbackInvariant, PTL DEF Desk!Spec, Desk!ResolvedByItsAssignee

-----------------------------------------------------------------------------
(***************************************************************************)
(* The locks of AdvisoryLocks: who works under a key owns it, nothing is   *)
(* leaked, and nobody waits in a circle.                                   *)
(***************************************************************************)

LockAssumptions == Lock!RequestsAssumption /\ Lock!StoresAssumption /\ Lock!ShapesAssumption

(* What a request holds of the stage it is in, and what it lacks of it.    *)
LockLatest(m) == m.base + 1 .. Len(m.held)

LockLacking(m) == {k \in Head(m.stages) : \A i \in LockLatest(m) : m.held[i] # <<m.store, k>>}

LockHeldBy(m) == {m.held[i] : i \in DOMAIN m.held}

LockNoRepeats(m) == \A i, j \in DOMAIN m.held : m.held[i] = m.held[j] => i = j

(* What was held before the stage are keys of carts, and the stage asks    *)
(* for none.                                                               *)
LockLayered(E, m) ==
    /\ m.base > 0 => Head(m.stages) \cap E = {}
    /\ \A i \in 1 .. m.base : m.held[i][2] \in E
    /\ \A i \in LockLatest(m) : m.held[i][1] = m.store /\ m.held[i][2] \in Head(m.stages)

LockInKeyOrder(m) == \A i \in LockLatest(m) : \A k \in LockLacking(m) : m.held[i][2] < k

LockSound(E, m) ==
    /\ m \in Lock!Locking
    /\ Lock!Ordered(E, m.stages)
    /\ LockNoRepeats(m)
    /\ m.at # "releasing" => m.base <= Len(m.held)
    /\ m.at = "degrading" => m.store = Redis
    /\ m.at \in {"acquiring", "degrading"} => LockLayered(E, m)
    /\ m.at = "acquiring" => LockInKeyOrder(m)

(* Where a request is on its way: carts first, Redis before the process.   *)
LockKeyLevel(E, k) == IF k \in E THEN 1 ELSE 2

LockStageLevel(E, m) == IF Head(m.stages) \cap E = {} THEN 2 ELSE 1

(* A claim that its owner does not know of is one that it has passed.      *)
LockPassed(E, m, c) ==
    m.at \in {"acquiring", "degrading"} =>
        \/ LockKeyLevel(E, c[2]) < LockStageLevel(E, m)
        \/ /\ LockKeyLevel(E, c[2]) = LockStageLevel(E, m) /\ c[1] = Redis
           /\ m.at = "acquiring" => m.store # Redis

(* The invariant, of any assignment of claims, of progress, of lapses and  *)
(* of losses.                                                              *)
LockOwned(d, cl, la) ==
    \A r \in Workers : \A c \in LockHeldBy(d[r]) : cl[c] = r \/ <<r, c>> \in la

LockKept(d, cl, orp) ==
        \A c \in Lock!Stores \X LockKeys : cl[c] # Nobody =>
          c \in LockHeldBy(d[cl[c]]) \/ <<cl[c], c>> \in orp

LocksFit(E, d, cl, la, orp) ==
    /\ cl \in [Lock!Stores \X LockKeys -> Workers \cup {Nobody}]
    /\ d \in [Workers -> Lock!Locking]
    /\ la \subseteq Workers \X (Lock!Stores \X LockKeys)
    /\ orp \subseteq Workers \X (Lock!Stores \X LockKeys)
    /\ \A r \in Workers : LockSound(E, d[r])
    /\ \A r \in Workers : \A c \in Lock!Stores \X LockKeys : <<r, c>> \in orp => LockPassed(E, d[r], c)
    /\ LockOwned(d, cl, la)
    /\ LockKept(d, cl, orp)

LocksInv(E) == LocksFit(E, lockDoing, lockClaims, lapsed, orphaned)

LockCartKeys(E) == E \in SUBSET LockKeys /\ \A stages \in Shapes : Lock!Ordered(E, stages)

(* What the instance counts with is what counts here. *)
LEMMA LockCounts ==
    /\ \A Q : Lock!IsFiniteSet(Q) <=> IsFiniteSet(Q)
    /\ \A Q : Lock!Cardinality(Q) = Cardinality(Q)
  BY Zenon DEF Lock!IsFiniteSet, IsFiniteSet, Lock!Cardinality, Cardinality

(* The definitions of the model, by the record of the request.             *)
LEMMA LockHoldsIsHeldBy ==
    ASSUME NEW r, lockDoing[r] \in Lock!Locking
    PROVE  Lock!Holds(r) = LockHeldBy(lockDoing[r])
  BY DEF Lock!Holds, LockHeldBy, Lock!Range

LEMMA LockWantedIsLacking ==
    ASSUME NEW r, lockDoing[r] \in Lock!Locking, lockDoing[r].base <= Len(lockDoing[r].held)
    PROVE  Lock!Wanted(r) = LockLacking(lockDoing[r]) /\ Lock!Stage(r) = Head(lockDoing[r].stages)
  <1>1. PICK h, b, n : h = lockDoing[r].held /\ b = lockDoing[r].base /\ n = Len(lockDoing[r].held)
    OBVIOUS
  <1>2. h \in Seq(Lock!Stores \X LockKeys) /\ b \in Nat /\ n = Len(h) /\ n \in Nat /\ b <= n
    BY <1>1 DEF Lock!Locking
  <1>3. PICK t : t = SubSeq(h, b + 1, n)
    OBVIOUS
  <1>4. DOMAIN t = 1 .. n - b /\ \A i \in 1 .. n - b : t[i] = h[b + i]
    <2>1. PICK a : a = b + 1
      OBVIOUS
    <2>2. a \in Int /\ n \in Int /\ \A i \in a .. n : h[i] \in Lock!Stores \X LockKeys
      BY ONLY <1>2, <2>1
    <2>3. /\ SubSeq(h, a, n) \in Seq(Lock!Stores \X LockKeys)
          /\ Len(SubSeq(h, a, n)) = IF a <= n THEN n - a + 1 ELSE 0
          /\ \A i \in 1 .. n - a + 1 : SubSeq(h, a, n)[i] = h[a + i - 1]
      BY ONLY <2>2, SubSeqProperties
    <2>4. n - a + 1 = n - b /\ (IF a <= n THEN n - a + 1 ELSE 0) = n - b
      BY ONLY <1>2, <2>1
    <2>5. t \in Seq(Lock!Stores \X LockKeys) /\ Len(t) = n - b
      BY ONLY <1>3, <2>1, <2>3, <2>4
    <2>6. ASSUME NEW i \in 1 .. n - b PROVE t[i] = h[b + i]
      <3>1. a + i - 1 = b + i
        BY ONLY <1>2, <2>1, i \in 1 .. n - b
      <3>2. t[i] = h[a + i - 1]
        BY ONLY <1>3, <2>1, <2>3, <2>4, i \in 1 .. n - b
      <3> QED BY ONLY <3>1, <3>2
    <2> QED BY ONLY <2>5, <2>6
  <1>5. Lock!Range(t) = {h[i] : i \in b + 1 .. n}
    <2>1. ASSUME NEW i \in 1 .. n - b PROVE b + i \in b + 1 .. n
      BY ONLY <1>2, i \in 1 .. n - b
    <2>2. ASSUME NEW i \in b + 1 .. n PROVE i - b \in 1 .. n - b /\ b + (i - b) = i
      BY ONLY <1>2, i \in b + 1 .. n
    <2>3. ASSUME NEW x \in Lock!Range(t) PROVE x \in {h[i] : i \in b + 1 .. n}
      <3>1. PICK i \in 1 .. n - b : x = t[i]
        BY ONLY <1>4, x \in Lock!Range(t) DEF Lock!Range
      <3>2. x = h[b + i] /\ b + i \in b + 1 .. n
        BY ONLY <1>4, <2>1, <3>1
      <3> QED BY ONLY <3>2
    <2>4. ASSUME NEW i \in b + 1 .. n PROVE h[i] \in Lock!Range(t)
      <3>1. i - b \in 1 .. n - b /\ b + (i - b) = i
        BY <2>2
      <3>2. PICK j : j = i - b
        OBVIOUS
      <3>3. h[i] = t[j] /\ j \in DOMAIN t
        BY ONLY <1>4, <3>1, <3>2
      <3> QED BY ONLY <3>3 DEF Lock!Range
    <2> QED BY ONLY <2>3, <2>4
  <1>6. Lock!HeldInStage(r) = {h[i] : i \in b + 1 .. n}
    BY ONLY <1>1, <1>3, <1>5 DEF Lock!HeldInStage
  <1>7. Lock!Wanted(r) =
          {k \in Head(lockDoing[r].stages) : <<lockDoing[r].store, k>> \notin {h[i] : i \in b + 1 .. n}}
    BY ONLY <1>6 DEF Lock!Wanted, Lock!Stage
  <1>8. LockLacking(lockDoing[r]) =
          {k \in Head(lockDoing[r].stages) : <<lockDoing[r].store, k>> \notin {h[i] : i \in b + 1 .. n}}
    BY ONLY <1>1 DEF LockLacking, LockLatest
  <1> QED BY <1>7, <1>8 DEF Lock!Stage

(* A stage is of carts or without them.                                    *)
LEMMA LockStagesAreEven ==
    ASSUME NEW E, NEW m, LockSound(E, m)
    PROVE  /\ m.stages # <<>> /\ Head(m.stages) = m.stages[1]
           /\ Head(m.stages) \in SUBSET LockKeys
           /\ \A k \in Head(m.stages) : LockKeyLevel(E, k) = LockStageLevel(E, m)
  <1> PICK s : s = m.stages
    OBVIOUS
  <1>1. Lock!Ordered(E, s)
    BY DEF LockSound
  <1>2. s \in Seq((SUBSET LockKeys) \ {{}}) /\ Len(s) \in 1 .. 2
        /\ (s[1] \subseteq E \/ s[1] \cap E = {})
    BY <1>1 DEF Lock!Ordered
  <1>3. s # <<>> /\ Head(s) = s[1] /\ s[1] \in SUBSET LockKeys
    BY <1>2
  <1> QED BY <1>2, <1>3 DEF LockKeyLevel, LockStageLevel

(* What each step makes of the record of its request.                      *)
LEMMA LockGivingUpIsSound ==
    ASSUME NEW E, NEW m, LockSound(E, m), NEW s, NEW n, n = [m EXCEPT !.at = s],
           s = "releasing" \/ (s = "degrading" /\ m.at = "acquiring" /\ m.store = Redis)
    PROVE  LockSound(E, n) /\ LockHeldBy(n) = LockHeldBy(m)
  <1>1. m \in Lock!Locking
    BY DEF LockSound
  <1>2. /\ n \in Lock!Locking /\ n.at = s /\ n.stages = m.stages /\ n.held = m.held
        /\ n.base = m.base /\ n.store = m.store /\ n.home = m.home
    BY <1>1 DEF Lock!Locking
  <1>3. LockNoRepeats(m) => LockNoRepeats(n)
    BY <1>2 DEF LockNoRepeats
  <1>4. LockLayered(E, m) => LockLayered(E, n)
    BY <1>2 DEF LockLayered, LockLatest
  <1>5. LockHeldBy(n) = LockHeldBy(m)
    BY <1>2 DEF LockHeldBy
  <1> QED BY <1>2, <1>3, <1>4, <1>5 DEF LockSound

LEMMA LockFallbackIsSound ==
    ASSUME NEW E, NEW m, LockSound(E, m), m.at = "degrading", Len(m.held) = m.base,
           NEW n, n = [m EXCEPT !.at = "acquiring", !.store = m.home]
    PROVE  LockSound(E, n) /\ LockHeldBy(n) = LockHeldBy(m)
  <1>1. m \in Lock!Locking /\ LockLayered(E, m)
    BY DEF LockSound
  <1>2. /\ n \in Lock!Locking /\ n.at = "acquiring" /\ n.stages = m.stages /\ n.held = m.held
        /\ n.base = m.base /\ n.store = m.home /\ n.home = m.home
    BY <1>1 DEF Lock!Locking, Lock!Stores
  <1>3. LockNoRepeats(m) => LockNoRepeats(n)
    BY <1>2 DEF LockNoRepeats
  <1>4. LockLatest(n) = {}
    BY <1>1, <1>2 DEF LockLatest, Lock!Locking
  <1>5. LockLayered(E, n)
    BY <1>1, <1>2, <1>4 DEF LockLayered
  <1>6. LockInKeyOrder(n)
    BY <1>4 DEF LockInKeyOrder
  <1>7. LockHeldBy(n) = LockHeldBy(m)
    BY <1>2 DEF LockHeldBy
  <1> QED BY <1>2, <1>3, <1>5, <1>6, <1>7 DEF LockSound

(* The next stage, or the route.                                           *)
LEMMA LockProgressIsSound ==
    ASSUME NEW E, NEW m, LockSound(E, m), m.at = "acquiring", NEW n, n = Lock!Progress(m)
    PROVE  /\ LockSound(E, n) /\ LockHeldBy(n) = LockHeldBy(m)
           /\ n.at = "acquiring" => LockStageLevel(E, m) = 1 /\ LockStageLevel(E, n) = 2
  <1>1. m \in Lock!Locking /\ LockLayered(E, m) /\ LockNoRepeats(m) /\ Lock!Ordered(E, m.stages)
        /\ m.base <= Len(m.held)
    BY DEF LockSound
  <1>2. CASE Len(m.stages) = 1
    <2>1. n = [m EXCEPT !.at = "working"]
      BY <1>2 DEF Lock!Progress
    <2>2. /\ n \in Lock!Locking /\ n.at = "working" /\ n.stages = m.stages /\ n.held = m.held
          /\ n.base = m.base
      BY <1>1, <2>1 DEF Lock!Locking
    <2>3. LockNoRepeats(n) /\ LockHeldBy(n) = LockHeldBy(m)
      BY <1>1, <2>2 DEF LockNoRepeats, LockHeldBy
    <2> QED BY <1>1, <2>2, <2>3 DEF LockSound
  <1>3. CASE Len(m.stages) # 1
    <2>1. n = [m EXCEPT !.stages = Tail(@), !.base = Len(m.held), !.store = Redis]
      BY <1>3 DEF Lock!Progress
    <2> PICK s : s = m.stages
      OBVIOUS
    <2>2. s \in Seq((SUBSET LockKeys) \ {{}}) /\ Len(s) = 2 /\ s[1] \subseteq E /\ s[2] \cap E = {}
      BY <1>1, <1>3 DEF Lock!Ordered
    <2>3. /\ Tail(s) \in Seq((SUBSET LockKeys) \ {{}}) /\ Len(Tail(s)) = 1 /\ Tail(s)[1] = s[2]
          /\ Tail(s) # <<>> /\ Head(Tail(s)) = s[2] /\ Head(s) = s[1] /\ s[1] # {}
          /\ Tail(s) \in Seq(SUBSET LockKeys)
      <3>1. s # <<>> /\ Head(s) = s[1] /\ s[1] # {}
        BY <2>2
      <3> PICK t : t = Tail(s)
        OBVIOUS
      <3>2. /\ t \in Seq((SUBSET LockKeys) \ {{}}) /\ Len(t) = Len(s) - 1
            /\ \A i \in 1 .. Len(t) : t[i] = s[i + 1]
        BY <2>2, <3>1, HeadTailProperties
      <3>3. Len(t) = 1 /\ t # <<>> /\ Head(t) = t[1]
        <4>1. Len(t) = 1
          BY <2>2, <3>2
        <4>2. t # <<>>
          BY ONLY <4>1, Len(<<>>) = 0
        <4>3. Head(t) = t[1]
          BY <3>2, <4>2
        <4> QED BY <4>1, <4>2, <4>3
      <3>4. t[1] = s[2]
        BY <3>2, <3>3
      <3>5. t \in Seq(SUBSET LockKeys)
        <4>1. (SUBSET LockKeys) \ {{}} \subseteq SUBSET LockKeys /\ t \in Seq((SUBSET LockKeys) \ {{}})
          BY <3>2
        <4> QED BY ONLY <4>1, SequencesWiden
      <3> QED BY <2>2, <3>1, <3>2, <3>3, <3>4, <3>5
    <2>4. /\ n \in Lock!Locking /\ n.at = "acquiring" /\ n.stages = Tail(s) /\ n.held = m.held
          /\ n.base = Len(m.held) /\ n.store = Redis
      <3>1. Len(m.held) \in Nat /\ Redis \in Lock!Stores
        BY <1>1 DEF Lock!Locking, Lock!Stores
      <3> QED BY <1>1, <2>1, <2>3, <3>1 DEF Lock!Locking
    <2>5. Lock!Ordered(E, n.stages)
      BY <2>2, <2>3, <2>4 DEF Lock!Ordered
    <2>6. LockNoRepeats(n) /\ LockHeldBy(n) = LockHeldBy(m)
      BY <1>1, <2>4 DEF LockNoRepeats, LockHeldBy
    <2>7. LockLatest(n) = {} /\ LockInKeyOrder(n)
      BY <1>1, <2>4 DEF LockLatest, Lock!Locking, LockInKeyOrder
    <2>8. \A i \in 1 .. n.base : n.held[i][2] \in E
      <3> SUFFICES ASSUME NEW i \in 1 .. Len(m.held) PROVE m.held[i][2] \in E
        BY <2>4
      <3>1. i \in 1 .. m.base \/ i \in LockLatest(m)
        BY <1>1 DEF LockLatest, Lock!Locking
      <3>2. CASE i \in LockLatest(m)
        BY <1>1, <2>2, <2>3, <3>2 DEF LockLayered
      <3> QED BY <1>1, <3>1, <3>2 DEF LockLayered
    <2>9. LockLayered(E, n)
      BY <2>2, <2>3, <2>4, <2>7, <2>8 DEF LockLayered
    <2>10. LockStageLevel(E, m) = 1 /\ LockStageLevel(E, n) = 2
      BY <2>2, <2>3, <2>4 DEF LockStageLevel
    <2> QED BY <2>4, <2>5, <2>6, <2>7, <2>9, <2>10 DEF LockSound
  <1> QED BY <1>2, <1>3

(* A claim is held.                                                        *)
LEMMA LockTakingIsSound ==
    ASSUME NEW E, LockKeys \subseteq Int, NEW m, LockSound(E, m), m.at = "acquiring",
           NEW k \in LockLacking(m), \A j \in LockLacking(m) : k <= j,
           NEW c, c = <<m.store, k>>, NEW n, n = [m EXCEPT !.held = Append(@, c)]
    PROVE  LockSound(E, n) /\ LockHeldBy(n) = LockHeldBy(m) \cup {c} /\ c \in Lock!Stores \X LockKeys
  <1>1. /\ m \in Lock!Locking /\ LockLayered(E, m) /\ LockNoRepeats(m) /\ LockInKeyOrder(m)
        /\ Lock!Ordered(E, m.stages) /\ m.base <= Len(m.held)
    BY DEF LockSound
  <1>2. /\ Head(m.stages) \in SUBSET LockKeys /\ k \in Head(m.stages) /\ k \in LockKeys /\ k \in Int
        /\ c \in Lock!Stores \X LockKeys /\ c[1] = m.store /\ c[2] = k
    <2>1. Head(m.stages) \in SUBSET LockKeys
      BY LockStagesAreEven
    <2> QED BY <1>1, <2>1 DEF LockLacking, Lock!Locking
  <1> PICK h, l : h = m.held /\ l = Len(m.held)
    OBVIOUS
  <1> PICK g : g = Append(h, c)
    OBVIOUS
  <1>3. /\ h \in Seq(Lock!Stores \X LockKeys) /\ l \in Nat /\ DOMAIN h = 1 .. l /\ m.base \in Nat
        /\ m.base <= l
    BY <1>1 DEF Lock!Locking
  <1>4. /\ g \in Seq(Lock!Stores \X LockKeys) /\ Len(g) = l + 1 /\ DOMAIN g = 1 .. l + 1
        /\ g[l + 1] = c /\ \A i \in 1 .. l : g[i] = h[i]
    BY <1>2, <1>3
  <1>5. /\ n \in Lock!Locking /\ n.at = m.at /\ n.stages = m.stages /\ n.held = g
        /\ n.base = m.base /\ n.store = m.store
    BY <1>1, <1>4 DEF Lock!Locking
  <1>6. \A i \in 1 .. l + 1 : i = l + 1 \/ i \in 1 .. l
    BY <1>3
  <1>7. \A i \in 1 .. l : h[i] # c
    <2> SUFFICES ASSUME NEW i \in 1 .. l, h[i] = c PROVE FALSE
      OBVIOUS
    <2>1. i \in 1 .. m.base \/ i \in LockLatest(m)
      BY <1>3 DEF LockLatest
    <2>2. CASE i \in 1 .. m.base
      <3>1. m.base > 0 /\ k \in E
        BY <1>1, <1>2, <1>3, <2>2, SMTT(30) DEF LockLayered
      <3> QED BY <1>1, <1>2, <3>1 DEF LockLayered
    <2>3. CASE i \in LockLatest(m)
      BY <2>3 DEF LockLacking
    <2> QED BY <2>1, <2>2, <2>3
  <1>8. LockNoRepeats(n)
    <2> SUFFICES ASSUME NEW i \in 1 .. l + 1, NEW j \in 1 .. l + 1, g[i] = g[j] PROVE i = j
      BY <1>4, <1>5, SMTT(30) DEF LockNoRepeats
    <2>1. \A x, y \in 1 .. l : h[x] = h[y] => x = y
      BY <1>1, <1>3 DEF LockNoRepeats
    <2>2. CASE i = l + 1 \/ j = l + 1
      BY <1>4, <1>6, <1>7, <2>2, ZenonT(60)
    <2>3. CASE i \in 1 .. l /\ j \in 1 .. l
      BY <1>4, <2>1, <2>3
    <2> QED BY <1>6, <2>2, <2>3
  <1>9. LockLatest(n) = m.base + 1 .. l + 1 /\ LockLatest(m) = m.base + 1 .. l
        /\ \A i \in LockLatest(n) : i = l + 1 \/ (i \in LockLatest(m) /\ i \in 1 .. l)
    BY <1>3, <1>4, <1>5 DEF LockLatest
  <1>10. LockLayered(E, n)
    <2>1. \A i \in 1 .. m.base : i \in 1 .. l
      BY <1>3
    <2>2. \A i \in 1 .. m.base : n.held[i][2] \in E
      BY <1>1, <1>4, <1>5, <2>1 DEF LockLayered
    <2>3. \A i \in LockLatest(n) : n.held[i][1] = n.store /\ n.held[i][2] \in Head(n.stages)
      <3> SUFFICES ASSUME NEW i \in LockLatest(n)
                   PROVE  g[i][1] = m.store /\ g[i][2] \in Head(m.stages)
        BY <1>5
      <3>1. CASE i = l + 1
        BY <1>2, <1>4, <3>1
      <3>2. CASE i \in LockLatest(m) /\ i \in 1 .. l
        BY <1>1, <1>4, <3>2 DEF LockLayered
      <3> QED BY <1>9, <3>1, <3>2
    <2>4. n.base > 0 => Head(n.stages) \cap E = {}
      BY <1>1, <1>5 DEF LockLayered
    <2> QED BY <1>5, <2>2, <2>3, <2>4 DEF LockLayered
  <1>11. l + 1 \in LockLatest(n) /\ LockLatest(m) \subseteq LockLatest(n)
    <2> PICK b : b = m.base
      OBVIOUS
    <2>1. b \in Nat /\ l \in Nat /\ b <= l
      BY <1>3
    <2>2. l + 1 \in b + 1 .. l + 1 /\ \A i \in b + 1 .. l : i \in b + 1 .. l + 1
      BY <2>1
    <2> QED BY <1>9, <2>2
  <1>12. LockLacking(n) \subseteq LockLacking(m) /\ k \notin LockLacking(n)
    <2>1. \A i \in LockLatest(m) : g[i] = h[i]
      BY <1>4, <1>9, <1>11, <1>3
    <2>2. LockLacking(n) \subseteq LockLacking(m)
      BY <1>5, <1>11, <2>1, ZenonT(60) DEF LockLacking
    <2>3. k \notin LockLacking(n)
      BY <1>4, <1>5, <1>11 DEF LockLacking
    <2> QED BY <2>2, <2>3
  <1>13. LockInKeyOrder(n)
    <2> SUFFICES ASSUME NEW i \in LockLatest(n), NEW j \in LockLacking(n) PROVE n.held[i][2] < j
      BY DEF LockInKeyOrder
    <2>1. j \in LockLacking(m) /\ j # k /\ j \in Int
      BY <1>2, <1>12 DEF LockLacking
    <2>2. k < j
      BY <1>2, <2>1
    <2>3. CASE i = l + 1
      BY <1>2, <1>4, <1>5, <2>2, <2>3
    <2>4. CASE i \in LockLatest(m) /\ i \in 1 .. l
      BY <1>1, <1>4, <1>5, <2>1, <2>4 DEF LockInKeyOrder
    <2> QED BY <1>9, <2>3, <2>4
  <1>14. LockHeldBy(n) = LockHeldBy(m) \cup {c}
    BY <1>3, <1>4, <1>5, <1>6 DEF LockHeldBy
  <1>15. n.base <= Len(n.held)
    BY <1>3, <1>4, <1>5
  <1> QED BY <1>1, <1>2, <1>5, <1>8, <1>10, <1>13, <1>14, <1>15 DEF LockSound

(* The last claim is let go.                                               *)
LEMMA LockClosingIsSound ==
    ASSUME NEW E, NEW m, LockSound(E, m), m.held # <<>>,
           m.at = "releasing" \/ (m.at = "degrading" /\ Len(m.held) > m.base),
           NEW c, c = m.held[Len(m.held)],
           NEW n, n = [m EXCEPT !.held = SubSeq(@, 1, Len(@) - 1)]
    PROVE  /\ LockSound(E, n) /\ LockHeldBy(n) = LockHeldBy(m) \ {c} /\ c \in Lock!Stores \X LockKeys
           /\ n.at = m.at /\ n.stages = m.stages
           /\ c[1] = Redis => LockPassed(E, n, c)
  <1>1. m \in Lock!Locking /\ LockNoRepeats(m) /\ Lock!Ordered(E, m.stages)
    BY DEF LockSound
  <1> PICK h, l : h = m.held /\ l = Len(m.held)
    OBVIOUS
  <1> PICK g : g = SubSeq(h, 1, l - 1)
    OBVIOUS
  <1>2. /\ h \in Seq(Lock!Stores \X LockKeys) /\ l \in Nat \ {0} /\ DOMAIN h = 1 .. l /\ m.base \in Nat
    BY <1>1 DEF Lock!Locking
  <1>3. /\ g \in Seq(Lock!Stores \X LockKeys) /\ Len(g) = l - 1 /\ DOMAIN g = 1 .. l - 1
        /\ \A i \in 1 .. l - 1 : g[i] = h[i]
    <2>1. \A i \in 1 .. l - 1 : h[i] \in Lock!Stores \X LockKeys
      BY <1>2
    <2> PICK k : k = l - 1
      OBVIOUS
    <2>2. k \in Nat /\ k \in Int /\ 1 \in Int /\ g = SubSeq(h, 1, k)
      BY <1>2
    <2>3. /\ g \in Seq(Lock!Stores \X LockKeys)
          /\ Len(g) = IF 1 <= k THEN k - 1 + 1 ELSE 0
          /\ \A i \in 1 .. k - 1 + 1 : g[i] = h[1 + i - 1]
      <3>1. \A i \in 1 .. k : h[i] \in Lock!Stores \X LockKeys
        BY <2>1
      <3> QED BY ONLY <2>2, <3>1, SubSeqProperties
    <2>4. Len(g) = k /\ k - 1 + 1 = k
      BY <2>2, <2>3
    <2>5. \A i \in 1 .. k : 1 + i - 1 = i
      BY <2>2
    <2>6. g \in Seq(Lock!Stores \X LockKeys) /\ Len(g) = k /\ DOMAIN g = 1 .. k
          /\ \A i \in 1 .. k : g[i] = h[i]
      BY <2>3, <2>4, <2>5
    <2> QED BY <2>6
  <1>4. /\ n \in Lock!Locking /\ n.at = m.at /\ n.stages = m.stages /\ n.held = g
        /\ n.base = m.base /\ n.store = m.store
    BY <1>1, <1>3 DEF Lock!Locking
  <1>5. (\A i \in 1 .. l : i = l \/ i \in 1 .. l - 1) /\ \A i \in 1 .. l - 1 : i \in 1 .. l /\ i # l
    BY <1>2
  <1>6. LockNoRepeats(n)
    BY <1>1, <1>2, <1>3, <1>4, <1>5 DEF LockNoRepeats
  <1>7. LockHeldBy(n) = LockHeldBy(m) \ {c}
    <2>1. \A i \in 1 .. l - 1 : h[i] # c
      BY <1>1, <1>2, <1>5 DEF LockNoRepeats
    <2>2. LockHeldBy(n) = {h[i] : i \in 1 .. l - 1} /\ LockHeldBy(m) = {h[i] : i \in 1 .. l}
      BY <1>2, <1>3, <1>4 DEF LockHeldBy
    <2> QED BY <1>5, <2>1, <2>2, SMTT(30)
  <1>8. c \in Lock!Stores \X LockKeys
    BY <1>2
  <1>9. CASE m.at = "degrading" /\ l > m.base
    <2>1. m.store = Redis /\ LockLayered(E, m)
      BY <1>9 DEF LockSound
    <2>2. n.base <= Len(n.held)
      BY <1>2, <1>3, <1>4, <1>9
    <2>3. /\ \A i \in LockLatest(n) : i \in LockLatest(m) /\ i \in 1 .. l - 1
          /\ \A i \in 1 .. m.base : i \in 1 .. l - 1
      BY <1>2, <1>3, <1>4, <1>9 DEF LockLatest
    <2>4. LockLayered(E, n)
      <3>1. n.base > 0 => Head(n.stages) \cap E = {}
        BY <1>4, <2>1 DEF LockLayered
      <3>2. ASSUME NEW i \in 1 .. m.base PROVE g[i][2] \in E
        <4>1. h[i][2] \in E
          BY <2>1 DEF LockLayered
        <4>2. g[i] = h[i]
          BY <1>3, <2>3
        <4> QED BY <4>1, <4>2
      <3>3. ASSUME NEW i \in LockLatest(n)
            PROVE  n.held[i][1] = n.store /\ n.held[i][2] \in Head(n.stages)
        <4>1. h[i][1] = m.store /\ h[i][2] \in Head(m.stages)
          BY <2>1, <2>3 DEF LockLayered
        <4>2. n.held[i] = h[i]
          BY <1>3, <1>4, <2>3
        <4> QED BY <1>4, <4>1, <4>2
      <3> QED BY <1>4, <3>1, <3>2, <3>3 DEF LockLayered
    <2>5. c[1] = Redis => LockPassed(E, n, c)
      <3>1. l \in LockLatest(m)
        BY <1>2, <1>9 DEF LockLatest
      <3>2. c[2] \in Head(m.stages)
        BY <2>1, <3>1 DEF LockLayered
      <3>3. LockKeyLevel(E, c[2]) = LockStageLevel(E, m) /\ LockStageLevel(E, n) = LockStageLevel(E, m)
        BY <1>4, <3>2, LockStagesAreEven DEF LockStageLevel
      <3> QED BY <1>4, <1>9, <3>3 DEF LockPassed
    <2> QED BY <1>1, <1>4, <1>6, <1>7, <1>8, <1>9, <2>1, <2>2, <2>4, <2>5 DEF LockSound
  <1>10. CASE m.at = "releasing"
    BY <1>1, <1>4, <1>6, <1>7, <1>8, <1>10 DEF LockSound, LockPassed
  <1> QED BY <1>9, <1>10

(* What each step makes of the claims.                                     *)
LEMMA LockFitGivesTheInvariants ==
    ASSUME NEW E, LocksInv(E)
    PROVE  Lock!TypeOK /\ Lock!HoldersOwn /\ Lock!NothingLeaks
  <1>1. \A r \in Workers : lockDoing[r].at # "releasing" => lockDoing[r].base <= Len(lockDoing[r].held)
    BY DEF LocksInv, LocksFit, LockSound
  <1>2. Lock!TypeOK
    BY <1>1 DEF LocksInv, LocksFit, Lock!TypeOK
  <1>3. Lock!HoldersOwn
    BY DEF LocksInv, LocksFit, LockOwned, Lock!HoldersOwn, Lock!Holds, LockHeldBy, Lock!Range
  <1>4. Lock!NothingLeaks
    BY DEF LocksInv, LocksFit, LockKept, Lock!NothingLeaks, Lock!Holds, LockHeldBy, Lock!Range
  <1> QED BY <1>2, <1>3, <1>4

LEMMA LockInitFits ==
    ASSUME LockAssumptions, NEW E, LockCartKeys(E), Lock!Init
    PROVE  LocksInv(E)
  <1>1. \A r \in Workers : /\ lockDoing[r].at = "acquiring" /\ lockDoing[r].held = <<>>
                           /\ lockDoing[r].base = 0 /\ lockDoing[r].stages \in Shapes
                           /\ Lock!Ordered(E, lockDoing[r].stages)
    BY DEF Lock!Init, LockCartKeys
  <1>2. \A r \in Workers : lockDoing[r].stages \in Seq(SUBSET LockKeys)
    <2> SUFFICES ASSUME NEW r \in Workers PROVE lockDoing[r].stages \in Seq(SUBSET LockKeys)
      OBVIOUS
    <2>1. lockDoing[r].stages \in Seq((SUBSET LockKeys) \ {{}})
          /\ (SUBSET LockKeys) \ {{}} \subseteq SUBSET LockKeys
      BY <1>1 DEF Lock!Ordered
    <2> QED BY ONLY <2>1, SequencesWiden
  <1>3. <<>> \in Seq(Lock!Stores \X LockKeys) /\ Len(<<>>) = 0
    OBVIOUS
  <1>4. lockDoing \in [Workers -> Lock!Locking]
    <2>1. lockDoing \in [Workers -> [at : {"acquiring"}, stages : Shapes, held : {<<>>},
                                     base : {0}, store : {Redis}, home : Processes]]
      BY DEF Lock!Init
    <2>2. \A r \in Workers : lockDoing[r] \in Lock!Locking
      <3> SUFFICES ASSUME NEW r \in Workers PROVE lockDoing[r] \in Lock!Locking
        OBVIOUS
      <3> PICK m : m = lockDoing[r]
        OBVIOUS
      <3>1. m \in [at : {"acquiring"}, stages : Shapes, held : {<<>>},
                   base : {0}, store : {Redis}, home : Processes]
        BY <2>1
      <3>2. m.stages \in Seq(SUBSET LockKeys) /\ m.held \in Seq(Lock!Stores \X LockKeys)
        BY <1>2, <1>3, <3>1
      <3>3. m.home \in Processes /\ m.store \in Lock!Stores
        BY <3>1 DEF Lock!Stores
      <3> QED BY <3>1, <3>2, <3>3 DEF Lock!Locking
    <2> QED BY <2>1, <2>2
  <1>5. ASSUME NEW r \in Workers PROVE LockSound(E, lockDoing[r])
    <2> PICK m : m = lockDoing[r]
      OBVIOUS
    <2>1. m \in Lock!Locking /\ m.at = "acquiring" /\ m.held = <<>> /\ m.base = 0
          /\ Lock!Ordered(E, m.stages)
      BY <1>1, <1>4
    <2>2. DOMAIN m.held = {} /\ LockLatest(m) = {} /\ 1 .. m.base = {} /\ m.base <= Len(m.held)
      BY <1>3, <2>1 DEF LockLatest
    <2>3. LockNoRepeats(m) /\ LockInKeyOrder(m) /\ LockLayered(E, m)
      BY <2>1, <2>2 DEF LockNoRepeats, LockInKeyOrder, LockLayered
    <2> QED BY <2>1, <2>2, <2>3 DEF LockSound
  <1>6. \A r \in Workers : LockHeldBy(lockDoing[r]) = {}
    BY <1>1, <1>3 DEF LockHeldBy
  <1>7. lockClaims \in [Lock!Stores \X LockKeys -> Workers \cup {Nobody}]
        /\ \A c \in Lock!Stores \X LockKeys : lockClaims[c] = Nobody
    BY DEF Lock!Init
  <1>8. lapsed = {} /\ orphaned = {}
    BY DEF Lock!Init
  <1> QED BY <1>4, <1>5, <1>6, <1>7, <1>8 DEF LocksInv, LocksFit, LockOwned, LockKept

(* Only the record of a request changes.                                   *)
LEMMA LockQuietFits ==
    ASSUME NEW E, NEW d, NEW cl, NEW la, NEW orp, LocksFit(E, d, cl, la, orp),
           NEW r \in Workers, NEW n, LockSound(E, n), LockHeldBy(n) = LockHeldBy(d[r]),
           \A c \in Lock!Stores \X LockKeys : LockPassed(E, d[r], c) => LockPassed(E, n, c)
    PROVE  LocksFit(E, [d EXCEPT ![r] = n], cl, la, orp)
  <1> PICK e : e = [d EXCEPT ![r] = n]
    OBVIOUS
  <1>1. e \in [Workers -> Lock!Locking] /\ e[r] = n /\ \A s \in Workers : s # r => e[s] = d[s]
    BY DEF LocksFit, LockSound
  <1>2. \A s \in Workers : LockHeldBy(e[s]) = LockHeldBy(d[s])
    BY <1>1
  <1>3. LockOwned(e, cl, la)
    BY <1>2 DEF LocksFit, LockOwned
  <1>4. LockKept(e, cl, orp)
    <2>1. \A c \in Lock!Stores \X LockKeys : cl[c] # Nobody => cl[c] \in Workers
      BY DEF LocksFit
    <2> QED BY <1>2, <2>1 DEF LocksFit, LockKept
  <1>5. \A s \in Workers : LockSound(E, e[s])
    BY <1>1 DEF LocksFit
  <1>6. \A s \in Workers : \A c \in Lock!Stores \X LockKeys : <<s, c>> \in orp => LockPassed(E, e[s], c)
    BY <1>1 DEF LocksFit
  <1>7. LocksFit(E, e, cl, la, orp)
    BY <1>1, <1>3, <1>4, <1>5, <1>6 DEF LocksFit
  <1> QED BY <1>7

(* A free claim is taken, and held, or lost.                               *)
LEMMA LockTakenFits ==
    ASSUME Lock!RequestsAssumption, NEW E, NEW d, NEW cl, NEW la, NEW orp, LocksFit(E, d, cl, la, orp),
           NEW r \in Workers, NEW n, LockSound(E, n), NEW c \in Lock!Stores \X LockKeys, cl[c] = Nobody,
           NEW op, \/ LockHeldBy(n) = LockHeldBy(d[r]) \cup {c} /\ op = orp
                   \/ LockHeldBy(n) = LockHeldBy(d[r]) /\ op = orp \cup {<<r, c>>}
                      /\ LockPassed(E, n, c),
           \A x \in Lock!Stores \X LockKeys : LockPassed(E, d[r], x) => LockPassed(E, n, x)
    PROVE  LocksFit(E, [d EXCEPT ![r] = n], [cl EXCEPT ![c] = r], la, op)
  <1> PICK e : e = [d EXCEPT ![r] = n]
    OBVIOUS
  <1> PICK k : k = [cl EXCEPT ![c] = r]
    OBVIOUS
  <1>1. e \in [Workers -> Lock!Locking] /\ e[r] = n /\ \A s \in Workers : s # r => e[s] = d[s]
    BY DEF LocksFit, LockSound
  <1>2. /\ k \in [Lock!Stores \X LockKeys -> Workers \cup {Nobody}] /\ k[c] = r
        /\ \A x \in Lock!Stores \X LockKeys : x # c => k[x] = cl[x]
    BY DEF LocksFit
  <1>3. \A s \in Workers : \A x \in LockHeldBy(e[s]) : x \in LockHeldBy(d[s]) \/ (s = r /\ x = c)
    BY <1>1
  <1>4. \A s \in Workers : \A x \in LockHeldBy(d[s]) : x \in LockHeldBy(e[s])
          /\ x \in Lock!Stores \X LockKeys
    <2>1. \A s \in Workers : LockHeldBy(d[s]) \subseteq LockHeldBy(e[s])
      BY <1>1
    <2>2. \A s \in Workers : LockHeldBy(d[s]) \subseteq Lock!Stores \X LockKeys
      BY DEF LocksFit, LockHeldBy, Lock!Locking
    <2> QED BY <2>1, <2>2
  <1>5. LockOwned(e, k, la)
    <2> SUFFICES ASSUME NEW s \in Workers, NEW x \in LockHeldBy(e[s])
                 PROVE  k[x] = s \/ <<s, x>> \in la
      BY DEF LockOwned
    <2>1. CASE s = r /\ x = c
      BY <1>2, <2>1
    <2>2. CASE x \in LockHeldBy(d[s]) /\ x = c
      <3>1. cl[x] = s \/ <<s, x>> \in la
        BY <2>2 DEF LocksFit, LockOwned
      <3> QED BY <2>2, <3>1 DEF Lock!RequestsAssumption
    <2>3. CASE x \in LockHeldBy(d[s]) /\ x # c
      <3>1. cl[x] = s \/ <<s, x>> \in la
        BY <2>3 DEF LocksFit, LockOwned
      <3> QED BY <1>2, <1>4, <2>3, <3>1
    <2> QED BY <1>3, <2>1, <2>2, <2>3
  <1>6. LockKept(e, k, op)
    <2> SUFFICES ASSUME NEW x \in Lock!Stores \X LockKeys, k[x] # Nobody
                 PROVE  x \in LockHeldBy(e[k[x]]) \/ <<k[x], x>> \in op
      BY DEF LockKept
    <2>1. CASE x = c
      BY <1>1, <1>2, <2>1
    <2>2. CASE x # c
      <3>1. k[x] = cl[x] /\ cl[x] \in Workers
        BY <1>2, <2>2
      <3>2. x \in LockHeldBy(d[cl[x]]) \/ <<cl[x], x>> \in orp
        BY <3>1 DEF LocksFit, LockKept
      <3> QED BY <1>4, <3>1, <3>2
    <2> QED BY <2>1, <2>2
  <1>7. op \subseteq Workers \X (Lock!Stores \X LockKeys)
    BY DEF LocksFit
  <1>8. \A s \in Workers : \A x \in Lock!Stores \X LockKeys : <<s, x>> \in op => LockPassed(E, e[s], x)
    <2> SUFFICES ASSUME NEW s \in Workers, NEW x \in Lock!Stores \X LockKeys, <<s, x>> \in op
                 PROVE  LockPassed(E, e[s], x)
      OBVIOUS
    <2>1. CASE <<s, x>> \in orp
      BY <1>1, <2>1 DEF LocksFit
    <2>2. CASE <<s, x>> \notin orp
      BY <1>1, <2>2
    <2> QED BY <2>1, <2>2
  <1>9. \A s \in Workers : LockSound(E, e[s])
    BY <1>1 DEF LocksFit
  <1>10. LocksFit(E, e, k, la, op)
    BY <1>1, <1>2, <1>5, <1>6, <1>7, <1>8, <1>9 DEF LocksFit
  <1> QED BY <1>10

(* A claim is let go, whether or not the release arrives.                  *)
LEMMA LockClosedFits ==
    ASSUME Lock!RequestsAssumption, NEW E, NEW d, NEW cl, NEW la, NEW orp, LocksFit(E, d, cl, la, orp),
           NEW r \in Workers, NEW n, LockSound(E, n), NEW c \in Lock!Stores \X LockKeys,
           LockHeldBy(n) = LockHeldBy(d[r]) \ {c}, NEW k, NEW op,
           \/ k = (IF cl[c] = r THEN [cl EXCEPT ![c] = Nobody] ELSE cl) /\ op = orp
           \/ /\ k = cl /\ LockPassed(E, n, c)
              /\ op = IF cl[c] = r THEN orp \cup {<<r, c>>} ELSE orp,
           \A x \in Lock!Stores \X LockKeys : LockPassed(E, d[r], x) => LockPassed(E, n, x)
    PROVE  LocksFit(E, [d EXCEPT ![r] = n], k, la \ {<<r, c>>}, op)
  <1> PICK e : e = [d EXCEPT ![r] = n]
    OBVIOUS
  <1> PICK lb : lb = la \ {<<r, c>>}
    OBVIOUS
  <1>1. e \in [Workers -> Lock!Locking] /\ e[r] = n /\ \A s \in Workers : s # r => e[s] = d[s]
    BY DEF LocksFit, LockSound
  <1>2. /\ k \in [Lock!Stores \X LockKeys -> Workers \cup {Nobody}]
        /\ \A x \in Lock!Stores \X LockKeys : x # c => k[x] = cl[x]
        /\ k[c] = cl[c] \/ (cl[c] = r /\ k[c] = Nobody /\ op = orp)
    BY DEF LocksFit
  <1>3. \A s \in Workers : \A x \in LockHeldBy(e[s]) :
            x \in LockHeldBy(d[s]) /\ ~ (s = r /\ x = c) /\ x \in Lock!Stores \X LockKeys
    <2>1. \A s \in Workers : LockHeldBy(d[s]) \subseteq Lock!Stores \X LockKeys
      BY DEF LocksFit, LockHeldBy, Lock!Locking
    <2> QED BY <1>1, <2>1
  <1>4. \A s \in Workers : \A x \in LockHeldBy(d[s]) : x \in LockHeldBy(e[s]) \/ (s = r /\ x = c)
    BY <1>1
  <1>5. LockOwned(e, k, lb)
    <2> SUFFICES ASSUME NEW s \in Workers, NEW x \in LockHeldBy(e[s])
                 PROVE  k[x] = s \/ <<s, x>> \in lb
      BY DEF LockOwned
    <2>1. x \in LockHeldBy(d[s]) /\ ~ (s = r /\ x = c) /\ x \in Lock!Stores \X LockKeys
      BY <1>3
    <2>2. cl[x] = s \/ <<s, x>> \in la
      BY <2>1 DEF LocksFit, LockOwned
    <2>3. <<s, x>> # <<r, c>>
      BY <2>1
    <2> QED BY <1>2, <2>1, <2>2, <2>3
  <1>6. op \subseteq Workers \X (Lock!Stores \X LockKeys) /\ orp \subseteq op
    BY DEF LocksFit
  <1>7. LockKept(e, k, op)
    <2> SUFFICES ASSUME NEW x \in Lock!Stores \X LockKeys, k[x] # Nobody
                 PROVE  x \in LockHeldBy(e[k[x]]) \/ <<k[x], x>> \in op
      BY DEF LockKept
    <2>1. k[x] = cl[x] /\ cl[x] \in Workers
      BY <1>2
    <2>2. x \in LockHeldBy(d[cl[x]]) \/ <<cl[x], x>> \in orp
      BY <2>1 DEF LocksFit, LockKept
    <2>3. CASE x = c /\ cl[x] = r
      <3>1. k = cl /\ op = orp \cup {<<r, c>>}
        <4>1. k[c] # Nobody
          BY <2>3
        <4>2. [cl EXCEPT ![c] = Nobody][c] = Nobody
          BY DEF LocksFit
        <4> QED BY <2>3, <4>1, <4>2
      <3> QED BY <2>3, <3>1
    <2>4. CASE ~ (x = c /\ cl[x] = r)
      BY <1>4, <1>6, <2>1, <2>2, <2>4
    <2> QED BY <2>3, <2>4
  <1>8. \A s \in Workers : \A x \in Lock!Stores \X LockKeys : <<s, x>> \in op => LockPassed(E, e[s], x)
    <2> SUFFICES ASSUME NEW s \in Workers, NEW x \in Lock!Stores \X LockKeys, <<s, x>> \in op
                 PROVE  LockPassed(E, e[s], x)
      OBVIOUS
    <2>1. CASE <<s, x>> \in orp
      BY <1>1, <2>1 DEF LocksFit
    <2>2. CASE <<s, x>> \notin orp
      BY <1>1, <2>2
    <2> QED BY <2>1, <2>2
  <1>9. \A s \in Workers : LockSound(E, e[s])
    BY <1>1 DEF LocksFit
  <1>10. lb \subseteq Workers \X (Lock!Stores \X LockKeys)
    BY DEF LocksFit
  <1>11. LocksFit(E, e, k, lb, op)
    BY <1>1, <1>2, <1>5, <1>6, <1>7, <1>8, <1>9, <1>10 DEF LocksFit
  <1> QED BY <1>11

(* The time of a claim runs out.                                           *)
LEMMA LockLapsedFits ==
    ASSUME Lock!RequestsAssumption, NEW E, NEW d, NEW cl, NEW la, NEW orp, LocksFit(E, d, cl, la, orp),
           NEW c \in Lock!Stores \X LockKeys, NEW s \in Workers, cl[c] = s,
           NEW lb, lb = IF c \in LockHeldBy(d[s]) THEN la \cup {<<s, c>>} ELSE la
    PROVE  LocksFit(E, d, [cl EXCEPT ![c] = Nobody], lb, orp \ {<<s, c>>})
  <1> PICK k : k = [cl EXCEPT ![c] = Nobody]
    OBVIOUS
  <1> PICK op : op = orp \ {<<s, c>>}
    OBVIOUS
  <1>1. /\ k \in [Lock!Stores \X LockKeys -> Workers \cup {Nobody}] /\ k[c] = Nobody
        /\ \A x \in Lock!Stores \X LockKeys : x # c => k[x] = cl[x]
    BY DEF LocksFit
  <1>2. /\ op \subseteq Workers \X (Lock!Stores \X LockKeys)
           /\ lb \subseteq Workers \X (Lock!Stores \X LockKeys)
        /\ op \subseteq orp /\ la \subseteq lb
    BY DEF LocksFit
  <1>3. \A t \in Workers : LockHeldBy(d[t]) \subseteq Lock!Stores \X LockKeys
    BY DEF LocksFit, LockHeldBy, Lock!Locking
  <1>4. LockOwned(d, k, lb)
    <2> SUFFICES ASSUME NEW t \in Workers, NEW x \in LockHeldBy(d[t])
                 PROVE  k[x] = t \/ <<t, x>> \in lb
      BY DEF LockOwned
    <2>1. cl[x] = t \/ <<t, x>> \in la
      BY DEF LocksFit, LockOwned
    <2>2. CASE x = c /\ cl[x] = t
      BY <2>2
    <2>3. CASE x # c
      BY <1>1, <1>2, <1>3, <2>1, <2>3
    <2> QED BY <1>2, <2>1, <2>2, <2>3
  <1>5. LockKept(d, k, op)
    <2> SUFFICES ASSUME NEW x \in Lock!Stores \X LockKeys, k[x] # Nobody
                 PROVE  x \in LockHeldBy(d[k[x]]) \/ <<k[x], x>> \in op
      BY DEF LockKept
    <2>1. x # c /\ k[x] = cl[x]
      BY <1>1
    <2>2. x \in LockHeldBy(d[cl[x]]) \/ <<cl[x], x>> \in orp
      BY <2>1 DEF LocksFit, LockKept
    <2>3. <<cl[x], x>> # <<s, c>>
      BY <2>1
    <2> QED BY <2>1, <2>2, <2>3
  <1>6. LocksFit(E, d, k, lb, op)
    BY <1>1, <1>2, <1>4, <1>5 DEF LocksFit
  <1> QED BY <1>6

(* Every step keeps the invariant.                                         *)
LEMMA LockNextClaimIs ==
    ASSUME NEW E, LocksInv(E), NEW r \in Workers, Lock!Acquiring(r)
    PROVE  /\ Lock!NextClaims(r) = {<<lockDoing[r].store, k>> :
                  k \in {i \in LockLacking(lockDoing[r]) : \A j \in LockLacking(lockDoing[r]) : i <= j}}
           /\ Lock!NextClaims(r) \subseteq Lock!Stores \X LockKeys
           /\ \A c \in Lock!NextClaims(r) : c[1] = lockDoing[r].store
                /\ c[2] \in Head(lockDoing[r].stages)
  <1>1. LockSound(E, lockDoing[r]) /\ lockDoing[r] \in Lock!Locking /\ lockDoing[r].at = "acquiring"
    BY DEF LocksInv, LocksFit, Lock!Acquiring
  <1>2. Lock!Wanted(r) = LockLacking(lockDoing[r])
    BY <1>1, LockWantedIsLacking DEF LockSound
  <1>3. Head(lockDoing[r].stages) \in SUBSET LockKeys /\ lockDoing[r].store \in Lock!Stores
    BY <1>1, LockStagesAreEven DEF Lock!Locking
  <1>4. Lock!NextClaims(r) = {<<lockDoing[r].store, k>> :
                       k \in {i \in LockLacking(lockDoing[r]) : \A j \in LockLacking(lockDoing[r]) :
                         i <= j}}
    BY <1>2 DEF Lock!NextClaims, Lock!NextKeys
  <1>5. LockLacking(lockDoing[r]) \subseteq Head(lockDoing[r].stages)
    BY DEF LockLacking
  <1> QED BY <1>3, <1>4, <1>5

LEMMA LockNextStageFits ==
    ASSUME NEW E, LocksInv(E), NEW r \in Workers, Lock!NextStage(r)
    PROVE  LocksInv(E)'
  <1> PICK m, n : m = lockDoing[r] /\ n = Lock!Progress(m)
    OBVIOUS
  <1>1. LockSound(E, m) /\ m.at = "acquiring" /\ lockDoing \in [Workers -> Lock!Locking]
    BY DEF Lock!NextStage, Lock!Acquiring, LocksInv, LocksFit
  <1>2. /\ LockSound(E, n) /\ LockHeldBy(n) = LockHeldBy(m)
        /\ n.at = "acquiring" => LockStageLevel(E, m) = 1 /\ LockStageLevel(E, n) = 2
    BY <1>1, LockProgressIsSound
  <1>3. ASSUME NEW c \in Lock!Stores \X LockKeys, LockPassed(E, m, c) PROVE LockPassed(E, n, c)
    <2>1. n.at \in {"acquiring", "working"}
      BY <1>1 DEF Lock!Progress, LockSound, Lock!Locking
    <2>2. LockKeyLevel(E, c[2]) \in {1, 2}
      BY DEF LockKeyLevel
    <2>3. 1 < 2
      OBVIOUS
    <2> QED BY <1>1, <1>2, <1>3, <2>1, <2>2, <2>3 DEF LockPassed
  <1>4. lockDoing' = [lockDoing EXCEPT ![r] = n] /\ UNCHANGED <<lockClaims, lapsed, orphaned>>
    BY DEF Lock!NextStage
  <1>5. LocksFit(E, [lockDoing EXCEPT ![r] = n], lockClaims, lapsed, orphaned)
    BY <1>2, <1>3, LockQuietFits DEF LocksInv
  <1> QED BY <1>4, <1>5 DEF LocksInv

(* A request gives up, or turns to the claims of its process.              *)
LEMMA LockGivingUpFits ==
    ASSUME NEW E, LocksInv(E), NEW r \in Workers, NEW s,
           s = "releasing" \/ (s = "degrading" /\ lockDoing[r].at = "acquiring"
             /\ lockDoing[r].store = Redis),
           lockDoing' = [lockDoing EXCEPT ![r].at = s], UNCHANGED <<lockClaims, lapsed, orphaned>>
    PROVE  LocksInv(E)'
  <1> PICK m, n : m = lockDoing[r] /\ n = [m EXCEPT !.at = s]
    OBVIOUS
  <1>1. LockSound(E, m) /\ m \in Lock!Locking
    BY DEF LocksInv, LocksFit
  <1>2. LockSound(E, n) /\ LockHeldBy(n) = LockHeldBy(m)
    BY <1>1, LockGivingUpIsSound
  <1>3. n.at = s /\ n.stages = m.stages
    BY <1>1 DEF Lock!Locking
  <1>4. \A c \in Lock!Stores \X LockKeys : LockPassed(E, m, c) => LockPassed(E, n, c)
    BY <1>3 DEF LockPassed, LockStageLevel
  <1>5. lockDoing' = [lockDoing EXCEPT ![r] = n]
    OBVIOUS
  <1>6. LocksFit(E, [lockDoing EXCEPT ![r] = n], lockClaims, lapsed, orphaned)
    BY <1>2, <1>4, LockQuietFits DEF LocksInv
  <1> QED BY <1>5, <1>6 DEF LocksInv

LEMMA LockClaimFits ==
    ASSUME LockAssumptions, NEW E, LocksInv(E), NEW r \in Workers,
           NEW c \in Lock!NextClaims(r), Lock!Claim(r, c)
    PROVE  LocksInv(E)'
  <1> PICK m, n : m = lockDoing[r] /\ n = [m EXCEPT !.held = Append(@, c)]
    OBVIOUS
  <1>1. LockSound(E, m) /\ m \in Lock!Locking /\ m.at = "acquiring" /\ Lock!Acquiring(r)
    BY DEF Lock!Claim, Lock!Acquiring, LocksInv, LocksFit
  <1>2. PICK k \in LockLacking(m) : (\A j \in LockLacking(m) : k <= j) /\ c = <<m.store, k>>
    BY <1>1, LockNextClaimIs
  <1>3. LockSound(E, n) /\ LockHeldBy(n) = LockHeldBy(m) \cup {c} /\ c \in Lock!Stores \X LockKeys
    <2>1. LockKeys \subseteq Int
      BY DEF LockAssumptions, Lock!ShapesAssumption
    <2>2. m.at = "acquiring" /\ k \in LockLacking(m) /\ (\A j \in LockLacking(m) : k <= j)
      BY <1>1, <1>2
    <2>3. n = [m EXCEPT !.held = Append(@, c)] /\ c = <<m.store, k>>
      BY <1>2
    <2> QED BY ONLY <1>1, <2>1, <2>2, <2>3, LockTakingIsSound, ZenonT(60)
  <1>4. n.at = m.at /\ n.stages = m.stages /\ n.store = m.store
    BY <1>1 DEF Lock!Locking
  <1>5. \A x \in Lock!Stores \X LockKeys : LockPassed(E, m, x) => LockPassed(E, n, x)
    BY <1>4 DEF LockPassed, LockStageLevel
  <1>6. /\ lockClaims[c] = Nobody /\ lockClaims' = [lockClaims EXCEPT ![c] = r]
        /\ lockDoing' = [lockDoing EXCEPT ![r] = n] /\ UNCHANGED <<lapsed, orphaned>>
    BY DEF Lock!Claim
  <1>7. LocksFit(E, [lockDoing EXCEPT ![r] = n], [lockClaims EXCEPT ![c] = r], lapsed, orphaned)
    BY <1>3, <1>5, <1>6, LockTakenFits DEF LocksInv, LockAssumptions
  <1> QED BY <1>6, <1>7 DEF LocksInv

LEMMA LockUnavailableFits ==
    ASSUME LockAssumptions, NEW E, LocksInv(E), NEW r \in Workers,
           NEW c \in Lock!NextClaims(r), NEW executed \in BOOLEAN, Lock!Unavailable(r, c, executed)
    PROVE  LocksInv(E)'
  <1> PICK s : s = IF AllowDegraded THEN "degrading" ELSE "releasing"
    OBVIOUS
  <1> PICK m, n : m = lockDoing[r] /\ n = [m EXCEPT !.at = s]
    OBVIOUS
  <1>1. /\ LockSound(E, m) /\ m \in Lock!Locking /\ m.at = "acquiring" /\ m.store = Redis
        /\ Lock!Acquiring(r)
    BY DEF Lock!Unavailable, Lock!Acquiring, LocksInv, LocksFit
  <1>2. lockDoing' = [lockDoing EXCEPT ![r].at = s] /\ lockDoing' = [lockDoing EXCEPT ![r] = n]
        /\ lapsed' = lapsed
    BY DEF Lock!Unavailable
  <1>3. CASE ~ executed
    <2>1. UNCHANGED <<lockClaims, lapsed, orphaned>>
      BY <1>3 DEF Lock!Unavailable
    <2>2. s = "releasing" \/ (s = "degrading" /\ lockDoing[r].at = "acquiring"
            /\ lockDoing[r].store = Redis)
      BY <1>1
    <2> QED BY <1>2, <2>1, <2>2, LockGivingUpFits
  <1>4. CASE executed
    <2>1. /\ lockClaims[c] = Nobody /\ lockClaims' = [lockClaims EXCEPT ![c] = r]
          /\ orphaned' = orphaned \cup {<<r, c>>}
      BY <1>4 DEF Lock!Unavailable
    <2>2. LockSound(E, n) /\ LockHeldBy(n) = LockHeldBy(m)
      BY <1>1, LockGivingUpIsSound
    <2>3. n.at = s /\ n.stages = m.stages /\ n.store = Redis
      BY <1>1 DEF Lock!Locking
    <2>4. c \in Lock!Stores \X LockKeys /\ c[1] = Redis /\ c[2] \in Head(m.stages)
      BY <1>1, LockNextClaimIs
    <2>5. LockKeyLevel(E, c[2]) = LockStageLevel(E, n)
      BY <1>1, <2>3, <2>4, LockStagesAreEven DEF LockStageLevel
    <2>6. LockPassed(E, n, c)
      BY <2>3, <2>4, <2>5 DEF LockPassed
    <2>7. \A x \in Lock!Stores \X LockKeys : LockPassed(E, m, x) => LockPassed(E, n, x)
      BY <1>1, <2>3 DEF LockPassed, LockStageLevel
    <2>8. LocksFit(E, [lockDoing EXCEPT ![r] = n], [lockClaims EXCEPT ![c] = r], lapsed,
                   orphaned \cup {<<r, c>>})
      BY <2>1, <2>2, <2>4, <2>6, <2>7, LockTakenFits DEF LocksInv, LockAssumptions
    <2> QED BY <1>2, <2>1, <2>8 DEF LocksInv
  <1> QED BY <1>3, <1>4

LEMMA LockCloseFits ==
    ASSUME LockAssumptions, NEW E, LocksInv(E), NEW r \in Workers, NEW reached \in BOOLEAN,
           Lock!CloseStage(r, reached) \/ Lock!CloseAll(r, reached)
    PROVE  LocksInv(E)'
  <1> PICK m, c : m = lockDoing[r] /\ c = m.held[Len(m.held)]
    OBVIOUS
  <1> PICK n : n = [m EXCEPT !.held = SubSeq(@, 1, Len(@) - 1)]
    OBVIOUS
  <1>1. LockSound(E, m) /\ m \in Lock!Locking
    BY DEF LocksInv, LocksFit
  <1>2. /\ m.held # <<>> /\ Lock!Close(r, reached)
        /\ m.at = "releasing" \/ (m.at = "degrading" /\ Len(m.held) > m.base)
    <2>1. CASE Lock!CloseStage(r, reached)
      <3>1. m.at = "degrading" /\ Len(m.held) > m.base /\ m.base \in Nat
        BY <1>1, <2>1 DEF Lock!CloseStage, Lock!Locking
      <3>2. Len(<<>>) = 0
        OBVIOUS
      <3>3. m.held # <<>>
        BY <3>1, <3>2
      <3> QED BY <2>1, <3>1, <3>3 DEF Lock!CloseStage
    <2>2. CASE Lock!CloseAll(r, reached)
      BY <2>2 DEF Lock!CloseAll
    <2> QED BY <2>1, <2>2
  <1>3. /\ LockSound(E, n) /\ LockHeldBy(n) = LockHeldBy(m) \ {c} /\ c \in Lock!Stores \X LockKeys
        /\ n.at = m.at /\ n.stages = m.stages
        /\ c[1] = Redis => LockPassed(E, n, c)
    <2>1. c = m.held[Len(m.held)] /\ n = [m EXCEPT !.held = SubSeq(@, 1, Len(@) - 1)]
      OBVIOUS
    <2>2. /\ m.held # <<>>
          /\ m.at = "releasing" \/ (m.at = "degrading" /\ Len(m.held) > m.base)
      BY <1>2
    <2> QED BY ONLY <1>1, <2>1, <2>2, LockClosingIsSound, SMTT(30)
  <1>4. n.store = m.store
    BY <1>1 DEF Lock!Locking
  <1>5. \A x \in Lock!Stores \X LockKeys : LockPassed(E, m, x) => LockPassed(E, n, x)
    BY <1>3, <1>4 DEF LockPassed, LockStageLevel
  <1>6. /\ ~ reached => c[1] = Redis
        /\ lockClaims' = IF reached THEN (IF lockClaims[c] = r THEN [lockClaims EXCEPT ![c] = Nobody]
             ELSE lockClaims)
                         ELSE lockClaims
        /\ orphaned' = IF ~ reached /\ lockClaims[c] = r THEN orphaned \cup {<<r, c>>} ELSE orphaned
        /\ lapsed' = lapsed \ {<<r, c>>}
        /\ lockDoing' = [lockDoing EXCEPT ![r] = n]
    BY <1>2 DEF Lock!Close, Lock!Released
  <1>7. \/ /\ lockClaims' = (IF lockClaims[c] = r THEN [lockClaims EXCEPT ![c] = Nobody]
                ELSE lockClaims)
           /\ orphaned' = orphaned
        \/ /\ lockClaims' = lockClaims /\ LockPassed(E, n, c)
           /\ orphaned' = IF lockClaims[c] = r THEN orphaned \cup {<<r, c>>} ELSE orphaned
    BY <1>3, <1>6
  <1>8. LocksFit(E, [lockDoing EXCEPT ![r] = n], lockClaims', lapsed \ {<<r, c>>}, orphaned')
    <2>1. LocksFit(E, lockDoing, lockClaims, lapsed, orphaned) /\ Lock!RequestsAssumption
      BY DEF LocksInv, LockAssumptions
    <2>2. /\ LockSound(E, n) /\ c \in Lock!Stores \X LockKeys
             /\ LockHeldBy(n) = LockHeldBy(lockDoing[r]) \ {c}
          /\ \A x \in Lock!Stores \X LockKeys : LockPassed(E, lockDoing[r], x) => LockPassed(E, n, x)
      BY <1>3, <1>5
    <2> QED BY ONLY <1>7, <2>1, <2>2, r \in Workers, LockClosedFits
  <1> QED BY <1>6, <1>8 DEF LocksInv

LEMMA LockDegradeFits ==
    ASSUME LockAssumptions, NEW E, LocksInv(E), NEW r \in Workers, Lock!Degrade(r)
    PROVE  LocksInv(E)'
  <1> PICK m, n : m = lockDoing[r] /\ n = [m EXCEPT !.at = "acquiring", !.store = m.home]
    OBVIOUS
  <1>1. LockSound(E, m) /\ m \in Lock!Locking /\ m.at = "degrading" /\ Len(m.held) = m.base
    BY DEF Lock!Degrade, LocksInv, LocksFit
  <1>2. LockSound(E, n) /\ LockHeldBy(n) = LockHeldBy(m)
    BY <1>1, LockFallbackIsSound
  <1>3. n.stages = m.stages /\ n.store # Redis
    BY <1>1 DEF Lock!Locking, LockAssumptions, Lock!StoresAssumption
  <1>4. \A x \in Lock!Stores \X LockKeys : LockPassed(E, m, x) => LockPassed(E, n, x)
    BY <1>1, <1>3 DEF LockPassed, LockStageLevel
  <1>5. lockDoing' = [lockDoing EXCEPT ![r] = n] /\ UNCHANGED <<lockClaims, lapsed, orphaned>>
    BY DEF Lock!Degrade
  <1>6. LocksFit(E, [lockDoing EXCEPT ![r] = n], lockClaims, lapsed, orphaned)
    BY <1>2, <1>4, LockQuietFits DEF LocksInv
  <1> QED BY <1>5, <1>6 DEF LocksInv

LEMMA LockLapseFits ==
    ASSUME LockAssumptions, NEW E, LocksInv(E), NEW c \in Lock!Stores \X LockKeys, Lock!Lapse(c)
    PROVE  LocksInv(E)'
  <1> PICK s : s = lockClaims[c]
    OBVIOUS
  <1>1. s \in Workers /\ lockDoing[s] \in Lock!Locking
    BY DEF LocksInv, LocksFit, Lock!Lapse
  <1>2. Lock!Holds(s) = LockHeldBy(lockDoing[s])
    BY <1>1, LockHoldsIsHeldBy
  <1>3. /\ lockClaims' = [lockClaims EXCEPT ![c] = Nobody] /\ orphaned' = orphaned \ {<<s, c>>}
        /\ lapsed' = (IF c \in LockHeldBy(lockDoing[s]) THEN lapsed \cup {<<s, c>>} ELSE lapsed)
        /\ lockDoing' = lockDoing
    BY <1>2 DEF Lock!Lapse
  <1>4. LocksFit(E, lockDoing, [lockClaims EXCEPT ![c] = Nobody], lapsed', orphaned \ {<<s, c>>})
    BY <1>1, <1>3, LockLapsedFits DEF LocksInv, LockAssumptions
  <1> QED BY <1>3, <1>4 DEF LocksInv

LEMMA LockStepFits ==
    ASSUME LockAssumptions, NEW E, LockCartKeys(E), LocksInv(E), [Lock!Next]_(Lock!vars)
    PROVE  LocksInv(E)'
  <1>1. CASE UNCHANGED Lock!vars
    BY <1>1 DEF LocksInv, Lock!vars
  <1>2. ASSUME NEW r \in Workers, Lock!Step(r)
        PROVE  LocksInv(E)'
    <2>1. CASE Lock!NextStage(r)
      BY <2>1, LockNextStageFits
    <2>2. CASE Lock!Work(r)
      BY <2>2, LockGivingUpFits DEF Lock!Work
    <2>3. CASE Lock!Degrade(r)
      BY <2>3, LockDegradeFits
    <2>4. ASSUME NEW c \in Lock!NextClaims(r), Lock!Claim(r, c) PROVE LocksInv(E)'
      BY <2>4, LockClaimFits
    <2>5. ASSUME NEW c \in Lock!NextClaims(r), Lock!Busy(r, c) PROVE LocksInv(E)'
      BY <2>5, LockGivingUpFits DEF Lock!Busy
    <2>6. ASSUME NEW c \in Lock!NextClaims(r), NEW executed \in BOOLEAN,
                   Lock!Unavailable(r, c, executed)
          PROVE  LocksInv(E)'
      BY <2>6, LockUnavailableFits
    <2>7. ASSUME NEW reached \in BOOLEAN, Lock!CloseStage(r, reached) \/ Lock!CloseAll(r, reached)
          PROVE  LocksInv(E)'
      BY <2>7, LockCloseFits
    <2> QED BY <1>2, <2>1, <2>2, <2>3, <2>4, <2>5, <2>6, <2>7 DEF Lock!Step, Lock!Proceed
  <1>3. ASSUME NEW c \in Lock!Stores \X LockKeys, Lock!Lapse(c)
        PROVE  LocksInv(E)'
    BY <1>3, LockLapseFits
  <1> QED BY <1>1, <1>2, <1>3 DEF Lock!Next

(* Who is waited for is further on its way: at a later level, or in the    *)
(* claims of its process, or at a later key.                               *)
LockLevel(E) == [r \in Workers |-> LockStageLevel(E, lockDoing[r])]

LockLocal == [r \in Workers |-> IF lockDoing[r].store = Redis THEN 0 ELSE 1]

LockFurtherOn(E, r, s) ==
    \/ LockLevel(E)[r] < LockLevel(E)[s]
    \/ LockLevel(E)[r] = LockLevel(E)[s] /\ LockLocal[r] < LockLocal[s]
    \/ /\ LockLevel(E)[r] = LockLevel(E)[s] /\ LockLocal[r] = LockLocal[s]
       /\ \A j \in Lock!NextKeys(r), k \in Lock!NextKeys(s) : j < k

LEMMA LockWaitsForWhoIsFurtherOn ==
    ASSUME LockAssumptions, NEW E, LocksInv(E), NEW r \in Workers, NEW s \in Workers,
           s \in Lock!WaitsFor(r), Lock!Acquiring(s)
    PROVE  LockFurtherOn(E, r, s)
  <1> PICK m, n : m = lockDoing[r] /\ n = lockDoing[s]
    OBVIOUS
  <1>1. Lock!Acquiring(r) /\ \E c \in Lock!NextClaims(r) : lockClaims[c] = s
    BY DEF Lock!WaitsFor
  <1>2. PICK c \in Lock!NextClaims(r) : lockClaims[c] = s
    BY <1>1
  <1>3. /\ LockSound(E, m) /\ LockSound(E, n) /\ m \in Lock!Locking /\ n \in Lock!Locking
        /\ m.at = "acquiring" /\ n.at = "acquiring"
    BY <1>1 DEF LocksInv, LocksFit, Lock!Acquiring
  <1>4. c \in Lock!Stores \X LockKeys /\ c[1] = m.store /\ c[2] \in Head(m.stages)
    BY <1>1, LockNextClaimIs
  <1>5. /\ \A j \in Lock!NextKeys(r) : j = c[2] \/ (~ (j < c[2]) /\ ~ (c[2] < j))
        /\ Lock!NextKeys(r) = {i \in LockLacking(m) : \A j \in LockLacking(m) : i <= j}
        /\ Lock!NextKeys(s) \subseteq LockLacking(n) /\ Lock!NextKeys(r) \subseteq Int
           /\ c[2] \in Lock!NextKeys(r)
    <2>1. Lock!Wanted(r) = LockLacking(m) /\ Lock!Wanted(s) = LockLacking(n)
      BY <1>3, LockWantedIsLacking DEF LockSound
    <2>2. /\ Lock!NextKeys(r) = {i \in LockLacking(m) : \A j \in LockLacking(m) : i <= j}
          /\ Lock!NextKeys(s) \subseteq LockLacking(n)
      BY <2>1 DEF Lock!NextKeys
    <2>3. LockLacking(m) \subseteq Int
      BY <1>3, LockStagesAreEven DEF LockLacking, LockAssumptions, Lock!ShapesAssumption
    <2>4. c[2] \in Lock!NextKeys(r)
      BY <1>2 DEF Lock!NextClaims
    <2>5. \A i, j \in Int : i <= j /\ j <= i => ~ (i < j) /\ ~ (j < i)
      OBVIOUS
    <2>6. \A j \in Lock!NextKeys(r) : j \in LockLacking(m) /\ j \in Int
            /\ \A i \in Lock!NextKeys(r) : j <= i /\ i \in LockLacking(m)
      BY <2>2, <2>3
    <2>7. \A j \in Lock!NextKeys(r) : ~ (j < c[2]) /\ ~ (c[2] < j)
      BY <2>4, <2>5, <2>6
    <2>8. Lock!NextKeys(r) \subseteq Int
      BY <2>2, <2>3
    <2> QED BY <2>2, <2>4, <2>7, <2>8
  <1>6. LockKeyLevel(E, c[2]) = LockStageLevel(E, m)
    BY <1>3, <1>4, LockStagesAreEven
  <1>7. /\ LockLevel(E)[r] = LockStageLevel(E, m) /\ LockLevel(E)[s] = LockStageLevel(E, n)
        /\ LockLocal[r] = (IF m.store = Redis THEN 0 ELSE 1)
        /\ LockLocal[s] = (IF n.store = Redis THEN 0 ELSE 1)
    BY DEF LockLevel, LockLocal
  <1>8. c \in LockHeldBy(n) \/ <<s, c>> \in orphaned
    <2>1. lockClaims[c] # Nobody
      BY <1>2 DEF LockAssumptions, Lock!RequestsAssumption
    <2> QED BY <1>2, <1>4, <2>1 DEF LocksInv, LocksFit, LockKept
  <1>9. CASE <<s, c>> \in orphaned
    <2>1. LockPassed(E, n, c)
      BY <1>4, <1>9 DEF LocksInv, LocksFit
    <2>2. \/ LockStageLevel(E, m) < LockStageLevel(E, n)
          \/ LockStageLevel(E, m) = LockStageLevel(E, n) /\ m.store = Redis /\ n.store # Redis
      BY <1>3, <1>4, <1>6, <2>1 DEF LockPassed
    <2>3. 0 < 1
      OBVIOUS
    <2> QED BY <1>7, <2>2, <2>3 DEF LockFurtherOn
  <1>10. CASE c \in LockHeldBy(n)
    <2>1. PICK i \in DOMAIN n.held : n.held[i] = c
      BY <1>10 DEF LockHeldBy
    <2>2. /\ LockLayered(E, n) /\ LockInKeyOrder(n) /\ n.base <= Len(n.held)
          /\ n.base \in Nat /\ Len(n.held) \in Nat /\ i \in 1 .. Len(n.held)
      BY <1>3, <2>1 DEF LockSound, Lock!Locking
    <2>3. CASE i \in 1 .. n.base
      <3>1. n.base > 0 /\ c[2] \in E
        BY <2>1, <2>2, <2>3 DEF LockLayered
      <3>2. LockStageLevel(E, n) = 2 /\ LockStageLevel(E, m) = 1 /\ 1 < 2
        BY <1>6, <2>2, <3>1 DEF LockLayered, LockStageLevel, LockKeyLevel
      <3> QED BY <1>7, <3>2 DEF LockFurtherOn
    <2>4. CASE i \in LockLatest(n)
      <3>1. n.store = m.store /\ c[2] \in Head(n.stages)
        BY <1>4, <2>1, <2>2, <2>4 DEF LockLayered
      <3>2. LockStageLevel(E, n) = LockStageLevel(E, m)
        BY <1>3, <1>6, <3>1, LockStagesAreEven
      <3>3. \A k \in Lock!NextKeys(s) : c[2] < k /\ k \in Int
        <4>1. LockLacking(n) \subseteq Int
          BY <1>3, LockStagesAreEven DEF LockLacking, LockAssumptions, Lock!ShapesAssumption
        <4> QED BY <1>5, <2>1, <2>2, <2>4, <4>1 DEF LockInKeyOrder
      <3>4. \A j \in Lock!NextKeys(r), k \in Lock!NextKeys(s) : j < k
        <4> SUFFICES ASSUME NEW j \in Lock!NextKeys(r), NEW k \in Lock!NextKeys(s) PROVE j < k
          OBVIOUS
        <4>1. j \in Int /\ k \in Int /\ c[2] \in Int /\ c[2] < k /\ ~ (c[2] < j)
          BY <1>5, <3>3
        <4> QED BY <4>1
      <3> QED BY <1>7, <3>1, <3>2, <3>4 DEF LockFurtherOn
    <2>5. i \in 1 .. n.base \/ i \in LockLatest(n)
      BY <2>2 DEF LockLatest
    <2> QED BY <2>3, <2>4, <2>5
  <1> QED BY <1>8, <1>9, <1>10

LEMMA LockNobodyWaitsInACircle ==
    ASSUME LockAssumptions, NEW E, LocksInv(E)
    PROVE  Lock!NoCircle
  <1> SUFFICES ASSUME NEW S \in (SUBSET Workers) \ {{}},
                      \A r \in S : \E s \in S : s \in Lock!WaitsFor(r) /\ Lock!Acquiring(s)
               PROVE  FALSE
    BY DEF Lock!NoCircle
  <1> PICK key : key = [r \in Workers |-> CHOOSE k : k \in Lock!NextKeys(r)]
    OBVIOUS
  <1> PICK lev, loc : lev = LockLevel(E) /\ loc = LockLocal
    OBVIOUS
  <1>1. IsFiniteSet(S) /\ S # {} /\ S \subseteq Workers
    BY FS_Subset, LockCounts DEF LockAssumptions, Lock!RequestsAssumption
  <1>2. \A r \in S : lev[r] \in Int /\ loc[r] \in Int
    BY <1>1 DEF LockLevel, LockLocal, LockStageLevel
  <1>3. ASSUME NEW r \in S
        PROVE  key[r] \in Lock!NextKeys(r) /\ key[r] \in Int
    <2>1. Lock!Acquiring(r) /\ Lock!NextClaims(r) # {} /\ r \in Workers
      BY <1>1 DEF Lock!WaitsFor
    <2>2. \E k : k \in Lock!NextKeys(r)
      BY <2>1 DEF Lock!NextClaims
    <2>3. key[r] \in Lock!NextKeys(r)
      BY <2>1, <2>2
    <2>4. /\ LockSound(E, lockDoing[r]) /\ lockDoing[r] \in Lock!Locking
          /\ lockDoing[r].base <= Len(lockDoing[r].held)
      BY <2>1 DEF LocksInv, LocksFit, Lock!Acquiring, LockSound
    <2>5. Lock!NextKeys(r) \subseteq Head(lockDoing[r].stages)
      BY <2>4, LockWantedIsLacking DEF Lock!NextKeys, LockLacking
    <2> QED BY <2>3, <2>4, <2>5, LockStagesAreEven DEF LockAssumptions, Lock!ShapesAssumption
  <1>4. PICK x \in S : \A y \in S : lev[y] =< lev[x]
    BY <1>1, <1>2, LargestBy
  <1> PICK A : A = {y \in S : lev[y] = lev[x]}
    OBVIOUS
  <1>5. IsFiniteSet(A) /\ A # {} /\ A \subseteq S
    BY <1>1, <1>4, FS_Subset
  <1>6. PICK y \in A : \A z \in A : loc[z] =< loc[y]
    <2>1. \A z \in A : loc[z] \in Int
      BY <1>2, <1>5
    <2> QED BY ONLY <1>5, <2>1, LargestBy
  <1> PICK B : B = {z \in A : loc[z] = loc[y]}
    OBVIOUS
  <1>7. IsFiniteSet(B) /\ B # {} /\ B \subseteq A
    BY <1>5, <1>6, FS_Subset
  <1>8. PICK z \in B : \A w \in B : key[w] =< key[z]
    <2>1. \A w \in B : key[w] \in Int
      BY <1>3, <1>5, <1>7
    <2> QED BY ONLY <1>7, <2>1, LargestBy
  <1>9. z \in S /\ z \in A
    BY <1>5, <1>7, <1>8
  <1>10. PICK s \in S : s \in Lock!WaitsFor(z) /\ Lock!Acquiring(s)
    BY <1>9
  <1>11. LockFurtherOn(E, z, s)
    BY <1>1, <1>9, <1>10, LockWaitsForWhoIsFurtherOn
  <1>12. lev[z] = lev[x] /\ loc[z] = loc[y]
    BY <1>8, <1>9
  <1>13. /\ lev[s] =< lev[z] /\ lev[s] \in Int /\ lev[z] \in Int
         /\ loc[s] \in Int /\ loc[z] \in Int /\ key[s] \in Int /\ key[z] \in Int
    BY <1>2, <1>3, <1>4, <1>9, <1>12
  <1>14. lev[z] = lev[s] => s \in A /\ loc[s] =< loc[z]
    BY <1>6, <1>12
  <1>15. lev[z] = lev[s] /\ loc[z] = loc[s] => key[s] =< key[z]
    BY <1>8, <1>12, <1>14
  <1>16. key[z] \in Lock!NextKeys(z) /\ key[s] \in Lock!NextKeys(s)
    BY <1>3, <1>9
  <1>17. \/ lev[z] < lev[s]
         \/ lev[z] = lev[s] /\ loc[z] < loc[s]
         \/ lev[z] = lev[s] /\ loc[z] = loc[s] /\ key[z] < key[s]
    BY <1>11, <1>16 DEF LockFurtherOn
  <1>18. \A i, j \in Int : i < j => ~ (j =< i)
    OBVIOUS
  <1> QED BY <1>13, <1>14, <1>15, <1>17, <1>18

(* Who works under keys owns them, a claim has somebody who will release   *)
(* it, and nobody waits in a circle.                                       *)
THEOREM LocksAreSafe ==
    ASSUME LockAssumptions
    PROVE  Lock!Spec => [](Lock!TypeOK /\ Lock!HoldersOwn /\ Lock!NothingLeaks /\ Lock!NoCircle)
  <1>1. PICK E \in SUBSET LockKeys : LockCartKeys(E)
    BY DEF LockAssumptions, Lock!ShapesAssumption, LockCartKeys
  <1>2. Lock!Init => LocksInv(E)
    BY <1>1, LockInitFits
  <1>3. LocksInv(E) /\ [Lock!Next]_(Lock!vars) => LocksInv(E)'
    BY <1>1, LockStepFits
  <1>4. LocksInv(E) => Lock!TypeOK /\ Lock!HoldersOwn /\ Lock!NothingLeaks /\ Lock!NoCircle
    BY LockFitGivesTheInvariants, LockNobodyWaitsInACircle
  <1> QED BY <1>2, <1>3, <1>4, PTL DEF Lock!Spec

-----------------------------------------------------------------------------
(***************************************************************************)
(* Proofs about SocketTickets, for any tickets and processes.  A ticket    *)
(* whose storing was answered lies in one place, and in none once it has   *)
(* been taken.                                                             *)
(***************************************************************************)

TicketLiesSomewhere(t) == t \in sharedTickets \/ \E p \in Processes : t \in ownTickets[p]

TicketLiesInOnePlace(t) ==
    \A p \in Processes : t \in ownTickets[p] =>
        t \notin sharedTickets /\ \A q \in Processes : t \in ownTickets[q] => q = p

TicketOnce(t) ==
          t \notin twice => /\ taken[t] =< 1
                            /\ TicketLiesSomewhere(t) => taken[t] = 0
                            /\ TicketLiesInOnePlace(t)

TicketNotYet(t) == t \notin issued => ~ TicketLiesSomewhere(t) /\ taken[t] = 0

TicketsInv == Ticket!TypeOK /\ \A t \in Tickets : TicketOnce(t) /\ TicketNotYet(t)

LEMMA TicketIssueKeeps ==
    ASSUME TicketsInv, NEW p \in Processes, NEW t \in Tickets, NEW call \in Ticket!Calls,
             Ticket!Issue(p, t, call)
    PROVE  TicketsInv'
  <1>1. Ticket!TypeOK'
    BY DEF TicketsInv, Ticket!TypeOK, Ticket!Issue
  <1>2. ASSUME NEW u \in Tickets
        PROVE  (TicketOnce(u) /\ TicketNotYet(u))'
    <2>1. CASE u # t
      BY <1>2, <2>1 DEF TicketsInv, Ticket!TypeOK, Ticket!Issue, TicketOnce, TicketNotYet,
         TicketLiesSomewhere, TicketLiesInOnePlace
    <2>2. CASE u = t
      <3>1. taken[t] = 0 /\ ~ TicketLiesSomewhere(t)
        BY DEF TicketsInv, Ticket!Issue, TicketNotYet
      <3>2. CASE call = "answered"
        BY <2>2, <3>1, <3>2 DEF TicketsInv, Ticket!TypeOK, Ticket!Issue, TicketOnce, TicketNotYet,
           TicketLiesSomewhere, TicketLiesInOnePlace, Ticket!Executed
      <3>3. CASE call = "unreached"
        BY <2>2, <3>1, <3>3 DEF TicketsInv, Ticket!TypeOK, Ticket!Issue, TicketOnce, TicketNotYet,
           TicketLiesSomewhere, TicketLiesInOnePlace, Ticket!Executed
      <3>4. CASE call = "unanswered"
        BY <2>2, <3>4 DEF Ticket!Issue, TicketOnce, TicketNotYet
      <3> QED BY <3>2, <3>3, <3>4 DEF Ticket!Calls
    <2> QED BY <2>1, <2>2
  <1> QED BY <1>1, <1>2 DEF TicketsInv

LEMMA TicketConsumeKeeps ==
    ASSUME TicketsInv, NEW p \in Processes, NEW t \in Tickets, NEW call \in Ticket!Calls,
             Ticket!Consume(p, t, call)
    PROVE  TicketsInv'
  <1>1. Ticket!TypeOK'
    BY DEF TicketsInv, Ticket!TypeOK, Ticket!Consume
  <1>2. ASSUME NEW u \in Tickets
        PROVE  (TicketOnce(u) /\ TicketNotYet(u))'
    <2>1. /\ taken[u] \in Nat /\ TicketOnce(u) /\ TicketNotYet(u)
          /\ \A q \in Processes : ownTickets'[q] \subseteq ownTickets[q]
          /\ sharedTickets' \subseteq sharedTickets /\ twice' = twice /\ issued' = issued
      BY DEF TicketsInv, Ticket!TypeOK, Ticket!Consume
    <2>2. TicketLiesSomewhere(u)' => TicketLiesSomewhere(u)
      BY <2>1 DEF TicketLiesSomewhere
    <2>3. TicketLiesInOnePlace(u) => TicketLiesInOnePlace(u)'
      BY <2>1 DEF TicketLiesInOnePlace
    <2>4. CASE u # t \/ ~ Ticket!Found(p, t, call)
      <3>1. taken'[u] = taken[u]
        BY <2>4 DEF Ticket!Consume, TicketsInv, Ticket!TypeOK
      <3> QED BY <2>1, <2>2, <2>3, <3>1 DEF TicketOnce, TicketNotYet
    <2>5. CASE u = t /\ Ticket!Found(p, t, call)
      <3>1. TicketLiesSomewhere(t) /\ taken'[t] = taken[t] + 1 /\ t \in issued
        BY <2>5 DEF Ticket!Consume, Ticket!Found, TicketLiesSomewhere, TicketsInv, Ticket!TypeOK
      <3>2. t \notin twice => ~ TicketLiesSomewhere(t)'
        <4> SUFFICES ASSUME t \notin twice
                     PROVE  ~ TicketLiesSomewhere(t)'
          OBVIOUS
        <4>1. TicketLiesInOnePlace(t)
          BY <2>1, <2>5 DEF TicketOnce
        <4>2. CASE t \in sharedTickets
          <5>1. call # "unreached" \/ t \in ownTickets[p]
            BY <2>5, <4>2 DEF Ticket!Found, Ticket!Executed
          <5>2. \A q \in Processes : t \notin ownTickets[q]
            BY <4>1, <4>2 DEF TicketLiesInOnePlace
          <5>3. t \notin sharedTickets'
            BY <5>1, <5>2 DEF Ticket!Consume, Ticket!Executed
          <5> QED BY <2>1, <5>2, <5>3 DEF TicketLiesSomewhere
        <4>3. CASE t \notin sharedTickets
          <5>1. t \in ownTickets[p] /\ Ticket!TakesOwn(p, t, call)
            BY <2>5, <4>3 DEF Ticket!Found, Ticket!TakesOwn
          <5>2. t \notin ownTickets'[p]
            BY <5>1 DEF Ticket!Consume, TicketsInv, Ticket!TypeOK
          <5>3. \A q \in Processes : t \in ownTickets[q] => q = p
            BY <4>1, <5>1 DEF TicketLiesInOnePlace
          <5> QED BY <2>1, <4>3, <5>2, <5>3 DEF TicketLiesSomewhere
        <4> QED BY <4>2, <4>3
      <3> QED BY <2>1, <2>3, <2>5, <3>1, <3>2 DEF TicketOnce, TicketNotYet
    <2> QED BY <2>4, <2>5
  <1> QED BY <1>1, <1>2 DEF TicketsInv

(* What only takes tickets away keeps the rest as it is. *)
LEMMA TicketLosingKeeps ==
    ASSUME TicketsInv, sharedTickets' \subseteq sharedTickets, UNCHANGED <<issued, taken, twice>>,
           ownTickets' \in [Processes -> SUBSET Tickets], localOnly' \in [Processes -> SUBSET Tickets],
           \A p \in Processes : ownTickets'[p] \subseteq ownTickets[p]
    PROVE  TicketsInv'
  <1>1. Ticket!TypeOK'
    BY DEF TicketsInv, Ticket!TypeOK
  <1>2. ASSUME NEW t \in Tickets
        PROVE  (TicketOnce(t) /\ TicketNotYet(t))'
    <2>1. TicketOnce(t) /\ TicketNotYet(t)
      BY DEF TicketsInv
    <2>2. TicketLiesSomewhere(t)' => TicketLiesSomewhere(t)
      BY DEF TicketLiesSomewhere
    <2>3. TicketLiesInOnePlace(t) => TicketLiesInOnePlace(t)'
      BY DEF TicketLiesInOnePlace
    <2> QED BY <2>1, <2>2, <2>3 DEF TicketOnce, TicketNotYet
  <1> QED BY <1>1, <1>2 DEF TicketsInv

LEMMA TicketStepKeeps ==
    ASSUME TicketsInv, [Ticket!Next]_(Ticket!vars)
    PROVE  TicketsInv'
  <1>1. ASSUME NEW t \in Tickets, Ticket!Expire(t)
        PROVE  TicketsInv'
    <2>1. /\ ownTickets' \in [Processes -> SUBSET Tickets]
             /\ localOnly' \in [Processes -> SUBSET Tickets]
          /\ sharedTickets' \subseteq sharedTickets
             /\ \A p \in Processes : ownTickets'[p] \subseteq ownTickets[p]
      BY <1>1 DEF Ticket!Expire, TicketsInv, Ticket!TypeOK
    <2> QED BY <1>1, <2>1, TicketLosingKeeps DEF Ticket!Expire
  <1>2. ASSUME NEW p \in Processes, Ticket!Restart(p)
        PROVE  TicketsInv'
    <2>1. /\ ownTickets' \in [Processes -> SUBSET Tickets]
             /\ localOnly' \in [Processes -> SUBSET Tickets]
          /\ \A q \in Processes : ownTickets'[q] \subseteq ownTickets[q]
      BY <1>2 DEF Ticket!Restart, TicketsInv, Ticket!TypeOK
    <2> QED BY <1>2, <2>1, TicketLosingKeeps DEF Ticket!Restart
  <1>3. CASE UNCHANGED Ticket!vars
    BY <1>3, TicketLosingKeeps DEF Ticket!vars, TicketsInv, Ticket!TypeOK
  <1> QED BY <1>1, <1>2, <1>3, TicketIssueKeeps, TicketConsumeKeeps DEF Ticket!Next

LEMMA TicketsInitially == Ticket!Init => TicketsInv
  BY DEF Ticket!Init, TicketsInv, Ticket!TypeOK, TicketOnce, TicketNotYet, TicketLiesSomewhere,
     TicketLiesInOnePlace

THEOREM TicketsInvariant == Ticket!Spec => []TicketsInv
  BY TicketsInitially, TicketStepKeeps, PTL DEF Ticket!Spec

(* A ticket is handed out once, unless the answer to its storing was lost. *)
THEOREM TicketsAreTakenOnce == Ticket!Spec => [](Ticket!TypeOK /\ Ticket!TakenOnce)
  <1>1. TicketsInv => Ticket!TypeOK /\ Ticket!TakenOnce
    BY DEF TicketsInv, TicketOnce, Ticket!TakenOnce
  <1> QED BY <1>1, TicketsInvariant, PTL
=============================================================================
