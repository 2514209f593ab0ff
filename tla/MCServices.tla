----------------------------- MODULE MCServices -----------------------------
(* An instance of Services for TLC.                                        *)
EXTENDS Services, TLC

CONSTANTS
    w1, w2, p1, p2, k1, k2,
    u1, u2, s1, s2,                  \* users, staff
    stampA, stampB, photo, welcome,  \* what earns points
    mug, tea, fan,                   \* rewards and products
    d1, d2,                          \* devices
    c1, c2,                          \* sockets of a page
    trip, gate,                      \* an itinerary, a place
    lost, hurt                       \* messages

-----------------------------------------------------------------------------
Tables == (stampA :> "PASSPORT_STAMP") @@ (stampB :> "PASSPORT_STAMP") @@ (photo :> "CONTENT_SHARE")

Worth == (stampA :> 2) @@ (stampB :> 1) @@ (photo :> 1)

Costs == (mug :> 2)

RewardShelf == (mug :> 2)

ProductShelf == (tea :> 2) @@ (fan :> 1)

PriceList == (tea :> 150) @@ (fan :> 40)

Campaigns == (tea :> {}) @@ (fan :> {1000, 2500})

(* Three stops around an entrance, and a booking in the middle of the day. *)
VisitTimes == <<2, 3, 4>>

WalkTimes == [x \in {0, 1, 2, 3} \X {0, 1, 2, 3} |->
            IF x[1] = x[2] THEN 0 ELSE IF 3 \in {x[1], x[2]} THEN 2 ELSE 1]

Attractions == <<40, 20, 30>>

BookedTimes == {{}, {[start |-> 4, end |-> 5]}}

(* A checkout, a change of a cart, and payments, over three keys. *)
RoutesKeys == {<<{1}, {2, 3}>>, <<{1}>>, <<{2, 3}>>}

-----------------------------------------------------------------------------
(* The components at rest do not vary. *)
MCInit ==
    /\ Init
    /\ part # "itinerary" =>
           /\ locked = {} /\ ~ legacy
           /\ planSnapshots[1] = [s \in {1, 2, 3} |-> 0]
    /\ part # "locks" => \A w \in Workers : lockDoing[w].stages = <<{1}>> /\ lockDoing[w].home = p1
    /\ part # "sos" => form = lost

MCSpec == MCInit /\ [][Next]_vars

(* Bounds.  Rewards: an account of four entries.  Support: while a second  *)
(* list or socket is in use, one request posts at a time and no attempt to *)
(* connect has failed.  Synchronisation: one request whose device gave it  *)
(* up, and a second device that sends one mutation.  Crowd feed: a page    *)
(* that connects to the first process, and one event on its way there.     *)
(* Group: statuses stay shared.  Plan: an older build's plan has no        *)
(* bookings.                                                               *)
GivenUp == {w \in Workers : syncDoing[w] # Sync!Idle /\ \A d \in {d1, d2} : ~ Sync!Awaits(d, w)}

Used == {s \in Sockets : supportPage.listing[s] # Nobody \/ socket[s] # Support!Stopped}

Bounded ==
    /\ part = "rewards" => Len(visitorEntries[u1]) =< 3
    /\ part = "support" =>
          \/ Cardinality(Used) =< 1
          \/ /\ \E w \in Workers : supportDoing[w] = Support!Idle
             /\ \A s \in Sockets : socket[s].attempts = 0
    /\ part = "sync" =>
          /\ outbox[d1].made + outbox[d2].made =< 2 /\ outbox[d2].made =< 1
          /\ Cardinality(GivenUp) =< 1
          /\ outbox[d2].cursor = Unset /\ sync[d2].step # "pull"
    /\ part = "crowd" =>
          /\ connection.process # p2
          /\ Len(wire[p1]) =< 1 /\ wire[p2] = <<>>
    /\ part = "group" => group.status
    /\ part = "itinerary" => ~ legacy \/ locked = {}

Symmetry == Permutations(Workers)
=============================================================================
