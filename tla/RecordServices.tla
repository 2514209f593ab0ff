--------------------------- MODULE RecordServices ---------------------------
(***************************************************************************)
(* Records that several hands work on: groups, plans, calls for help and   *)
(* feedback; and what keeps the hands apart, locks and one-time tickets.   *)
(***************************************************************************)
EXTENDS ServiceActors

CONSTANTS
    Nothing,
    Companions, Owner, Itineraries, Places, MaxGroupRevision,
    Stops, Entrance, Visit, Walk, Levels, Merit, Buffer, Day, LockedChoices,
    MostStops, Pages, MaxPlanRevision, MaxReadings,
    Messages, MaxSosKeys, MaxFlights,
    Staff, Admins, MaxVersion,
    LockKeys, Shapes, Redis, MaxFaults, AllowDegraded,
    Tickets                 \* one-time socket tickets

VARIABLES
    group, members, sharing, place, inviting, groupDoing, raced,
    planSnapshots, plan, locked, legacy, runs, shown, planDoing,
    rows, flights, deciding, form, draft, pending, waiting, made, settled,
    ticket, events, ratings, feedbackDoing,
    lockClaims, lockDoing, lapsed, orphaned,
    sharedTickets, ownTickets, localOnly, issued, taken, twice

groupVars == <<group, members, sharing, place, inviting, groupDoing, raced>>
planVars == <<planSnapshots, plan, locked, legacy, runs, shown, planDoing>>
sosVars ==
    <<rows, flights, deciding, form, draft, pending, waiting, made, settled>>
feedbackVars == <<ticket, events, ratings, feedbackDoing>>
locksVars == <<lockClaims, lockDoing, lapsed, orphaned>>
ticketsVars == <<sharedTickets, ownTickets, localOnly, issued, taken, twice>>

-----------------------------------------------------------------------------
Group == INSTANCE TravelGroup WITH
    Users <- Companions, MaxRevision <- MaxGroupRevision, doing <- groupDoing

Plan == INSTANCE Itinerary WITH
    Window <- Day, MaxRevision <- MaxPlanRevision, MaxSequence <- MaxReadings,
    snapshots <- planSnapshots, doing <- planDoing

Sos == INSTANCE SosRequests WITH Staff <- Workers, MaxKeys <- MaxSosKeys

Desk == INSTANCE Feedback WITH doing <- feedbackDoing

Lock == INSTANCE AdvisoryLocks WITH
    Requests <- Workers, Keys <- LockKeys, Free <- Nobody,
    claims <- lockClaims, doing <- lockDoing

Ticket == INSTANCE SocketTickets WITH shared <- sharedTickets, own <- ownTickets
=============================================================================
