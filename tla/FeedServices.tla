---------------------------- MODULE FeedServices ----------------------------
(***************************************************************************)
(* Numbered logs and who follows them: devices, support pages and the      *)
(* crowd board.                                                            *)
(***************************************************************************)
EXTENDS ServiceActors

CONSTANTS
    Unset, Nowhere,
    Devices, PageLimit, MaxPages, MaxMutations,
    Sockets, QueueSize, MaxAttempts, MaxSends, MaxAgentSends,
    MaxSnapshots

VARIABLES
    mutations, nextCursor, confirmed, lastVersion, outbox, sync, syncDoing,
    messages, nextSequence, supportDoing, supportQueue, supportPage, socket,
    crowdSnapshots, window, tick, wire, connection, crowdPage

syncVars ==
    <<mutations, nextCursor, confirmed, lastVersion, outbox, sync, syncDoing>>
supportVars ==
    <<messages, nextSequence, supportDoing, supportQueue, supportPage, socket>>
crowdVars == <<crowdSnapshots, window, tick, wire, connection, crowdPage>>

-----------------------------------------------------------------------------
Sync == INSTANCE OfflineSync WITH log <- mutations, doing <- syncDoing

Support == INSTANCE SupportChannel WITH
    log <- messages, doing <- supportDoing, queue <- supportQueue,
    page <- supportPage

Crowd == INSTANCE CrowdFeed WITH
    MaxSequence <- MaxSnapshots, snapshots <- crowdSnapshots, page <- crowdPage
=============================================================================
