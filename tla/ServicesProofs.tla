--------------------------- MODULE ServicesProofs ---------------------------
(***************************************************************************)
(* The properties of Services, for every value of the constants.           *)
(*                                                                         *)
(* A behaviour of Services is one of each of its components: a step is a   *)
(* step of one component, and all others stutter (the ..Run lemmas).  What *)
(* is proved of the components alone (AccountProofs, FeedProofs,           *)
(* RecordProofs) therefore holds of them here.                             *)
(***************************************************************************)
EXTENDS Services, AccountProofs, FeedProofs, RecordProofs

(* A component takes its own steps and rests in those of the others.       *)
LEMMA RewardsRun == Spec => Reward!Spec
  <1>1. Init => Reward!Init
    BY DEF Init
  <1>2. [Next]_vars => [Reward!Next]_(Reward!vars)
    BY DEF Next, vars, rewardsVars, Reward!vars
  <1> QED BY <1>1, <1>2, PTL DEF Spec, Reward!Spec

LEMMA ShopRun == Spec => Shop!Spec
  <1>1. Init => Shop!Init
    BY DEF Init
  <1>2. [Next]_vars => [Shop!Next]_(Shop!vars)
    BY DEF Next, vars, commerceVars, Shop!vars
  <1> QED BY <1>1, <1>2, PTL DEF Spec, Shop!Spec

LEMMA SessionsRun == Spec => Family!Spec
  <1>1. Init => Family!Init
    BY DEF Init
  <1>2. [Next]_vars => [Family!Next]_(Family!vars)
    BY DEF Next, vars, sessionsVars, Family!vars
  <1> QED BY <1>1, <1>2, PTL DEF Spec, Family!Spec

LEMMA SyncRun == Spec => Sync!Spec
  <1>1. Init => Sync!Init
    BY DEF Init
  <1>2. [Next]_vars => [Sync!Next]_(Sync!vars)
    BY DEF Next, vars, syncVars, Sync!vars
  <1> QED BY <1>1, <1>2, PTL DEF Spec, Sync!Spec

LEMMA SupportRun == Spec => Support!Spec
  <1>1. Init => Support!Init
    BY DEF Init
  <1>2. [Next]_vars => [Support!Next]_(Support!vars)
    BY DEF Next, vars, supportVars, Support!vars
  <1> QED BY <1>1, <1>2, PTL DEF Spec, Support!Spec

LEMMA CrowdRun == Spec => Crowd!Spec
  <1>1. Init => Crowd!Init
    BY DEF Init
  <1>2. [Next]_vars => [Crowd!Next]_(Crowd!vars)
    BY DEF Next, vars, crowdVars, Crowd!vars
  <1> QED BY <1>1, <1>2, PTL DEF Spec, Crowd!Spec

LEMMA GroupRun == Spec => Group!Spec
  <1>1. Init => Group!Init
    BY DEF Init
  <1>2. [Next]_vars => [Group!Next]_(Group!vars)
    BY DEF Next, vars, groupVars, Group!vars
  <1> QED BY <1>1, <1>2, PTL DEF Spec, Group!Spec

LEMMA PlanRun == Spec => Plan!Spec
  <1>1. Init => Plan!Init
    BY DEF Init
  <1>2. [Next]_vars => [Plan!Next]_(Plan!vars)
    BY DEF Next, vars, planVars, Plan!vars
  <1> QED BY <1>1, <1>2, PTL DEF Spec, Plan!Spec

LEMMA SosRun == Spec => Sos!Spec
  <1>1. Init => Sos!Init
    BY DEF Init
  <1>2. [Next]_vars => [Sos!Next]_(Sos!vars)
    BY DEF Next, vars, sosVars, Sos!vars
  <1> QED BY <1>1, <1>2, PTL DEF Spec, Sos!Spec

LEMMA DeskRun == Spec => Desk!Spec
  <1>1. Init => Desk!Init
    BY DEF Init
  <1>2. [Next]_vars => [Desk!Next]_(Desk!vars)
    BY DEF Next, vars, feedbackVars, Desk!vars
  <1> QED BY <1>1, <1>2, PTL DEF Spec, Desk!Spec

LEMMA LocksRun == Spec => Lock!Spec
  <1>1. Init => Lock!Init
    BY DEF Init
  <1>2. [Next]_vars => [Lock!Next]_(Lock!vars)
    BY DEF Next, vars, locksVars, Lock!vars
  <1> QED BY <1>1, <1>2, PTL DEF Spec, Lock!Spec

LEMMA TicketsRun == Spec => Ticket!Spec
  <1>1. Init => Ticket!Init
    BY DEF Init
  <1>2. [Next]_vars => [Ticket!Next]_(Ticket!vars)
    BY DEF Next, vars, ticketsVars, Ticket!vars
  <1> QED BY <1>1, <1>2, PTL DEF Spec, Ticket!Spec

-----------------------------------------------------------------------------
(* What the constants are assumed to be is what the components assume.     *)
LEMMA ConstantsSuffice ==
    /\ RewardAssumptions /\ ShopAssumptions
    /\ Sync!PagesAssumption /\ Support!ChannelAssumption
    /\ Group!OwnerAssumption /\ Group!RevisionAssumption
    /\ PlanAssumptions /\ SosAssumptions /\ LockAssumptions
  BY ConstantsFit DEF ConstantsFit, RewardAssumptions, ShopAssumptions, PlanAssumptions,
     SosAssumptions, LockAssumptions

(* Every component keeps to its types. *)
THEOREM TypesHold == Spec => []TypeOK
  <1>1. Spec => [](Reward!TypeOK /\ Shop!TypeOK /\ Family!TypeOK)
    <2>1. RewardsInv => Reward!TypeOK
      BY DEF RewardsInv
    <2>2. ShopInv => Shop!TypeOK
      BY DEF ShopInv
    <2>3. FamilyInv => Family!TypeOK
      BY DEF FamilyInv
    <2>4. RewardAssumptions /\ ShopAssumptions
      BY ConstantsSuffice
    <2> QED BY <2>1, <2>2, <2>3, <2>4, RewardsRun, RewardsInvariant, ShopRun, ShopInvariant,
               SessionsRun, FamilyInvariant, PTL
  <1>2. Spec => [](Sync!TypeOK /\ Support!TypeOK /\ Crowd!TypeOK)
    BY ConstantsSuffice, SyncRun, MutationLogIsExact, SupportRun, SupportLogIsExact, CrowdRun,
       SnapshotsStayNumbered, PTL
  <1>3. Spec => [](Group!TypeOK /\ Plan!TypeOK /\ Sos!TypeOK)
    <2>1. PlanAssumptions
      BY ConstantsSuffice
    <2> QED BY <2>1, ConstantsSuffice, GroupRun, GroupRowsAreTyped, PlanRun, PlansAreSound,
               SosRun, CallsAreRecordedOnce, PTL
  <1>4. Spec => [](Desk!TypeOK /\ Lock!TypeOK /\ Ticket!TypeOK)
    <2>1. LockAssumptions
      BY ConstantsSuffice
    <2> QED BY <2>1, DeskRun, FeedbackHistoryExplains, LocksRun, LocksAreSafe, TicketsRun,
               TicketsAreTakenOnce, PTL
  <1>5. /\ Reward!TypeOK /\ Shop!TypeOK /\ Family!TypeOK
        /\ Sync!TypeOK /\ Support!TypeOK /\ Crowd!TypeOK
        /\ Group!TypeOK /\ Plan!TypeOK /\ Sos!TypeOK
        /\ Desk!TypeOK /\ Lock!TypeOK /\ Ticket!TypeOK
        => TypeOK
    BY DEF TypeOK
  <1> QED BY <1>1, <1>2, <1>3, <1>4, <1>5, PTL

(* The balance of an account is what its entries add up to, one for each   *)
(* source: services/points.py, for claims, redemptions and payments alike. *)
THEOREM BalancesAddUp == Spec => []AccountsAddUp
  <1>1. Spec => [](Reward!BalanceIsItsEntries /\ Reward!OneEntryPerSource /\ Shop!BalanceIsItsEntries
          /\ Shop!OneEntryPerSource)
    <2>1. RewardAssumptions /\ ShopAssumptions
      BY ConstantsSuffice
    <2> QED BY <2>1, RewardsRun, RewardAccountsAddUp, ShopRun, ShopAccountsAddUp, PTL
  <1>2. Reward!BalanceIsItsEntries /\ Reward!OneEntryPerSource /\ Shop!BalanceIsItsEntries
        /\ Shop!OneEntryPerSource => AccountsAddUp
    BY DEF AccountsAddUp
  <1> QED BY <1>1, <1>2, PTL

(* Stamps, shares, redemptions and paid orders have their entry, and no    *)
(* entry is without one of them.                                           *)
THEOREM FactsHaveTheirEntry == Spec => []EntriesMatchFacts
  <1>1. Spec => [](Reward!EntriesMatchFacts /\ Shop!PaidOrdersEarned)
    <2>1. RewardAssumptions /\ ShopAssumptions
      BY ConstantsSuffice
    <2> QED BY <2>1, RewardsRun, RewardEntriesMatch, ShopRun, PaymentsEarnOnce, PTL
  <1>2. Reward!EntriesMatchFacts /\ Shop!PaidOrdersEarned => EntriesMatchFacts
    BY DEF EntriesMatchFacts
  <1> QED BY <1>1, <1>2, PTL

(* Units of rewards and products are in stock, redeemed or in live orders, *)
(* each of them once: redemptions, checkouts, payments and both sweeps.    *)
THEOREM UnitsAreSoldOnce == Spec => []StockExact
  <1>1. Spec => [](Reward!RewardStockExact /\ Shop!StockExact)
    <2>1. RewardAssumptions /\ ShopAssumptions
      BY ConstantsSuffice
    <2> QED BY <2>1, RewardsRun, RewardStockStaysExact, ShopRun, ShopStockIsExact, PTL
  <1>2. Reward!RewardStockExact /\ Shop!StockExact => StockExact
    BY DEF StockExact
  <1> QED BY <1>1, <1>2, PTL

(* A family of sessions is one chain of renewals: rotate_refresh_session.  *)
THEOREM RenewalsAreChains == Spec => []FamilyIsAChain
  <1>1. Spec => [](Family!OneLivePerFamily /\ Family!FamilyIsAChain)
    BY SessionsRun, FamiliesAreChains, PTL
  <1>2. Family!OneLivePerFamily /\ Family!FamilyIsAChain => FamilyIsAChain
    BY DEF FamilyIsAChain
  <1> QED BY <1>1, <1>2, PTL

(* Mutations, messages and snapshots are numbered without gaps or repeats, *)
(* for any number of requests and processes that number them.              *)
THEOREM NumbersHaveNoGaps == Spec => []LogsAreNumbered
  <1>1. Spec => [](Sync!LogIsGapless /\ Sync!VersionsIncrease /\ Support!LogIsNumbered
          /\ Support!RepliesFollow /\ Crowd!SnapshotsAreNumbered)
    <2>1. Sync!PagesAssumption /\ Support!ChannelAssumption
      BY ConstantsSuffice
    <2> QED BY <2>1, SyncRun, MutationLogIsExact, SupportRun, SupportLogIsExact, CrowdRun,
               SnapshotsStayNumbered, PTL
  <1>2. Sync!LogIsGapless /\ Sync!VersionsIncrease /\ Support!LogIsNumbered /\ Support!RepliesFollow
        /\ Crowd!SnapshotsAreNumbered => LogsAreNumbered
    BY DEF LogsAreNumbered
  <1> QED BY <1>1, <1>2, PTL

(* Cursors, queues, pages and events are of what has been committed.       *)
THEOREM ReadersAreBehind == Spec => []OnlyPersistedIsSeen
  <1>1. Spec => [](Sync!CursorsExist /\ Support!OnlyPersistedIsSeen /\ Crowd!EventsArePersisted)
    <2>1. Sync!PagesAssumption /\ Support!ChannelAssumption
      BY ConstantsSuffice
    <2> QED BY <2>1, SyncRun, MutationLogIsExact, SupportRun, SupportLogIsExact, CrowdRun,
               SnapshotsStayNumbered, PTL
  <1>2. Sync!CursorsExist /\ Support!OnlyPersistedIsSeen /\ Crowd!EventsArePersisted =>
          OnlyPersistedIsSeen
    BY DEF OnlyPersistedIsSeen
  <1> QED BY <1>1, <1>2, PTL

(* A closed group keeps places of members who raced the closing, only.     *)
THEOREM ClosingErasesPlaces == Spec => []ClosedKeepsOnlyRaced
  <1>1. Spec => [](Group!ClosedKeepsOnlyRaced)
    BY GroupRun, ClosedGroupsKeepRacedPlaces, PTL
  <1>2. Group!ClosedKeepsOnlyRaced => ClosedKeepsOnlyRaced
    BY DEF ClosedKeepsOnlyRaced
  <1> QED BY <1>1, <1>2, PTL

(* Generated and replanned plans pass the check, around what is locked.    *)
THEOREM PlansAreChecked == Spec => []PlansPassTheCheck
  <1>1. Spec => [](Plan!PlansPassTheCheck /\ Plan!LockedIsAvoided)
    <2>1. PlanAssumptions
      BY ConstantsSuffice
    <2> QED BY <2>1, PlanRun, PlansAreSound, PTL
  <1>2. Plan!PlansPassTheCheck /\ Plan!LockedIsAvoided => PlansPassTheCheck
    BY DEF PlansPassTheCheck
  <1> QED BY <1>1, <1>2, PTL

(* Runs explain plans, and events explain tickets.                         *)
THEOREM RecordsExplain == Spec => []HistoryExplains
  <1>1. Spec => [](Plan!OneRunPerRevision /\ Plan!RunExplainsThePlan /\ Desk!HistoryIsTheTickets)
    <2>1. PlanAssumptions
      BY ConstantsSuffice
    <2> QED BY <2>1, PlanRun, PlansAreSound, DeskRun, FeedbackHistoryExplains, PTL
  <1>2. Plan!OneRunPerRevision /\ Plan!RunExplainsThePlan /\ Desk!HistoryIsTheTickets => HistoryExplains
    BY DEF HistoryExplains
  <1> QED BY <1>1, <1>2, PTL

(* Calls for help, their transitions, ratings and tickets happen once.     *)
THEOREM RetriesAreAbsorbed == Spec => []DoneOnce
  <1>1. Spec => [](Sos!RecordedOnce /\ Sos!OneTransitionEach /\ Desk!RatedOnce /\ Ticket!TakenOnce)
    <2>1. SosAssumptions
      BY ConstantsSuffice
    <2> QED BY <2>1, SosRun, CallsAreRecordedOnce, DeskRun, FeedbackHistoryExplains, TicketsRun,
               TicketsAreTakenOnce, PTL
  <1>2. Sos!RecordedOnce /\ Sos!OneTransitionEach /\ Desk!RatedOnce /\ Ticket!TakenOnce => DoneOnce
    BY DEF DoneOnce
  <1> QED BY <1>1, <1>2, PTL

(* Keys are owned, released, and never waited for in a circle.             *)
THEOREM LocksWork == Spec => []LocksAreOwned
  <1>1. Spec => [](Lock!HoldersOwn /\ Lock!NothingLeaks /\ Lock!NoCircle)
    <2>1. LockAssumptions
      BY ConstantsSuffice
    <2> QED BY <2>1, LocksRun, LocksAreSafe, PTL
  <1>2. Lock!HoldersOwn /\ Lock!NothingLeaks /\ Lock!NoCircle => LocksAreOwned
    BY DEF LocksAreOwned
  <1> QED BY <1>1, <1>2, PTL

(* What commits fits the cart, the plan and the ticket of that moment.     *)
THEOREM CommitsAreFresh == Spec => NoStaleCommit
  <1>1. ShopAssumptions /\ PlanAssumptions
    BY ConstantsSuffice
  <1> QED BY <1>1, ShopRun, CheckoutsSellCarts, PlanRun, ReplansKeepTheStops, DeskRun,
             ResolutionsAreOfTheAssignee, PTL DEF NoStaleCommit

(* Paid, expired and revoked are final.                                    *)
THEOREM FinalIsFinal == Spec => FinalStatesStay
  <1>1. ShopAssumptions
    BY ConstantsSuffice
  <1> QED BY <1>1, ShopRun, OrdersStayFinal, SessionsRun, RevocationIsFinal, PTL DEF FinalStatesStay

(* Devices keep mutations and calls for help until they are recorded.      *)
THEOREM DevicesKeepUntilRecorded == Spec => KeptUntilRecorded
  <1>1. Sync!PagesAssumption /\ SosAssumptions
    BY ConstantsSuffice
  <1> QED BY <1>1, SyncRun, OutboxGivesUpRecorded, SosRun, DraftsAreKept, PTL DEF KeptUntilRecorded

(* The board of crowds only advances, whatever arrives late or twice.      *)
THEOREM BoardAdvances == Spec => BoardNeverGoesBack
  BY CrowdRun, BoardOnlyAdvances, PTL DEF BoardNeverGoesBack
=============================================================================
