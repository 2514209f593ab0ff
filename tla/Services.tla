----------------------------- MODULE Services ------------------------------
(***************************************************************************)
(* The components that share no rows with each other, side by side.  A     *)
(* behaviour is one of one component, in which the others rest in their    *)
(* initial states: steps of two of them commute, and no property speaks of *)
(* two.                                                                    *)
(***************************************************************************)
EXTENDS AccountServices, FeedServices, RecordServices

VARIABLE part               \* the component of this behaviour

vars == <<part, rewardsVars, commerceVars, sessionsVars, syncVars, supportVars, crowdVars,
          groupVars, planVars, sosVars, feedbackVars, locksVars, ticketsVars>>

ASSUME ConstantsFit ==
    /\ Reward!PointsAssumption
    /\ Reward!RewardsAssumption
    /\ Reward!FiniteAssumption
    /\ Reward!NobodyAssumption
    /\ Sync!PagesAssumption
    /\ Support!ChannelAssumption
    /\ Sos!KeysAssumption
    /\ Sos!NothingAssumption
    /\ Shop!StockAssumption
    /\ Shop!FiniteAssumption
    /\ Shop!WorkersAssumption
    /\ Shop!PricesAssumption
    /\ Group!OwnerAssumption
    /\ Group!RevisionAssumption
    /\ Plan!TimesAssumption
    /\ Plan!LockedAssumption
    /\ Plan!BoundsAssumption
    /\ Desk!AdminsAreStaff
    /\ Lock!RequestsAssumption
    /\ Lock!StoresAssumption
    /\ Lock!ShapesAssumption

-----------------------------------------------------------------------------
Init ==
    /\ part \in {"rewards", "commerce", "sessions", "sync", "support", "crowd",
             "group", "itinerary", "sos", "feedback", "locks", "tickets"}
    /\ Reward!Init /\ Shop!Init /\ Family!Init /\ Sync!Init
    /\ Support!Init /\ Crowd!Init /\ Group!Init /\ Plan!Init
    /\ Sos!Init /\ Desk!Init /\ Lock!Init /\ Ticket!Init

Next ==
    \/ /\ part = "rewards" /\ Reward!Next
       /\ UNCHANGED <<part, commerceVars, sessionsVars, syncVars, supportVars,
                     crowdVars, groupVars, planVars, sosVars, feedbackVars,
                     locksVars, ticketsVars>>
    \/ /\ part = "commerce" /\ Shop!Next
       /\ UNCHANGED <<part, rewardsVars, sessionsVars, syncVars, supportVars,
                     crowdVars, groupVars, planVars, sosVars, feedbackVars,
                     locksVars, ticketsVars>>
    \/ /\ part = "sessions" /\ Family!Next
       /\ UNCHANGED <<part, rewardsVars, commerceVars, syncVars, supportVars,
                     crowdVars, groupVars, planVars, sosVars, feedbackVars,
                     locksVars, ticketsVars>>
    \/ /\ part = "sync" /\ Sync!Next
       /\ UNCHANGED <<part, rewardsVars, commerceVars, sessionsVars,
                     supportVars, crowdVars, groupVars, planVars, sosVars,
                     feedbackVars, locksVars, ticketsVars>>
    \/ /\ part = "support" /\ Support!Next
       /\ UNCHANGED <<part, rewardsVars, commerceVars, sessionsVars, syncVars,
                     crowdVars, groupVars, planVars, sosVars, feedbackVars,
                     locksVars, ticketsVars>>
    \/ /\ part = "crowd" /\ Crowd!Next
       /\ UNCHANGED <<part, rewardsVars, commerceVars, sessionsVars, syncVars,
                     supportVars, groupVars, planVars, sosVars, feedbackVars,
                     locksVars, ticketsVars>>
    \/ /\ part = "group" /\ Group!Next
       /\ UNCHANGED <<part, rewardsVars, commerceVars, sessionsVars, syncVars,
                     supportVars, crowdVars, planVars, sosVars, feedbackVars,
                     locksVars, ticketsVars>>
    \/ /\ part = "itinerary" /\ Plan!Next
       /\ UNCHANGED <<part, rewardsVars, commerceVars, sessionsVars, syncVars,
                     supportVars, crowdVars, groupVars, sosVars, feedbackVars,
                     locksVars, ticketsVars>>
    \/ /\ part = "sos" /\ Sos!Next
       /\ UNCHANGED <<part, rewardsVars, commerceVars, sessionsVars, syncVars,
                     supportVars, crowdVars, groupVars, planVars,
                     feedbackVars, locksVars, ticketsVars>>
    \/ /\ part = "feedback" /\ Desk!Next
       /\ UNCHANGED <<part, rewardsVars, commerceVars, sessionsVars, syncVars,
                     supportVars, crowdVars, groupVars, planVars, sosVars,
                     locksVars, ticketsVars>>
    \/ /\ part = "locks" /\ Lock!Next
       /\ UNCHANGED <<part, rewardsVars, commerceVars, sessionsVars, syncVars,
                     supportVars, crowdVars, groupVars, planVars, sosVars,
                     feedbackVars, ticketsVars>>
    \/ /\ part = "tickets" /\ Ticket!Next
       /\ UNCHANGED <<part, rewardsVars, commerceVars, sessionsVars, syncVars,
                     supportVars, crowdVars, groupVars, planVars, sosVars,
                     feedbackVars, locksVars>>

Spec == Init /\ [][Next]_vars

-----------------------------------------------------------------------------
(* Type invariant of every component. *)
TypeOK ==
    /\ part = "rewards" => Reward!TypeOK
    /\ part = "commerce" => Shop!TypeOK
    /\ part = "sessions" => Family!TypeOK
    /\ part = "sync" => Sync!TypeOK
    /\ part = "support" => Support!TypeOK
    /\ part = "crowd" => Crowd!TypeOK
    /\ part = "group" => Group!TypeOK
    /\ part = "itinerary" => Plan!TypeOK
    /\ part = "sos" => Sos!TypeOK
    /\ part = "feedback" => Desk!TypeOK
    /\ part = "locks" => Lock!TypeOK
    /\ part = "tickets" => Ticket!TypeOK

(* Point accounts, of visitors who claim and redeem and of buyers: the     *)
(* balance is what the entries add up to, at every entry, and nothing is   *)
(* earned or spent twice for one source.                                   *)
AccountsAddUp ==
    /\ part = "rewards" => Reward!BalanceIsItsEntries /\ Reward!OneEntryPerSource
    /\ part = "commerce" => Shop!BalanceIsItsEntries /\ Shop!OneEntryPerSource

(* An entry has its stamp, share, redemption or paid order, and each of    *)
(* these its entry, although accounts and facts are locked at different    *)
(* times and any write may be refused.                                     *)
EntriesMatchFacts ==
    /\ part = "rewards" => Reward!EntriesMatchFacts
    /\ part = "commerce" => Shop!PaidOrdersEarned

(* What was redeemed, or is in a live order, has left the stock, and       *)
(* nothing else has: checkouts, payments and both sweeps interleave.       *)
StockExact ==
    /\ part = "rewards" => Reward!RewardStockExact
    /\ part = "commerce" => Shop!StockExact

(* A family of sessions never has two that renew, and its sessions were    *)
(* renewed one from the other, whatever is replayed or revoked meanwhile.  *)
FamilyIsAChain == part = "sessions" => Family!OneLivePerFamily /\ Family!FamilyIsAChain

(* The logs of mutations, messages and snapshots are numbered without gaps *)
(* or repeats, in an order that keeps the versions of each device and each *)
(* automatic answer behind its question; retries took numbers before.      *)
LogsAreNumbered ==
    /\ part = "sync" => Sync!LogIsGapless /\ Sync!VersionsIncrease
    /\ part = "support" => Support!LogIsNumbered /\ Support!RepliesFollow
    /\ part = "crowd" => Crowd!SnapshotsAreNumbered

(* No device, page, connection or event is ahead of what was committed.    *)
OnlyPersistedIsSeen ==
    /\ part = "sync" => Sync!CursorsExist
    /\ part = "support" => Support!OnlyPersistedIsSeen
    /\ part = "crowd" => Crowd!EventsArePersisted

(* A closed group keeps the place of nobody but of members whose update    *)
(* raced the closing.                                                      *)
ClosedKeepsOnlyRaced == part = "group" => Group!ClosedKeepsOnlyRaced

(* The plans that are generated and replanned pass the check of conflicts, *)
(* and no stop is put over a booking or within its buffer.                 *)
PlansPassTheCheck == part = "itinerary" => Plan!PlansPassTheCheck /\ Plan!LockedIsAvoided

(* The record tells how it came to be as it is: the runs of an itinerary   *)
(* name its revisions and the crowds that ordered it, and the events of a  *)
(* feedback ticket its state, its assignee and its version.                *)
HistoryExplains ==
    /\ part = "itinerary" => Plan!OneRunPerRevision /\ Plan!RunExplainsThePlan
    /\ part = "feedback" => Desk!HistoryIsTheTickets

(* What is sent again, raced or taken over is done once: calls for help    *)
(* and their transitions, ratings, and socket tickets but for lost answers.*)
DoneOnce ==
    /\ part = "sos" => Sos!RecordedOnce /\ Sos!OneTransitionEach
    /\ part = "feedback" => Desk!RatedOnce
    /\ part = "tickets" => Ticket!TakenOnce

(* Who works under keys owns them, but for lapsed claims; a claim has an   *)
(* owner that will release it, or lapses; nobody waits in a circle.        *)
LocksAreOwned == part = "locks" => Lock!HoldersOwn /\ Lock!NothingLeaks /\ Lock!NoCircle

(* What a decision commits fits what is there when it commits: a checkout  *)
(* sells the cart of that moment, a replan keeps the stops of the plan, a  *)
(* ticket is resolved by its assignee.                                     *)
NoStaleCommit ==
    /\ Shop!CheckoutSellsTheCart
    /\ Plan!ReplanKeepsTheStops
    /\ Desk!ResolvedByItsAssignee

(* Paid and expired orders stay so, with the lines they had, and what was  *)
(* revoked is never renewed.                                               *)
FinalStatesStay == Shop!OrdersAreFinal /\ Family!RevokedIsFinal

(* A device lets go of a mutation once the log has it, and of a call for   *)
(* help once it is recorded as drafted.                                    *)
KeptUntilRecorded == Sync!OutboxKeepsUnsent /\ Sos!DraftKeptUntilRecorded

(* Late and repeated snapshots never turn the board back. *)
BoardNeverGoesBack == Crowd!BoardNeverGoesBack
=============================================================================
