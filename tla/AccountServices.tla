--------------------------- MODULE AccountServices --------------------------
(***************************************************************************)
(* Accounts: what visitors earn and redeem, what buyers order and earn,    *)
(* and the sessions of those who are signed in.                            *)
(***************************************************************************)
EXTENDS ServiceActors

CONSTANTS
    Keys,                   \* idempotency keys
    Visitors, Targets, Scope, Points, Welcome, WelcomePoints,
    Rewards, Cost, RewardStock, MaxQuantity,
    Buyers, Products, ProductStock, MaxLine, Price, Discounts,
    Users, MaxSessions

VARIABLES
    visitorBalance, visitorEntries, visitorLock, claims, receipts,
    redemptions, rewardStock, rewardsDoing,
    buyerBalance, buyerEntries, buyerLock, carts, productStock, shopOrders,
    commerceDoing,
    accountState, sessions, sessionsDoing

rewardsVars ==
    <<visitorBalance, visitorEntries, visitorLock, claims, receipts,
      redemptions, rewardStock, rewardsDoing>>
commerceVars ==
    <<buyerBalance, buyerEntries, buyerLock, carts, productStock, shopOrders,
      commerceDoing>>
sessionsVars == <<accountState, sessions, sessionsDoing>>

-----------------------------------------------------------------------------
Reward == INSTANCE Rewards WITH
    Users <- Visitors, Stock <- RewardStock,
    balance <- visitorBalance, entries <- visitorEntries,
    accountLock <- visitorLock, stock <- rewardStock, doing <- rewardsDoing

Shop == INSTANCE Commerce WITH
    Users <- Buyers, Stock <- ProductStock,
    balance <- buyerBalance, entries <- buyerEntries,
    accountLock <- buyerLock, stock <- productStock, orders <- shopOrders,
    doing <- commerceDoing

Family == INSTANCE RefreshFamilies WITH doing <- sessionsDoing
=============================================================================
