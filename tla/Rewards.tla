------------------------------- MODULE Rewards -------------------------------
(***************************************************************************)
(* What a visitor earns points for and spends them on: passport stamps,    *)
(* green tasks and shared products (services/passport.py and verify_share  *)
(* of services/points.py), and the redemption of rewards (redeem_reward).  *)
(*                                                                         *)
(* A claim looks for its key and for its target in separate statements,    *)
(* asks the verifier, takes the account's lock and commits the claim with  *)
(* its entry.  A unique constraint decides between claims that raced.      *)
(***************************************************************************)
EXTENDS PointsLedger, FiniteSets

CONSTANTS
    Keys,           \* idempotency keys clients send
    Targets,        \* stamps, green tasks and products to share
    Scope,          \* what each target is: its table, and the scope of its receipts
    Points,         \* what a claim of each target earns
    Welcome,        \* the source of the points every account starts with
    WelcomePoints,
    Rewards,        \* catalog of rewards
    Cost,           \* rewards.points_cost
    Stock,          \* rewards.stock as seeded
    MaxQuantity     \* most units of a reward one request asks for

PointsAssumption  == /\ Points \in [Targets -> Nat \ {0}] /\ WelcomePoints \in Nat \ {0}
                     /\ Welcome \notin Targets \cup Keys
RewardsAssumption == /\ Cost \in [Rewards -> Nat \ {0}]
                     /\ Stock \in [Rewards -> Nat]
                     /\ MaxQuantity \in Nat
FiniteAssumption  == IsFiniteSet(Users) /\ IsFiniteSet(Keys)
NobodyAssumption  == Nobody \notin Workers

VARIABLES
    claims,         \* passport_stamps, green_task_completions, content_shares
    receipts,       \* journey_idempotency_receipts
    redemptions,    \* redemptions, by user and key
    stock,          \* rewards.stock
    doing           \* what each request is doing

vars == <<balance, entries, accountLock, claims, receipts, redemptions, stock, doing>>

-----------------------------------------------------------------------------
(* The rows of the three tables of claims: unique by user and target, and  *)
(* by user and key within a scope.                                         *)
Claim(u, t, k) == [user |-> u, target |-> t, key |-> k]

ClaimsOf(u, t) == {c \in claims : c.user = u /\ c.target = t}

ClaimsUnder(u, s, k) == {c \in claims : c.user = u /\ c.key = k /\ Scope[c.target] = s}

(* A rejected attempt is remembered by user, scope and key. *)
ReceiptsUnder(u, s, k) ==
    {r \in receipts : r.user = u /\ r.key = k /\ Scope[r.target] = s}

(* Shares answer a repetition with the first share and keep no receipts.   *)
KeepsReceipts(t) == Scope[t] # "CONTENT_SHARE"

(* Bug: the key of a redemption is not looked for, and not unique. *)
RedeemedUnknown(u, k) == FALSE

Redeemed(u, k) == <<u, k>> \in DOMAIN redemptions

-----------------------------------------------------------------------------
(* What a request remembers between two statements. *)

Idle == [op |-> "idle"]

Claiming(step, u, t, k) == [op |-> step, user |-> u, target |-> t, key |-> k]

Redeeming(step, u, r, q, k) ==
    [op |-> step, user |-> u, reward |-> r, quantity |-> q, key |-> k]

Continue(w, record) == doing' = [doing EXCEPT ![w] = record]

(* COMMIT or ROLLBACK: the locks go. *)
End(w) ==
    /\ doing' = [doing EXCEPT ![w] = Idle]
    /\ accountLock' = AccountsReleased(w)

Init ==
    /\ AccountsInit
    /\ claims = {}
    /\ receipts = {}
    /\ redemptions = [x \in {} |-> {}]
    /\ stock = Stock
    /\ doing = [w \in Workers |-> Idle]

-----------------------------------------------------------------------------
(* check_in_stamp, complete_green_task, verify_share.  A claim whose key   *)
(* has a claim or a receipt is answered from it.                           *)
LookForKey(w, u, t, k) ==
    /\ doing[w] = Idle
    /\ ClaimsUnder(u, Scope[t], k) = {}
    /\ ReceiptsUnder(u, Scope[t], k) = {}
    /\ Continue(w, Claiming("look", u, t, k))
    /\ UNCHANGED <<accounts, claims, receipts, redemptions, stock>>

(* The second SELECT, for the target under any key. *)
LookForTarget(w) ==
    /\ doing[w].op = "look"
    /\ LET m == doing[w]
       IN  \/ /\ ClaimsOf(m.user, m.target) = {}
              /\ Continue(w, Claiming("claim", m.user, m.target, m.key))
           \/ /\ ClaimsOf(m.user, m.target) # {}
              /\ KeepsReceipts(m.target)
              /\ Continue(w, Claiming("reject", m.user, m.target, m.key))
    /\ UNCHANGED <<accounts, claims, receipts, redemptions, stock>>

(* award_points takes the account first. *)
LockToAward(w) ==
    /\ doing[w].op = "claim"
    /\ LET m == doing[w]
       IN  /\ LockAccount(w, m.user)
           /\ Continue(w, Claiming("award", m.user, m.target, m.key))
    /\ UNCHANGED <<balance, entries, claims, receipts, redemptions, stock>>

(* Bug: nothing makes user and target unique. *)
AcceptedForKey(m) == ClaimsUnder(m.user, Scope[m.target], m.key) = {}

(* Both unique constraints of the claim's table hold for the new row.  Its *)
(* identifier is new in every attempt, so award_points never finds an      *)
(* entry of it: what keeps a target from being paid twice is this.         *)
ClaimAccepted(m) ==
    /\ ClaimsOf(m.user, m.target) = {}
    /\ ClaimsUnder(m.user, Scope[m.target], m.key) = {}

CommitClaim(w) ==
    /\ doing[w].op = "award"
    /\ LET m == doing[w]
       IN  /\ ClaimAccepted(m)
           /\ Post(m.user, "EARN", m.target, Points[m.target])
           /\ claims' = claims \cup {Claim(m.user, m.target, m.key)}
    /\ End(w)
    /\ UNCHANGED <<receipts, redemptions, stock>>

(* IntegrityError: everything is undone, and a claim of the target under   *)
(* another key turns the attempt into a rejection.  Any other outcome is a *)
(* Rollback.                                                               *)
LoseClaim(w) ==
    /\ doing[w].op = "award"
    /\ LET m == doing[w]
       IN  /\ KeepsReceipts(m.target)
           /\ \E c \in ClaimsOf(m.user, m.target) : c.key # m.key
           /\ Continue(w, Claiming("reject", m.user, m.target, m.key))
    /\ accountLock' = AccountsReleased(w)
    /\ UNCHANGED <<balance, entries, claims, receipts, redemptions, stock>>

(* _record_duplicate_rejection *)
RecordRejection(w) ==
    /\ doing[w].op = "reject"
    /\ LET m == doing[w]
       IN  /\ ReceiptsUnder(m.user, Scope[m.target], m.key) = {}
           /\ receipts' = receipts \cup {Claim(m.user, m.target, m.key)}
    /\ End(w)
    /\ UNCHANGED <<balance, entries, claims, redemptions, stock>>

-----------------------------------------------------------------------------
(* redeem_reward *)
AskToRedeem(w, u, r, q, k) ==
    /\ doing[w] = Idle
    /\ ~ Redeemed(u, k)
    /\ Continue(w, Redeeming("ask", u, r, q, k))
    /\ UNCHANGED <<accounts, claims, receipts, redemptions, stock>>

(* The key is looked for once more when the account is locked. *)
LockToRedeem(w) ==
    /\ doing[w].op = "ask"
    /\ LET m == doing[w]
       IN  /\ LockAccount(w, m.user)
           /\ ~ Redeemed(m.user, m.key)
           /\ Continue(w, Redeeming("redeem", m.user, m.reward, m.quantity, m.key))
    /\ UNCHANGED <<balance, entries, claims, receipts, redemptions, stock>>

InStock(r, q) == stock[r] >= q

CommitRedemption(w) ==
    /\ doing[w].op = "redeem"
    /\ LET m == doing[w]
       IN  /\ InStock(m.reward, m.quantity)
           /\ stock' = [stock EXCEPT ![m.reward] = @ - m.quantity]
           /\ Spend(m.user, m.key, Cost[m.reward] * m.quantity)
           /\ ~ Redeemed(m.user, m.key)
           /\ redemptions' = [x \in DOMAIN redemptions \cup {<<m.user, m.key>>} |->
                                IF x = <<m.user, m.key>>
                                THEN [reward |-> m.reward, quantity |-> m.quantity]
                                ELSE redemptions[x]]
    /\ End(w)
    /\ UNCHANGED <<claims, receipts>>

(* A refused or repeated request, a failing verifier, a crash. *)
Rollback(w) ==
    /\ doing[w] # Idle
    /\ End(w)
    /\ UNCHANGED <<balance, entries, claims, receipts, redemptions, stock>>

(* The server stops and starts: nothing that was under way is left, and    *)
(* the seeds, which run before it serves, welcome every account once.      *)
Restart ==
    LET new == {u \in Users : ~ Recorded(u, "EARN", Welcome)}
    IN  /\ doing' = [w \in Workers |-> Idle]
        /\ accountLock' = [u \in Users |-> Nobody]
        /\ balance' = [u \in Users |-> balance[u] + (IF u \in new THEN WelcomePoints ELSE 0)]
        /\ entries' = [u \in Users |->
                         IF u \in new THEN Append(entries[u], Entry("EARN", Welcome, WelcomePoints,
                                                                  balance[u] + WelcomePoints))
                                      ELSE entries[u]]
        /\ UNCHANGED <<claims, receipts, redemptions, stock>>

Next ==
    \/ Restart
    \/ \E w \in Workers :
        \/ \E u \in Users, k \in Keys :
            \/ \E t \in Targets : LookForKey(w, u, t, k)
            \/ \E r \in Rewards, q \in 1 .. MaxQuantity : AskToRedeem(w, u, r, q, k)
        \/ LookForTarget(w) \/ LockToAward(w) \/ CommitClaim(w) \/ LoseClaim(w)
        \/ RecordRejection(w) \/ LockToRedeem(w) \/ CommitRedemption(w) \/ Rollback(w)

Spec == Init /\ [][Next]_vars

-----------------------------------------------------------------------------
ClaimRow == [user : Users, target : Targets, key : Keys]

ReceiptRow == [user : Users, target : {t \in Targets : KeepsReceipts(t)}, key : Keys]

RedemptionRow == [reward : Rewards, quantity : 1 .. MaxQuantity]

Request == {Idle}
    \cup [op : {"look", "claim", "award", "reject"}, user : Users, target : Targets, key : Keys]
    \cup [op : {"ask", "redeem"}, user : Users, reward : Rewards, quantity : 1 .. MaxQuantity,
          key : Keys]

TypeOK ==
    /\ AccountsTypeOK(Targets \cup Keys \cup {Welcome})
    /\ claims \subseteq ClaimRow
    /\ receipts \subseteq ReceiptRow
    /\ DOMAIN redemptions \subseteq Users \X Keys
    /\ \A x \in DOMAIN redemptions : redemptions[x] \in RedemptionRow
    /\ stock \in [Rewards -> Nat]
    /\ doing \in [Workers -> Request]

(* docs/data-model.md:108, both ways: a claim and a redemption have their  *)
(* entry, with what they are worth, and an entry has its claim or          *)
(* redemption, although the account, the claim and the stock are locked at *)
(* different times and any of the writes may be refused.                   *)
EntriesMatchFacts ==
    \A u \in Users :
        /\ \A c \in claims : c.user = u =>
            \E i \in DOMAIN entries[u] :
                /\ entries[u][i].type = "EARN"
                /\ entries[u][i].source = c.target
                /\ entries[u][i].delta = Points[c.target]
        /\ \A x \in DOMAIN redemptions : x[1] = u =>
            \E i \in DOMAIN entries[u] :
                /\ entries[u][i].type = "SPEND"
                /\ entries[u][i].source = x[2]
                /\ entries[u][i].delta =
                     - (Cost[redemptions[x].reward] * redemptions[x].quantity)
        /\ \A i \in DOMAIN entries[u] :
            IF entries[u][i].type = "EARN"
            THEN entries[u][i].source = Welcome \/ ClaimsOf(u, entries[u][i].source) # {}
            ELSE Redeemed(u, entries[u][i].source)

(* The units of a reward that redemptions took. *)
RedeemedUnits(r) ==
    UNION {{x} \X (1 .. redemptions[x].quantity) :
             x \in {y \in DOMAIN redemptions : redemptions[y].reward = r}}

(* Every unit of a reward is in stock or in one redemption. *)
RewardStockExact ==
    \A r \in Rewards : stock[r] + Cardinality(RedeemedUnits(r)) = Stock[r]

(* docs/data-model.md:97: a receipt is the record of an attempt at an item *)
(* that was completed under a different key.                               *)
ReceiptNamesOtherKey ==
    \A r \in receipts : Claim(r.user, r.target, r.key) \notin claims
=============================================================================
