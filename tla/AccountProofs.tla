---------------------------- MODULE AccountProofs ---------------------------
(***************************************************************************)
(* Proofs about the components of AccountServices, one section each:       *)
(* rewards and visitors' points, the shop and its points, and sessions.    *)
(***************************************************************************)
EXTENDS AccountServices, SequenceTheorems, CountingLemmas

-----------------------------------------------------------------------------
(***************************************************************************)
(* Proofs about Rewards, for any visitors, targets, rewards, keys and      *)
(* number of requests.                                                     *)
(*                                                                         *)
(* An account, its entries, the claims and the redemptions say the same    *)
(* (RewardMatched), which is inductive with the types: an entry of a       *)
(* target or a key means a row of it, and the unique constraints let a row *)
(* in once.                                                                *)
(***************************************************************************)

RewardAssumptions ==
    /\ Reward!PointsAssumption
    /\ Reward!RewardsAssumption
    /\ Reward!FiniteAssumption

RewardRows == Reward!EntryRow(Targets \cup Keys \cup {Welcome})

(* Only attempts that keep receipts are turned into rejections, and the    *)
(* redemptions are a table.                                                *)
RewardRequestsFit ==
    /\ redemptions \in [DOMAIN redemptions -> Reward!RedemptionRow]
    /\ \A w \in Workers : rewardsDoing[w].op = "reject" => Reward!KeepsReceipts(rewardsDoing[w].target)

RewardsInv ==
    /\ Reward!TypeOK
    /\ RewardRequestsFit
    /\ Reward!BalanceIsItsEntries
    /\ Reward!OneEntryPerSource
    /\ Reward!EntriesMatchFacts
    /\ Reward!RewardStockExact

(* What the instance counts with is what counts here. *)
LEMMA RewardCounts ==
    /\ \A Q : Reward!IsFiniteSet(Q) <=> IsFiniteSet(Q)
    /\ \A Q : Reward!Cardinality(Q) = Cardinality(Q)
  BY Zenon DEF Reward!IsFiniteSet, IsFiniteSet, Reward!Cardinality, Cardinality

(* The accounts, each as one sequence of entries (CountingLemmas).         *)
LEMMA RewardByAccount ==
    /\ Reward!BalanceIsItsEntries <=> \A u \in Visitors : Chain(visitorEntries[u], visitorBalance[u])
    /\ Reward!BalanceIsItsEntries' <=> \A u \in Visitors : Chain(visitorEntries'[u], visitorBalance'[u])
    /\ Reward!OneEntryPerSource <=> \A u \in Visitors : Single(visitorEntries[u])
    /\ Reward!OneEntryPerSource' <=> \A u \in Visitors : Single(visitorEntries'[u])
  <1>1. /\ Reward!OneEntryPerSource <=> \A u \in Visitors : Single(visitorEntries[u])
        /\ Reward!OneEntryPerSource' <=> \A u \in Visitors : Single(visitorEntries'[u])
    BY DEF Reward!OneEntryPerSource, Single
  <1>2. /\ Reward!BalanceIsItsEntries <=> \A u \in Visitors :
             Chain(visitorEntries[u], visitorBalance[u])
        /\ Reward!BalanceIsItsEntries' <=> \A u \in Visitors :
             Chain(visitorEntries'[u], visitorBalance'[u])
    BY DEF Reward!BalanceIsItsEntries, Chain, Reward!Before, Start
  <1> QED BY <1>1, <1>2

(* What the entries s of u say of the claims C and the redemptions D.      *)
RewardClaimed(u, s, C) ==
    \A c \in C : c.user = u =>
        \E i \in DOMAIN s :
            s[i].type = "EARN" /\ s[i].source = c.target /\ s[i].delta = Points[c.target]

RewardPaid(u, s, D) ==
          \A x \in DOMAIN D : x[1] = u =>
              \E i \in DOMAIN s :
                  /\ s[i].type = "SPEND" /\ s[i].source = x[2]
                  /\ s[i].delta = - (Cost[D[x].reward] * D[x].quantity)

RewardGrounded(u, e, C, D) ==
    IF e.type = "EARN"
    THEN e.source = Welcome \/ \E c \in C : c.user = u /\ c.target = e.source
    ELSE <<u, e.source>> \in DOMAIN D

RewardMatched(u, s, C, D) ==
    RewardClaimed(u, s, C) /\ RewardPaid(u, s, D) /\ \A i \in DOMAIN s : RewardGrounded(u, s[i], C, D)

LEMMA RewardMatchedByAccount ==
    /\ Reward!EntriesMatchFacts <=> \A u \in Visitors :
         RewardMatched(u, visitorEntries[u], claims, redemptions)
    /\ Reward!EntriesMatchFacts' <=> \A u \in Visitors :
         RewardMatched(u, visitorEntries'[u], claims', redemptions')
  <1>1. /\ \A u, t : Reward!ClaimsOf(u, t) # {} <=> \E c \in claims : c.user = u /\ c.target = t
        /\ \A u, t : Reward!ClaimsOf(u, t)' # {} <=> \E c \in claims' : c.user = u /\ c.target = t
    BY DEF Reward!ClaimsOf
  <1>2. Reward!EntriesMatchFacts <=> \A u \in Visitors :
          RewardMatched(u, visitorEntries[u], claims, redemptions)
    <2>1. ASSUME NEW u \in Visitors, NEW i \in DOMAIN visitorEntries[u]
          PROVE  RewardGrounded(u, visitorEntries[u][i], claims, redemptions) <=>
                   IF visitorEntries[u][i].type = "EARN"
                   THEN visitorEntries[u][i].source = Welcome
                   \/ Reward!ClaimsOf(u, visitorEntries[u][i].source) # {}
                   ELSE Reward!Redeemed(u, visitorEntries[u][i].source)
      BY <1>1 DEF RewardGrounded, Reward!Redeemed
    <2> QED BY <2>1, ZenonT(60) DEF Reward!EntriesMatchFacts, RewardMatched, RewardClaimed, RewardPaid
  <1>3. Reward!EntriesMatchFacts' <=> \A u \in Visitors :
          RewardMatched(u, visitorEntries'[u], claims', redemptions')
    <2>1. ASSUME NEW u \in Visitors, NEW i \in DOMAIN visitorEntries'[u]
          PROVE  (RewardGrounded(u, visitorEntries[u][i], claims, redemptions) <=>
                    IF visitorEntries[u][i].type = "EARN"
                    THEN visitorEntries[u][i].source = Welcome
                    \/ Reward!ClaimsOf(u, visitorEntries[u][i].source) # {}
                    ELSE Reward!Redeemed(u, visitorEntries[u][i].source))'
      BY <1>1 DEF RewardGrounded, Reward!Redeemed
    <2> QED BY <2>1 DEF Reward!EntriesMatchFacts, RewardMatched, RewardClaimed, RewardPaid
  <1> QED BY <1>2, <1>3

(* More entries, claims or redemptions leave what there was as it was. *)
LEMMA RewardEntriesStay ==
    ASSUME NEW u, NEW q, NEW e, NEW r, NEW C, NEW D, ExtendedBy(RewardRows, q, e, r),
             RewardMatched(u, q, C, D)
    PROVE  RewardClaimed(u, r, C) /\ RewardPaid(u, r, D)
  <1>1. \A i \in DOMAIN q : i \in DOMAIN r /\ r[i] = q[i]
    BY DEF ExtendedBy
  <1>2. RewardClaimed(u, r, C)
    BY <1>1 DEF RewardMatched, RewardClaimed
  <1>3. ASSUME NEW x \in DOMAIN D, x[1] = u, NEW d, d = - (Cost[D[x].reward] * D[x].quantity)
        PROVE  \E i \in DOMAIN r : r[i].type = "SPEND" /\ r[i].source = x[2] /\ r[i].delta = d
    BY <1>1, <1>3 DEF RewardMatched, RewardPaid
  <1> QED BY <1>2, <1>3 DEF RewardPaid

(* The new entry brings its own ground. *)
LEMMA RewardGroundsStay ==
    ASSUME NEW u, NEW q, NEW e, NEW r, NEW C, NEW D, NEW C2, NEW D2,
           ExtendedBy(RewardRows, q, e, r), RewardMatched(u, q, C, D),
           C \subseteq C2, DOMAIN D \subseteq DOMAIN D2, RewardGrounded(u, e, C2, D2)
    PROVE  \A i \in DOMAIN r : RewardGrounded(u, r[i], C2, D2)
  <1>1. PICK n \in DOMAIN r : r[n] = e /\ \A i \in DOMAIN r : i # n => i \in DOMAIN q
    BY DEF ExtendedBy
  <1>2. \A i \in DOMAIN q : r[i] = q[i] /\ RewardGrounded(u, q[i], C, D)
    BY DEF ExtendedBy, RewardMatched
  <1>3. \A x : RewardGrounded(u, x, C, D) => RewardGrounded(u, x, C2, D2)
    BY DEF RewardGrounded
  <1> QED BY <1>1, <1>2, <1>3

(* A claim of u enters with its entry. *)
LEMMA RewardClaimMatches ==
    ASSUME NEW u, NEW q, NEW e, NEW r, NEW C, NEW D, NEW c, ExtendedBy(RewardRows, q, e, r),
             RewardMatched(u, q, C, D),
           c.user = u, e.type = "EARN", e.source = c.target, e.delta = Points[c.target]
    PROVE  RewardMatched(u, r, C \cup {c}, D)
  <1>1. RewardClaimed(u, r, C) /\ RewardPaid(u, r, D)
    BY RewardEntriesStay
  <1>2. \E n \in DOMAIN r : r[n] = e
    BY DEF ExtendedBy
  <1>3. RewardClaimed(u, r, C \cup {c})
    BY <1>1, <1>2 DEF RewardClaimed
  <1>4. RewardGrounded(u, e, C \cup {c}, D)
    BY DEF RewardGrounded
  <1>5. \A i \in DOMAIN r : RewardGrounded(u, r[i], C \cup {c}, D)
    BY <1>4, RewardGroundsStay
  <1> QED BY <1>1, <1>3, <1>5 DEF RewardMatched

(* A table D2 that is the table D with one more row. *)
RewardJoined(D, x, row, D2) ==
    DOMAIN D2 = DOMAIN D \cup {x} /\ D2[x] = row /\ \A y \in DOMAIN D : D2[y] = D[y]

(* A redemption of u enters with its entry. *)
LEMMA RewardRedemptionMatches ==
    ASSUME NEW u, NEW k, NEW q, NEW e, NEW r, NEW C, NEW D, NEW D2, NEW row,
           ExtendedBy(RewardRows, q, e, r), RewardMatched(u, q, C, D),
           RewardJoined(D, <<u, k>>, row, D2),
           e.type = "SPEND", e.source = k, e.delta = - (Cost[row.reward] * row.quantity)
    PROVE  RewardMatched(u, r, C, D2)
  <1>1. RewardClaimed(u, r, C) /\ RewardPaid(u, r, D)
    BY RewardEntriesStay
  <1>2. PICK n \in DOMAIN r : r[n] = e
    BY DEF ExtendedBy
  <1>3. DOMAIN D2 = DOMAIN D \cup {<<u, k>>} /\ D2[<<u, k>>] = row /\ \A x \in DOMAIN D : D2[x] = D[x]
    BY DEF RewardJoined
  <1>4. RewardPaid(u, r, D2)
    <2> SUFFICES ASSUME NEW x \in DOMAIN D2, x[1] = u
                 PROVE  \E i \in DOMAIN r :
                          /\ r[i].type = "SPEND" /\ r[i].source = x[2]
                          /\ r[i].delta = - (Cost[D2[x].reward] * D2[x].quantity)
      BY DEF RewardPaid
    <2>1. CASE x = <<u, k>>
      BY <1>2, <1>3, <2>1
    <2>2. CASE x \in DOMAIN D
      <3>1. D2[x] = D[x]
        BY <1>3, <2>2
      <3> QED BY <1>1, <2>2, <3>1 DEF RewardPaid
    <2> QED BY <1>3, <2>1, <2>2
  <1>5. RewardGrounded(u, e, C, D2)
    BY <1>3 DEF RewardGrounded
  <1>6. \A i \in DOMAIN r : RewardGrounded(u, r[i], C, D2)
    BY <1>3, <1>5, RewardGroundsStay
  <1> QED BY <1>1, <1>4, <1>6 DEF RewardMatched

(* The others see no difference. *)
LEMMA RewardOthersClaim ==
    ASSUME NEW u, NEW v, u # v, NEW q, NEW C, NEW D, RewardMatched(v, q, C, D), NEW c, c.user = u
    PROVE  RewardMatched(v, q, C \cup {c}, D)
  BY DEF RewardMatched, RewardClaimed, RewardGrounded

LEMMA RewardOthersRedeem ==
    ASSUME NEW u, NEW v, u # v, NEW q, NEW C, NEW D, RewardMatched(v, q, C, D), NEW k, NEW row, NEW D2,
           RewardJoined(D, <<u, k>>, row, D2)
    PROVE  RewardMatched(v, q, C, D2)
  <1>1. DOMAIN D2 = DOMAIN D \cup {<<u, k>>} /\ \A x \in DOMAIN D : D2[x] = D[x]
    BY DEF RewardJoined
  <1>2. ASSUME NEW x \in DOMAIN D2, x[1] = v
        PROVE  x \in DOMAIN D /\ D2[x] = D[x]
    BY <1>1, <1>2
  <1>3. RewardPaid(v, q, D2)
    <2> SUFFICES ASSUME NEW x \in DOMAIN D2, x[1] = v
                 PROVE  \E i \in DOMAIN q :
                          /\ q[i].type = "SPEND" /\ q[i].source = x[2]
                          /\ q[i].delta = - (Cost[D2[x].reward] * D2[x].quantity)
      BY DEF RewardPaid
    <2> QED BY <1>2 DEF RewardMatched, RewardPaid
  <1>4. \A i \in DOMAIN q : RewardGrounded(v, q[i], C, D2)
    BY <1>1 DEF RewardMatched, RewardGrounded
  <1> QED BY <1>3, <1>4 DEF RewardMatched

(* A step that leaves the accounts, the claims and the redemptions. *)
LEMMA RewardFactsStay ==
    ASSUME RewardsInv, UNCHANGED <<visitorBalance, visitorEntries, claims, redemptions, rewardStock>>,
           visitorLock' \in [Visitors -> Workers \cup {Nobody}], receipts' \subseteq Reward!ReceiptRow,
           rewardsDoing' \in [Workers -> Reward!Request],
           \A w \in Workers : rewardsDoing'[w].op = "reject" =>
             Reward!KeepsReceipts(rewardsDoing'[w].target)
    PROVE  RewardsInv'
  <1>1. Reward!TypeOK'
    BY DEF RewardsInv, Reward!TypeOK, Reward!AccountsTypeOK
  <1>2. RewardRequestsFit'
    BY DEF RewardsInv, RewardRequestsFit, Reward!KeepsReceipts
  <1>3. Reward!BalanceIsItsEntries' /\ Reward!OneEntryPerSource'
    BY DEF RewardsInv, Reward!BalanceIsItsEntries, Reward!OneEntryPerSource, Reward!Before
  <1>4. Reward!EntriesMatchFacts'
    BY RewardMatchedByAccount DEF RewardsInv
  <1>5. Reward!RewardStockExact'
    BY DEF RewardsInv, Reward!RewardStockExact, Reward!RedeemedUnits
  <1> QED BY <1>1, <1>2, <1>3, <1>4, <1>5 DEF RewardsInv

LEMMA RewardLocksFit ==
    ASSUME RewardsInv
    PROVE  /\ \A w : Reward!AccountsReleased(w) \in [Visitors -> Workers \cup {Nobody}]
           /\ \A w \in Workers : \A u : Reward!LockAccount(w, u) =>
                visitorLock' \in [Visitors -> Workers \cup {Nobody}]
  <1>1. visitorLock \in [Visitors -> Workers \cup {Nobody}]
    BY DEF RewardsInv, Reward!TypeOK, Reward!AccountsTypeOK
  <1> QED BY <1>1 DEF Reward!AccountsReleased, Reward!LockAccount

LEMMA RewardRequestMoves ==
    ASSUME RewardsInv, NEW w \in Workers, NEW record \in Reward!Request, Reward!Continue(w, record),
           record.op = "reject" => Reward!KeepsReceipts(record.target),
           visitorLock' \in [Visitors -> Workers \cup {Nobody}], receipts' \subseteq Reward!ReceiptRow,
           UNCHANGED <<visitorBalance, visitorEntries, claims, redemptions, rewardStock>>
    PROVE  RewardsInv'
  <1>1. /\ rewardsDoing' \in [Workers -> Reward!Request] /\ rewardsDoing'[w] = record
        /\ \A v \in Workers \ {w} : rewardsDoing'[v] = rewardsDoing[v]
    BY DEF Reward!Continue, RewardsInv, Reward!TypeOK
  <1>2. \A v \in Workers : rewardsDoing'[v].op = "reject" =>
          Reward!KeepsReceipts(rewardsDoing'[v].target)
    BY <1>1 DEF RewardsInv, RewardRequestsFit
  <1> QED BY <1>1, <1>2, RewardFactsStay

(* What a request knows. *)
LEMMA RewardRequestsAreTyped ==
    ASSUME RewardsInv, NEW w \in Workers
    PROVE  /\ rewardsDoing[w].op \in {"look", "claim", "award", "reject"} =>
                rewardsDoing[w].user \in Visitors /\ rewardsDoing[w].target \in Targets
                /\ rewardsDoing[w].key \in Keys
           /\ rewardsDoing[w].op \in {"ask", "redeem"} =>
                /\ rewardsDoing[w].user \in Visitors /\ rewardsDoing[w].reward \in Rewards
                /\ rewardsDoing[w].quantity \in 1 .. MaxQuantity /\ rewardsDoing[w].key \in Keys
           /\ receipts \subseteq Reward!ReceiptRow
           /\ visitorLock \in [Visitors -> Workers \cup {Nobody}]
           /\ Reward!Idle \in Reward!Request /\ Reward!Idle.op = "idle"
  <1>1. rewardsDoing[w] \in Reward!Request
    BY DEF RewardsInv, Reward!TypeOK
  <1> QED BY <1>1 DEF RewardsInv, Reward!TypeOK, Reward!AccountsTypeOK, Reward!Request, Reward!Idle

LEMMA RewardClaimsMove ==
    ASSUME RewardsInv, NEW w \in Workers,
           \/ \E u \in Visitors, k \in Keys, t \in Targets : Reward!LookForKey(w, u, t, k)
           \/ Reward!LookForTarget(w) \/ Reward!LockToAward(w) \/ Reward!LoseClaim(w)
              \/ Reward!RecordRejection(w)
    PROVE  RewardsInv'
  <1> USE DEF Reward!Claiming
  <1>1. ASSUME NEW u \in Visitors, NEW k \in Keys, NEW t \in Targets, Reward!LookForKey(w, u, t, k)
        PROVE  RewardsInv'
    <2>1. Reward!Claiming("look", u, t, k) \in Reward!Request
      BY DEF Reward!Request
    <2> QED BY <1>1, <2>1, RewardRequestMoves, RewardRequestsAreTyped
               DEF Reward!LookForKey, Reward!accounts
  <1> PICK m : m = rewardsDoing[w]
    OBVIOUS
  <1>2. \A step \in {"look", "claim", "award", "reject"} :
          m.user \in Visitors /\ m.target \in Targets /\ m.key \in Keys
            => Reward!Claiming(step, m.user, m.target, m.key) \in Reward!Request
    BY DEF Reward!Request
  <1>3. ASSUME Reward!LookForTarget(w)
        PROVE  RewardsInv'
    <2>1. m.user \in Visitors /\ m.target \in Targets /\ m.key \in Keys
      BY <1>3, RewardRequestsAreTyped DEF Reward!LookForTarget
    <2>2. CASE Reward!Continue(w, Reward!Claiming("claim", m.user, m.target, m.key))
      BY <1>2, <1>3, <2>1, <2>2, RewardRequestMoves, RewardRequestsAreTyped
         DEF Reward!LookForTarget, Reward!accounts
    <2>3. CASE Reward!Continue(w, Reward!Claiming("reject", m.user, m.target, m.key))
               /\ Reward!KeepsReceipts(m.target)
      BY <1>2, <1>3, <2>1, <2>3, RewardRequestMoves, RewardRequestsAreTyped
         DEF Reward!LookForTarget, Reward!accounts
    <2> QED BY <1>3, <2>2, <2>3 DEF Reward!LookForTarget
  <1>4. ASSUME Reward!LockToAward(w)
        PROVE  RewardsInv'
    <2>1. m.user \in Visitors /\ m.target \in Targets /\ m.key \in Keys
      BY <1>4, RewardRequestsAreTyped DEF Reward!LockToAward
    <2> QED BY <1>2, <1>4, <2>1, RewardRequestMoves, RewardRequestsAreTyped, RewardLocksFit
               DEF Reward!LockToAward
  <1>5. ASSUME Reward!LoseClaim(w)
        PROVE  RewardsInv'
    <2>1. m.user \in Visitors /\ m.target \in Targets /\ m.key \in Keys
      BY <1>5, RewardRequestsAreTyped DEF Reward!LoseClaim
    <2> QED BY <1>2, <1>5, <2>1, RewardRequestMoves, RewardRequestsAreTyped, RewardLocksFit
               DEF Reward!LoseClaim
  <1>6. ASSUME Reward!RecordRejection(w)
        PROVE  RewardsInv'
    <2>1. m.user \in Visitors /\ m.target \in Targets /\ m.key \in Keys
          /\ Reward!KeepsReceipts(m.target)
      BY <1>6, RewardRequestsAreTyped DEF Reward!RecordRejection, RewardsInv, RewardRequestsFit
    <2>2. receipts' \subseteq Reward!ReceiptRow
      BY <1>6, <2>1, RewardRequestsAreTyped
         DEF Reward!RecordRejection, Reward!Claim, Reward!ReceiptRow
    <2>3. Reward!Continue(w, Reward!Idle) /\ visitorLock' = Reward!AccountsReleased(w)
      BY <1>6 DEF Reward!RecordRejection, Reward!End, Reward!Continue
    <2> QED BY <1>6, <2>2, <2>3, RewardRequestMoves, RewardRequestsAreTyped, RewardLocksFit
               DEF Reward!RecordRejection
  <1> QED BY <1>1, <1>3, <1>4, <1>5, <1>6

LEMMA RewardRedemptionsMove ==
    ASSUME RewardsInv, NEW w \in Workers,
           \/ \E u \in Visitors, k \in Keys, r \in Rewards, q \in 1 .. MaxQuantity :
                Reward!AskToRedeem(w, u, r, q, k)
           \/ Reward!LockToRedeem(w) \/ Reward!Rollback(w)
    PROVE  RewardsInv'
  <1> USE DEF Reward!Redeeming
  <1>1. ASSUME NEW u \in Visitors, NEW k \in Keys, NEW r \in Rewards, NEW q \in 1 .. MaxQuantity,
               Reward!AskToRedeem(w, u, r, q, k)
        PROVE  RewardsInv'
    <2>1. Reward!Redeeming("ask", u, r, q, k) \in Reward!Request
      BY DEF Reward!Request
    <2> QED BY <1>1, <2>1, RewardRequestMoves, RewardRequestsAreTyped
               DEF Reward!AskToRedeem, Reward!accounts
  <1>2. ASSUME Reward!LockToRedeem(w)
        PROVE  RewardsInv'
    <2> PICK m : m = rewardsDoing[w]
      OBVIOUS
    <2>1. m.user \in Visitors /\ m.reward \in Rewards /\ m.quantity \in 1 .. MaxQuantity
          /\ m.key \in Keys
      BY <1>2, RewardRequestsAreTyped DEF Reward!LockToRedeem
    <2>2. Reward!Redeeming("redeem", m.user, m.reward, m.quantity, m.key) \in Reward!Request
      BY <2>1 DEF Reward!Request
    <2> QED BY <1>2, <2>2, RewardRequestMoves, RewardRequestsAreTyped, RewardLocksFit
               DEF Reward!LockToRedeem
  <1>3. ASSUME Reward!Rollback(w)
        PROVE  RewardsInv'
    <2>1. Reward!Continue(w, Reward!Idle) /\ visitorLock' = Reward!AccountsReleased(w)
      BY <1>3 DEF Reward!Rollback, Reward!End, Reward!Continue
    <2> QED BY <1>3, <2>1, RewardRequestMoves, RewardRequestsAreTyped, RewardLocksFit
               DEF Reward!Rollback
  <1> QED BY <1>1, <1>2, <1>3

(* One account takes an entry that is about something new. *)
LEMMA RewardPostKeeps ==
    ASSUME RewardsInv, NEW u \in Visitors, NEW type \in {"EARN", "SPEND"},
           NEW k \in Targets \cup Keys, NEW d \in Int, visitorBalance[u] + d >= 0,
           ~ Reward!Recorded(u, type, k), Reward!Post(u, type, k, d)
    PROVE  /\ visitorBalance' \in [Visitors -> Nat] /\ visitorEntries' \in [Visitors -> Seq(RewardRows)]
           /\ Reward!BalanceIsItsEntries' /\ Reward!OneEntryPerSource'
           /\ \A v \in Visitors \ {u} : visitorEntries'[v] = visitorEntries[v]
           /\ \E e : /\ e.type = type /\ e.source = k /\ e.delta = d
                     /\ ExtendedBy(RewardRows, visitorEntries[u], e, visitorEntries'[u])
  <1> PICK q : q = visitorEntries[u]
    OBVIOUS
  <1> PICK b : b = visitorBalance[u]
    OBVIOUS
  <1> PICK e : e = Reward!Entry(type, k, d, b + d)
    OBVIOUS
  <1> PICK r : r = Append(q, e)
    OBVIOUS
  <1>1. /\ q \in Seq(RewardRows) /\ b \in Nat /\ b + d \in Nat
        /\ visitorBalance \in [Visitors -> Nat] /\ visitorEntries \in [Visitors -> Seq(RewardRows)]
    <2>1. visitorBalance \in [Visitors -> Nat] /\ visitorEntries \in [Visitors -> Seq(RewardRows)]
      BY DEF RewardsInv, Reward!TypeOK, Reward!AccountsTypeOK, RewardRows
    <2> QED BY <2>1
  <1>2. e \in RewardRows /\ e.type = type /\ e.source = k /\ e.delta = d /\ e.after = b + d
    BY <1>1 DEF Reward!Entry, Reward!EntryRow, RewardRows
  <1>3. \A i \in DOMAIN q : ~ (q[i].type = e.type /\ q[i].source = e.source)
    BY <1>2 DEF Reward!Recorded
  <1>4. ExtendedBy(RewardRows, q, e, r)
    <2>1. CarriesOn(RewardRows, q, b, e)
      BY <1>1, <1>2, <1>3 DEF CarriesOn
    <2>2. Chain(q, b) /\ Single(q)
      BY RewardByAccount DEF RewardsInv
    <2> QED BY ONLY <2>1, <2>2, r = Append(q, e), EntryAppended
  <1>5. visitorBalance' = [visitorBalance EXCEPT ![u] = b + d]
        /\ visitorEntries' = [visitorEntries EXCEPT ![u] = r]
    BY DEF Reward!Post
  <1>6. r \in Seq(RewardRows) /\ Chain(r, b + d) /\ Single(r)
    BY <1>2, <1>4 DEF ExtendedBy
  <1>7. /\ visitorBalance' \in [Visitors -> Nat] /\ visitorEntries' \in [Visitors -> Seq(RewardRows)]
        /\ visitorBalance'[u] = b + d /\ visitorEntries'[u] = r
        /\ \A v \in Visitors \ {u} : visitorBalance'[v] = visitorBalance[v]
             /\ visitorEntries'[v] = visitorEntries[v]
    BY <1>1, <1>5, <1>6
  <1>8. \A v \in Visitors : Chain(visitorEntries'[v], visitorBalance'[v]) /\ Single(visitorEntries'[v])
    <2> SUFFICES ASSUME NEW v \in Visitors
                 PROVE  Chain(visitorEntries'[v], visitorBalance'[v]) /\ Single(visitorEntries'[v])
      OBVIOUS
    <2>1. Chain(visitorEntries[v], visitorBalance[v]) /\ Single(visitorEntries[v])
      BY RewardByAccount DEF RewardsInv
    <2>2. CASE v = u
      BY <1>6, <1>7, <2>2
    <2>3. CASE v # u
      BY <1>7, <2>1, <2>3
    <2> QED BY <2>2, <2>3
  <1>9. Reward!BalanceIsItsEntries' /\ Reward!OneEntryPerSource'
    BY <1>8, RewardByAccount
  <1> QED BY <1>2, <1>4, <1>7, <1>9

LEMMA RewardClaimKeeps ==
    ASSUME RewardAssumptions, RewardsInv, NEW w \in Workers, Reward!CommitClaim(w)
    PROVE  RewardsInv'
  <1> PICK m : m = rewardsDoing[w]
    OBVIOUS
  <1> PICK c : c = Reward!Claim(m.user, m.target, m.key)
    OBVIOUS
  <1>1. m.user \in Visitors /\ m.target \in Targets /\ m.key \in Keys
    BY RewardRequestsAreTyped DEF Reward!CommitClaim
  <1>2. /\ Reward!ClaimsOf(m.user, m.target) = {} /\ claims' = claims \cup {c}
        /\ Reward!Post(m.user, "EARN", m.target, Points[m.target])
        /\ Reward!Continue(w, Reward!Idle) /\ visitorLock' = Reward!AccountsReleased(w)
        /\ UNCHANGED <<receipts, redemptions, rewardStock>>
    BY DEF Reward!CommitClaim, Reward!ClaimAccepted, Reward!End, Reward!Continue
  <1>3. \A u \in Visitors : RewardMatched(u, visitorEntries[u], claims, redemptions)
    BY RewardMatchedByAccount DEF RewardsInv
  <1>4. ~ Reward!Recorded(m.user, "EARN", m.target)
    <2>1. \A x \in claims : ~ (x.user = m.user /\ x.target = m.target)
      BY <1>2 DEF Reward!ClaimsOf
    <2>2. m.target # Welcome
      BY <1>1 DEF RewardAssumptions, Reward!PointsAssumption
    <2> QED BY <1>1, <1>3, <2>1, <2>2 DEF Reward!Recorded, RewardMatched, RewardGrounded
  <1>5. Points[m.target] \in Int /\ visitorBalance[m.user] + Points[m.target] >= 0
    BY <1>1 DEF RewardAssumptions, Reward!PointsAssumption, RewardsInv, Reward!TypeOK,
       Reward!AccountsTypeOK
  <1>6. /\ visitorBalance' \in [Visitors -> Nat] /\ visitorEntries' \in [Visitors -> Seq(RewardRows)]
        /\ Reward!BalanceIsItsEntries' /\ Reward!OneEntryPerSource'
        /\ \A v \in Visitors \ {m.user} : visitorEntries'[v] = visitorEntries[v]
        /\ \E e : /\ e.type = "EARN" /\ e.source = m.target /\ e.delta = Points[m.target]
                  /\ ExtendedBy(RewardRows, visitorEntries[m.user], e, visitorEntries'[m.user])
    BY <1>1, <1>2, <1>4, <1>5, RewardPostKeeps
  <1>7. c.user = m.user /\ c.target = m.target /\ c \in Reward!ClaimRow
    BY <1>1 DEF Reward!Claim, Reward!ClaimRow
  <1>8. Reward!EntriesMatchFacts'
    <2> SUFFICES ASSUME NEW v \in Visitors
                 PROVE  RewardMatched(v, visitorEntries'[v], claims', redemptions')
      BY RewardMatchedByAccount
    <2>1. CASE v = m.user
      <3>1. PICK e : /\ e.type = "EARN" /\ e.source = m.target /\ e.delta = Points[m.target]
                     /\ ExtendedBy(RewardRows, visitorEntries[m.user], e, visitorEntries'[m.user])
        BY <1>6
      <3> PICK q : q = visitorEntries[m.user]
        OBVIOUS
      <3> PICK r : r = visitorEntries'[m.user]
        OBVIOUS
      <3>2. RewardMatched(m.user, r, claims \cup {c}, redemptions)
        BY <1>1, <1>3, <1>7, <3>1, RewardClaimMatches, SMTT(30)
      <3> QED BY <1>2, <2>1, <3>2
    <2>2. CASE v # m.user
      <3>1. RewardMatched(v, visitorEntries[v], claims \cup {c}, redemptions)
        BY <1>3, <1>7, <2>2, RewardOthersClaim
      <3> QED BY <1>2, <1>6, <2>2, <3>1
    <2> QED BY <2>1, <2>2
  <1>9. Reward!TypeOK' /\ RewardRequestsFit'
    <2>1. rewardsDoing' \in [Workers -> Reward!Request] /\ rewardsDoing'[w] = Reward!Idle
          /\ \A v \in Workers \ {w} : rewardsDoing'[v] = rewardsDoing[v]
      BY <1>2, RewardRequestsAreTyped DEF Reward!Continue, RewardsInv, Reward!TypeOK
    <2>2. visitorLock' \in [Visitors -> Workers \cup {Nobody}]
      BY <1>2, RewardLocksFit
    <2>3. Reward!TypeOK'
      BY <1>2, <1>6, <1>7, <2>1, <2>2
         DEF RewardsInv, Reward!TypeOK, Reward!AccountsTypeOK, RewardRows
    <2> QED BY <1>2, <2>1, <2>3, RewardRequestsAreTyped
               DEF RewardsInv, RewardRequestsFit, Reward!KeepsReceipts
  <1>10. Reward!RewardStockExact'
    BY <1>2 DEF RewardsInv, Reward!RewardStockExact, Reward!RedeemedUnits
  <1> QED BY <1>6, <1>8, <1>9, <1>10 DEF RewardsInv

(* The units of a table of redemptions. *)
RewardUnitsIn(D, r) == UNION {{x} \X (1 .. D[x].quantity) : x \in {y \in DOMAIN D : D[y].reward = r}}

LEMMA RewardUnitsAreUnitsIn ==
    /\ \A r : Reward!RedeemedUnits(r) = RewardUnitsIn(redemptions, r)
    /\ \A r : Reward!RedeemedUnits(r)' = RewardUnitsIn(redemptions', r)
  BY DEF Reward!RedeemedUnits, RewardUnitsIn

LEMMA RewardUnitsFinite ==
    ASSUME RewardAssumptions, NEW D, DOMAIN D \subseteq Visitors \X Keys,
           \A x \in DOMAIN D : D[x] \in Reward!RedemptionRow, NEW r
    PROVE  /\ IsFiniteSet(RewardUnitsIn(D, r))
           /\ Cardinality(RewardUnitsIn(D, r)) \in Nat
  <1>1. IsFiniteSet(Visitors \X Keys)
    BY FS_Product, RewardCounts DEF RewardAssumptions, Reward!FiniteAssumption
  <1>2. IsFiniteSet(1 .. MaxQuantity) /\ MaxQuantity \in Nat
    BY FS_Interval DEF RewardAssumptions, Reward!RewardsAssumption
  <1>3. IsFiniteSet((Visitors \X Keys) \X (1 .. MaxQuantity))
    BY <1>1, <1>2, FS_Product
  <1>4. \A x \in DOMAIN D : D[x].quantity \in 1 .. MaxQuantity
    BY DEF Reward!RedemptionRow
  <1>5. RewardUnitsIn(D, r) \subseteq (Visitors \X Keys) \X (1 .. MaxQuantity)
    BY <1>2, <1>4 DEF RewardUnitsIn
  <1> QED BY <1>3, <1>5, FS_Subset, FS_CardinalityType

LEMMA RewardRedemptionKeeps ==
    ASSUME RewardAssumptions, RewardsInv, NEW w \in Workers, Reward!CommitRedemption(w)
    PROVE  RewardsInv'
  <1> PICK m : m = rewardsDoing[w]
    OBVIOUS
  <1> PICK row : row = [reward |-> m.reward, quantity |-> m.quantity]
    OBVIOUS
  <1> PICK u : u = m.user
    OBVIOUS
  <1> PICK k : k = m.key
    OBVIOUS
  <1> PICK points : points = Cost[m.reward] * m.quantity
    OBVIOUS
  <1> PICK d : d = - points
    OBVIOUS
  <1>1. u \in Visitors /\ m.reward \in Rewards /\ m.quantity \in 1 .. MaxQuantity /\ k \in Keys
    BY RewardRequestsAreTyped DEF Reward!CommitRedemption
  <1>2. /\ rewardStock[m.reward] >= m.quantity
        /\ rewardStock' = [rewardStock EXCEPT ![m.reward] = @ - m.quantity]
        /\ visitorBalance[u] >= points /\ Reward!Post(u, "SPEND", k, d)
        /\ <<u, k>> \notin DOMAIN redemptions
        /\ redemptions' = [x \in DOMAIN redemptions \cup {<<u, k>>} |->
                             IF x = <<u, k>> THEN row ELSE redemptions[x]]
        /\ Reward!Continue(w, Reward!Idle) /\ visitorLock' = Reward!AccountsReleased(w)
        /\ UNCHANGED <<receipts, claims>>
    BY DEF Reward!CommitRedemption, Reward!InStock, Reward!Spend, Reward!Redeemed, Reward!End,
       Reward!Continue
  <1>3. \A v \in Visitors : RewardMatched(v, visitorEntries[v], claims, redemptions)
    BY RewardMatchedByAccount DEF RewardsInv
  <1>4. ~ Reward!Recorded(u, "SPEND", k)
    BY <1>1, <1>2, <1>3 DEF Reward!Recorded, RewardMatched, RewardGrounded
  <1>5. points \in Int
    BY <1>1 DEF RewardAssumptions, Reward!RewardsAssumption
  <1>6. d \in Int /\ visitorBalance[u] + d >= 0
    BY <1>1, <1>2, <1>5 DEF RewardsInv, Reward!TypeOK, Reward!AccountsTypeOK
  <1>7. /\ visitorBalance' \in [Visitors -> Nat] /\ visitorEntries' \in [Visitors -> Seq(RewardRows)]
        /\ Reward!BalanceIsItsEntries' /\ Reward!OneEntryPerSource'
        /\ \A v \in Visitors \ {u} : visitorEntries'[v] = visitorEntries[v]
        /\ \E e : /\ e.type = "SPEND" /\ e.source = k /\ e.delta = d
                  /\ ExtendedBy(RewardRows, visitorEntries[u], e, visitorEntries'[u])
    <2>1. "SPEND" \in {"EARN", "SPEND"} /\ k \in Targets \cup Keys
      BY <1>1
    <2>2. RewardsInv /\ u \in Visitors /\ Reward!Post(u, "SPEND", k, d)
      BY <1>1, <1>2
    <2> QED BY ONLY <1>4, <1>6, <2>1, <2>2, RewardPostKeeps
  <1>8. row \in Reward!RedemptionRow /\ row.reward = m.reward /\ row.quantity = m.quantity
    BY <1>1 DEF Reward!RedemptionRow
  <1>9. /\ DOMAIN redemptions' = DOMAIN redemptions \cup {<<u, k>>}
        /\ redemptions'[<<u, k>>] = row
        /\ \A x \in DOMAIN redemptions : redemptions'[x] = redemptions[x]
        /\ redemptions' \in [DOMAIN redemptions' -> Reward!RedemptionRow]
    BY <1>2, <1>8 DEF RewardsInv, RewardRequestsFit
  <1>10. Reward!EntriesMatchFacts'
    <2> SUFFICES ASSUME NEW v \in Visitors
                 PROVE  RewardMatched(v, visitorEntries'[v], claims', redemptions')
      BY RewardMatchedByAccount
    <2>1. CASE v = u
      <3>1. PICK e : /\ e.type = "SPEND" /\ e.source = k /\ e.delta = d
                     /\ ExtendedBy(RewardRows, visitorEntries[u], e, visitorEntries'[u])
        BY <1>7
      <3> PICK q : q = visitorEntries[u]
        OBVIOUS
      <3> PICK r : r = visitorEntries'[u]
        OBVIOUS
      <3> PICK D : D = redemptions'
        OBVIOUS
      <3>2. e.delta = - (Cost[row.reward] * row.quantity)
        BY <1>8, <3>1
      <3>3. RewardJoined(redemptions, <<u, k>>, row, D)
        BY <1>9 DEF RewardJoined
      <3>4. RewardMatched(u, q, claims, redemptions)
        BY <1>1, <1>3
      <3>5. ExtendedBy(RewardRows, q, e, r) /\ e.type = "SPEND" /\ e.source = k
        BY <3>1
      <3>6. RewardMatched(u, r, claims, D)
        BY ONLY <3>2, <3>3, <3>4, <3>5, RewardRedemptionMatches
      <3> QED BY <1>2, <2>1, <3>6
    <2>2. CASE v # u
      <3> PICK D : D = redemptions'
        OBVIOUS
      <3>1. RewardJoined(redemptions, <<u, k>>, row, D)
        BY <1>9 DEF RewardJoined
      <3>2. RewardMatched(v, visitorEntries[v], claims, D)
        BY <1>3, <2>2, <3>1, RewardOthersRedeem
      <3> QED BY <1>2, <1>7, <2>2, <3>2
    <2> QED BY <2>1, <2>2
  <1>11. Reward!TypeOK' /\ RewardRequestsFit'
    <2>1. rewardsDoing' \in [Workers -> Reward!Request] /\ rewardsDoing'[w] = Reward!Idle
          /\ \A v \in Workers \ {w} : rewardsDoing'[v] = rewardsDoing[v]
      BY <1>2, RewardRequestsAreTyped DEF Reward!Continue, RewardsInv, Reward!TypeOK
    <2>2. visitorLock' \in [Visitors -> Workers \cup {Nobody}]
      BY <1>2, RewardLocksFit
    <2>3. rewardStock' \in [Rewards -> Nat]
      BY <1>1, <1>2 DEF RewardsInv, Reward!TypeOK
    <2>4. DOMAIN redemptions' \subseteq Visitors \X Keys
      BY <1>1, <1>9 DEF RewardsInv, Reward!TypeOK
    <2>5. Reward!TypeOK'
      BY <1>2, <1>7, <1>9, <2>1, <2>2, <2>3, <2>4
         DEF RewardsInv, Reward!TypeOK, Reward!AccountsTypeOK, RewardRows
    <2> QED BY <1>9, <2>1, <2>5, RewardRequestsAreTyped
               DEF RewardsInv, RewardRequestsFit, Reward!KeepsReceipts
  <1>12. Reward!RewardStockExact'
    <2> SUFFICES ASSUME NEW r \in Rewards
                 PROVE  rewardStock'[r] + Cardinality(RewardUnitsIn(redemptions', r)) = RewardStock[r]
      BY RewardUnitsAreUnitsIn, RewardCounts DEF Reward!RewardStockExact
    <2> PICK D : D = redemptions'
      OBVIOUS
    <2>1. rewardStock[r] + Cardinality(RewardUnitsIn(redemptions, r)) = RewardStock[r]
      BY RewardUnitsAreUnitsIn, RewardCounts DEF RewardsInv, Reward!RewardStockExact
    <2>2. IsFiniteSet(RewardUnitsIn(redemptions, r))
          /\ Cardinality(RewardUnitsIn(redemptions, r)) \in Nat
      BY RewardUnitsFinite DEF RewardsInv, Reward!TypeOK
    <2>3. rewardStock[r] \in Nat
      BY DEF RewardsInv, Reward!TypeOK
    <2>4. CASE r # m.reward
      <3>1. RewardUnitsIn(D, r) = RewardUnitsIn(redemptions, r)
        BY <1>8, <1>9, <2>4 DEF RewardUnitsIn
      <3> QED BY <1>1, <1>2, <2>1, <2>4, <3>1 DEF RewardsInv, Reward!TypeOK
    <2>5. CASE r = m.reward
      <3> DEFINE gone == {<<u, k>>} \X (1 .. m.quantity)
      <3>1. RewardUnitsIn(D, r) = RewardUnitsIn(redemptions, r) \cup gone
        BY <1>8, <1>9, <2>5 DEF RewardUnitsIn
      <3>2. RewardUnitsIn(redemptions, r) \cap gone = {}
        BY <1>2 DEF RewardUnitsIn
      <3>3. IsFiniteSet(gone) /\ Cardinality(gone) = m.quantity
        <4>1. m.quantity \in Nat
          BY <1>1
        <4> QED BY <4>1, ColumnCount
      <3> HIDE DEF gone
      <3>4. Cardinality(RewardUnitsIn(D, r)) = Cardinality(RewardUnitsIn(redemptions, r)) + m.quantity
        BY <2>2, <3>1, <3>2, <3>3, CountAdded
      <3>5. rewardStock'[r] = rewardStock[r] - m.quantity /\ m.quantity \in Nat
        BY <1>1, <1>2, <2>5 DEF RewardsInv, Reward!TypeOK
      <3> QED BY <2>1, <2>2, <2>3, <3>4, <3>5
    <2> QED BY <2>4, <2>5
  <1> QED BY <1>7, <1>10, <1>11, <1>12 DEF RewardsInv

(* The seeds welcome every account that has not been welcomed. *)
LEMMA RewardRestartKeeps ==
    ASSUME RewardAssumptions, RewardsInv, Reward!Restart
    PROVE  RewardsInv'
  <1> DEFINE new == {u \in Visitors : ~ Reward!Recorded(u, "EARN", Welcome)}
             gift(u) == Reward!Entry("EARN", Welcome, WelcomePoints, visitorBalance[u] + WelcomePoints)
  <1>1. /\ rewardsDoing' = [w \in Workers |-> Reward!Idle]
        /\ visitorLock' = [u \in Visitors |-> Nobody]
        /\ visitorBalance' = [u \in Visitors |-> visitorBalance[u] + (IF u \in new THEN WelcomePoints
             ELSE 0)]
        /\ visitorEntries' = [u \in Visitors |-> IF u \in new THEN Append(visitorEntries[u], gift(u))
             ELSE visitorEntries[u]]
        /\ UNCHANGED <<claims, receipts, redemptions, rewardStock>>
    BY DEF Reward!Restart
  <1>2. WelcomePoints \in Nat
    BY DEF RewardAssumptions, Reward!PointsAssumption
  <1>3. visitorBalance \in [Visitors -> Nat] /\ visitorEntries \in [Visitors -> Seq(RewardRows)]
    BY DEF RewardsInv, Reward!TypeOK, Reward!AccountsTypeOK, RewardRows
  <1>4. \A u \in Visitors : Chain(visitorEntries[u], visitorBalance[u]) /\ Single(visitorEntries[u])
    BY RewardByAccount DEF RewardsInv
  <1>5. \A u \in Visitors : RewardMatched(u, visitorEntries[u], claims, redemptions)
    BY RewardMatchedByAccount DEF RewardsInv
  <1>6. ASSUME NEW u \in Visitors
        PROVE  /\ visitorBalance'[u] \in Nat /\ visitorEntries'[u] \in Seq(RewardRows)
               /\ Chain(visitorEntries'[u], visitorBalance'[u]) /\ Single(visitorEntries'[u])
               /\ RewardMatched(u, visitorEntries'[u], claims, redemptions)
    <2>1. CASE u \notin new
      <3>1. visitorBalance'[u] = visitorBalance[u] /\ visitorEntries'[u] = visitorEntries[u]
        BY <1>1, <1>3, <2>1
      <3> QED BY <1>3, <1>4, <1>5, <3>1
    <2>2. CASE u \in new
      <3> PICK q : q = visitorEntries[u]
        OBVIOUS
      <3> PICK b : b = visitorBalance[u]
        OBVIOUS
      <3> PICK e : e = gift(u)
        OBVIOUS
      <3> PICK r : r = Append(q, e)
        OBVIOUS
      <3>1. visitorBalance'[u] = b + WelcomePoints /\ visitorEntries'[u] = r
        BY <1>1, <2>2
      <3>2. q \in Seq(RewardRows) /\ b \in Nat /\ b + WelcomePoints \in Nat
        BY <1>2, <1>3
      <3>3. /\ e \in RewardRows /\ e.type = "EARN" /\ e.source = Welcome
            /\ e.after = b + WelcomePoints /\ e.after = b + e.delta
        BY <1>2, <3>2 DEF RewardRows, Reward!EntryRow, Reward!Entry
      <3>4. \A i \in DOMAIN q : ~ (q[i].type = e.type /\ q[i].source = e.source)
        BY <2>2, <3>3 DEF Reward!Recorded
      <3>5. ExtendedBy(RewardRows, q, e, r)
        <4>1. CarriesOn(RewardRows, q, b, e)
          BY <3>2, <3>3, <3>4 DEF CarriesOn
        <4>2. Chain(q, b) /\ Single(q)
          BY <1>4
        <4> QED BY ONLY <4>1, <4>2, r = Append(q, e), EntryAppended
      <3>6. RewardMatched(u, r, claims, redemptions)
        <4>1. RewardMatched(u, q, claims, redemptions)
          BY <1>5
        <4>2. RewardClaimed(u, r, claims) /\ RewardPaid(u, r, redemptions)
          BY <3>5, <4>1, RewardEntriesStay
        <4>3. RewardGrounded(u, e, claims, redemptions)
          BY <3>3 DEF RewardGrounded
        <4>4. \A i \in DOMAIN r : RewardGrounded(u, r[i], claims, redemptions)
          BY <3>5, <4>1, <4>3, RewardGroundsStay, ZenonT(60)
        <4> QED BY <4>2, <4>4 DEF RewardMatched
      <3>7. r \in Seq(RewardRows) /\ Chain(r, b + WelcomePoints) /\ Single(r)
        BY <3>3, <3>5 DEF ExtendedBy
      <3> QED BY <3>1, <3>2, <3>6, <3>7
    <2> QED BY <2>1, <2>2
  <1> HIDE DEF new, gift
  <1>7. Reward!BalanceIsItsEntries' /\ Reward!OneEntryPerSource' /\ Reward!EntriesMatchFacts'
    BY <1>1, <1>6, RewardByAccount, RewardMatchedByAccount
  <1>8. visitorBalance' \in [Visitors -> Nat] /\ visitorEntries' \in [Visitors -> Seq(RewardRows)]
    <2>1. visitorBalance' = [u \in Visitors |-> visitorBalance'[u]]
          /\ visitorEntries' = [u \in Visitors |-> visitorEntries'[u]]
      BY <1>1
    <2> QED BY <1>6, <2>1
  <1>9. Reward!TypeOK'
    <2>1. rewardsDoing' \in [Workers -> Reward!Request]
          /\ visitorLock' \in [Visitors -> Workers \cup {Nobody}]
      BY <1>1 DEF Reward!Request
    <2> QED BY <1>1, <1>8, <2>1 DEF RewardsInv, Reward!TypeOK, Reward!AccountsTypeOK, RewardRows
  <1>10. RewardRequestsFit'
    BY <1>1 DEF RewardsInv, RewardRequestsFit, Reward!Idle
  <1>11. Reward!RewardStockExact'
    BY <1>1 DEF RewardsInv, Reward!RewardStockExact, Reward!RedeemedUnits
  <1> QED BY <1>7, <1>9, <1>10, <1>11 DEF RewardsInv

(* Every step keeps the invariant. *)
LEMMA RewardStepKeeps ==
    ASSUME RewardAssumptions, RewardsInv, [Reward!Next]_(Reward!vars)
    PROVE  RewardsInv'
  <1>1. CASE UNCHANGED Reward!vars
    <2>1. UNCHANGED <<visitorBalance, visitorEntries, visitorLock, claims, receipts, redemptions,
            rewardStock, rewardsDoing>>
      BY <1>1 DEF Reward!vars
    <2> QED BY <2>1, RewardFactsStay
               DEF RewardsInv, Reward!TypeOK, Reward!AccountsTypeOK, RewardRequestsFit
  <1>2. ASSUME NEW w \in Workers,
               \/ \E u \in Visitors, k \in Keys :
                    \/ \E t \in Targets : Reward!LookForKey(w, u, t, k)
                    \/ \E r \in Rewards, q \in 1 .. MaxQuantity : Reward!AskToRedeem(w, u, r, q, k)
               \/ Reward!LookForTarget(w) \/ Reward!LockToAward(w) \/ Reward!CommitClaim(w)
                  \/ Reward!LoseClaim(w)
               \/ Reward!RecordRejection(w) \/ Reward!LockToRedeem(w) \/ Reward!CommitRedemption(w)
                  \/ Reward!Rollback(w)
        PROVE  RewardsInv'
    BY <1>2, RewardClaimsMove, RewardRedemptionsMove, RewardClaimKeeps, RewardRedemptionKeeps
  <1> QED BY <1>1, <1>2, RewardRestartKeeps DEF Reward!Next

(* The invariant holds in every behaviour. *)
THEOREM RewardsInvariant == ASSUME RewardAssumptions PROVE Reward!Spec => []RewardsInv
  <1>1. Reward!Init => RewardsInv
    <2> SUFFICES ASSUME Reward!Init PROVE RewardsInv
      OBVIOUS
    <2>1. DOMAIN redemptions = {} /\ redemptions \in [{} -> Reward!RedemptionRow]
      BY DEF Reward!Init
    <2>2. \A u \in Visitors : visitorEntries[u] = <<>> /\ visitorBalance[u] = 0
      BY DEF Reward!Init, Reward!AccountsInit
    <2>3. Reward!TypeOK /\ RewardRequestsFit
      <3>1. Reward!Idle \in Reward!Request /\ <<>> \in Seq(RewardRows) /\ Reward!Idle.op = "idle"
        BY DEF Reward!Request, Reward!Idle
      <3> QED BY <2>1, <3>1 DEF Reward!Init, Reward!AccountsInit, Reward!TypeOK,
                 Reward!AccountsTypeOK, RewardRequestsFit, RewardRows, RewardAssumptions,
                 Reward!RewardsAssumption
    <2>4. Reward!BalanceIsItsEntries /\ Reward!OneEntryPerSource
      BY <2>2 DEF Reward!BalanceIsItsEntries, Reward!OneEntryPerSource, Reward!Before
    <2>5. Reward!EntriesMatchFacts
      <3>1. claims = {} /\ \A u \in Visitors : DOMAIN visitorEntries[u] = {}
        BY <2>2 DEF Reward!Init
      <3>2. \A u \in Visitors : RewardMatched(u, visitorEntries[u], claims, redemptions)
        BY <2>1, <3>1 DEF RewardMatched, RewardClaimed, RewardPaid
      <3> QED BY <3>2, RewardMatchedByAccount
    <2>6. Reward!RewardStockExact
      <3>1. \A r : Reward!RedeemedUnits(r) = {}
        BY <2>1 DEF Reward!RedeemedUnits
      <3>2. Cardinality({}) = 0
        BY FS_EmptySet
      <3>3. \A r \in Rewards : rewardStock[r] + 0 = RewardStock[r]
        BY DEF Reward!Init, RewardAssumptions, Reward!RewardsAssumption
      <3> QED BY <3>1, <3>2, <3>3, RewardCounts DEF Reward!RewardStockExact
    <2> QED BY <2>3, <2>4, <2>5, <2>6 DEF RewardsInv
  <1>2. RewardAssumptions /\ RewardsInv /\ [Reward!Next]_(Reward!vars) => RewardsInv'
    BY RewardStepKeeps
  <1> QED BY <1>1, <1>2, PTL DEF Reward!Spec

(* A visitor's balance is what the entries add up to, one for each source. *)
THEOREM RewardAccountsAddUp ==
    ASSUME RewardAssumptions PROVE Reward!Spec =>
             [](Reward!BalanceIsItsEntries /\ Reward!OneEntryPerSource)
  <1>1. RewardsInv => Reward!BalanceIsItsEntries /\ Reward!OneEntryPerSource
    BY DEF RewardsInv
  <1> QED BY <1>1, RewardsInvariant, PTL

(* Entries have their claims and redemptions, and these their entries.     *)
THEOREM RewardEntriesMatch == ASSUME RewardAssumptions PROVE Reward!Spec => []Reward!EntriesMatchFacts
  <1>1. RewardsInv => Reward!EntriesMatchFacts
    BY DEF RewardsInv
  <1> QED BY <1>1, RewardsInvariant, PTL

(* Every unit of a reward is in stock or in one redemption.                *)
THEOREM RewardStockStaysExact == ASSUME RewardAssumptions PROVE Reward!Spec => []Reward!RewardStockExact
  <1>1. RewardsInv => Reward!RewardStockExact
    BY DEF RewardsInv
  <1> QED BY <1>1, RewardsInvariant, PTL

-----------------------------------------------------------------------------
(***************************************************************************)
(* Proofs about Commerce, for any users, products, prices, campaigns and   *)
(* number of requests.                                                     *)
(*                                                                         *)
(* The stock is exact because a unit belongs to one order and an order is  *)
(* swept or paid at most once: the conditional UPDATEs look again          *)
(* (StockExact is inductive with the types).  A payment posts an entry     *)
(* because an order that is still pending has none (PaidOrdersEarned).     *)
(* That a checkout sells the cart of the moment it commits rests on the    *)
(* lock of the cart: ShopCheckoutKnowsCart.                                *)
(***************************************************************************)

ShopAssumptions ==
    /\ Shop!StockAssumption
    /\ Shop!FiniteAssumption
    /\ Shop!PricesAssumption

ShopActive == Shop!InStatus("PENDING_PAYMENT") \cup Shop!InStatus("PAID")

(* The orders are a table, and requests know of orders that are in it.     *)
ShopOrdersFit ==
    /\ shopOrders \in [DOMAIN shopOrders -> Shop!OrderRow]
    /\ \A w \in Workers :
        /\ commerceDoing[w].op = "pay" => commerceDoing[w].order \in DOMAIN shopOrders
        /\ commerceDoing[w].op = "sweep" => commerceDoing[w].orders \subseteq DOMAIN shopOrders

(* One checkout locks a cart, and its lines are those it has read.         *)
ShopCheckoutKnowsCart ==
    \A w \in Workers : commerceDoing[w].op = "checkout" =>
        /\ commerceDoing[w].items = carts[commerceDoing[w].user]
        /\ \A v \in Workers :
             commerceDoing[v].op = "checkout" /\ commerceDoing[v].user = commerceDoing[w].user => v = w

ShopInv ==
    /\ Shop!TypeOK
    /\ ShopOrdersFit
    /\ ShopCheckoutKnowsCart
    /\ Shop!StockExact
    /\ Shop!BalanceIsItsEntries
    /\ Shop!OneEntryPerSource
    /\ Shop!PaidOrdersEarned

(* The units of some orders of a table, as pairs of an order and a number. *)
ShopUnitsIn(table, p, S) == UNION {{o} \X (1 .. table[o].items[p]) : o \in S}

(* What the instance counts with is what counts here. *)
LEMMA ShopCounts ==
    /\ \A Q : Shop!IsFiniteSet(Q) <=> IsFiniteSet(Q)
    /\ \A Q : Shop!Cardinality(Q) = Cardinality(Q)
  BY Zenon DEF Shop!IsFiniteSet, IsFiniteSet, Shop!Cardinality, Cardinality

LEMMA ShopUnitsAreUnitsIn ==
    /\ \A p, S : Shop!Units(p, S) = ShopUnitsIn(shopOrders, p, S)
    /\ \A p, S : Shop!Units(p, S)' = ShopUnitsIn(shopOrders', p, S')
  BY DEF Shop!Units, ShopUnitsIn

(* The orders of a table are finitely many, and so are their units.        *)
LEMMA ShopUnitsFinite ==
    ASSUME Shop!FiniteAssumption, Shop!StockAssumption, NEW table,
           DOMAIN table \subseteq Buyers \X Keys,
           \A o \in DOMAIN table : table[o] \in Shop!OrderRow,
           NEW p \in Products, NEW S \in SUBSET DOMAIN table
    PROVE  /\ IsFiniteSet(ShopUnitsIn(table, p, S))
           /\ Cardinality(ShopUnitsIn(table, p, S)) \in Nat
  <1>1. IsFiniteSet(Buyers \X Keys)
    BY FS_Product, ShopCounts DEF Shop!FiniteAssumption
  <1>2. IsFiniteSet(1 .. MaxLine)
    BY FS_Interval DEF Shop!StockAssumption
  <1>3. IsFiniteSet((Buyers \X Keys) \X (1 .. MaxLine))
    BY <1>1, <1>2, FS_Product
  <1>4. \A o \in S : table[o].items[p] \in 0 .. MaxLine
    BY DEF Shop!OrderRow, Shop!Lines
  <1>5. ShopUnitsIn(table, p, S) \subseteq (Buyers \X Keys) \X (1 .. MaxLine)
    BY <1>4 DEF ShopUnitsIn, Shop!StockAssumption
  <1> QED BY <1>3, <1>5, FS_Subset, FS_CardinalityType

(* Units depend on the lines of their orders only. *)
LEMMA ShopSameUnits ==
    ASSUME NEW f, NEW g, NEW p, NEW S,
           \A o \in S : f[o].items = g[o].items
    PROVE  ShopUnitsIn(f, p, S) = ShopUnitsIn(g, p, S)
  BY DEF ShopUnitsIn

(* The units of some orders, without those of others. *)
LEMMA ShopUnitsTakenAway ==
    ASSUME NEW f, NEW p, NEW S, NEW T \in SUBSET S
    PROVE  /\ ShopUnitsIn(f, p, T) \subseteq ShopUnitsIn(f, p, S)
           /\ ShopUnitsIn(f, p, S \ T) = ShopUnitsIn(f, p, S) \ ShopUnitsIn(f, p, T)
  BY DEF ShopUnitsIn

(* The units of one more order. *)
LEMMA ShopUnitsAdded ==
    ASSUME NEW f, NEW p, NEW S, NEW o, o \notin S
    PROVE  /\ ShopUnitsIn(f, p, S \cup {o}) = ShopUnitsIn(f, p, S) \cup ({o} \X (1 .. f[o].items[p]))
           /\ ShopUnitsIn(f, p, S) \cap ({o} \X (1 .. f[o].items[p])) = {}
  BY DEF ShopUnitsIn

(* What the entries of the accounts say of the orders P of a table. *)
ShopEarned(posted, P, table) ==
    \A u \in Buyers :
        /\ \A i \in DOMAIN posted[u] : <<u, posted[u][i].source>> \in P
        /\ \A o \in P : o[1] = u =>
            \E i \in DOMAIN posted[u] :
                posted[u][i].source = o[2] /\ posted[u][i].delta = Shop!PointsFor(table[o].items)

LEMMA ShopPaidAreEarned ==
    /\ Shop!PaidOrdersEarned <=> ShopEarned(buyerEntries, Shop!InStatus("PAID"), shopOrders)
    /\ Shop!PaidOrdersEarned' <=> ShopEarned(buyerEntries', Shop!InStatus("PAID")', shopOrders')
  BY DEF Shop!PaidOrdersEarned, ShopEarned, Shop!InStatus

LEMMA ShopEarnedStays ==
    ASSUME NEW posted, NEW P, NEW f, NEW g, \A o \in P : f[o].items = g[o].items,
           ShopEarned(posted, P, f)
    PROVE  ShopEarned(posted, P, g)
  <1>1. \A o \in P : Shop!PointsFor(f[o].items) = Shop!PointsFor(g[o].items)
    OBVIOUS
  <1> SUFFICES ASSUME NEW u \in Buyers, NEW o \in P, o[1] = u
               PROVE  \E i \in DOMAIN posted[u] :
                        posted[u][i].source = o[2] /\ posted[u][i].delta = Shop!PointsFor(g[o].items)
    BY DEF ShopEarned
  <1>2. PICK i \in DOMAIN posted[u] : posted[u][i].source = o[2]
        /\ posted[u][i].delta = Shop!PointsFor(f[o].items)
    BY DEF ShopEarned
  <1> QED BY <1>1, <1>2

(* A step that leaves the accounts and the table of orders. *)
LEMMA ShopOrdersStay ==
    ASSUME ShopInv, UNCHANGED <<Shop!accounts, productStock, shopOrders>>, Shop!TypeOK',
           \A w \in Workers :
             /\ commerceDoing'[w].op = "pay" => commerceDoing'[w].order \in DOMAIN shopOrders
             /\ commerceDoing'[w].op = "sweep" => commerceDoing'[w].orders \subseteq DOMAIN shopOrders
    PROVE  ShopOrdersFit' /\ Shop!StockExact' /\ Shop!BalanceIsItsEntries' /\ Shop!OneEntryPerSource'
           /\ Shop!PaidOrdersEarned'
  <1>1. UNCHANGED <<buyerBalance, buyerEntries, buyerLock>>
    BY DEF Shop!accounts
  <1>2. ShopOrdersFit'
    BY DEF ShopInv, ShopOrdersFit
  <1>3. Shop!StockExact'
    BY DEF ShopInv, Shop!StockExact, Shop!Units, Shop!InStatus
  <1>4. Shop!BalanceIsItsEntries' /\ Shop!OneEntryPerSource'
    BY <1>1 DEF ShopInv, Shop!BalanceIsItsEntries, Shop!OneEntryPerSource, Shop!Before
  <1>5. Shop!PaidOrdersEarned'
    BY <1>1 DEF ShopInv, Shop!PaidOrdersEarned, Shop!InStatus
  <1> QED BY <1>2, <1>3, <1>4, <1>5

(* A request that begins, or ends without a word, in the shop as it is.    *)
LEMMA ShopRequestMoves ==
    ASSUME ShopInv, NEW w \in Workers, NEW record \in Shop!Request, Shop!Continue(w, record),
           record.op = "pay" => record.order \in DOMAIN shopOrders,
           record.op = "sweep" => record.orders \subseteq DOMAIN shopOrders,
           record.op = "checkout" =>
             record.items = carts[record.user] /\ Shop!CartWritable(record.user),
           UNCHANGED <<Shop!accounts, carts, productStock, shopOrders>>
    PROVE  ShopInv'
  <1>1. commerceDoing'[w] = record /\ \A v \in Workers \ {w} : commerceDoing'[v] = commerceDoing[v]
    BY DEF Shop!Continue, ShopInv, Shop!TypeOK
  <1>2. Shop!TypeOK'
    BY DEF ShopInv, Shop!TypeOK, Shop!Continue, Shop!accounts, Shop!AccountsTypeOK
  <1>3. ShopOrdersFit' /\ Shop!StockExact' /\ Shop!BalanceIsItsEntries' /\ Shop!OneEntryPerSource'
        /\ Shop!PaidOrdersEarned'
    BY <1>1, <1>2, ShopOrdersStay DEF ShopInv, ShopOrdersFit
  <1>4. ShopCheckoutKnowsCart'
    BY <1>1 DEF ShopInv, ShopCheckoutKnowsCart, Shop!CartWritable, Shop!CartLocked
  <1> QED BY <1>2, <1>3, <1>4 DEF ShopInv

LEMMA ShopRequestsBegin ==
    ASSUME ShopAssumptions, ShopInv, NEW w \in Workers,
           \/ \E u \in Buyers, p \in Products :
                \/ \E n \in 1 .. MaxLine : Shop!ReadToAdd(w, u, p, n) \/ Shop!ReadToUpdate(w, u, p, n)
                \/ Shop!ReadToRemove(w, u, p)
           \/ \E u \in Buyers, k \in Keys : Shop!LockCart(w, u, k)
           \/ \E o \in DOMAIN shopOrders : Shop!ReadToPay(w, o)
           \/ Shop!SelectDue(w) \/ Shop!FlushLine(w) \/ Shop!Rollback(w)
    PROVE  ShopInv'
  <1> USE DEF Shop!Editing, Shop!CheckingOut, Shop!Paying, Shop!Sweeping, Shop!Idle
  <1>1. ASSUME NEW u \in Buyers, NEW p \in Products,
               \/ \E n \in 1 .. MaxLine : Shop!ReadToAdd(w, u, p, n) \/ Shop!ReadToUpdate(w, u, p, n)
               \/ Shop!ReadToRemove(w, u, p)
        PROVE  ShopInv'
    <2>1. carts[u][p] \in 0 .. MaxLine /\ MaxLine \in Nat
      BY DEF ShopInv, Shop!TypeOK, Shop!Lines, ShopAssumptions, Shop!StockAssumption
    <2>2. ASSUME NEW n \in 1 .. MaxLine, Shop!ReadToAdd(w, u, p, n)
          PROVE  ShopInv'
      <3>1. carts[u][p] + n \in 0 .. MaxLine /\ (carts[u][p] > 0) \in BOOLEAN
        BY <2>1, <2>2 DEF Shop!ReadToAdd
      <3>2. Shop!Editing("add", u, p, carts[u][p] > 0, carts[u][p] + n) \in Shop!Request
        BY <3>1 DEF Shop!Request
      <3> QED BY <2>2, <3>2, ShopRequestMoves DEF Shop!ReadToAdd
    <2>3. ASSUME NEW n \in 1 .. MaxLine, Shop!ReadToUpdate(w, u, p, n)
          PROVE  ShopInv'
      <3>1. Shop!Editing("update", u, p, TRUE, n) \in Shop!Request
        BY <2>1 DEF Shop!Request
      <3> QED BY <2>3, <3>1, ShopRequestMoves DEF Shop!ReadToUpdate
    <2>4. ASSUME Shop!ReadToRemove(w, u, p)
          PROVE  ShopInv'
      <3>1. Shop!Editing("remove", u, p, TRUE, 0) \in Shop!Request
        BY <2>1 DEF Shop!Request
      <3> QED BY <2>4, <3>1, ShopRequestMoves DEF Shop!ReadToRemove
    <2> QED BY <1>1, <2>2, <2>3, <2>4
  <1>2. ASSUME NEW u \in Buyers, NEW k \in Keys, Shop!LockCart(w, u, k)
        PROVE  ShopInv'
    <2>1. Shop!CheckingOut(u, k, carts[u]) \in Shop!Request
      BY DEF Shop!Request, ShopInv, Shop!TypeOK
    <2> QED BY <1>2, <2>1, ShopRequestMoves DEF Shop!LockCart
  <1>3. ASSUME NEW o \in DOMAIN shopOrders, Shop!ReadToPay(w, o)
        PROVE  ShopInv'
    <2>1. Shop!Paying(o) \in Shop!Request
      BY DEF Shop!Request, ShopInv, Shop!TypeOK
    <2> QED BY <1>3, <2>1, ShopRequestMoves DEF Shop!ReadToPay
  <1>4. ASSUME Shop!SelectDue(w)
        PROVE  ShopInv'
    <2>1. Shop!DueOrders \subseteq DOMAIN shopOrders
      BY DEF Shop!DueOrders, Shop!InStatus
    <2>2. Shop!Sweeping(Shop!DueOrders) \in Shop!Request
      BY <2>1 DEF Shop!Request, ShopInv, Shop!TypeOK
    <2> QED BY <1>4, <2>1, <2>2, ShopRequestMoves DEF Shop!SelectDue
  <1>5. ASSUME Shop!FlushLine(w)
        PROVE  ShopInv'
    <2>1. commerceDoing[w] \in [op : {"add", "update", "remove", "flushed", "stale"}, user : Buyers,
                                product : Products, row : BOOLEAN, quantity : 0 .. MaxLine]
      BY <1>5 DEF Shop!FlushLine, ShopInv, Shop!TypeOK, Shop!Request
    <2> PICK record : record = [commerceDoing[w] EXCEPT !.op = "flushed"]
      OBVIOUS
    <2>2. record \in Shop!Request /\ record.op = "flushed"
      BY <2>1 DEF Shop!Request
    <2> QED BY <1>5, <2>2, ShopRequestMoves DEF Shop!FlushLine
  <1>6. ASSUME Shop!Rollback(w)
        PROVE  ShopInv'
    <2>1. Shop!Idle \in Shop!Request
      BY DEF Shop!Request
    <2> QED BY <1>6, <2>1, ShopRequestMoves DEF Shop!Rollback, Shop!End
  <1> QED BY <1>1, <1>2, <1>3, <1>4, <1>5, <1>6

(* Requests that lose their row do not become anything else. *)
LEMMA ShopGoneRows ==
    ASSUME ShopInv, NEW w \in Workers, NEW u, NEW P, Shop!RowsGone(w, u, P)
    PROVE  /\ commerceDoing' \in [Workers -> Shop!Request]
           /\ commerceDoing'[w] = Shop!Idle
           /\ \A v \in Workers :
                commerceDoing'[v].op \in {"checkout", "pay", "sweep"} =>
                  commerceDoing'[v] = commerceDoing[v] /\ v # w
  <1> DEFINE Edit == [op : {"add", "update", "remove", "flushed", "stale"}, user : Buyers,
                      product : Products, row : BOOLEAN, quantity : 0 .. MaxLine]
  <1>1. \A v \in Workers :
          /\ commerceDoing'[v] \in Shop!Request
          /\ v = w => commerceDoing'[v] = Shop!Idle
          /\ commerceDoing'[v].op \in {"checkout", "pay", "sweep"} =>
               commerceDoing'[v] = commerceDoing[v] /\ v # w
    <2> SUFFICES ASSUME NEW v \in Workers
                 PROVE  /\ commerceDoing'[v] \in Shop!Request
                        /\ v = w => commerceDoing'[v] = Shop!Idle
                        /\ commerceDoing'[v].op \in {"checkout", "pay", "sweep"} =>
                             commerceDoing'[v] = commerceDoing[v] /\ v # w
      OBVIOUS
    <2>1. CASE v = w
      BY <2>1 DEF Shop!RowsGone, Shop!Idle, Shop!Request
    <2>2. CASE v # w /\ commerceDoing[v].op \in {"add", "update", "remove"}
               /\ commerceDoing'[v] # commerceDoing[v]
      <3> PICK record : record = [commerceDoing[v] EXCEPT !.op = "stale"]
        OBVIOUS
      <3>1. commerceDoing[v] \in Edit
        BY <2>2 DEF ShopInv, Shop!TypeOK, Shop!Request, Shop!Idle
      <3>2. record \in Edit /\ record.op = "stale"
        BY <3>1
      <3>3. commerceDoing'[v] = record
        BY <2>2 DEF Shop!RowsGone
      <3> QED BY <2>2, <3>2, <3>3 DEF Shop!Request
    <2>3. CASE v # w /\ commerceDoing'[v] = commerceDoing[v]
      BY <2>3 DEF ShopInv, Shop!TypeOK
    <2>4. v # w => commerceDoing'[v] = commerceDoing[v]
          \/ commerceDoing[v].op \in {"add", "update", "remove"}
      BY DEF Shop!RowsGone
    <2> QED BY <2>1, <2>2, <2>3, <2>4
  <1>2. commerceDoing' = [v \in Workers |-> commerceDoing'[v]]
    BY DEF Shop!RowsGone
  <1> QED BY <1>1, <1>2

(* Edits change a cart that nobody has locked. *)
LEMMA ShopEditsKeep ==
    ASSUME ShopAssumptions, ShopInv, NEW w \in Workers,
           Shop!CommitAdd(w) \/ Shop!CommitUpdate(w) \/ Shop!CommitRemove(w)
    PROVE  ShopInv'
  <1> PICK m : m = commerceDoing[w]
    OBVIOUS
  <1>1. m \in [op : {"add", "update", "remove", "flushed", "stale"}, user : Buyers,
               product : Products, row : BOOLEAN, quantity : 0 .. MaxLine]
    BY DEF Shop!CommitAdd, Shop!CommitUpdate, Shop!CommitRemove, ShopInv, Shop!TypeOK,
       Shop!Request, Shop!Idle
  <1>2. PICK q \in 0 .. MaxLine : carts' = [carts EXCEPT ![m.user][m.product] = q]
    BY <1>1 DEF Shop!CommitAdd, Shop!CommitUpdate, Shop!CommitRemove, ShopAssumptions,
       Shop!StockAssumption
  <1>3. Shop!CartWritable(m.user) /\ UNCHANGED <<Shop!accounts, productStock, shopOrders>>
    BY DEF Shop!CommitAdd, Shop!CommitUpdate, Shop!CommitRemove
  <1>4. carts' \in [Buyers -> Shop!Lines] /\ \A u \in Buyers \ {m.user} : carts'[u] = carts[u]
    BY <1>1, <1>2 DEF ShopInv, Shop!TypeOK, Shop!Lines
  <1>5. /\ commerceDoing' \in [Workers -> Shop!Request]
        /\ \A v \in Workers :
             commerceDoing'[v].op \in {"checkout", "pay", "sweep"} =>
               commerceDoing'[v] = commerceDoing[v] /\ v # w
    <2>1. CASE Shop!CommitRemove(w)
      BY <2>1, ShopGoneRows DEF Shop!CommitRemove
    <2>2. CASE Shop!CommitAdd(w) \/ Shop!CommitUpdate(w)
      BY <2>2 DEF Shop!CommitAdd, Shop!CommitUpdate, Shop!End, Shop!Continue, Shop!Idle,
         Shop!Request, ShopInv, Shop!TypeOK
    <2> QED BY <2>1, <2>2
  <1>6. Shop!TypeOK'
    BY <1>3, <1>4, <1>5 DEF ShopInv, Shop!TypeOK, Shop!accounts, Shop!AccountsTypeOK
  <1>7. ShopOrdersFit' /\ Shop!StockExact' /\ Shop!BalanceIsItsEntries' /\ Shop!OneEntryPerSource'
        /\ Shop!PaidOrdersEarned'
    BY <1>3, <1>5, <1>6, ShopOrdersStay DEF ShopInv, ShopOrdersFit
  <1>8. \A v \in Workers : commerceDoing'[v].op = "checkout" =>
          commerceDoing[v].user # m.user /\ commerceDoing[v].user \in Buyers
    BY <1>3, <1>5
       DEF Shop!CartWritable, Shop!CartLocked, ShopInv, Shop!TypeOK, Shop!Request, Shop!Idle
  <1>9. ShopCheckoutKnowsCart'
    BY <1>4, <1>5, <1>8 DEF ShopInv, ShopCheckoutKnowsCart
  <1> QED BY <1>6, <1>7, <1>9 DEF ShopInv

(* What no step may do to the orders, and what a new one must be. *)
ShopFinal ==
    \A o \in DOMAIN shopOrders :
        /\ o \in DOMAIN shopOrders'
        /\ shopOrders'[o].items = shopOrders[o].items
        /\ shopOrders[o].status # "PENDING_PAYMENT" => shopOrders'[o].status = shopOrders[o].status

ShopSold ==
    \A o \in DOMAIN shopOrders' \ DOMAIN shopOrders :
        /\ shopOrders'[o].items = carts[o[1]]
        /\ carts'[o[1]] = Shop!EmptyCart

(* Rows of orders that change their mark or their status. *)
LEMMA ShopRowsChange ==
    ASSUME ShopInv, NEW S \in SUBSET DOMAIN shopOrders, NEW g,
           g \in [DOMAIN shopOrders -> Shop!OrderRow], shopOrders' = g,
           \A o \in DOMAIN shopOrders : g[o].items = shopOrders[o].items
    PROVE  /\ DOMAIN shopOrders' = DOMAIN shopOrders
           /\ \A p, T : T \subseteq DOMAIN shopOrders =>
                ShopUnitsIn(shopOrders', p, T) = ShopUnitsIn(shopOrders, p, T)
  <1>1. DOMAIN shopOrders' = DOMAIN shopOrders
    OBVIOUS
  <1>2. ASSUME NEW p, NEW T, T \subseteq DOMAIN shopOrders
        PROVE  ShopUnitsIn(shopOrders', p, T) = ShopUnitsIn(shopOrders, p, T)
    BY <1>2, ShopSameUnits
  <1> QED BY <1>1, <1>2

LEMMA ShopLapseKeeps ==
    ASSUME ShopInv, NEW o \in DOMAIN shopOrders, Shop!OrderLapses(o)
    PROVE  ShopInv' /\ ShopFinal /\ ShopSold
  <1> PICK row : row = [shopOrders[o] EXCEPT !.due = TRUE]
    OBVIOUS
  <1>1. shopOrders \in [DOMAIN shopOrders -> Shop!OrderRow] /\ shopOrders[o] \in Shop!OrderRow
    BY DEF ShopInv, ShopOrdersFit
  <1>2. row \in Shop!OrderRow /\ row.items = shopOrders[o].items /\ row.status = shopOrders[o].status
    BY <1>1 DEF Shop!OrderRow
  <1>3. shopOrders' = [shopOrders EXCEPT ![o] = row]
    BY DEF Shop!OrderLapses
  <1>4. /\ shopOrders' \in [DOMAIN shopOrders -> Shop!OrderRow]
        /\ DOMAIN shopOrders' = DOMAIN shopOrders
        /\ \A x \in DOMAIN shopOrders :
             shopOrders'[x].items = shopOrders[x].items /\ shopOrders'[x].status = shopOrders[x].status
    BY <1>1, <1>2, <1>3
  <1>5. \A status : Shop!InStatus(status)' = Shop!InStatus(status)
    BY <1>4 DEF Shop!InStatus
  <1>6. UNCHANGED <<buyerBalance, buyerEntries, buyerLock, carts, productStock, commerceDoing>>
    BY DEF Shop!OrderLapses, Shop!accounts
  <1>7. Shop!TypeOK'
    BY <1>4, <1>6 DEF ShopInv, Shop!TypeOK, Shop!AccountsTypeOK
  <1>8. ShopOrdersFit' /\ ShopCheckoutKnowsCart'
    BY <1>4, <1>6 DEF ShopInv, ShopOrdersFit, ShopCheckoutKnowsCart
  <1>9. Shop!StockExact'
    <2>1. ShopActive' = ShopActive /\ ShopActive \subseteq DOMAIN shopOrders
      BY <1>5 DEF ShopActive, Shop!InStatus
    <2>2. \A p : ShopUnitsIn(shopOrders', p, ShopActive) = ShopUnitsIn(shopOrders, p, ShopActive)
      <3> SUFFICES ASSUME NEW p PROVE ShopUnitsIn(shopOrders', p, ShopActive) =
                            ShopUnitsIn(shopOrders, p, ShopActive)
        OBVIOUS
      <3> QED BY <1>4, <2>1, ShopSameUnits
    <2> QED BY <1>6, <2>1, <2>2, ShopUnitsAreUnitsIn DEF ShopInv, Shop!StockExact, ShopActive
  <1>10. Shop!BalanceIsItsEntries' /\ Shop!OneEntryPerSource'
    BY <1>6 DEF ShopInv, Shop!BalanceIsItsEntries, Shop!OneEntryPerSource, Shop!Before
  <1>11. Shop!PaidOrdersEarned'
    BY <1>4, <1>5, <1>6 DEF ShopInv, Shop!PaidOrdersEarned, Shop!InStatus
  <1> QED BY <1>4, <1>7, <1>8, <1>9, <1>10, <1>11 DEF ShopInv, ShopFinal, ShopSold

(* A checkout takes its stock and makes the order of what it has read.     *)
LEMMA ShopCheckoutKeeps ==
    ASSUME ShopAssumptions, ShopInv, NEW w \in Workers, Shop!CommitCheckout(w)
    PROVE  ShopInv' /\ ShopFinal /\ ShopSold
  <1> PICK m : m = commerceDoing[w]
    OBVIOUS
  <1> PICK o : o = <<m.user, m.key>>
    OBVIOUS
  <1> PICK row : row = Shop!Order("PENDING_PAYMENT", FALSE, m.items)
    OBVIOUS
  <1>1. /\ m.op = "checkout" /\ Shop!InStock(m.items) /\ o \notin DOMAIN shopOrders
        /\ productStock' = [p \in Products |-> productStock[p] - m.items[p]]
        /\ shopOrders' = [x \in DOMAIN shopOrders \cup {o} |-> IF x = o THEN row ELSE shopOrders[x]]
        /\ carts' = [carts EXCEPT ![m.user] = Shop!EmptyCart]
        /\ Shop!RowsGone(w, m.user, Products)
        /\ UNCHANGED <<buyerBalance, buyerEntries, buyerLock>>
    BY DEF Shop!CommitCheckout, Shop!accounts
  <1>2. m.user \in Buyers /\ m.key \in Keys /\ m.items \in Shop!Lines
    BY <1>1 DEF ShopInv, Shop!TypeOK, Shop!Request, Shop!Idle
  <1>3. o \in Buyers \X Keys /\ o[1] = m.user
    BY <1>2
  <1>4. row \in Shop!OrderRow /\ row.items = m.items /\ row.status = "PENDING_PAYMENT"
    BY <1>2 DEF Shop!Order, Shop!OrderRow
  <1>5. /\ DOMAIN shopOrders' = DOMAIN shopOrders \cup {o}
        /\ shopOrders'[o] = row /\ \A x \in DOMAIN shopOrders : shopOrders'[x] = shopOrders[x]
        /\ shopOrders' \in [DOMAIN shopOrders' -> Shop!OrderRow]
    BY <1>1, <1>4 DEF ShopInv, ShopOrdersFit
  <1>6. /\ commerceDoing' \in [Workers -> Shop!Request]
        /\ \A v \in Workers :
             commerceDoing'[v].op \in {"checkout", "pay", "sweep"} =>
               commerceDoing'[v] = commerceDoing[v] /\ v # w
    BY <1>1, ShopGoneRows
  <1>7. /\ carts' \in [Buyers -> Shop!Lines] /\ carts'[m.user] = Shop!EmptyCart
        /\ \A u \in Buyers \ {m.user} : carts'[u] = carts[u]
    BY <1>1, <1>2
       DEF ShopInv, Shop!TypeOK, Shop!EmptyCart, Shop!Lines, ShopAssumptions, Shop!StockAssumption
  <1>8. productStock' \in [Products -> Nat]
    BY <1>1, <1>2
       DEF ShopInv, Shop!TypeOK, Shop!InStock, Shop!Lines, ShopAssumptions, Shop!StockAssumption
  <1>9. Shop!TypeOK'
    BY <1>1, <1>3, <1>5, <1>6, <1>7, <1>8 DEF ShopInv, Shop!TypeOK, Shop!AccountsTypeOK
  <1>10. ShopOrdersFit'
    BY <1>5, <1>6 DEF ShopInv, ShopOrdersFit
  <1>11. \A v \in Workers : commerceDoing'[v].op = "checkout" =>
           commerceDoing[v].user # m.user /\ commerceDoing[v].user \in Buyers
    BY <1>1, <1>6 DEF ShopInv, ShopCheckoutKnowsCart, Shop!TypeOK, Shop!Request, Shop!Idle
  <1>12. ShopCheckoutKnowsCart'
    BY <1>6, <1>7, <1>11 DEF ShopInv, ShopCheckoutKnowsCart
  <1>13. Shop!InStatus("PENDING_PAYMENT")' = Shop!InStatus("PENDING_PAYMENT") \cup {o}
         /\ Shop!InStatus("PAID")' = Shop!InStatus("PAID") /\ o \notin Shop!InStatus("PAID")
    BY <1>1, <1>4, <1>5 DEF Shop!InStatus
  <1>14. Shop!StockExact'
    <2> SUFFICES ASSUME NEW p \in Products
                 PROVE  productStock'[p] + Cardinality(ShopUnitsIn(shopOrders', p, ShopActive')) =
                          ProductStock[p]
      BY ShopUnitsAreUnitsIn, ShopCounts DEF Shop!StockExact, ShopActive
    <2> DEFINE sold == {o} \X (1 .. m.items[p])
    <2>1. ShopActive' = ShopActive \cup {o} /\ o \notin ShopActive
          /\ ShopActive \in SUBSET DOMAIN shopOrders
      BY <1>1, <1>13 DEF ShopActive, Shop!InStatus
    <2>2. m.items[p] \in Nat /\ productStock[p] \in Nat
          /\ productStock'[p] = productStock[p] - m.items[p]
      BY <1>1, <1>2 DEF ShopInv, Shop!TypeOK, Shop!Lines, ShopAssumptions, Shop!StockAssumption
    <2>3. /\ ShopUnitsIn(shopOrders', p, ShopActive') =
               ShopUnitsIn(shopOrders', p, ShopActive) \cup sold
          /\ ShopUnitsIn(shopOrders', p, ShopActive) \cap sold = {}
      <3> PICK g : g = shopOrders'
        OBVIOUS
      <3>1. /\ ShopUnitsIn(g, p, ShopActive \cup {o}) =
                 ShopUnitsIn(g, p, ShopActive) \cup ({o} \X (1 .. g[o].items[p]))
            /\ ShopUnitsIn(g, p, ShopActive) \cap ({o} \X (1 .. g[o].items[p])) = {}
        BY ONLY <2>1, ShopUnitsAdded
      <3>2. g[o].items[p] = m.items[p]
        BY <1>4, <1>5
      <3> QED BY <2>1, <3>1, <3>2
    <2>4. ShopUnitsIn(shopOrders', p, ShopActive) = ShopUnitsIn(shopOrders, p, ShopActive)
      <3>1. \A x \in ShopActive : shopOrders'[x].items = shopOrders[x].items
        BY <1>5, <2>1
      <3> QED BY <3>1, ShopSameUnits
    <2>5. /\ IsFiniteSet(ShopUnitsIn(shopOrders, p, ShopActive))
             /\ Cardinality(ShopUnitsIn(shopOrders, p, ShopActive)) \in Nat
      BY <2>1, ShopUnitsFinite DEF ShopInv, Shop!TypeOK, ShopAssumptions
    <2>6. IsFiniteSet(sold) /\ Cardinality(sold) = m.items[p]
      BY <2>2, ColumnCount
    <2>7. productStock[p] + Cardinality(ShopUnitsIn(shopOrders, p, ShopActive)) = ProductStock[p]
      BY ShopUnitsAreUnitsIn, ShopCounts DEF ShopInv, Shop!StockExact, ShopActive
    <2> HIDE DEF sold
    <2>8. Cardinality(ShopUnitsIn(shopOrders', p, ShopActive')) =
            Cardinality(ShopUnitsIn(shopOrders, p, ShopActive)) + m.items[p]
      BY <2>3, <2>4, <2>5, <2>6, CountAdded
    <2> QED BY <2>2, <2>5, <2>7, <2>8
  <1>15. Shop!BalanceIsItsEntries' /\ Shop!OneEntryPerSource'
    BY <1>1 DEF ShopInv, Shop!BalanceIsItsEntries, Shop!OneEntryPerSource, Shop!Before
  <1>16. Shop!PaidOrdersEarned'
    <2>1. \A x \in Shop!InStatus("PAID") : shopOrders'[x].items = shopOrders[x].items
      BY <1>5 DEF Shop!InStatus
    <2>2. ShopEarned(buyerEntries, Shop!InStatus("PAID"), shopOrders)
      BY ShopPaidAreEarned DEF ShopInv
    <2>3. ShopEarned(buyerEntries, Shop!InStatus("PAID"), shopOrders')
      BY <2>1, <2>2, ShopEarnedStays
    <2> QED BY <1>1, <1>13, <2>3, ShopPaidAreEarned
  <1>17. ShopFinal
    BY <1>5 DEF ShopFinal
  <1>18. ShopSold
    <2>1. m.items = carts[m.user]
      BY <1>1 DEF ShopInv, ShopCheckoutKnowsCart
    <2> QED BY <1>3, <1>4, <1>5, <1>7, <2>1 DEF ShopSold
  <1> QED BY <1>9, <1>10, <1>12, <1>14, <1>15, <1>16, <1>17, <1>18 DEF ShopInv
(* A sweep gives back what is still pending, once. *)
LEMMA ShopSweepKeeps ==
    ASSUME ShopAssumptions, ShopInv, NEW w \in Workers, Shop!CommitSweep(w)
    PROVE  ShopInv' /\ ShopFinal /\ ShopSold
  <1> PICK S : S = Shop!StillPending(commerceDoing[w].orders)
    OBVIOUS
  <1>1. /\ S \subseteq Shop!InStatus("PENDING_PAYMENT") /\ S \subseteq DOMAIN shopOrders
        /\ shopOrders' = [o \in DOMAIN shopOrders |->
                             IF o \in S THEN [shopOrders[o] EXCEPT !.status = "EXPIRED"]
                               ELSE shopOrders[o]]
        /\ productStock' = [p \in Products |-> productStock[p] + Shop!Cardinality(Shop!Units(p, S))]
        /\ commerceDoing' = [commerceDoing EXCEPT ![w] = Shop!Idle]
        /\ UNCHANGED <<buyerBalance, buyerEntries, buyerLock, carts>>
    BY DEF Shop!CommitSweep, Shop!StillPending, Shop!InStatus, Shop!End, Shop!Continue,
       Shop!accounts
  <1>2. \A o \in DOMAIN shopOrders : shopOrders[o] \in Shop!OrderRow
    BY DEF ShopInv, ShopOrdersFit
  <1>3. DOMAIN shopOrders' = DOMAIN shopOrders
    BY <1>1
  <1>4. \A o \in DOMAIN shopOrders :
          /\ shopOrders'[o] \in Shop!OrderRow /\ shopOrders'[o].items = shopOrders[o].items
          /\ shopOrders'[o].status = IF o \in S THEN "EXPIRED" ELSE shopOrders[o].status
    BY <1>1, <1>2 DEF Shop!OrderRow
  <1>5. shopOrders' \in [DOMAIN shopOrders -> Shop!OrderRow]
    BY <1>1, <1>4
  <1>6. Shop!InStatus("PAID")' = Shop!InStatus("PAID")
    BY <1>1, <1>3, <1>4 DEF Shop!InStatus
  <1>7. Shop!InStatus("PENDING_PAYMENT")' = Shop!InStatus("PENDING_PAYMENT") \ S
    BY <1>1, <1>3, <1>4 DEF Shop!InStatus
  <1>8. S \cap Shop!InStatus("PAID") = {}
    BY <1>1 DEF Shop!InStatus
  <1>9. \A p \in Products : Shop!Cardinality(Shop!Units(p, S)) \in Nat
    BY <1>1, <1>2, ShopUnitsAreUnitsIn, ShopUnitsFinite, ShopCounts
       DEF ShopInv, Shop!TypeOK, ShopAssumptions
  <1>10. productStock' \in [Products -> Nat]
    BY <1>1, <1>9 DEF ShopInv, Shop!TypeOK
  <1>11. Shop!Idle \in Shop!Request
    BY DEF Shop!Request
  <1>12. Shop!TypeOK'
    BY <1>1, <1>3, <1>4, <1>10, <1>11 DEF ShopInv, Shop!TypeOK, Shop!AccountsTypeOK
  <1>13. ShopOrdersFit' /\ ShopCheckoutKnowsCart'
    <2>1. commerceDoing'[w] = Shop!Idle /\ \A v \in Workers \ {w} : commerceDoing'[v] = commerceDoing[v]
      BY <1>1 DEF ShopInv, Shop!TypeOK
    <2> QED BY <1>1, <1>3, <1>5, <2>1 DEF ShopInv, ShopOrdersFit, ShopCheckoutKnowsCart, Shop!Idle
  <1>14. Shop!StockExact'
    <2> SUFFICES ASSUME NEW p \in Products
                 PROVE  productStock'[p] + Cardinality(ShopUnitsIn(shopOrders', p, ShopActive')) =
                          ProductStock[p]
      BY ShopUnitsAreUnitsIn, ShopCounts DEF Shop!StockExact, ShopActive
    <2> DEFINE all == ShopUnitsIn(shopOrders, p, ShopActive)
               gone == ShopUnitsIn(shopOrders, p, S)
    <2>1. ShopActive' = ShopActive \ S /\ S \in SUBSET ShopActive
          /\ ShopActive \in SUBSET DOMAIN shopOrders
      BY <1>1, <1>6, <1>7, <1>8 DEF ShopActive, Shop!InStatus
    <2>2. ShopUnitsIn(shopOrders', p, ShopActive') = ShopUnitsIn(shopOrders, p, ShopActive \ S)
      <3>1. \A x \in ShopActive \ S : shopOrders'[x].items = shopOrders[x].items
        BY <1>4, <2>1
      <3> QED BY <2>1, <3>1, ShopSameUnits
    <2>3. gone \subseteq all /\ ShopUnitsIn(shopOrders, p, ShopActive \ S) = all \ gone
      <3> PICK A : A = ShopActive
        OBVIOUS
      <3>1. S \in SUBSET A
        BY <2>1
      <3>2. /\ ShopUnitsIn(shopOrders, p, S) \subseteq ShopUnitsIn(shopOrders, p, A)
            /\ ShopUnitsIn(shopOrders, p, A \ S) =
                 ShopUnitsIn(shopOrders, p, A) \ ShopUnitsIn(shopOrders, p, S)
        BY ONLY <3>1, ShopUnitsTakenAway
      <3> QED BY <3>2
    <2>4. IsFiniteSet(all) /\ Cardinality(all) \in Nat
      BY <1>2, <2>1, ShopUnitsFinite DEF ShopInv, Shop!TypeOK, ShopAssumptions
    <2>5. productStock[p] + Cardinality(all) = ProductStock[p]
      BY ShopUnitsAreUnitsIn, ShopCounts DEF ShopInv, Shop!StockExact, ShopActive
    <2>6. productStock'[p] = productStock[p] + Cardinality(gone) /\ productStock[p] \in Nat
      BY <1>1, ShopUnitsAreUnitsIn, ShopCounts DEF ShopInv, Shop!TypeOK
    <2> HIDE DEF all, gone
    <2>7. Cardinality(gone) \in Nat /\ Cardinality(all \ gone) = Cardinality(all) - Cardinality(gone)
      BY <2>3, <2>4, CountRemoved
    <2>8. Cardinality(ShopUnitsIn(shopOrders', p, ShopActive')) = Cardinality(all \ gone)
      BY <2>2, <2>3
    <2> QED BY <2>4, <2>5, <2>6, <2>7, <2>8
  <1>15. Shop!BalanceIsItsEntries' /\ Shop!OneEntryPerSource'
    BY <1>1 DEF ShopInv, Shop!BalanceIsItsEntries, Shop!OneEntryPerSource, Shop!Before
  <1>16. Shop!PaidOrdersEarned'
    <2>1. \A o \in Shop!InStatus("PAID") : shopOrders'[o].items = shopOrders[o].items
      BY <1>4 DEF Shop!InStatus
    <2>2. ShopEarned(buyerEntries, Shop!InStatus("PAID"), shopOrders)
      BY ShopPaidAreEarned DEF ShopInv
    <2>3. ShopEarned(buyerEntries, Shop!InStatus("PAID"), shopOrders')
      BY <2>1, <2>2, ShopEarnedStays
    <2> QED BY <1>1, <1>6, <2>3, ShopPaidAreEarned
  <1>17. ShopFinal /\ ShopSold
    BY <1>1, <1>3, <1>4 DEF ShopFinal, ShopSold, Shop!InStatus
  <1> QED BY <1>12, <1>13, <1>14, <1>15, <1>16, <1>17 DEF ShopInv

(* The accounts, each as one sequence of entries (CountingLemmas). *)
LEMMA ShopByAccount ==
    /\ Shop!BalanceIsItsEntries <=> \A u \in Buyers : Chain(buyerEntries[u], buyerBalance[u])
    /\ Shop!BalanceIsItsEntries' <=> \A u \in Buyers : Chain(buyerEntries'[u], buyerBalance'[u])
    /\ Shop!OneEntryPerSource <=> \A u \in Buyers : Single(buyerEntries[u])
    /\ Shop!OneEntryPerSource' <=> \A u \in Buyers : Single(buyerEntries'[u])
  <1>1. /\ Shop!OneEntryPerSource <=> \A u \in Buyers : Single(buyerEntries[u])
        /\ Shop!OneEntryPerSource' <=> \A u \in Buyers : Single(buyerEntries'[u])
    BY DEF Shop!OneEntryPerSource, Single
  <1>2. /\ Shop!BalanceIsItsEntries <=> \A u \in Buyers : Chain(buyerEntries[u], buyerBalance[u])
        /\ Shop!BalanceIsItsEntries' <=> \A u \in Buyers : Chain(buyerEntries'[u], buyerBalance'[u])
    BY DEF Shop!BalanceIsItsEntries, Chain, Shop!Before, Start
  <1> QED BY <1>1, <1>2

(* A user earns for an order that has no entry.                            *)
ShopUnearned(u, k) == \A i \in DOMAIN buyerEntries[u] : buyerEntries[u][i].source # k

ShopHasEarned(u, k, d) ==
    /\ buyerBalance' \in [Buyers -> Nat] /\ buyerEntries' \in [Buyers -> Seq(Shop!EntryRow(Keys))]
    /\ Shop!BalanceIsItsEntries' /\ Shop!OneEntryPerSource'
    /\ \A v \in Buyers \ {u} : buyerEntries'[v] = buyerEntries[v]
    /\ \A i \in DOMAIN buyerEntries[u] : i \in DOMAIN buyerEntries'[u]
         /\ buyerEntries'[u][i] = buyerEntries[u][i]
    /\ \E n \in DOMAIN buyerEntries'[u] :
         /\ buyerEntries'[u][n].source = k /\ buyerEntries'[u][n].delta = d
         /\ \A i \in DOMAIN buyerEntries'[u] : i # n => i \in DOMAIN buyerEntries[u]

LEMMA ShopPostKeeps ==
    ASSUME ShopInv, NEW u \in Buyers, NEW k \in Keys, NEW d \in Nat, ShopUnearned(u, k),
             Shop!Post(u, "EARN", k, d)
    PROVE  ShopHasEarned(u, k, d)
  <1> PICK q : q = buyerEntries[u]
    OBVIOUS
  <1> PICK b : b = buyerBalance[u]
    OBVIOUS
  <1> PICK e : e = Shop!Entry("EARN", k, d, b + d)
    OBVIOUS
  <1> PICK r : r = Append(q, e)
    OBVIOUS
  <1>1. q \in Seq(Shop!EntryRow(Keys)) /\ b \in Nat
    BY DEF ShopInv, Shop!TypeOK, Shop!AccountsTypeOK
  <1>2. e \in Shop!EntryRow(Keys) /\ e.source = k /\ e.delta = d /\ e.after = b + d /\ b + d \in Nat
    BY <1>1 DEF Shop!Entry, Shop!EntryRow
  <1>3. Chain(q, b) /\ Single(q)
    BY ShopByAccount DEF ShopInv
  <1>4. /\ r \in Seq(Shop!EntryRow(Keys)) /\ Chain(r, b + d) /\ Single(r)
        /\ \A i \in DOMAIN q : i \in DOMAIN r /\ r[i] = q[i]
        /\ \E n \in DOMAIN r : r[n] = e /\ \A i \in DOMAIN r : i # n => i \in DOMAIN q
    <2>1. CarriesOn(Shop!EntryRow(Keys), q, b, e)
      BY <1>1, <1>2 DEF CarriesOn, ShopUnearned
    <2>2. ExtendedBy(Shop!EntryRow(Keys), q, e, r)
      BY ONLY <1>3, <2>1, r = Append(q, e), EntryAppended
    <2> QED BY <1>2, <2>2 DEF ExtendedBy
  <1>5. buyerBalance' = [buyerBalance EXCEPT ![u] = b + d]
        /\ buyerEntries' = [buyerEntries EXCEPT ![u] = r]
    BY DEF Shop!Post
  <1>6. /\ buyerBalance' \in [Buyers -> Nat] /\ buyerEntries' \in [Buyers -> Seq(Shop!EntryRow(Keys))]
        /\ buyerBalance'[u] = b + d /\ buyerEntries'[u] = r
        /\ \A v \in Buyers \ {u} : buyerBalance'[v] = buyerBalance[v]
             /\ buyerEntries'[v] = buyerEntries[v]
    BY <1>2, <1>4, <1>5 DEF ShopInv, Shop!TypeOK, Shop!AccountsTypeOK
  <1>7. \A v \in Buyers : Chain(buyerEntries'[v], buyerBalance'[v]) /\ Single(buyerEntries'[v])
    <2> SUFFICES ASSUME NEW v \in Buyers
                 PROVE  Chain(buyerEntries'[v], buyerBalance'[v]) /\ Single(buyerEntries'[v])
      OBVIOUS
    <2>1. Chain(buyerEntries[v], buyerBalance[v]) /\ Single(buyerEntries[v])
      BY ShopByAccount DEF ShopInv
    <2>2. CASE v = u
      BY <1>4, <1>6, <2>2
    <2>3. CASE v # u
      BY <1>6, <2>1, <2>3
    <2> QED BY <2>2, <2>3
  <1>8. Shop!BalanceIsItsEntries' /\ Shop!OneEntryPerSource'
    BY <1>7, ShopByAccount
  <1> QED BY <1>2, <1>4, <1>6, <1>8 DEF ShopHasEarned

(* A payment of what is still pending, which has no entry yet.             *)
LEMMA ShopPaymentKeeps ==
    ASSUME ShopAssumptions, ShopInv, NEW w \in Workers, Shop!CommitPayment(w)
    PROVE  ShopInv' /\ ShopFinal /\ ShopSold
  <1> PICK o : o = commerceDoing[w].order
    OBVIOUS
  <1>0. o \in DOMAIN shopOrders /\ DOMAIN shopOrders \subseteq Buyers \X Keys
    BY DEF Shop!CommitPayment, Shop!StillPending, Shop!InStatus, ShopInv, Shop!TypeOK
  <1> PICK u \in Buyers, k \in Keys : o = <<u, k>>
    BY <1>0
  <1> PICK points : points = Shop!PointsFor(shopOrders[o].items)
    OBVIOUS
  <1> PICK row : row = [shopOrders[o] EXCEPT !.status = "PAID"]
    OBVIOUS
  <1>1. /\ commerceDoing[w].op = "pay" /\ o \in Shop!InStatus("PENDING_PAYMENT")
        /\ shopOrders' = [shopOrders EXCEPT ![o] = row]
        /\ Shop!Award(u, k, points)
        /\ commerceDoing' = [commerceDoing EXCEPT ![w] = Shop!Idle]
        /\ UNCHANGED <<buyerLock, carts, productStock>>
    BY DEF Shop!CommitPayment, Shop!StillPending, Shop!End, Shop!Continue
  <1>2. o \in DOMAIN shopOrders /\ shopOrders[o].status = "PENDING_PAYMENT"
    BY <1>1 DEF Shop!InStatus
  <1>3. shopOrders \in [DOMAIN shopOrders -> Shop!OrderRow] /\ shopOrders[o] \in Shop!OrderRow
    BY <1>2 DEF ShopInv, ShopOrdersFit
  <1>4. row \in Shop!OrderRow /\ row.items = shopOrders[o].items /\ row.status = "PAID"
    BY <1>3 DEF Shop!OrderRow
  <1>5. /\ shopOrders' \in [DOMAIN shopOrders -> Shop!OrderRow]
           /\ DOMAIN shopOrders' = DOMAIN shopOrders
        /\ \A x \in DOMAIN shopOrders :
             /\ shopOrders'[x].items = shopOrders[x].items
             /\ shopOrders'[x].status = IF x = o THEN "PAID" ELSE shopOrders[x].status
    BY <1>1, <1>2, <1>3, <1>4
  <1>6. Shop!InStatus("PAID")' = Shop!InStatus("PAID") \cup {o} /\ o \notin Shop!InStatus("PAID")
        /\ Shop!InStatus("PENDING_PAYMENT")' = Shop!InStatus("PENDING_PAYMENT") \ {o}
    BY <1>2, <1>5 DEF Shop!InStatus
  <1>7. points \in Nat
    BY <1>3 DEF ShopAssumptions, Shop!PricesAssumption, Shop!OrderRow
  <1>8. ShopEarned(buyerEntries, Shop!InStatus("PAID"), shopOrders)
    BY ShopPaidAreEarned DEF ShopInv
  <1>9. \A i \in DOMAIN buyerEntries[u] : buyerEntries[u][i].source # k
    BY <1>2, <1>6, <1>8 DEF ShopEarned
  <1>10. Shop!Post(u, "EARN", k, points)
    BY <1>1, <1>9 DEF Shop!Award, Shop!Recorded
  <1>11. /\ buyerBalance' \in [Buyers -> Nat] /\ buyerEntries' \in [Buyers -> Seq(Shop!EntryRow(Keys))]
         /\ Shop!BalanceIsItsEntries' /\ Shop!OneEntryPerSource'
         /\ \A v \in Buyers \ {u} : buyerEntries'[v] = buyerEntries[v]
         /\ \A i \in DOMAIN buyerEntries[u] :
              i \in DOMAIN buyerEntries'[u] /\ buyerEntries'[u][i] = buyerEntries[u][i]
         /\ \E n \in DOMAIN buyerEntries'[u] :
              /\ buyerEntries'[u][n].source = k /\ buyerEntries'[u][n].delta = points
              /\ \A i \in DOMAIN buyerEntries'[u] : i # n => i \in DOMAIN buyerEntries[u]
    <2>1. ShopUnearned(u, k)
      BY <1>9 DEF ShopUnearned
    <2>2. ShopHasEarned(u, k, points)
      BY ONLY ShopInv, u \in Buyers, k \in Keys, <1>7, <1>10, <2>1, ShopPostKeeps
    <2> QED BY <2>2 DEF ShopHasEarned
  <1>12. Shop!Idle \in Shop!Request
    BY DEF Shop!Request
  <1>13. Shop!TypeOK'
    BY <1>1, <1>5, <1>11, <1>12 DEF ShopInv, Shop!TypeOK, Shop!AccountsTypeOK
  <1>14. ShopOrdersFit' /\ ShopCheckoutKnowsCart'
    <2>1. commerceDoing'[w] = Shop!Idle /\ \A v \in Workers \ {w} : commerceDoing'[v] = commerceDoing[v]
      BY <1>1 DEF ShopInv, Shop!TypeOK
    <2> QED BY <1>1, <1>5, <2>1 DEF ShopInv, ShopOrdersFit, ShopCheckoutKnowsCart, Shop!Idle
  <1>15. Shop!StockExact'
    <2>1. ShopActive' = ShopActive /\ ShopActive \subseteq DOMAIN shopOrders
      BY <1>1, <1>6 DEF ShopActive, Shop!InStatus
    <2>2. \A p : ShopUnitsIn(shopOrders', p, ShopActive) = ShopUnitsIn(shopOrders, p, ShopActive)
      <3> SUFFICES ASSUME NEW p PROVE ShopUnitsIn(shopOrders', p, ShopActive) =
                            ShopUnitsIn(shopOrders, p, ShopActive)
        OBVIOUS
      <3> QED BY <1>5, <2>1, ShopSameUnits
    <2> QED BY <1>1, <2>1, <2>2, ShopUnitsAreUnitsIn DEF ShopInv, Shop!StockExact, ShopActive
  <1>16. Shop!PaidOrdersEarned'
    <2>1. \A x \in Shop!InStatus("PAID") : shopOrders'[x].items = shopOrders[x].items
      BY <1>5 DEF Shop!InStatus
    <2>2. ShopEarned(buyerEntries, Shop!InStatus("PAID"), shopOrders')
      BY <1>8, <2>1, ShopEarnedStays
    <2>3. points = Shop!PointsFor(shopOrders'[o].items)
      BY <1>2, <1>5
    <2> PICK g : g = shopOrders'
      OBVIOUS
    <2>4. ShopEarned(buyerEntries', Shop!InStatus("PAID") \cup {o}, g)
      <3> SUFFICES ASSUME NEW v \in Buyers
                   PROVE  /\ \A i \in DOMAIN buyerEntries'[v] :
                               <<v, buyerEntries'[v][i].source>> \in Shop!InStatus("PAID") \cup {o}
                          /\ \A x \in Shop!InStatus("PAID") \cup {o} : x[1] = v =>
                               \E i \in DOMAIN buyerEntries'[v] :
                                 /\ buyerEntries'[v][i].source = x[2]
                                 /\ buyerEntries'[v][i].delta = Shop!PointsFor(g[x].items)
        BY DEF ShopEarned
      <3>1. /\ \A i \in DOMAIN buyerEntries[v] :
                 <<v, buyerEntries[v][i].source>> \in Shop!InStatus("PAID")
            /\ \A x \in Shop!InStatus("PAID") : x[1] = v =>
                 \E i \in DOMAIN buyerEntries[v] :
                   buyerEntries[v][i].source = x[2]
                   /\ buyerEntries[v][i].delta = Shop!PointsFor(g[x].items)
        BY <2>2 DEF ShopEarned
      <3>2. CASE v # u
        <4>1. buyerEntries'[v] = buyerEntries[v]
          BY <1>11, <3>2
        <4>2. \A x \in Shop!InStatus("PAID") \cup {o} : x[1] = v => x \in Shop!InStatus("PAID")
          BY <3>2
        <4> QED BY <3>1, <4>1, <4>2
      <3>3. CASE v = u
        <4>1. PICK n \in DOMAIN buyerEntries'[u] :
                /\ buyerEntries'[u][n].source = k /\ buyerEntries'[u][n].delta = points
                /\ \A i \in DOMAIN buyerEntries'[u] : i # n => i \in DOMAIN buyerEntries[u]
          BY <1>11
        <4>2. \A i \in DOMAIN buyerEntries[u] : i \in DOMAIN buyerEntries'[u]
                /\ buyerEntries'[u][i] = buyerEntries[u][i]
          BY <1>11
        <4>3. ASSUME NEW i \in DOMAIN buyerEntries'[u]
              PROVE  <<u, buyerEntries'[u][i].source>> \in Shop!InStatus("PAID") \cup {o}
          <5>1. CASE i = n
            BY <4>1, <5>1
          <5>2. CASE i # n
            BY <3>1, <3>3, <4>1, <4>2, <5>2
          <5> QED BY <5>1, <5>2
        <4>4. ASSUME NEW x \in Shop!InStatus("PAID") \cup {o}, x[1] = u
              PROVE  \E i \in DOMAIN buyerEntries'[u] :
                       /\ buyerEntries'[u][i].source = x[2]
                       /\ buyerEntries'[u][i].delta = Shop!PointsFor(g[x].items)
          <5>1. CASE x = o
            BY <2>3, <4>1, <5>1
          <5>2. CASE x \in Shop!InStatus("PAID")
            <6>1. PICK i \in DOMAIN buyerEntries[u] :
                    buyerEntries[u][i].source = x[2]
                    /\ buyerEntries[u][i].delta = Shop!PointsFor(g[x].items)
              BY <3>1, <3>3, <4>4, <5>2
            <6> QED BY <4>2, <6>1
          <5> QED BY <5>1, <5>2
        <4> QED BY <3>3, <4>3, <4>4
      <3> QED BY <3>2, <3>3
    <2> QED BY <1>6, <2>4, ShopPaidAreEarned
  <1>17. ShopFinal /\ ShopSold
    BY <1>1, <1>2, <1>5 DEF ShopFinal, ShopSold
  <1> QED BY <1>11, <1>13, <1>14, <1>15, <1>16, <1>17 DEF ShopInv

(* Every step keeps the invariant and respects orders and carts. *)
LEMMA ShopStepKeeps ==
    ASSUME ShopAssumptions, ShopInv, [Shop!Next]_(Shop!vars)
    PROVE  ShopInv' /\ ShopFinal /\ ShopSold
  <1>2. CASE UNCHANGED Shop!vars
    <2>1. UNCHANGED <<buyerBalance, buyerEntries, buyerLock, carts, productStock, shopOrders,
            commerceDoing>>
      BY <1>2 DEF Shop!vars
    <2>2. Shop!TypeOK'
      BY <2>1 DEF ShopInv, Shop!TypeOK, Shop!AccountsTypeOK
    <2>3. ShopOrdersFit' /\ Shop!StockExact' /\ Shop!BalanceIsItsEntries' /\ Shop!OneEntryPerSource'
          /\ Shop!PaidOrdersEarned'
      BY <2>1, <2>2, ShopOrdersStay DEF Shop!accounts, ShopInv, ShopOrdersFit
    <2>4. ShopCheckoutKnowsCart'
      BY <2>1 DEF ShopInv, ShopCheckoutKnowsCart
    <2> QED BY <2>1, <2>2, <2>3, <2>4 DEF ShopInv, ShopFinal, ShopSold
  <1>3. ASSUME NEW w \in Workers,
               \/ \E u \in Buyers, p \in Products :
                    \/ \E n \in 1 .. MaxLine : Shop!ReadToAdd(w, u, p, n)
                         \/ Shop!ReadToUpdate(w, u, p, n)
                    \/ Shop!ReadToRemove(w, u, p)
               \/ \E u \in Buyers, k \in Keys : Shop!LockCart(w, u, k)
               \/ \E o \in DOMAIN shopOrders : Shop!ReadToPay(w, o)
               \/ Shop!SelectDue(w) \/ Shop!FlushLine(w) \/ Shop!Rollback(w)
        PROVE  ShopInv' /\ ShopFinal /\ ShopSold
    <2>1. ShopInv'
      BY <1>3, ShopRequestsBegin
    <2>2. shopOrders' = shopOrders
      BY <1>3 DEF Shop!ReadToAdd, Shop!ReadToUpdate, Shop!ReadToRemove, Shop!LockCart,
         Shop!ReadToPay, Shop!SelectDue, Shop!FlushLine, Shop!Rollback
    <2> QED BY <2>1, <2>2 DEF ShopFinal, ShopSold
  <1>4. ASSUME NEW w \in Workers, Shop!Commit(w)
        PROVE  ShopInv' /\ ShopFinal /\ ShopSold
    <2>1. CASE Shop!CommitAdd(w) \/ Shop!CommitUpdate(w) \/ Shop!CommitRemove(w)
      <3>1. shopOrders' = shopOrders
        BY <2>1 DEF Shop!CommitAdd, Shop!CommitUpdate, Shop!CommitRemove
      <3> QED BY <2>1, <3>1, ShopEditsKeep DEF ShopFinal, ShopSold
    <2> QED BY <1>4, <2>1, ShopCheckoutKeeps, ShopSweepKeeps, ShopPaymentKeeps DEF Shop!Commit
  <1>5. CASE Shop!Next
    <2>1. CASE \E o \in DOMAIN shopOrders : Shop!OrderLapses(o)
      BY <2>1, ShopLapseKeeps
    <2>2. CASE \E w \in Workers : Shop!Commit(w)
      BY <1>4, <2>2
    <2>3. CASE \E w \in Workers :
                 \/ \E u \in Buyers, p \in Products :
                      \/ \E n \in 1 .. MaxLine : Shop!ReadToAdd(w, u, p, n)
                           \/ Shop!ReadToUpdate(w, u, p, n)
                      \/ Shop!ReadToRemove(w, u, p)
                 \/ \E u \in Buyers, k \in Keys : Shop!LockCart(w, u, k)
                 \/ \E o \in DOMAIN shopOrders : Shop!ReadToPay(w, o)
                 \/ Shop!SelectDue(w) \/ Shop!FlushLine(w) \/ Shop!Rollback(w)
      BY <1>3, <2>3
    <2> QED BY <1>5, <2>1, <2>2, <2>3 DEF Shop!Next
  <1> QED BY <1>2, <1>5

(* The invariant holds in every behaviour. *)
THEOREM ShopInvariant == ASSUME ShopAssumptions PROVE Shop!Spec => []ShopInv
  <1>1. Shop!Init => ShopInv
    <2> SUFFICES ASSUME Shop!Init PROVE ShopInv
      OBVIOUS
    <2>1. DOMAIN shopOrders = {} /\ shopOrders \in [{} -> Shop!OrderRow]
      BY DEF Shop!Init
    <2>2. \A u \in Buyers : buyerEntries[u] = <<>> /\ buyerBalance[u] = 0
      BY DEF Shop!Init, Shop!AccountsInit
    <2>3. Shop!TypeOK
      <3>1. Shop!Idle \in Shop!Request /\ <<>> \in Seq(Shop!EntryRow(Keys))
        BY DEF Shop!Request
      <3> QED BY <2>1, <3>1 DEF Shop!Init, Shop!AccountsInit, Shop!TypeOK, Shop!AccountsTypeOK,
                 Shop!EmptyCart, Shop!Lines, ShopAssumptions, Shop!StockAssumption
    <2>4. ShopOrdersFit /\ ShopCheckoutKnowsCart
      BY <2>1 DEF Shop!Init, ShopOrdersFit, ShopCheckoutKnowsCart, Shop!Idle
    <2>5. Shop!StockExact
      <3>1. ShopActive = {}
        BY <2>1 DEF ShopActive, Shop!InStatus
      <3>2. \A p \in Products : Shop!Units(p, ShopActive) = {}
        BY <3>1 DEF Shop!Units
      <3>3. Cardinality({}) = 0
        BY FS_EmptySet
      <3>4. \A p \in Products : productStock[p] + 0 = ProductStock[p]
        BY DEF Shop!Init, ShopAssumptions, Shop!StockAssumption
      <3> QED BY <3>2, <3>3, <3>4, ShopCounts DEF Shop!StockExact, ShopActive
    <2>6. Shop!BalanceIsItsEntries /\ Shop!OneEntryPerSource
      BY <2>2 DEF Shop!BalanceIsItsEntries, Shop!OneEntryPerSource, Shop!Before
    <2>7. Shop!PaidOrdersEarned
      <3>1. Shop!InStatus("PAID") = {} /\ \A u \in Buyers : DOMAIN buyerEntries[u] = {}
        BY <2>1, <2>2 DEF Shop!InStatus
      <3>2. ShopEarned(buyerEntries, Shop!InStatus("PAID"), shopOrders)
        BY <3>1 DEF ShopEarned
      <3> QED BY <3>2, ShopPaidAreEarned
    <2> QED BY <2>3, <2>4, <2>5, <2>6, <2>7 DEF ShopInv
  <1>2. ShopInv /\ [Shop!Next]_(Shop!vars) => ShopInv'
    BY ShopStepKeeps
  <1> QED BY <1>1, <1>2, PTL DEF Shop!Spec

(* Every unit is on the shelf or in one order that is paid or may be paid. *)
THEOREM ShopStockIsExact == ASSUME ShopAssumptions PROVE Shop!Spec => []Shop!StockExact
  <1>1. ShopInv => Shop!StockExact
    BY DEF ShopInv
  <1> QED BY <1>1, ShopInvariant, PTL

(* A buyer's balance is what the entries add up to, one for each source.   *)
THEOREM ShopAccountsAddUp ==
    ASSUME ShopAssumptions PROVE Shop!Spec => [](Shop!BalanceIsItsEntries /\ Shop!OneEntryPerSource)
  <1>1. ShopInv => Shop!BalanceIsItsEntries /\ Shop!OneEntryPerSource
    BY DEF ShopInv
  <1> QED BY <1>1, ShopInvariant, PTL

(* Paid orders have earned their points, once, and no others have.         *)
THEOREM PaymentsEarnOnce == ASSUME ShopAssumptions PROVE Shop!Spec => []Shop!PaidOrdersEarned
  <1>1. ShopInv => Shop!PaidOrdersEarned
    BY DEF ShopInv
  <1> QED BY <1>1, ShopInvariant, PTL

(* A paid order is never swept, an expired one never paid, and lines stay. *)
THEOREM OrdersStayFinal == ASSUME ShopAssumptions PROVE Shop!Spec => Shop!OrdersAreFinal
  <1>1. ShopInv /\ [Shop!Next]_(Shop!vars) =>
          [\A o \in DOMAIN shopOrders :
             /\ o \in DOMAIN shopOrders'
             /\ shopOrders'[o].items = shopOrders[o].items
             /\ shopOrders[o].status # "PENDING_PAYMENT" =>
                  shopOrders'[o].status = shopOrders[o].status]_(Shop!vars)
    BY ShopStepKeeps DEF ShopFinal
  <1> QED BY <1>1, ShopInvariant, PTL DEF Shop!Spec, Shop!OrdersAreFinal

(* A checkout sells the cart as it stands when it commits.                 *)
THEOREM CheckoutsSellCarts == ASSUME ShopAssumptions PROVE Shop!Spec => Shop!CheckoutSellsTheCart
  <1>1. ShopInv /\ [Shop!Next]_(Shop!vars) =>
          [\A o \in DOMAIN shopOrders' \ DOMAIN shopOrders :
             /\ shopOrders'[o].items = carts[o[1]]
             /\ carts'[o[1]] = Shop!EmptyCart]_(Shop!vars)
    BY ShopStepKeeps DEF ShopSold
  <1> QED BY <1>1, ShopInvariant, PTL DEF Shop!Spec, Shop!CheckoutSellsTheCart

-----------------------------------------------------------------------------
(***************************************************************************)
(* Proofs about RefreshFamilies, for any users, requests and number of     *)
(* sessions.                                                               *)
(*                                                                         *)
(* The argument rests on one lock.  Whoever marks a session as consumed    *)
(* holds its row until the mark and the next session are committed         *)
(* (FamilyOneHolder), and finds it there as it was, for a revocation waits *)
(* for the row (FamilyHeldIsUsed).  So a family has at most one session    *)
(* that was not consumed (FamilyOneUnconsumed), and nothing was renewed    *)
(* from that one.                                                          *)
(***************************************************************************)

(* The ids a request works on are ids of sessions. *)
FamilyRequestsKnowIds ==
    \A w \in Workers :
        /\ sessionsDoing[w].op = "rotate" => sessionsDoing[w].session \in Family!Ids
        /\ sessionsDoing[w].op = "revoke" => sessionsDoing[w].rows \subseteq Family!Ids
           /\ sessionsDoing[w].consumes \in Family!Ids \cup {0}

(* A row has been updated by at most one of the open transactions. *)
FamilyOneHolder == \A v, w \in Workers, s \in Family!Ids : Family!Holds(v, s) /\ Family!Holds(w, s) =>
  v = w

(* A session that is being renewed is neither consumed nor revoked, until  *)
(* the renewal commits.                                                    *)
FamilyHeldIsUsed ==
    \A w \in Workers, s \in Family!Ids :
        Family!Holds(w, s) => ~ sessions[s].consumed /\ ~ sessions[s].revoked

(* Of a family at most the last session was not consumed. *)
FamilyOneUnconsumed ==
    \A s, t \in Family!Ids :
        Family!FamilyOf(s) = Family!FamilyOf(t) /\ ~ sessions[s].consumed /\ ~ sessions[t].consumed =>
          s = t

(* A family is named by a session that is not later than its members. *)
FamiliesAreNamed == \A s \in Family!Ids : Family!FamilyOf(s) \in 1 .. s

FamilyInv ==
    /\ Family!TypeOK
    /\ FamilyRequestsKnowIds
    /\ FamilyOneHolder
    /\ FamilyHeldIsUsed
    /\ FamilyOneUnconsumed
    /\ FamiliesAreNamed
    /\ Family!FamilyIsAChain

(* What a step does to the table: it leaves it, adds the first session of  *)
(* a family, changes marks, or renews a session.                           *)
FamilyAdded(row) == sessions' = Append(sessions, row)

FamilyStarts == \E u \in Users : FamilyAdded(Family!Session(u, Family!NewId, 0))

FamilyMarks ==
    /\ DOMAIN sessions' = Family!Ids
    /\ \A s \in Family!Ids :
        /\ sessions'[s].user = sessions[s].user
        /\ sessions'[s].family = sessions[s].family
        /\ sessions'[s].parent = sessions[s].parent
        /\ sessions[s].consumed => sessions'[s].consumed

FamilyRenews(s) ==
    sessions' = Append([sessions EXCEPT ![s].consumed = TRUE],
                       Family!Session(sessions[s].user, Family!FamilyOf(s), s))

(* Ids are the numbers up to the length, and rows are rows. *)
LEMMA FamilyRows ==
    ASSUME Family!TypeOK
    PROVE  /\ Len(sessions) \in Nat
           /\ Family!Ids = 1 .. Len(sessions)
           /\ Family!NewId \notin Family!Ids
           /\ Family!NewId \in Nat \ {0}
           /\ \A s \in Family!Ids : sessions[s] \in Family!SessionRow /\ s \in Nat \ {0}
  BY DEF Family!TypeOK, Family!Ids, Family!NewId

(* The rows after one has been added. *)
LEMMA FamilyAddedRows ==
    ASSUME Family!TypeOK, NEW row \in Family!SessionRow, FamilyAdded(row)
    PROVE  /\ sessions' \in Seq(Family!SessionRow)
           /\ Family!Ids' = Family!Ids \cup {Family!NewId}
           /\ sessions'[Family!NewId] = row
           /\ \A s \in Family!Ids : sessions'[s] = sessions[s]
  <1> DEFINE q == sessions
  <1>1. q \in Seq(Family!SessionRow)
    BY DEF Family!TypeOK
  <1> HIDE DEF q
  <1>2. /\ Append(q, row) \in Seq(Family!SessionRow)
        /\ DOMAIN Append(q, row) = DOMAIN q \cup {Len(q) + 1}
        /\ Append(q, row)[Len(q) + 1] = row
        /\ \A s \in DOMAIN q : Append(q, row)[s] = q[s]
    BY <1>1
  <1> QED BY <1>2 DEF q, FamilyAdded, Family!Ids, Family!NewId

(* The rows after a renewal. *)
LEMMA FamilyRenewedRows ==
    ASSUME Family!TypeOK, NEW s \in Family!Ids, FamilyRenews(s)
    PROVE  /\ sessions' \in Seq(Family!SessionRow)
           /\ Family!Ids' = Family!Ids \cup {Family!NewId}
           /\ sessions'[Family!NewId] = Family!Session(sessions[s].user, Family!FamilyOf(s), s)
           /\ sessions'[s] = [sessions[s] EXCEPT !.consumed = TRUE]
           /\ \A t \in Family!Ids \ {s} : sessions'[t] = sessions[t]
  <1> DEFINE new == [sessions[s] EXCEPT !.consumed = TRUE]
             q == [sessions EXCEPT ![s].consumed = TRUE]
             row == Family!Session(sessions[s].user, Family!FamilyOf(s), s)
  <1>1. sessions[s] \in Family!SessionRow /\ s \in Nat \ {0} /\ sessions \in Seq(Family!SessionRow)
        /\ s \in DOMAIN sessions
    BY FamilyRows DEF Family!TypeOK, Family!Ids
  <1>2. new \in Family!SessionRow /\ row \in Family!SessionRow
    BY <1>1 DEF Family!SessionRow, Family!Session, Family!FamilyOf
  <1>3. q = [sessions EXCEPT ![s] = new]
    OBVIOUS
  <1>4. /\ q \in Seq(Family!SessionRow) /\ Len(q) = Len(sessions) /\ DOMAIN q = DOMAIN sessions
        /\ q[s] = new /\ \A t \in DOMAIN sessions \ {s} : q[t] = sessions[t]
    <2> HIDE DEF new, q
    <2> QED BY <1>1, <1>2, <1>3
  <1>5. sessions' = Append(q, row)
    BY DEF FamilyRenews
  <1> HIDE DEF q, row, new
  <1>6. /\ Append(q, row) \in Seq(Family!SessionRow)
        /\ DOMAIN Append(q, row) = DOMAIN q \cup {Len(q) + 1}
        /\ Append(q, row)[Len(q) + 1] = row
        /\ \A t \in DOMAIN q : Append(q, row)[t] = q[t]
    BY <1>2, <1>4
  <1>7. s \in DOMAIN q /\ sessions'[s] = new
    BY <1>1, <1>4, <1>5, <1>6
  <1>8. \A t \in Family!Ids \ {s} : sessions'[t] = sessions[t]
    BY <1>4, <1>5, <1>6 DEF Family!Ids
  <1> QED BY <1>4, <1>5, <1>6, <1>7, <1>8 DEF Family!Ids, Family!NewId, row, new

Families == FamilyOneUnconsumed /\ FamiliesAreNamed /\ Family!FamilyIsAChain

(* A new family has one session, whose name nobody had. *)
LEMMA FamilyStartKeeps ==
    ASSUME Family!TypeOK, Families, NEW u \in Users, FamilyAdded(Family!Session(u, Family!NewId, 0))
    PROVE  Families'
  <1> DEFINE n == Family!NewId
  <1>1. Family!Session(u, n, 0) \in Family!SessionRow
    BY FamilyRows DEF Family!Session, Family!SessionRow
  <1>2. /\ Family!Ids' = Family!Ids \cup {n} /\ sessions'[n] = Family!Session(u, n, 0)
        /\ \A s \in Family!Ids : sessions'[s] = sessions[s]
        /\ n \notin Family!Ids /\ n = Len(sessions) + 1 /\ Family!Ids = 1 .. Len(sessions)
           /\ Len(sessions) \in Nat
        /\ \A s \in Family!Ids : sessions[s] \in Family!SessionRow
    BY <1>1, FamilyRows, FamilyAddedRows DEF Family!NewId
  <1>3. \A s \in Family!Ids : sessions[s].family \in 1 .. s /\ sessions[s].family # n
    BY <1>2 DEF Families, FamiliesAreNamed, Family!FamilyOf
  <1>4. sessions'[n].family = n /\ sessions'[n].parent = 0
    BY <1>2 DEF Family!Session
  <1> HIDE DEF n
  <1>5. FamilyOneUnconsumed'
    BY <1>2, <1>3, <1>4 DEF Families, FamilyOneUnconsumed, Family!FamilyOf
  <1>6. FamiliesAreNamed'
    BY <1>2, <1>3, <1>4 DEF FamiliesAreNamed, Family!FamilyOf
  <1>7. Family!FamilyIsAChain'
    <2> SUFFICES ASSUME NEW s \in Family!Ids', sessions'[s].parent # 0
                 PROVE  LET p == sessions'[s].parent
                        IN  /\ p < s /\ sessions'[p].consumed
                            /\ sessions'[p].family = sessions'[s].family
                            /\ sessions'[p].user = sessions'[s].user
                            /\ \A t \in Family!Ids' : sessions'[t].parent = p => t = s
      <3>1. \A s \in Family!Ids' : sessions'[s].parent = 0 => sessions'[s].family = s
        BY <1>2, <1>4 DEF Families, Family!FamilyIsAChain, Family!FamilyOf
      <3> QED BY <3>1 DEF Family!FamilyIsAChain, Family!FamilyOf
    <2> DEFINE p == sessions[s].parent
    <2>1. s \in Family!Ids /\ sessions'[s] = sessions[s] /\ p # 0 /\ p \in Nat
      BY <1>2, <1>4 DEF Family!SessionRow
    <2>2. /\ p < s /\ sessions[p].consumed /\ sessions[p].family = sessions[s].family
          /\ sessions[p].user = sessions[s].user
          /\ \A t \in Family!Ids : sessions[t].parent = p => t = s
      BY <2>1 DEF Families, Family!FamilyIsAChain, Family!FamilyOf
    <2>3. p \in Family!Ids /\ sessions'[p] = sessions[p]
      BY <1>2, <2>1, <2>2
    <2>4. \A t \in Family!Ids' : sessions'[t].parent = p => t = s
      BY <1>2, <1>4, <2>1, <2>2
    <2> HIDE DEF p
    <2> QED BY <2>1, <2>2, <2>3, <2>4 DEF p
  <1> QED BY <1>5, <1>6, <1>7 DEF Families

(* Marks renew nothing. *)
LEMMA FamilyMarksKeep ==
    ASSUME Family!TypeOK, Families, FamilyMarks
    PROVE  Families'
  <1>1. /\ Family!Ids' = Family!Ids /\ Family!Ids = 1 .. Len(sessions) /\ Len(sessions) \in Nat
        /\ \A s \in Family!Ids : sessions[s] \in Family!SessionRow
    BY FamilyRows DEF FamilyMarks, Family!Ids
  <1>2. FamilyOneUnconsumed' /\ FamiliesAreNamed'
    BY <1>1 DEF Families, FamilyMarks, FamilyOneUnconsumed, FamiliesAreNamed, Family!FamilyOf
  <1>3. Family!FamilyIsAChain'
    <2> SUFFICES ASSUME NEW s \in Family!Ids
                 PROVE  LET p == sessions'[s].parent
                        IN  IF p = 0 THEN sessions'[s].family = s
                            ELSE /\ p < s /\ sessions'[p].consumed
                                 /\ sessions'[p].family = sessions'[s].family
                                 /\ sessions'[p].user = sessions'[s].user
                                 /\ \A t \in Family!Ids : sessions'[t].parent = p => t = s
      BY <1>1 DEF Family!FamilyIsAChain, Family!FamilyOf
    <2> DEFINE p == sessions[s].parent
    <2>1. sessions'[s].parent = p /\ sessions'[s].family = sessions[s].family
          /\ sessions'[s].user = sessions[s].user /\ p \in Nat
      BY <1>1 DEF FamilyMarks, Family!SessionRow
    <2>2. IF p = 0 THEN sessions[s].family = s
          ELSE /\ p < s /\ sessions[p].consumed /\ sessions[p].family = sessions[s].family
               /\ sessions[p].user = sessions[s].user
               /\ \A t \in Family!Ids : sessions[t].parent = p => t = s
      BY DEF Families, Family!FamilyIsAChain, Family!FamilyOf
    <2>3. p # 0 => p \in Family!Ids
      BY <1>1, <2>1, <2>2
    <2>4. p # 0 => /\ sessions'[p].consumed /\ sessions'[p].family = sessions[p].family
                   /\ sessions'[p].user = sessions[p].user
      BY <2>2, <2>3 DEF FamilyMarks
    <2>5. \A t \in Family!Ids : sessions'[t].parent = sessions[t].parent
      BY DEF FamilyMarks
    <2> HIDE DEF p
    <2> QED BY <2>1, <2>2, <2>4, <2>5
  <1> QED BY <1>2, <1>3 DEF Families

(* What is renewed was the one that was not consumed, so nothing else is,  *)
(* and nothing was renewed from it before.                                 *)
LEMMA FamilyRenewalKeeps ==
    ASSUME Family!TypeOK, Families, NEW s \in Family!Ids, ~ sessions[s].consumed, FamilyRenews(s)
    PROVE  Families'
  <1> DEFINE n == Family!NewId
             f == sessions[s].family
  <1>1. /\ Family!Ids' = Family!Ids \cup {n}
        /\ sessions'[n].family = f /\ sessions'[n].parent = s
        /\ sessions'[n].user = sessions[s].user
        /\ \A t \in Family!Ids : /\ sessions'[t].family = sessions[t].family
                                 /\ sessions'[t].parent = sessions[t].parent
                                 /\ sessions'[t].user = sessions[t].user
                                 /\ sessions'[t].consumed = (t = s \/ sessions[t].consumed)
    <2>1. /\ Family!Ids' = Family!Ids \cup {n}
          /\ sessions'[n] = Family!Session(sessions[s].user, f, s)
          /\ sessions'[s] = [sessions[s] EXCEPT !.consumed = TRUE]
          /\ \A t \in Family!Ids \ {s} : sessions'[t] = sessions[t]
      BY FamilyRenewedRows DEF Family!FamilyOf
    <2>2. \A t \in Family!Ids : sessions[t] \in Family!SessionRow
      BY FamilyRows
    <2>3. /\ sessions'[s].family = f /\ sessions'[s].parent = sessions[s].parent
          /\ sessions'[s].user = sessions[s].user /\ sessions'[s].consumed = TRUE
      BY <2>1, <2>2 DEF Family!SessionRow
    <2>4. sessions'[n].family = f /\ sessions'[n].parent = s /\ sessions'[n].user = sessions[s].user
      BY <2>1 DEF Family!Session
    <2> HIDE DEF n
    <2> QED BY <2>1, <2>2, <2>3, <2>4, ZenonT(60) DEF Family!SessionRow
  <1>2. /\ n \notin Family!Ids /\ n = Len(sessions) + 1 /\ Family!Ids = 1 .. Len(sessions)
           /\ Len(sessions) \in Nat
        /\ \A t \in Family!Ids : sessions[t] \in Family!SessionRow
    BY FamilyRows DEF Family!NewId
  <1>3. \A t \in Family!Ids : sessions[t].family = f /\ ~ sessions[t].consumed => t = s
    BY DEF Families, FamilyOneUnconsumed, Family!FamilyOf
  <1>4. \A t \in Family!Ids : sessions[t].parent # s
    BY <1>2 DEF Families, Family!FamilyIsAChain, Family!FamilyOf
  <1>5. f \in 1 .. s
    BY DEF Families, FamiliesAreNamed, Family!FamilyOf
  <1> HIDE DEF n, f
  <1>6. FamilyOneUnconsumed'
    <2> SUFFICES ASSUME NEW a \in Family!Ids', NEW b \in Family!Ids',
                          sessions'[a].family = sessions'[b].family,
                        ~ sessions'[a].consumed, ~ sessions'[b].consumed
                 PROVE  a = b
      BY DEF FamilyOneUnconsumed, Family!FamilyOf
    <2>1. CASE a = n /\ b \in Family!Ids
      BY <2>1, <1>1, <1>3
    <2>2. CASE b = n /\ a \in Family!Ids
      BY <2>2, <1>1, <1>3
    <2>3. CASE a \in Family!Ids /\ b \in Family!Ids
      BY <2>3, <1>1 DEF Families, FamilyOneUnconsumed, Family!FamilyOf
    <2> QED BY <2>1, <2>2, <2>3, <1>1
  <1>7. FamiliesAreNamed'
    BY <1>1, <1>2, <1>5 DEF Families, FamiliesAreNamed, Family!FamilyOf
  <1>8. Family!FamilyIsAChain'
    <2> SUFFICES ASSUME NEW t \in Family!Ids'
                 PROVE  LET p == sessions'[t].parent
                        IN  IF p = 0 THEN sessions'[t].family = t
                            ELSE /\ p < t /\ sessions'[p].consumed
                                 /\ sessions'[p].family = sessions'[t].family
                                 /\ sessions'[p].user = sessions'[t].user
                                 /\ \A o \in Family!Ids' : sessions'[o].parent = p => o = t
      BY DEF Family!FamilyIsAChain, Family!FamilyOf
    <2>1. CASE t = n
      <3>1. sessions'[t].parent = s /\ s # 0 /\ s < t
        BY <2>1, <1>1, <1>2
      <3>2. /\ sessions'[s].consumed /\ sessions'[s].family = sessions'[t].family
            /\ sessions'[s].user = sessions'[t].user
        BY <2>1, <1>1 DEF f
      <3>3. \A o \in Family!Ids' : sessions'[o].parent = s => o = t
        BY <2>1, <1>1, <1>4
      <3> QED BY <3>1, <3>2, <3>3
    <2>2. CASE t \in Family!Ids
      <3> DEFINE p == sessions[t].parent
      <3>1. IF p = 0 THEN sessions[t].family = t
            ELSE /\ p < t /\ sessions[p].consumed /\ sessions[p].family = sessions[t].family
                 /\ sessions[p].user = sessions[t].user
                 /\ \A o \in Family!Ids : sessions[o].parent = p => o = t
        BY <2>2 DEF Families, Family!FamilyIsAChain, Family!FamilyOf
      <3>2. p \in Nat /\ (p # 0 => p \in Family!Ids)
        BY <1>2, <2>2, <3>1 DEF Family!SessionRow
      <3>3. p # s
        BY <1>4, <2>2
      <3>4. sessions'[t].parent = p /\ sessions'[t].family = sessions[t].family
            /\ sessions'[t].user = sessions[t].user
        BY <1>1, <2>2
      <3>5. p # 0 => /\ sessions'[p].consumed /\ sessions'[p].family = sessions[p].family
                     /\ sessions'[p].user = sessions[p].user
        BY <1>1, <3>1, <3>2
      <3>6. \A o \in Family!Ids' : sessions'[o].parent = p =>
              (o = n /\ p = s) \/ (o \in Family!Ids /\ sessions[o].parent = p)
        BY <1>1
      <3> HIDE DEF p
      <3> QED BY <3>1, <3>3, <3>4, <3>5, <3>6
    <2> QED BY <2>1, <2>2, <1>1
  <1> QED BY <1>6, <1>7, <1>8 DEF Families

(* The locks, as far as the requests are concerned. *)
FamilyRequests == FamilyRequestsKnowIds /\ FamilyOneHolder /\ FamilyHeldIsUsed

(* What a request may turn to: nothing it holds is held or marked.         *)
FamilyFresh(record) ==
    /\ record \in {Family!Idle} \cup [op : {"login"}, user : Users]
           \cup [op : {"rotate"}, session : Family!Ids]
           \cup [op : {"revoke"}, rows : SUBSET Family!Ids, consumes : Family!Ids \cup {0}]
    /\ \A s \in Family!Ids :
        ((record.op = "rotate" /\ record.session = s)
          \/ (record.op = "revoke" /\ record.consumes = s)) =>
            Family!Usable(s) /\ ~ Family!Locked(s)

(* A request begins, or ends, and the table stays. *)
LEMMA FamilyRequestMoves ==
    ASSUME Family!TypeOK, FamilyRequests, NEW w \in Workers, NEW record, FamilyFresh(record),
             Family!Continue(w, record),
           UNCHANGED sessions
    PROVE  FamilyRequests' /\ sessionsDoing' \in [Workers -> {Family!Idle}
                                                   \cup [op : {"login"}, user : Users]
                                                   \cup [op : {"rotate"}, session : Nat \ {0}]
                                                   \cup [op : {"revoke"}, rows :
                                                     SUBSET (Nat \ {0}), consumes : Nat]]
  <1>1. Family!Ids' = Family!Ids /\ \A s \in Family!Ids : s \in Nat \ {0}
    BY FamilyRows DEF Family!Ids
  <1>2. sessionsDoing'[w] = record /\ \A v \in Workers \ {w} : sessionsDoing'[v] = sessionsDoing[v]
    BY DEF Family!Continue, Family!TypeOK
  <1>3. record \in {Family!Idle} \cup [op : {"login"}, user : Users]
           \cup [op : {"rotate"}, session : Nat \ {0}]
           \cup [op : {"revoke"}, rows : SUBSET (Nat \ {0}), consumes : Nat]
    BY <1>1 DEF FamilyFresh
  <1>4. FamilyRequestsKnowIds'
    <2>1. /\ record.op = "rotate" => record.session \in Family!Ids
          /\ record.op = "revoke" => record.rows \subseteq Family!Ids
             /\ record.consumes \in Family!Ids \cup {0}
      BY DEF FamilyFresh, Family!Idle
    <2> QED BY <1>1, <1>2, <2>1 DEF FamilyRequestsKnowIds, FamilyRequests
  <1>5. \A v \in Workers \ {w}, s \in Family!Ids : Family!Holds(v, s)' = Family!Holds(v, s)
    BY <1>2 DEF Family!Holds
  <1>6. \A s \in Family!Ids : Family!Holds(w, s)' => Family!Usable(s) /\ ~ Family!Locked(s)
    BY <1>2 DEF Family!Holds, FamilyFresh
  <1>7. FamilyOneHolder'
    BY <1>1, <1>5, <1>6 DEF FamilyOneHolder, Family!Locked, FamilyRequests
  <1>8. FamilyHeldIsUsed'
    BY <1>1, <1>5, <1>6 DEF FamilyHeldIsUsed, Family!Usable, FamilyRequests
  <1> QED BY <1>3, <1>4, <1>7, <1>8 DEF FamilyRequests, Family!Continue, Family!TypeOK

(* A request ends and leaves the rows that others hold as they were.       *)
LEMMA FamilyRequestEnds ==
    ASSUME Family!TypeOK, FamilyRequests, NEW w \in Workers, Family!End(w),
             Family!Ids \subseteq Family!Ids', Family!TypeOK',
           \A v \in Workers \ {w}, s \in Family!Ids : Family!Holds(v, s) =>
               /\ sessions'[s].consumed = sessions[s].consumed
               /\ sessions'[s].revoked = sessions[s].revoked
    PROVE  FamilyRequests'
  <1>1. sessionsDoing'[w] = Family!Idle /\ \A v \in Workers \ {w} : sessionsDoing'[v] = sessionsDoing[v]
    BY DEF Family!End, Family!Continue, Family!TypeOK
  <1>2. FamilyRequestsKnowIds'
    BY <1>1 DEF FamilyRequestsKnowIds, FamilyRequests, Family!Idle
  <1>3. \A v \in Workers : \A s : Family!Holds(v, s)' =>
          v # w /\ Family!Holds(v, s) /\ (s # 0 => s \in Family!Ids)
    BY <1>1 DEF Family!Holds, Family!Idle, FamilyRequests, FamilyRequestsKnowIds
  <1>4. 0 \notin Family!Ids'
    BY DEF Family!TypeOK, Family!Ids
  <1>5. FamilyOneHolder'
    BY <1>3, <1>4 DEF FamilyOneHolder, FamilyRequests
  <1>6. FamilyHeldIsUsed'
    BY <1>3, <1>4 DEF FamilyHeldIsUsed, FamilyRequests
  <1> QED BY <1>2, <1>5, <1>6 DEF FamilyRequests

(* A request that begins or rolls back. *)
LEMMA FamilyBeginKeeps ==
    ASSUME FamilyInv, NEW w \in Workers, NEW record, FamilyFresh(record), Family!Continue(w, record),
           UNCHANGED <<accountState, sessions>>
    PROVE  FamilyInv'
  <1>1. Family!TypeOK' /\ FamilyRequests'
    BY FamilyRequestMoves DEF FamilyInv, FamilyRequests, Family!TypeOK
  <1>2. FamilyMarks
    BY DEF FamilyMarks, Family!Ids
  <1>3. Families'
    BY <1>2, FamilyMarksKeep DEF FamilyInv, Families
  <1> QED BY <1>1, <1>3 DEF FamilyInv, Families, FamilyRequests

LEMMA FamilyRegisterKeeps ==
    ASSUME FamilyInv, NEW u \in Users, Family!Register(u)
    PROVE  FamilyInv'
  <1>1. FamilyAdded(Family!Session(u, Family!NewId, 0))
        /\ Family!Session(u, Family!NewId, 0) \in Family!SessionRow
    BY FamilyRows DEF Family!Register, FamilyAdded, Family!Session, Family!SessionRow, FamilyInv
  <1>2. Family!TypeOK'
    BY <1>1, FamilyAddedRows DEF FamilyInv, Family!TypeOK, Family!Register, Family!AccountState
  <1>3. /\ Family!Ids \subseteq Family!Ids'
        /\ \A s \in Family!Ids : sessions'[s] = sessions[s]
        /\ 0 \notin Family!Ids'
    BY <1>1, <1>2, FamilyAddedRows DEF FamilyInv, Family!TypeOK, Family!Ids
  <1>4. \A w \in Workers : \A s : Family!Holds(w, s)' =>
          Family!Holds(w, s) /\ (s # 0 => s \in Family!Ids)
    BY DEF Family!Register, Family!Holds, FamilyInv, FamilyRequestsKnowIds
  <1>5. FamilyRequestsKnowIds'
    BY <1>3 DEF Family!Register, FamilyInv, FamilyRequestsKnowIds
  <1>6. FamilyOneHolder' /\ FamilyHeldIsUsed'
    BY <1>3, <1>4 DEF FamilyOneHolder, FamilyHeldIsUsed, FamilyInv
  <1>7. Families'
    BY <1>1, FamilyStartKeeps DEF FamilyInv, Families
  <1> QED BY <1>2, <1>5, <1>6, <1>7 DEF FamilyInv, Families

LEMMA FamilyLoginKeeps ==
    ASSUME FamilyInv, NEW w \in Workers, Family!CommitLogin(w)
    PROVE  FamilyInv'
  <1> PICK u \in Users : FamilyAdded(Family!Session(u, Family!NewId, 0))
    BY DEF Family!CommitLogin, FamilyAdded, FamilyInv, Family!TypeOK, Family!Idle
  <1>1. Family!Session(u, Family!NewId, 0) \in Family!SessionRow
    BY FamilyRows DEF Family!Session, Family!SessionRow, FamilyInv
  <1>2. /\ Family!Ids \subseteq Family!Ids'
        /\ \A s \in Family!Ids : sessions'[s] = sessions[s]
        /\ sessions' \in Seq(Family!SessionRow)
    BY <1>1, FamilyAddedRows DEF FamilyInv
  <1>3. Family!TypeOK'
    BY <1>2 DEF FamilyInv, Family!TypeOK, Family!CommitLogin, Family!End, Family!Continue
  <1>4. FamilyRequests'
    BY <1>2, <1>3, FamilyRequestEnds DEF FamilyInv, FamilyRequests, Family!CommitLogin
  <1>5. Families'
    BY <1>1, FamilyStartKeeps DEF FamilyInv, Families
  <1> QED BY <1>3, <1>4, <1>5 DEF FamilyInv, Families, FamilyRequests

LEMMA FamilyLapseKeeps ==
    ASSUME FamilyInv, NEW s \in Family!Ids, Family!Lapse(s)
    PROVE  FamilyInv' /\ \A t \in Family!Ids : /\ sessions'[t].revoked = sessions[t].revoked
                                              /\ sessions'[t].consumed = sessions[t].consumed
  <1>1. sessions \in [Family!Ids -> Family!SessionRow] /\ sessions \in Seq(Family!SessionRow)
    BY DEF FamilyInv, Family!TypeOK, Family!Ids
  <1>2. /\ Family!Ids' = Family!Ids
        /\ \A t \in Family!Ids : /\ sessions'[t] \in Family!SessionRow
                                 /\ sessions'[t].user = sessions[t].user
                                 /\ sessions'[t].family = sessions[t].family
                                 /\ sessions'[t].parent = sessions[t].parent
                                 /\ sessions'[t].consumed = sessions[t].consumed
                                 /\ sessions'[t].revoked = sessions[t].revoked
    BY <1>1 DEF Family!Lapse, Family!Ids, Family!SessionRow
  <1>3. sessions' \in Seq(Family!SessionRow)
    <2> DEFINE row == [sessions[s] EXCEPT !.lapsed = TRUE]
    <2>1. row \in Family!SessionRow
      BY <1>1 DEF Family!SessionRow
    <2>2. sessions' = [sessions EXCEPT ![s] = row]
      BY DEF Family!Lapse
    <2> HIDE DEF row
    <2> QED BY <1>1, <2>1, <2>2
  <1>4. Family!TypeOK'
    BY <1>3 DEF FamilyInv, Family!TypeOK, Family!Lapse
  <1>5. Families'
    <2>1. FamilyMarks
      BY <1>2 DEF FamilyMarks, Family!Ids
    <2> QED BY <2>1, FamilyMarksKeep DEF FamilyInv, Families
  <1>6. \A w \in Workers : \A t : Family!Holds(w, t)' = Family!Holds(w, t)
    BY DEF Family!Lapse, Family!Holds
  <1>7. FamilyRequestsKnowIds'
    BY <1>2 DEF Family!Lapse, FamilyInv, FamilyRequestsKnowIds
  <1>8. FamilyOneHolder' /\ FamilyHeldIsUsed'
    BY <1>2, <1>6 DEF FamilyOneHolder, FamilyHeldIsUsed, FamilyInv
  <1> QED BY <1>2, <1>4, <1>5, <1>7, <1>8 DEF FamilyInv, Families

LEMMA FamilyRotationKeeps ==
    ASSUME FamilyInv, NEW w \in Workers, Family!CommitRotation(w)
    PROVE  /\ FamilyInv'
           /\ \A t \in Family!Ids : /\ sessions'[t].revoked = sessions[t].revoked
                                    /\ sessions[t].revoked =>
                                         sessions'[t].consumed = sessions[t].consumed
  <1> DEFINE s == sessionsDoing[w].session
  <1>1. s \in Family!Ids /\ Family!Holds(w, s) /\ FamilyRenews(s) /\ Family!End(w)
    BY DEF Family!CommitRotation, Family!Holds, FamilyRenews, FamilyInv, FamilyRequestsKnowIds
  <1> HIDE DEF s
  <1>2. ~ sessions[s].consumed /\ ~ sessions[s].revoked
    BY <1>1 DEF FamilyInv, FamilyHeldIsUsed
  <1>3. /\ sessions' \in Seq(Family!SessionRow) /\ Family!Ids \subseteq Family!Ids'
        /\ sessions'[s] = [sessions[s] EXCEPT !.consumed = TRUE]
        /\ \A t \in Family!Ids \ {s} : sessions'[t] = sessions[t]
    BY <1>1, FamilyRenewedRows DEF FamilyInv
  <1>4. sessions'[s].revoked = sessions[s].revoked
    BY <1>1, <1>3, FamilyRows DEF Family!SessionRow, FamilyInv
  <1>5. Family!TypeOK'
    BY <1>1, <1>3 DEF FamilyInv, Family!TypeOK, Family!CommitRotation, Family!End, Family!Continue
  <1>6. \A v \in Workers \ {w} : ~ Family!Holds(v, s)
    BY <1>1 DEF FamilyInv, FamilyOneHolder
  <1>7. FamilyRequests'
    BY <1>1, <1>3, <1>5, <1>6, FamilyRequestEnds DEF FamilyInv, FamilyRequests
  <1>8. Families'
    BY <1>1, <1>2, FamilyRenewalKeeps DEF FamilyInv, Families
  <1> QED BY <1>2, <1>3, <1>4, <1>5, <1>7, <1>8 DEF FamilyInv, Families, FamilyRequests

LEMMA FamilyRevocationKeeps ==
    ASSUME FamilyInv, NEW w \in Workers, Family!CommitRevocation(w)
    PROVE  /\ FamilyInv'
           /\ \A t \in Family!Ids : sessions[t].revoked =>
                 sessions'[t].revoked /\ sessions'[t].consumed = sessions[t].consumed
  <1> PICK m : m = sessionsDoing[w]
    OBVIOUS
  <1>1. /\ m.op = "revoke" /\ Family!End(w) /\ UNCHANGED accountState
        /\ \A v \in Workers \ {w}, s \in m.rows : ~ Family!Holds(v, s)
        /\ sessions' = [s \in Family!Ids |->
                           [sessions[s] EXCEPT !.revoked = @ \/ s \in m.rows,
                                               !.consumed = @ \/ s = m.consumes]]
    BY DEF Family!CommitRevocation
  <1>2. \A t \in Family!Ids : sessions[t] \in Family!SessionRow
    BY FamilyRows DEF FamilyInv
  <1>3. Family!Ids' = Family!Ids
    BY <1>1 DEF Family!Ids
  <1>4. \A t \in Family!Ids : /\ sessions'[t] \in Family!SessionRow
                             /\ sessions'[t].user = sessions[t].user
                             /\ sessions'[t].family = sessions[t].family
                             /\ sessions'[t].parent = sessions[t].parent
                             /\ sessions'[t].consumed = (sessions[t].consumed \/ t = m.consumes)
                             /\ sessions'[t].revoked = (sessions[t].revoked \/ t \in m.rows)
    BY <1>1, <1>2 DEF Family!SessionRow
  <1>5. sessions' \in Seq(Family!SessionRow)
    <2>1. Family!Ids = 1 .. Len(sessions) /\ Len(sessions) \in Nat
      BY FamilyRows DEF FamilyInv
    <2>2. sessions' \in [1 .. Len(sessions) -> Family!SessionRow]
      BY <1>1, <1>4, <2>1
    <2> QED BY <2>1, <2>2, SeqDef
  <1>6. Family!TypeOK'
    BY <1>1, <1>5 DEF FamilyInv, Family!TypeOK, Family!End, Family!Continue
  <1>7. \A s \in Family!Ids : s = m.consumes => Family!Holds(w, s)
    BY <1>1 DEF Family!Holds
  <1>8. \A v \in Workers \ {w}, s \in Family!Ids : Family!Holds(v, s) =>
               /\ sessions'[s].consumed = sessions[s].consumed
               /\ sessions'[s].revoked = sessions[s].revoked
    <2> SUFFICES ASSUME NEW v \in Workers \ {w}, NEW s \in Family!Ids, Family!Holds(v, s)
                 PROVE  /\ sessions'[s].consumed = sessions[s].consumed
                        /\ sessions'[s].revoked = sessions[s].revoked
      OBVIOUS
    <2>1. s # m.consumes
      BY <1>7 DEF FamilyInv, FamilyOneHolder
    <2>2. s \notin m.rows
      BY <1>1
    <2> QED BY <1>2, <1>4, <2>1, <2>2 DEF Family!SessionRow
  <1>9. FamilyRequests'
    BY <1>1, <1>3, <1>6, <1>8, FamilyRequestEnds DEF FamilyInv, FamilyRequests
  <1>10. Families'
    <2>1. FamilyMarks
      BY <1>3, <1>4 DEF FamilyMarks, Family!Ids
    <2> QED BY <2>1, FamilyMarksKeep DEF FamilyInv, Families
  <1>11. \A t \in Family!Ids : sessions[t].revoked =>
                 sessions'[t].revoked /\ sessions'[t].consumed = sessions[t].consumed
    <2> SUFFICES ASSUME NEW t \in Family!Ids, sessions[t].revoked
                 PROVE  sessions'[t].revoked /\ sessions'[t].consumed = sessions[t].consumed
      OBVIOUS
    <2>1. t # m.consumes
      BY <1>7 DEF FamilyInv, FamilyHeldIsUsed
    <2> QED BY <1>2, <1>4, <2>1 DEF Family!SessionRow
  <1> QED BY <1>6, <1>9, <1>10, <1>11 DEF FamilyInv, Families, FamilyRequests

(* Every step keeps the invariant, and what was revoked as it was.         *)
LEMMA FamilyStepKeeps ==
    ASSUME FamilyInv, [Family!Next]_(Family!vars)
    PROVE  /\ FamilyInv'
           /\ \A t \in Family!Ids : sessions[t].revoked =>
                 sessions'[t].revoked /\ sessions'[t].consumed = sessions[t].consumed
  <1>1. ASSUME NEW u \in Users, Family!Register(u)
        PROVE  FamilyInv' /\ \A t \in Family!Ids : sessions'[t] = sessions[t]
    <2>1. FamilyAdded(Family!Session(u, Family!NewId, 0))
          /\ Family!Session(u, Family!NewId, 0) \in Family!SessionRow
      BY <1>1, FamilyRows
         DEF Family!Register, FamilyAdded, Family!Session, Family!SessionRow, FamilyInv
    <2> QED BY <1>1, <2>1, FamilyRegisterKeeps, FamilyAddedRows DEF FamilyInv
  <1>2. ASSUME NEW u \in Users, Family!Deactivate(u)
        PROVE  FamilyInv' /\ sessions' = sessions
    <2>1. Family!TypeOK'
      BY <1>2 DEF Family!Deactivate, FamilyInv, Family!TypeOK, Family!AccountState
    <2>2. Families'
      BY <1>2, FamilyMarksKeep DEF Family!Deactivate, FamilyInv, Families, FamilyMarks, Family!Ids
    <2>3. FamilyRequests'
      BY <1>2 DEF Family!Deactivate, FamilyInv, FamilyRequests, FamilyRequestsKnowIds,
         FamilyOneHolder, FamilyHeldIsUsed, Family!Holds, Family!Ids
    <2> QED BY <1>2, <2>1, <2>2, <2>3 DEF FamilyInv, Families, FamilyRequests, Family!Deactivate
  <1>3. ASSUME NEW w \in Workers, NEW u \in Users, Family!CheckPassword(w, u)
        PROVE  FamilyInv' /\ sessions' = sessions
    <2>1. FamilyFresh(Family!LoggingIn(u))
      BY DEF FamilyFresh, Family!LoggingIn
    <2> QED BY <1>3, <2>1, FamilyBeginKeeps DEF Family!CheckPassword
  <1>4. ASSUME NEW w \in Workers, NEW s \in Family!Ids, Family!Consume(w, s)
        PROVE  FamilyInv' /\ sessions' = sessions
    <2>1. Family!Usable(s) /\ ~ Family!Locked(s)
      BY <1>4 DEF Family!Consume, Family!CanConsume
    <2>2. FamilyFresh(Family!Rotating(s))
      BY <2>1 DEF FamilyFresh, Family!Rotating
    <2>3. Family!Unrevoked(Family!FamilyOf(s)) \in SUBSET Family!Ids
      BY DEF Family!Unrevoked
    <2>4. FamilyFresh(Family!Revoking(Family!Unrevoked(Family!FamilyOf(s)), s))
      BY <2>1, <2>3 DEF FamilyFresh, Family!Revoking
    <2>5. PICK record : FamilyFresh(record) /\ Family!Continue(w, record)
      BY <1>4, <2>2, <2>4 DEF Family!Consume
    <2> QED BY <1>4, <2>5, FamilyBeginKeeps DEF Family!Consume
  <1>5. ASSUME NEW w \in Workers, NEW s \in Family!Ids, Family!Replay(w, s) \/ Family!LogOut(w, s)
        PROVE  FamilyInv' /\ sessions' = sessions
    <2>1. Family!Unrevoked(Family!FamilyOf(s)) \in SUBSET Family!Ids /\ 0 \notin Family!Ids
      BY FamilyRows DEF Family!Unrevoked, FamilyInv
    <2>2. FamilyFresh(Family!Revoking(Family!Unrevoked(Family!FamilyOf(s)), 0))
      BY <2>1 DEF FamilyFresh, Family!Revoking
    <2> QED BY <1>5, <2>2, FamilyBeginKeeps DEF Family!Replay, Family!LogOut
  <1>6. ASSUME NEW w \in Workers, Family!CommitLogin(w)
        PROVE  FamilyInv' /\ \A t \in Family!Ids : sessions'[t] = sessions[t]
    <2> PICK u \in Users : FamilyAdded(Family!Session(u, Family!NewId, 0))
      BY <1>6 DEF Family!CommitLogin, FamilyAdded, FamilyInv, Family!TypeOK, Family!Idle
    <2>1. Family!Session(u, Family!NewId, 0) \in Family!SessionRow
      BY FamilyRows DEF Family!Session, Family!SessionRow, FamilyInv
    <2> QED BY <1>6, <2>1, FamilyLoginKeeps, FamilyAddedRows DEF FamilyInv
  <1>7. ASSUME NEW w \in Workers, Family!Rollback(w)
        PROVE  FamilyInv' /\ sessions' = sessions
    <2>1. FamilyFresh(Family!Idle)
      BY DEF FamilyFresh, Family!Idle
    <2> QED BY <1>7, <2>1, FamilyBeginKeeps DEF Family!Rollback, Family!End
  <1>8. CASE UNCHANGED Family!vars
    <2>1. FamilyInv'
      BY <1>8 DEF Family!vars, FamilyInv, Family!TypeOK, FamilyRequestsKnowIds, FamilyOneHolder,
         FamilyHeldIsUsed, FamilyOneUnconsumed, FamiliesAreNamed, Family!FamilyIsAChain,
         Family!Holds, Family!FamilyOf, Family!Ids
    <2> QED BY <1>8, <2>1 DEF Family!vars
  <1>9. CASE Family!Next
    BY <1>1, <1>2, <1>3, <1>4, <1>5, <1>6, <1>7, <1>9, FamilyLapseKeeps, FamilyRotationKeeps,
       FamilyRevocationKeeps DEF Family!Next
  <1> QED BY <1>8, <1>9

(* The invariant holds in every behaviour. *)
THEOREM FamilyInvariant == Family!Spec => []FamilyInv
  <1>1. Family!Init => FamilyInv
    <2> SUFFICES ASSUME Family!Init PROVE FamilyInv
      OBVIOUS
    <2>1. Family!TypeOK
      BY DEF Family!Init, Family!TypeOK, Family!AccountState
    <2>2. Family!Ids = {}
      BY DEF Family!Init, Family!Ids
    <2> QED BY <2>1, <2>2 DEF Family!Init, FamilyInv, FamilyRequestsKnowIds, FamilyOneHolder,
               FamilyHeldIsUsed, FamilyOneUnconsumed, FamiliesAreNamed, Family!FamilyIsAChain,
               Family!Idle
  <1>2. FamilyInv /\ [Family!Next]_(Family!vars) => FamilyInv'
    BY FamilyStepKeeps
  <1> QED BY <1>1, <1>2, PTL DEF Family!Spec

(* A family never has two sessions that renew, and its sessions were       *)
(* renewed one from the other, each at most once: rotate_refresh_token.    *)
THEOREM FamiliesAreChains == Family!Spec => [](Family!OneLivePerFamily /\ Family!FamilyIsAChain)
  <1>1. FamilyInv => Family!OneLivePerFamily /\ Family!FamilyIsAChain
    BY DEF FamilyInv, FamilyOneUnconsumed, Family!OneLivePerFamily, Family!Usable
  <1> QED BY <1>1, FamilyInvariant, PTL

(* What was revoked stays so, and is never renewed: _revoke_family.        *)
THEOREM RevocationIsFinal == Family!Spec => Family!RevokedIsFinal
  <1>1. FamilyInv /\ [Family!Next]_(Family!vars) =>
          [\A s \in Family!Ids : sessions[s].revoked =>
             sessions'[s].revoked /\ sessions'[s].consumed = sessions[s].consumed]_(Family!vars)
    BY FamilyStepKeeps
  <1> QED BY <1>1, FamilyInvariant, PTL DEF Family!Spec, Family!RevokedIsFinal
=============================================================================
