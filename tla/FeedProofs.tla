----------------------------- MODULE FeedProofs -----------------------------
(***************************************************************************)
(* Proofs about the components of FeedServices, one section each: the log  *)
(* of mutations, the support channel and the crowd feed.                   *)
(***************************************************************************)
EXTENDS FeedServices, SequenceTheorems, CountingLemmas

-----------------------------------------------------------------------------
(***************************************************************************)
(* Proofs about OfflineSync, for any devices, requests and page sizes.     *)
(*                                                                         *)
(* The log has no gap because the request that has taken cursors holds the *)
(* counter (SyncPushesFit), no repetition because a mutation is one value  *)
(* wherever it is (SyncMutationsFit), and its versions increase because a  *)
(* request compares them under the lock of the device.                     *)
(***************************************************************************)

SyncItem == [mutation : Sync!MutationRow, terminal : BOOLEAN]

SyncOutboxRow ==
    [items : Seq(SyncItem), made : Nat, cursor : Nat \cup {Unset}, last : Nat, applied : SUBSET Nat]

SyncWait ==
    [step : {"idle", "push", "pull"}, request : Workers \cup {Nobody},
     results : SUBSET Sync!MutationRow, pages : 0 .. MaxPages - 1]

SyncPush ==
    [op : {"push"}, step : {"read", "locked", "beaten"}, device : Devices, base : Nat,
     batch : Seq(Sync!MutationRow), done : Nat, last : Nat, from : Nat, rows : Seq(Sync!MutationRow)]

SyncPull == [op : {"pull"}, device : Devices, cursor : Nat, read : Nat]

SyncRequest == {Sync!Idle} \cup SyncPush \cup SyncPull

SyncShape ==
    /\ nextCursor \in Nat \ {0}
    /\ mutations \in [1 .. nextCursor - 1 -> Sync!MutationRow]
    /\ confirmed \in [Devices -> Nat] /\ lastVersion \in [Devices -> Nat]
    /\ outbox \in [Devices -> SyncOutboxRow]
    /\ sync \in [Devices -> SyncWait]
    /\ \A d \in Devices : IsFiniteSet(sync[d].results)
    /\ syncDoing \in [Workers -> SyncRequest]

(* Cursors that requests carry are not ahead of the log either. *)
SyncCursorsFit ==
    /\ Sync!CursorsExist
    /\ \A w \in Workers :
        /\ syncDoing[w].op = "push" => syncDoing[w].base < nextCursor
        /\ syncDoing[w].op = "pull" => syncDoing[w].cursor < nextCursor

(* A mutation is one value, in outboxes, on its way and in the log. *)
SyncQueued(d) == {outbox[d].items[i].mutation : i \in DOMAIN outbox[d].items}

SyncSent(w) == {syncDoing[w].batch[i] : i \in DOMAIN syncDoing[w].batch}

SyncLogged == {mutations[c] : c \in DOMAIN mutations}

SyncMade(m) ==
        \/ \E d \in Devices : m \in SyncQueued(d)
        \/ \E w \in Workers : syncDoing[w].op = "push" /\ m \in SyncSent(w)
        \/ m \in SyncLogged

SyncMutationsFit ==
    /\ \A d \in Devices : \A m \in SyncQueued(d) : m.device = d
    /\ \A w \in Workers : syncDoing[w].op = "push" =>
         \A m \in SyncSent(w) : m.device = syncDoing[w].device
    /\ \A m \in Sync!MutationRow : SyncMade(m) => m.id =< outbox[m.device].made
    /\ \A m, n \in Sync!MutationRow :
         SyncMade(m) /\ SyncMade(n) /\ m.device = n.device /\ m.id = n.id => m = n

(* What a push has locked and taken, and what it has done. *)
SyncPushFits(w) ==
    LET p == syncDoing[w]
    IN  /\ p.done =< Len(p.batch)
        /\ p.step # "locked" => p.rows = <<>> /\ p.done = 0
        /\ p.rows # <<>> => p.from = nextCursor
        /\ p.step = "locked" =>
            /\ lastVersion[p.device] =< p.last
            /\ \A i \in DOMAIN p.rows :
                /\ p.rows[i] \in SyncSent(w) /\ ~ Sync!Known(p.rows[i])
                /\ lastVersion[p.device] < p.rows[i].version /\ p.rows[i].version =< p.last
            /\ \A i, j \in DOMAIN p.rows : i < j => p.rows[i].version < p.rows[j].version
            /\ \A i \in 1 .. p.done :
                Sync!Known(p.batch[i]) \/ \E j \in DOMAIN p.rows : p.rows[j] = p.batch[i]

SyncPushesFit ==
    \A w \in Workers : syncDoing[w].op = "push" =>
        /\ SyncPushFits(w)
        /\ \A v \in Workers : syncDoing[v].op = "push" /\ v # w =>
             /\ syncDoing[w].device = syncDoing[v].device =>
                  syncDoing[w].step # "locked" \/ syncDoing[v].step # "locked"
             /\ syncDoing[w].rows = <<>> \/ syncDoing[v].rows = <<>>

(* What a device will drop from its outbox is in the log. *)
SyncResultsKnown == \A d \in Devices : \A m \in sync[d].results : Sync!Known(m)

SyncInv ==
    /\ SyncShape
    /\ Sync!LogIsGapless
    /\ Sync!VersionsIncrease
    /\ SyncCursorsFit
    /\ SyncMutationsFit
    /\ SyncPushesFit
    /\ SyncResultsKnown

(* What is picked from a sequence: members at the positions, and all. *)
SyncPickedUpTo(s, P, f) ==
    f = [n \in 0 .. Len(s) |->
           IF n = 0 THEN <<>> ELSE IF n \in P THEN Append(f[n - 1], s[n]) ELSE f[n - 1]]

SyncCovers(q, s, P) ==
    /\ \A j \in DOMAIN q : \E i \in P : q[j] = s[i]
    /\ \A i \in P : \E j \in DOMAIN q : q[j] = s[i]

LEMMA SyncCoversMore ==
    ASSUME NEW X, NEW q \in Seq(X), NEW s, NEW P, NEW n, s[n] \in X, SyncCovers(q, s, P)
    PROVE  Append(q, s[n]) \in Seq(X) /\ SyncCovers(Append(q, s[n]), s, P \cup {n})
  <1> PICK r : r = Append(q, s[n])
    OBVIOUS
  <1>1. /\ r \in Seq(X) /\ DOMAIN q = 1 .. Len(q) /\ Len(q) \in Nat
        /\ DOMAIN r = 1 .. Len(q) + 1 /\ r[Len(q) + 1] = s[n] /\ \A j \in 1 .. Len(q) : r[j] = q[j]
    OBVIOUS
  <1>2. ASSUME NEW j \in DOMAIN r
        PROVE  \E i \in P \cup {n} : r[j] = s[i]
    <2>1. j = Len(q) + 1 \/ j \in DOMAIN q
      BY <1>1
    <2>2. CASE j = Len(q) + 1
      BY <1>1, <2>2
    <2>3. CASE j \in DOMAIN q
      BY <1>1, <2>3 DEF SyncCovers
    <2> QED BY <2>1, <2>2, <2>3
  <1>3. ASSUME NEW i \in P \cup {n}
        PROVE  \E j \in DOMAIN r : r[j] = s[i]
    <2>1. CASE i = n
      <3>1. Len(q) + 1 \in DOMAIN r
        BY <1>1
      <3> QED BY <1>1, <2>1, <3>1
    <2>2. CASE i \in P
      <3>1. PICK j \in DOMAIN q : q[j] = s[i]
        BY <2>2 DEF SyncCovers
      <3>2. j \in DOMAIN r
        BY <1>1
      <3> QED BY <1>1, <3>1, <3>2
    <2> QED BY <2>1, <2>2
  <1> QED BY <1>1, <1>2, <1>3 DEF SyncCovers

LEMMA SyncPickedFits ==
    ASSUME NEW X, NEW s \in Seq(X), NEW P \in SUBSET DOMAIN s
    PROVE  Sync!Picked(s, P) \in Seq(X) /\ SyncCovers(Sync!Picked(s, P), s, P)
  <1> PICK N : N = Len(s)
    OBVIOUS
  <1>1. N \in Nat /\ DOMAIN s = 1 .. N /\ \A n \in 1 .. N : s[n] \in X
    OBVIOUS
  <1>2. \E f : SyncPickedUpTo(s, P, f)
    <2> PICK G : G = [p \in Seq(X) \X Nat |-> IF p[2] \in P THEN Append(p[1], s[p[2]]) ELSE p[1]]
      OBVIOUS
    <2>1. G \in [Seq(X) \X Nat -> Seq(X)]
      BY <1>1
    <2>2. <<>> \in Seq(X)
      OBVIOUS
    <2>3. \E f \in [0 .. N -> Seq(X)] : f[0] = <<>> /\ \A n \in 1 .. N : f[n] = G[<<f[n - 1], n>>]
      <3> PICK V, e : V = Seq(X) /\ e = <<>>
        OBVIOUS
      <3>1. N \in Nat /\ e \in V /\ StepOn(V, G)
        BY <1>1, <2>1, <2>2 DEF StepOn
      <3>2. PICK f : Recursion(f, V, e, N, G)
        BY ONLY <3>1, RecursionExists
      <3> QED BY ONLY <3>2, V = Seq(X), e = <<>> DEF Recursion
    <2>6. PICK f \in [0 .. N -> Seq(X)] : f[0] = <<>> /\ \A n \in 1 .. N : f[n] = G[<<f[n - 1], n>>]
      BY <2>3
    <2>4. ASSUME NEW n \in 1 .. N
          PROVE  f[n] = IF n \in P THEN Append(f[n - 1], s[n]) ELSE f[n - 1]
      <3>1. n - 1 \in 0 .. N /\ n \in Nat
        BY <1>1
      <3>2. f[n - 1] \in Seq(X)
        BY <3>1
      <3> PICK x : x = <<f[n - 1], n>>
        OBVIOUS
      <3>3. x \in Seq(X) \X Nat /\ x[1] = f[n - 1] /\ x[2] = n
        BY <3>1, <3>2
      <3>4. G[x] = IF n \in P THEN Append(f[n - 1], s[n]) ELSE f[n - 1]
        BY <3>3
      <3>5. f[n] = G[x]
        BY <2>6
      <3> QED BY <3>4, <3>5
    <2>5. f = [n \in 0 .. N |->
                 IF n = 0 THEN <<>> ELSE IF n \in P THEN Append(f[n - 1], s[n]) ELSE f[n - 1]]
      <3>1. \A n \in 0 .. N : n = 0 \/ n \in 1 .. N
        BY <1>1
      <3> QED BY <1>1, <2>6, <2>4, <3>1
    <2> QED BY <2>5 DEF SyncPickedUpTo
  <1> PICK g : g = CHOOSE f : SyncPickedUpTo(s, P, f)
    BY SMTT(30)
  <1>3. SyncPickedUpTo(s, P, g) /\ Sync!Picked(s, P) = g[N]
    BY <1>2 DEF Sync!Picked, SyncPickedUpTo
  <1>4. /\ g[0] = <<>>
        /\ \A n \in 1 .. N : g[n] = IF n \in P THEN Append(g[n - 1], s[n]) ELSE g[n - 1]
    <2>1. \A n \in 1 .. N : n # 0 /\ n \in 0 .. N
      BY <1>1
    <2>2. 0 \in 0 .. N
      BY <1>1
    <2> QED BY <1>3, <2>1, <2>2 DEF SyncPickedUpTo
  <1> DEFINE Right == {n \in Nat : n =< N => g[n] \in Seq(X) /\ SyncCovers(g[n], s, P \cap (1 .. n))}
  <1>5. 0 \in Right
    <2>1. P \cap (1 .. 0) = {}
      OBVIOUS
    <2>2. <<>> \in Seq(X) /\ SyncCovers(<<>>, s, {})
      BY DEF SyncCovers
    <2> QED BY <1>4, <2>1, <2>2
  <1>6. ASSUME NEW n \in Nat, n \in Right
        PROVE  n + 1 \in Right
    <2> SUFFICES ASSUME n + 1 =< N
                 PROVE  g[n + 1] \in Seq(X) /\ SyncCovers(g[n + 1], s, P \cap (1 .. n + 1))
      OBVIOUS
    <2>1. g[n] \in Seq(X) /\ SyncCovers(g[n], s, P \cap (1 .. n))
      BY <1>1, <1>6
    <2>2. n + 1 \in 1 .. N /\ n + 1 - 1 = n
      BY <1>1
    <2>3. CASE n + 1 \in P
      <3> PICK m, Q, q : m = n + 1 /\ Q = P \cap (1 .. n) /\ q = g[n]
        OBVIOUS
      <3>1. P \cap (1 .. m) = Q \cup {m}
        BY <1>1, <2>3
      <3>2. g[m] = Append(q, s[m])
        <4>1. m \in 1 .. N /\ m \in P /\ m - 1 = n
          BY <2>2, <2>3
        <4>2. g[m] = Append(g[m - 1], s[m])
          BY ONLY <1>4, <4>1
        <4> QED BY <4>1, <4>2
      <3>3. s[m] \in X
        BY <1>1, <2>2
      <3>4. q \in Seq(X) /\ SyncCovers(q, s, Q)
        BY <2>1
      <3>5. Append(q, s[m]) \in Seq(X) /\ SyncCovers(Append(q, s[m]), s, Q \cup {m})
        BY ONLY <3>3, <3>4, SyncCoversMore
      <3> QED BY <3>1, <3>2, <3>5
    <2>4. CASE n + 1 \notin P
      <3>1. P \cap (1 .. n + 1) = P \cap (1 .. n)
        BY <1>1, <2>4
      <3>2. g[n + 1] = g[n]
        BY <1>4, <2>2, <2>4
      <3> QED BY <2>1, <3>1, <3>2
    <2> QED BY <2>3, <2>4
  <1> HIDE DEF Right
  <1>7. N \in Right
    BY <1>1, <1>5, <1>6, NatSetInduction
  <1>8. P \cap (1 .. N) = P
    BY <1>1
  <1>9. N =< N
    BY <1>1
  <1>10. g[N] \in Seq(X) /\ SyncCovers(g[N], s, P \cap (1 .. N))
    BY ONLY <1>7, <1>9 DEF Right
  <1> QED BY <1>3, <1>8, <1>10

LEMMA SyncMaxFits ==
    ASSUME NEW S \in SUBSET Int, IsFiniteSet(S), S # {}
    PROVE  Sync!Max(S) \in S /\ \A x \in S : x =< Sync!Max(S)
  <1>1. PICK x \in S : \A y \in S : y =< x
    BY LargestExists
  <1>2. \E z \in S : \A y \in S : z >= y
    BY <1>1
  <1>3. Sync!Max(S) \in S /\ \A y \in S : Sync!Max(S) >= y
    BY <1>2 DEF Sync!Max
  <1> QED BY <1>3

LEMMA SyncMaxOfTwo ==
    ASSUME NEW a \in Nat, NEW b \in Nat
    PROVE  /\ Sync!Max({a, b}) \in Nat /\ a =< Sync!Max({a, b}) /\ b =< Sync!Max({a, b})
           /\ Sync!Max({a, b}) = a \/ Sync!Max({a, b}) = b
  <1>1. {a, b} \in SUBSET Int /\ {a, b} # {}
    OBVIOUS
  <1>2. IsFiniteSet({a, b})
    <2>1. IsFiniteSet({a}) /\ {a, b} = {a} \cup {b}
      BY FS_Singleton
    <2> QED BY <2>1, FS_AddElement
  <1>3. Sync!Max({a, b}) \in {a, b} /\ \A x \in {a, b} : x =< Sync!Max({a, b})
    BY <1>1, <1>2, SyncMaxFits
  <1> QED BY <1>3

(* The members of a finite set, and a number, have a largest.              *)
LEMMA SyncMaxOfVersions ==
    ASSUME NEW R, IsFiniteSet(R), \A r \in R : r \in Sync!MutationRow, NEW a \in Nat
    PROVE  /\ Sync!Max({a} \cup {r.version : r \in R}) \in Nat
           /\ a =< Sync!Max({a} \cup {r.version : r \in R})
  <1> PICK S : S = {r.version : r \in R}
    OBVIOUS
  <1>1. IsFiniteSet(S)
    <2> PICK f : f = [r \in R |-> r.version]
      OBVIOUS
    <2>1. DOMAIN f = R /\ f = [r \in DOMAIN f |-> f[r]] /\ S = {f[r] : r \in DOMAIN f}
      OBVIOUS
    <2> QED BY <2>1, ValuesFinite
  <1>2. \A v \in S : v \in Nat
    BY DEF Sync!MutationRow
  <1>3. IsFiniteSet(S \cup {a})
    BY <1>1, FS_AddElement
  <1>4. S \cup {a} = {a} \cup S /\ {a} \cup S \in SUBSET Int /\ {a} \cup S # {}
    BY <1>2
  <1>5. /\ Sync!Max({a} \cup S) \in {a} \cup S
        /\ \A x \in {a} \cup S : x =< Sync!Max({a} \cup S)
    BY <1>3, <1>4, SyncMaxFits
  <1> QED BY <1>2, <1>5

LEMMA SyncNextVersionFits ==
    ASSUME SyncInv, NEW d \in Devices
    PROVE  Sync!NextVersion(d) \in Nat \ {0}
  <1> PICK items, R : items = outbox[d].items /\ R = {items[i].mutation : i \in DOMAIN items}
    OBVIOUS
  <1>1. /\ outbox[d].last \in Nat /\ items \in Seq(SyncItem)
        /\ DOMAIN items = 1 .. Len(items) /\ Len(items) \in Nat
    BY DEF SyncInv, SyncShape, SyncOutboxRow
  <1>2. \A i \in DOMAIN items : items[i].mutation \in Sync!MutationRow
    <2>1. \A i \in DOMAIN items : items[i] \in SyncItem
      BY <1>1
    <2> QED BY <2>1 DEF SyncItem
  <1>3. IsFiniteSet(R)
    <2> PICK s : s = [i \in DOMAIN items |-> items[i].mutation]
      OBVIOUS
    <2>1. s = [i \in DOMAIN s |-> s[i]] /\ DOMAIN s = 1 .. Len(items) /\ R = {s[i] : i \in DOMAIN s}
      BY <1>1
    <2>2. IsFiniteSet(1 .. Len(items))
      BY <1>1, FS_Interval
    <2> QED BY <2>1, <2>2, ValuesFinite
  <1>4. Sync!Max({outbox[d].last} \cup {r.version : r \in R}) \in Nat
    BY <1>1, <1>2, <1>3, SyncMaxOfVersions
  <1>5. {r.version : r \in R} = {items[i].mutation.version : i \in DOMAIN items}
    <2>1. \A i \in DOMAIN items : items[i].mutation \in R
      OBVIOUS
    <2>2. \A r \in R : \E i \in DOMAIN items : r = items[i].mutation
      OBVIOUS
    <2> QED BY <2>1, <2>2
  <1> PICK V : V = {items[i].mutation.version : i \in DOMAIN items}
    OBVIOUS
  <1>6. Sync!NextVersion(d) = Sync!Max({outbox[d].last} \cup V) + 1
    BY Zenon DEF Sync!NextVersion
  <1>7. Sync!Max({outbox[d].last} \cup V) \in Nat
    BY <1>4, <1>5
  <1> QED BY ONLY <1>6, <1>7

LEMMA SyncEndFits ==
    ASSUME SyncInv, NEW a \in Nat, a < nextCursor
    PROVE  Sync!EndOf(a) \in Nat /\ Sync!EndOf(a) < nextCursor /\ Sync!Page(a) \in SUBSET Nat
  <1> PICK S : S = Sync!Page(a)
    OBVIOUS
  <1>1. DOMAIN mutations = 1 .. nextCursor - 1 /\ nextCursor \in Nat
    BY DEF SyncInv, SyncShape
  <1>2. \A c \in S : c \in 1 .. nextCursor - 1
    BY <1>1 DEF Sync!Page
  <1>3. IsFiniteSet(S)
    <2> PICK b : b = nextCursor - 1
      OBVIOUS
    <2>1. IsFiniteSet(1 .. b) /\ S \subseteq 1 .. b
      BY <1>1, <1>2, FS_Interval
    <2> QED BY <2>1, FS_Subset
  <1>4. IsFiniteSet(S \cup {a})
    BY <1>3, FS_AddElement
  <1>5. S \cup {a} = {a} \cup S /\ {a} \cup S \in SUBSET Int /\ {a} \cup S # {}
    BY <1>1, <1>2
  <1>6. Sync!Max({a} \cup S) \in {a} \cup S
    BY <1>4, <1>5, SyncMaxFits
  <1> QED BY <1>1, <1>2, <1>6 DEF Sync!EndOf

(* What a step keeps when it leaves the log alone. *)
LEMMA SyncLogKept ==
    ASSUME SyncInv, UNCHANGED <<mutations, nextCursor, lastVersion>>
    PROVE  Sync!LogIsGapless' /\ Sync!VersionsIncrease' /\ \A m : Sync!Known(m)' <=> Sync!Known(m)
  BY DEF SyncInv, Sync!LogIsGapless, Sync!VersionsIncrease, Sync!Known

(* What another request is doing says nothing of the pushes. *)
SyncAlone(u) ==
    /\ SyncPushFits(u)
    /\ \A v \in Workers \ {u} : syncDoing[v].op = "push" =>
        /\ syncDoing[u].device = syncDoing[v].device =>
             syncDoing[u].step # "locked" \/ syncDoing[v].step # "locked"
        /\ syncDoing[u].rows = <<>> \/ syncDoing[v].rows = <<>>

LEMMA SyncPushesKept ==
    ASSUME SyncInv, UNCHANGED <<mutations, nextCursor, lastVersion>>, NEW u \in Workers,
           \A w \in Workers \ {u} : syncDoing'[w] = syncDoing[w],
           syncDoing'[u].op = "push" => SyncAlone(u)'
    PROVE  SyncPushesFit'
  <1>1. ASSUME NEW w \in Workers, syncDoing'[w].op = "push", w # u
        PROVE  SyncPushFits(w)'
    <2>1. SyncPushFits(w) /\ syncDoing'[w] = syncDoing[w]
      BY <1>1 DEF SyncInv, SyncPushesFit
    <2> QED BY <2>1, SyncLogKept DEF SyncPushFits, SyncSent
  <1>2. ASSUME NEW w \in Workers, syncDoing'[w].op = "push",
               NEW v \in Workers, syncDoing'[v].op = "push", v # w
        PROVE  /\ syncDoing'[w].device = syncDoing'[v].device =>
                    syncDoing'[w].step # "locked" \/ syncDoing'[v].step # "locked"
               /\ syncDoing'[w].rows = <<>> \/ syncDoing'[v].rows = <<>>
    <2>1. CASE w # u /\ v # u
      BY <1>2, <2>1 DEF SyncInv, SyncPushesFit
    <2>2. CASE w = u
      BY <1>2, <2>2 DEF SyncAlone
    <2>3. CASE v = u
      BY <1>2, <2>3 DEF SyncAlone
    <2> QED BY <2>1, <2>2, <2>3
  <1>3. syncDoing'[u].op = "push" => SyncPushFits(u)'
    BY DEF SyncAlone
  <1> QED BY <1>1, <1>2, <1>3 DEF SyncPushesFit

LEMMA SyncMutationsKept ==
    ASSUME SyncInv,
           \A d \in Devices : outbox'[d].made = outbox[d].made,
           \A d \in Devices : \A m \in SyncQueued(d)' : m \in SyncQueued(d),
           \A w \in Workers : syncDoing'[w].op = "push" =>
               \A m \in SyncSent(w)' : m.device = syncDoing'[w].device /\ SyncMade(m),
           \A m \in SyncLogged' : SyncMade(m)
    PROVE  SyncMutationsFit'
  <1>1. ASSUME NEW m \in Sync!MutationRow, SyncMade(m)'
        PROVE  SyncMade(m)
    BY <1>1 DEF SyncMade
  <1>2. \A m \in Sync!MutationRow : SyncMade(m)' => m.id =< outbox'[m.device].made
    BY <1>1 DEF SyncInv, SyncMutationsFit, Sync!MutationRow
  <1>3. \A m, n \in Sync!MutationRow :
          SyncMade(m)' /\ SyncMade(n)' /\ m.device = n.device /\ m.id = n.id => m = n
    BY <1>1 DEF SyncInv, SyncMutationsFit
  <1>4. \A d \in Devices : \A m \in SyncQueued(d)' : m.device = d
    BY DEF SyncInv, SyncMutationsFit
  <1> QED BY <1>2, <1>3, <1>4 DEF SyncMutationsFit

(* A request that ends, or goes on with what it had sent. *)
LEMMA SyncSentKept ==
    ASSUME SyncInv, NEW w \in Workers, syncDoing'[w].op = "push" =>
               /\ syncDoing[w].op = "push"
               /\ syncDoing'[w].batch = syncDoing[w].batch /\ syncDoing'[w].device = syncDoing[w].device
    PROVE  syncDoing'[w].op = "push" =>
               \A m \in SyncSent(w)' : m.device = syncDoing'[w].device /\ SyncMade(m)
  <1> SUFFICES ASSUME syncDoing'[w].op = "push", NEW m \in SyncSent(w)'
               PROVE  m.device = syncDoing'[w].device /\ SyncMade(m)
    OBVIOUS
  <1>1. m \in SyncSent(w) /\ syncDoing[w].op = "push"
    BY DEF SyncSent
  <1> QED BY <1>1 DEF SyncInv, SyncMutationsFit, SyncMade

LEMMA SyncLoggedKept ==
    ASSUME mutations' = mutations
    PROVE  \A m \in SyncLogged' : SyncMade(m)
  BY DEF SyncLogged, SyncMade

(* The steps of a device that leave the server and the requests alone.     *)
LEMMA SyncDeviceStep ==
    ASSUME SyncInv, UNCHANGED <<Sync!server, syncDoing>>,
           outbox' \in [Devices -> SyncOutboxRow], sync' \in [Devices -> SyncWait],
           \A d \in Devices : sync'[d] = sync[d] \/ sync'[d] = Sync!Resting,
           \A d \in Devices : outbox'[d].cursor = outbox[d].cursor \/ outbox'[d].cursor = Unset
                              \/ outbox'[d].cursor = confirmed[d],
           SyncMutationsFit'
    PROVE  SyncInv'
  <1>1. \A d \in Devices : IsFiniteSet(sync'[d].results) /\ \A m \in sync'[d].results : Sync!Known(m)
    <2>1. IsFiniteSet({})
      BY FS_EmptySet
    <2>2. Sync!Resting.results = {}
      BY DEF Sync!Resting
    <2> SUFFICES ASSUME NEW d \in Devices
                 PROVE  IsFiniteSet(sync'[d].results) /\ \A m \in sync'[d].results : Sync!Known(m)
      OBVIOUS
    <2>3. CASE sync'[d] = sync[d]
      BY <2>3 DEF SyncInv, SyncShape, SyncResultsKnown
    <2>4. CASE sync'[d] = Sync!Resting
      BY <2>1, <2>2, <2>4
    <2> QED BY <2>3, <2>4
  <1>2. SyncShape'
    BY <1>1 DEF SyncInv, SyncShape, Sync!server
  <1>3. Sync!LogIsGapless' /\ Sync!VersionsIncrease' /\ \A m : Sync!Known(m)' <=> Sync!Known(m)
    BY SyncLogKept DEF Sync!server
  <1>4. SyncCursorsFit'
    BY DEF SyncInv, SyncCursorsFit, Sync!CursorsExist, Sync!server
  <1>5. SyncPushesFit'
    BY <1>3 DEF SyncInv, SyncPushesFit, SyncPushFits, SyncSent, Sync!server
  <1>6. SyncResultsKnown'
    BY <1>1, <1>3 DEF SyncResultsKnown
  <1> QED BY <1>2, <1>3, <1>4, <1>5, <1>6 DEF SyncInv

(* A device drops some of what is queued, marks it, or neither. *)
LEMMA SyncQueueKept ==
    ASSUME SyncInv, UNCHANGED <<Sync!server, syncDoing>>,
           \A d \in Devices : outbox'[d].made = outbox[d].made,
           \A d \in Devices : \A m \in SyncQueued(d)' : m \in SyncQueued(d)
    PROVE  SyncMutationsFit'
  <1>1. mutations' = mutations
    BY DEF Sync!server
  <1>2. \A w \in Workers : syncDoing'[w].op = "push" =>
            \A m \in SyncSent(w)' : m.device = syncDoing'[w].device /\ SyncMade(m)
    BY SyncSentKept
  <1> QED BY <1>1, <1>2, SyncLoggedKept, SyncMutationsKept

LEMMA SyncRestingFits ==
    ASSUME SyncInv, Sync!PagesAssumption, NEW d \in Devices, sync' = [sync EXCEPT ![d] = Sync!Resting]
    PROVE  sync' \in [Devices -> SyncWait] /\ \A c \in Devices : sync'[c] = sync[c]
             \/ sync'[c] = Sync!Resting
  <1>1. Sync!Resting \in SyncWait
    BY DEF Sync!Resting, SyncWait, Sync!PagesAssumption
  <1> QED BY <1>1 DEF SyncInv, SyncShape

LEMMA SyncTerminalFits ==
    ASSUME SyncInv, NEW d \in Devices, outbox' = Sync!AllTerminal(d)
    PROVE  /\ outbox' \in [Devices -> SyncOutboxRow]
           /\ \A c \in Devices : /\ outbox'[c].made = outbox[c].made
                                 /\ outbox'[c].cursor = outbox[c].cursor
                                 /\ \A m \in SyncQueued(c)' : m \in SyncQueued(c)
           /\ \A c \in Devices : \A i \in DOMAIN outbox[c].items :
                /\ i \in DOMAIN outbox'[c].items
                /\ outbox'[c].items[i].mutation = outbox[c].items[i].mutation
  <1> PICK items, more : /\ items = outbox[d].items
                         /\ more = [i \in DOMAIN items |-> [items[i] EXCEPT !.terminal = TRUE]]
    OBVIOUS
  <1>1. outbox[d] \in SyncOutboxRow /\ items \in Seq(SyncItem)
    BY DEF SyncInv, SyncShape, SyncOutboxRow
  <1>2. \A i \in DOMAIN items : items[i] \in SyncItem
    BY <1>1
  <1>3. \A i \in DOMAIN items : more[i] \in SyncItem /\ more[i].mutation = items[i].mutation
    BY <1>2 DEF SyncItem
  <1>4. more \in Seq(SyncItem) /\ DOMAIN more = DOMAIN items
    <2> PICK n \in Nat : DOMAIN items = 1 .. n
      BY <1>1
    <2>1. DOMAIN more = 1 .. n /\ more = [i \in 1 .. n |-> more[i]]
      OBVIOUS
    <2>2. \A i \in 1 .. n : more[i] \in SyncItem
      BY <1>3
    <2>3. more \in Seq(SyncItem)
      BY ONLY n \in Nat, <2>1, <2>2
    <2> QED BY <2>1, <2>3
  <1>5. outbox' = [outbox EXCEPT ![d].items = more]
    BY DEF Sync!AllTerminal
  <1>6. outbox' = [outbox EXCEPT ![d] = [outbox[d] EXCEPT !.items = more]]
    BY <1>5
  <1>7. [outbox[d] EXCEPT !.items = more] \in SyncOutboxRow
    BY <1>1, <1>4 DEF SyncOutboxRow
  <1>8. outbox \in [Devices -> SyncOutboxRow]
    BY DEF SyncInv, SyncShape
  <1>9. \A c \in Devices : c # d => outbox'[c] = outbox[c]
    BY <1>6, <1>8
  <1>10. outbox'[d] = [outbox[d] EXCEPT !.items = more]
    BY <1>6, <1>8
  <1>11. /\ outbox'[d].items = more /\ outbox'[d].made = outbox[d].made
         /\ outbox'[d].cursor = outbox[d].cursor
    BY <1>1, <1>10 DEF SyncOutboxRow
  <1>12. \A m \in SyncQueued(d)' : m \in SyncQueued(d)
    BY <1>3, <1>11 DEF SyncQueued
  <1>13. outbox' \in [Devices -> SyncOutboxRow]
    BY <1>6, <1>7, <1>8
  <1>14. \A c \in Devices : c # d => \A m \in SyncQueued(c)' : m \in SyncQueued(c)
    BY <1>9 DEF SyncQueued
  <1>15. ASSUME NEW c \in Devices, NEW i \in DOMAIN outbox[c].items
         PROVE  /\ i \in DOMAIN outbox'[c].items
                /\ outbox'[c].items[i].mutation = outbox[c].items[i].mutation
    <2>1. CASE c = d
      BY <1>3, <1>4, <1>11, <2>1
    <2>2. CASE c # d
      BY <1>9, <2>2
    <2> QED BY <2>1, <2>2
  <1>16. \A c \in Devices : /\ outbox'[c].made = outbox[c].made
                             /\ outbox'[c].cursor = outbox[c].cursor
    BY <1>9, <1>11
  <1> QED BY <1>12, <1>13, <1>14, <1>15, <1>16

LEMMA SyncEnqueueStep ==
    ASSUME SyncInv, NEW d \in Devices, Sync!Enqueue(d)
    PROVE  SyncInv'
  <1> PICK m, items, row :
         /\ m = Sync!Mutation(d, outbox[d].made + 1, Sync!NextVersion(d))
         /\ items = Append(outbox[d].items, [mutation |-> m, terminal |-> FALSE])
         /\ row = [outbox[d] EXCEPT !.made = outbox[d].made + 1, !.items = items]
    OBVIOUS
  <1>1. outbox \in [Devices -> SyncOutboxRow] /\ outbox[d] \in SyncOutboxRow
        /\ outbox[d].items \in Seq(SyncItem) /\ outbox[d].made \in Nat
    BY DEF SyncInv, SyncShape, SyncOutboxRow
  <1>2. m \in Sync!MutationRow /\ m.device = d /\ m.id = outbox[d].made + 1
    BY <1>1, SyncNextVersionFits DEF Sync!Mutation, Sync!MutationRow
  <1>3. [mutation |-> m, terminal |-> FALSE] \in SyncItem
    BY <1>2 DEF SyncItem
  <1>4. items \in Seq(SyncItem)
    BY <1>1, <1>3
  <1>5. row \in SyncOutboxRow /\ row.made = outbox[d].made + 1 /\ row.items = items
        /\ row.cursor = outbox[d].cursor
    <2> PICK n : n = outbox[d].made + 1
      OBVIOUS
    <2>1. n \in Nat /\ row = [outbox[d] EXCEPT !.made = n, !.items = items]
      BY <1>1
    <2>2. row = [items |-> items, made |-> n, cursor |-> outbox[d].cursor,
                 last |-> outbox[d].last, applied |-> outbox[d].applied]
      BY <1>1, <2>1 DEF SyncOutboxRow
    <2> QED BY <1>1, <1>4, <2>1, <2>2 DEF SyncOutboxRow
  <1>6. outbox' = [outbox EXCEPT ![d] = row]
    BY DEF Sync!Enqueue
  <1>7. outbox' \in [Devices -> SyncOutboxRow] /\ outbox'[d] = row
        /\ \A c \in Devices : c # d => outbox'[c] = outbox[c]
    BY <1>1, <1>5, <1>6
  <1>8. \A n \in SyncQueued(d)' : n = m \/ n \in SyncQueued(d)
    <2> SUFFICES ASSUME NEW i \in DOMAIN items
                 PROVE  items[i].mutation = m \/ items[i].mutation \in SyncQueued(d)
      BY <1>5, <1>7 DEF SyncQueued
    <2>1. CASE i = Len(outbox[d].items) + 1
      BY <1>1, <2>1
    <2>2. CASE i \in DOMAIN outbox[d].items
      BY <1>1, <2>2, SMTT(30) DEF SyncQueued
    <2> QED BY <1>1, <2>1, <2>2
  <1>9. \A n \in Sync!MutationRow : SyncMade(n)' => n = m \/ SyncMade(n)
    BY <1>7, <1>8 DEF Sync!Enqueue, SyncMade, SyncQueued, SyncSent, SyncLogged, Sync!server
  <1>10. SyncMutationsFit'
    <2>1. \A c \in Devices : \A n \in SyncQueued(c)' : n.device = c
      <3>1. \A c \in Devices : c # d => \A n \in SyncQueued(c)' : n \in SyncQueued(c)
        BY <1>7 DEF SyncQueued
      <3>2. \A c \in Devices : \A n \in SyncQueued(c) : n.device = c
        BY DEF SyncInv, SyncMutationsFit
      <3> QED BY <1>2, <1>8, <3>1, <3>2
    <2>2. \A w \in Workers : syncDoing'[w].op = "push" =>
            \A n \in SyncSent(w)' : n.device = syncDoing'[w].device
      BY DEF SyncInv, SyncMutationsFit, Sync!Enqueue, SyncSent
    <2>3. \A n \in Sync!MutationRow : SyncMade(n) => n.id =< outbox[n.device].made
      BY DEF SyncInv, SyncMutationsFit
    <2>4. \A n \in Sync!MutationRow : SyncMade(n)' => n.id =< outbox'[n.device].made
      <3> SUFFICES ASSUME NEW n \in Sync!MutationRow, SyncMade(n)'
                   PROVE  n.id =< outbox'[n.device].made
        OBVIOUS
      <3>1. n.device \in Devices /\ n.id \in Nat /\ outbox[n.device].made \in Nat
        BY <1>1 DEF Sync!MutationRow, SyncOutboxRow
      <3>2. CASE n = m
        <4>1. n.device = d /\ n.id = outbox[d].made + 1 /\ outbox'[d].made = outbox[d].made + 1
          BY <1>2, <1>5, <1>7, <3>2
        <4> QED BY <1>1, <4>1
      <3>3. CASE SyncMade(n)
        <4>1. n.id =< outbox[n.device].made
          BY <2>3, <3>3
        <4>2. outbox'[n.device].made = outbox[n.device].made
              \/ outbox'[n.device].made = outbox[n.device].made + 1
          BY <1>5, <1>7, <3>1
        <4> QED BY <3>1, <4>1, <4>2
      <3> QED BY <1>9, <3>2, <3>3
    <2>5. ASSUME NEW n \in Sync!MutationRow, SyncMade(n), n.device = d
          PROVE  n.id # m.id
      <3>1. n.id =< outbox[d].made /\ n.id \in Nat
        BY <2>3, <2>5 DEF Sync!MutationRow
      <3> QED BY <1>1, <1>2, <3>1
    <2>6. \A n, o \in Sync!MutationRow :
            SyncMade(n)' /\ SyncMade(o)' /\ n.device = o.device /\ n.id = o.id => n = o
      <3>1. \A n, o \in Sync!MutationRow :
              SyncMade(n) /\ SyncMade(o) /\ n.device = o.device /\ n.id = o.id => n = o
        BY DEF SyncInv, SyncMutationsFit
      <3> QED BY <1>2, <1>9, <2>5, <3>1
    <2> QED BY <2>1, <2>2, <2>4, <2>6 DEF SyncMutationsFit
  <1>11. UNCHANGED <<Sync!server, syncDoing>> /\ sync' = sync
    BY DEF Sync!Enqueue
  <1>12. \A c \in Devices : outbox'[c].cursor = outbox[c].cursor
    BY <1>5, <1>7
  <1>13. sync' \in [Devices -> SyncWait]
    BY <1>11 DEF SyncInv, SyncShape
  <1> QED BY <1>7, <1>10, <1>11, <1>12, <1>13, SyncDeviceStep

LEMMA SyncGiveUpStep ==
    ASSUME SyncInv, Sync!PagesAssumption, NEW d \in Devices, Sync!GiveUp(d)
    PROVE  SyncInv'
  <1>1. UNCHANGED <<Sync!server, syncDoing>> /\ outbox' = outbox
    BY DEF Sync!GiveUp
  <1>2. sync' \in [Devices -> SyncWait] /\ \A c \in Devices : sync'[c] = sync[c]
          \/ sync'[c] = Sync!Resting
    BY SyncRestingFits DEF Sync!GiveUp
  <1>3. outbox' \in [Devices -> SyncOutboxRow]
    BY <1>1 DEF SyncInv, SyncShape
  <1>4. SyncMutationsFit'
    BY <1>1, SyncQueueKept DEF SyncQueued
  <1> QED BY <1>1, <1>2, <1>3, <1>4, SyncDeviceStep

LEMMA SyncTurnedAwayStep ==
    ASSUME SyncInv, Sync!PagesAssumption, NEW d \in Devices, Sync!TurnedAway(d)
    PROVE  SyncInv'
  <1>1. UNCHANGED <<Sync!server, syncDoing>>
    BY DEF Sync!TurnedAway
  <1>2. sync' \in [Devices -> SyncWait] /\ \A c \in Devices : sync'[c] = sync[c]
          \/ sync'[c] = Sync!Resting
    BY SyncRestingFits DEF Sync!TurnedAway
  <1>3. /\ outbox' \in [Devices -> SyncOutboxRow]
        /\ \A c \in Devices : /\ outbox'[c].made = outbox[c].made
                              /\ outbox'[c].cursor = outbox[c].cursor
                              /\ \A m \in SyncQueued(c)' : m \in SyncQueued(c)
    BY SyncTerminalFits DEF Sync!TurnedAway
  <1>4. SyncMutationsFit'
    BY <1>1, <1>3, SyncQueueKept
  <1> QED BY <1>1, <1>2, <1>3, <1>4, SyncDeviceStep

(* A device that drops some of what is queued. *)
LEMMA SyncPickedItems ==
    ASSUME SyncInv, NEW d \in Devices, NEW P \in SUBSET DOMAIN outbox[d].items
    PROVE  /\ Sync!Picked(outbox[d].items, P) \in Seq(SyncItem)
           /\ SyncCovers(Sync!Picked(outbox[d].items, P), outbox[d].items, P)
  <1>1. outbox[d].items \in Seq(SyncItem)
    BY DEF SyncInv, SyncShape, SyncOutboxRow
  <1> QED BY ONLY <1>1, P \in SUBSET DOMAIN outbox[d].items, SyncPickedFits

SyncOpen(d) == {i \in DOMAIN outbox[d].items : ~ outbox[d].items[i].terminal}

LEMMA SyncPendingFits ==
    ASSUME SyncInv, NEW d \in Devices
    PROVE  Sync!Pending(d) \in Seq(SyncItem) /\ SyncCovers(Sync!Pending(d), outbox[d].items,
             SyncOpen(d))
  <1>1. SyncOpen(d) \in SUBSET DOMAIN outbox[d].items
        /\ Sync!Pending(d) = Sync!Picked(outbox[d].items, SyncOpen(d))
    BY DEF SyncOpen, Sync!Pending
  <1> QED BY <1>1, SyncPickedItems

(* The outbox with other items and applied mutations. *)
LEMMA SyncItemsPicked ==
    ASSUME SyncInv, NEW d \in Devices, NEW q \in Seq(SyncItem), NEW P \in SUBSET DOMAIN outbox[d].items,
           SyncCovers(q, outbox[d].items, P),
           outbox' \in [Devices -> SyncOutboxRow], outbox'[d].items = q,
           \A c \in Devices : c # d => outbox'[c] = outbox[c]
    PROVE  \A c \in Devices : \A m \in SyncQueued(c)' : m \in SyncQueued(c)
  <1> SUFFICES ASSUME NEW c \in Devices, NEW i \in DOMAIN outbox'[c].items
               PROVE  outbox'[c].items[i].mutation \in SyncQueued(c)
    BY DEF SyncQueued
  <1>1. CASE c # d
    BY <1>1 DEF SyncQueued
  <1>2. CASE c = d
    <2>1. PICK j \in P : outbox'[d].items[i] = outbox[d].items[j]
      BY <1>2 DEF SyncCovers
    <2> QED BY <1>2, <2>1 DEF SyncQueued
  <1> QED BY <1>1, <1>2

LEMMA SyncDiscardStep ==
    ASSUME SyncInv, NEW d \in Devices, Sync!Discard(d)
    PROVE  SyncInv'
  <1> PICK q, row : q = Sync!Pending(d) /\ row = [outbox[d] EXCEPT !.items = q]
    OBVIOUS
  <1>1. outbox \in [Devices -> SyncOutboxRow] /\ outbox[d] \in SyncOutboxRow
    BY DEF SyncInv, SyncShape
  <1>2. q \in Seq(SyncItem) /\ SyncCovers(q, outbox[d].items, SyncOpen(d))
        /\ SyncOpen(d) \in SUBSET DOMAIN outbox[d].items
    BY SyncPendingFits DEF SyncOpen
  <1>3. row \in SyncOutboxRow /\ row.items = q /\ row.made = outbox[d].made
        /\ row.cursor = outbox[d].cursor
    BY <1>1, <1>2 DEF SyncOutboxRow
  <1>4. outbox' = [outbox EXCEPT ![d] = row]
    BY DEF Sync!Discard
  <1>5. outbox' \in [Devices -> SyncOutboxRow] /\ outbox'[d] = row
        /\ \A c \in Devices : c # d => outbox'[c] = outbox[c]
    BY <1>1, <1>3, <1>4
  <1>6. UNCHANGED <<Sync!server, syncDoing>> /\ sync' = sync
    BY DEF Sync!Discard
  <1>7. \A c \in Devices : \A m \in SyncQueued(c)' : m \in SyncQueued(c)
    BY <1>2, <1>3, <1>5, SyncItemsPicked
  <1>8. \A c \in Devices : outbox'[c].made = outbox[c].made /\ outbox'[c].cursor = outbox[c].cursor
    BY <1>3, <1>5
  <1>9. SyncMutationsFit'
    BY <1>6, <1>7, <1>8, SyncQueueKept
  <1>10. sync' \in [Devices -> SyncWait]
    BY <1>6 DEF SyncInv, SyncShape
  <1> QED BY <1>5, <1>6, <1>8, <1>9, <1>10, SyncDeviceStep

(* A device that only sets its cursor, its version or what it has applied. *)
LEMMA SyncCursorStep ==
    ASSUME SyncInv, NEW d \in Devices, NEW row \in SyncOutboxRow, outbox' = [outbox EXCEPT ![d] = row],
           row.items = outbox[d].items, row.made = outbox[d].made,
           row.cursor = outbox[d].cursor \/ row.cursor = Unset \/ row.cursor = confirmed[d],
           UNCHANGED <<Sync!server, sync, syncDoing>>
    PROVE  SyncInv'
  <1>1. outbox' \in [Devices -> SyncOutboxRow] /\ outbox'[d] = row
        /\ \A c \in Devices : c # d => outbox'[c] = outbox[c]
    BY DEF SyncInv, SyncShape
  <1>2. \A c \in Devices : outbox'[c].made = outbox[c].made /\ outbox'[c].items = outbox[c].items
    BY <1>1
  <1>3. SyncMutationsFit'
    BY <1>2, SyncQueueKept DEF SyncQueued
  <1>4. \A c \in Devices : outbox'[c].cursor = outbox[c].cursor \/ outbox'[c].cursor = Unset
                           \/ outbox'[c].cursor = confirmed[c]
    BY <1>1
  <1>5. sync' \in [Devices -> SyncWait]
    BY DEF SyncInv, SyncShape
  <1> QED BY <1>1, <1>3, <1>4, <1>5, SyncDeviceStep

LEMMA SyncResetStep ==
    ASSUME SyncInv, NEW d \in Devices, Sync!Reset(d)
    PROVE  SyncInv'
  <1> PICK row : row = [outbox[d] EXCEPT !.cursor = Unset, !.applied = {}]
    OBVIOUS
  <1>1. outbox[d] \in SyncOutboxRow
    BY DEF SyncInv, SyncShape
  <1>2. row \in SyncOutboxRow /\ row.items = outbox[d].items /\ row.made = outbox[d].made
        /\ row.cursor = Unset
    BY <1>1 DEF SyncOutboxRow
  <1>3. outbox' = [outbox EXCEPT ![d] = row] /\ UNCHANGED <<Sync!server, sync, syncDoing>>
    BY DEF Sync!Reset
  <1> QED BY <1>2, <1>3, SyncCursorStep

LEMMA SyncLoadStatusStep ==
    ASSUME SyncInv, NEW d \in Devices, Sync!LoadStatus(d)
    PROVE  SyncInv'
  <1> PICK cursor, last : /\ cursor = IF outbox[d].cursor = Unset THEN confirmed[d]
                             ELSE outbox[d].cursor
                          /\ last = Sync!Max({outbox[d].last, lastVersion[d]})
    OBVIOUS
  <1> PICK row : row = [outbox[d] EXCEPT !.cursor = cursor, !.last = last]
    OBVIOUS
  <1>1. outbox[d] \in SyncOutboxRow /\ confirmed[d] \in Nat /\ lastVersion[d] \in Nat
        /\ outbox[d].last \in Nat
        /\ outbox[d].cursor \in Nat \cup {Unset}
    BY DEF SyncInv, SyncShape, SyncOutboxRow
  <1>2. cursor \in Nat \cup {Unset} /\ last \in Nat
    BY <1>1, SyncMaxOfTwo
  <1>3. row \in SyncOutboxRow /\ row.items = outbox[d].items /\ row.made = outbox[d].made
        /\ row.cursor = cursor
    BY <1>1, <1>2 DEF SyncOutboxRow
  <1>4. outbox' = [outbox EXCEPT ![d] = row] /\ UNCHANGED <<Sync!server, sync, syncDoing>>
    BY DEF Sync!LoadStatus
  <1>5. row.cursor = outbox[d].cursor \/ row.cursor = confirmed[d]
    BY <1>3
  <1> QED BY <1>3, <1>4, <1>5, SyncCursorStep

(* The steps of a request that leave the server alone.                     *)
LEMMA SyncRequestStep ==
    ASSUME SyncInv, UNCHANGED Sync!server, NEW u \in Workers, syncDoing' \in [Workers -> SyncRequest],
           \A w \in Workers \ {u} : syncDoing'[w] = syncDoing[w],
           syncDoing'[u].op = "push" => SyncAlone(u)' /\ syncDoing'[u].base < nextCursor,
           syncDoing'[u].op = "pull" => syncDoing'[u].cursor < nextCursor,
           sync' \in [Devices -> SyncWait],
           \A d \in Devices : sync'[d].results = sync[d].results \/ sync'[d].results = {},
           outbox' \in [Devices -> SyncOutboxRow],
           \A d \in Devices : outbox'[d].cursor = outbox[d].cursor,
           SyncMutationsFit'
    PROVE  SyncInv'
  <1>1. \A d \in Devices : IsFiniteSet(sync'[d].results) /\ \A m \in sync'[d].results : Sync!Known(m)
    <2>1. IsFiniteSet({})
      BY FS_EmptySet
    <2> SUFFICES ASSUME NEW d \in Devices
                 PROVE  IsFiniteSet(sync'[d].results) /\ \A m \in sync'[d].results : Sync!Known(m)
      OBVIOUS
    <2>2. CASE sync'[d].results = sync[d].results
      BY <2>2 DEF SyncInv, SyncShape, SyncResultsKnown
    <2>3. CASE sync'[d].results = {}
      BY <2>1, <2>3
    <2> QED BY <2>2, <2>3
  <1>2. SyncShape'
    BY <1>1 DEF SyncInv, SyncShape, Sync!server
  <1>3. UNCHANGED <<mutations, nextCursor, lastVersion>>
    BY DEF Sync!server
  <1>4. Sync!LogIsGapless' /\ Sync!VersionsIncrease' /\ \A m : Sync!Known(m)' <=> Sync!Known(m)
    BY <1>3, SyncLogKept
  <1>5. SyncCursorsFit'
    BY DEF SyncInv, SyncCursorsFit, Sync!CursorsExist, Sync!server
  <1>6. SyncPushesFit'
    BY <1>3, SyncPushesKept
  <1>7. SyncResultsKnown'
    BY <1>1, <1>4 DEF SyncResultsKnown
  <1> QED BY <1>2, <1>4, <1>5, <1>6, <1>7 DEF SyncInv

(* The mutations a device has pending are of the device, and made.         *)
LEMMA SyncBatchFits ==
    ASSUME SyncInv, NEW d \in Devices, NEW batch,
           batch = [i \in DOMAIN Sync!Pending(d) |-> Sync!Pending(d)[i].mutation]
    PROVE  batch \in Seq(Sync!MutationRow) /\ \A i \in DOMAIN batch : batch[i] \in SyncQueued(d)
  <1> PICK q : q = Sync!Pending(d)
    OBVIOUS
  <1>1. q \in Seq(SyncItem) /\ SyncCovers(q, outbox[d].items, SyncOpen(d))
        /\ SyncOpen(d) \in SUBSET DOMAIN outbox[d].items
    BY SyncPendingFits DEF SyncOpen
  <1>2. ASSUME NEW i \in DOMAIN q
        PROVE  q[i].mutation \in Sync!MutationRow /\ q[i].mutation \in SyncQueued(d)
    <2>1. q[i] \in SyncItem
      BY <1>1
    <2>2. PICK j \in SyncOpen(d) : q[i] = outbox[d].items[j]
      BY <1>1 DEF SyncCovers
    <2> QED BY <1>1, <2>1, <2>2 DEF SyncItem, SyncQueued
  <1> PICK n \in Nat : DOMAIN q = 1 .. n
    BY <1>1
  <1>3. DOMAIN batch = 1 .. n /\ batch = [i \in 1 .. n |-> batch[i]]
    OBVIOUS
  <1>4. \A i \in 1 .. n : batch[i] \in Sync!MutationRow /\ batch[i] \in SyncQueued(d)
    BY <1>2
  <1>5. batch \in Seq(Sync!MutationRow)
    BY ONLY n \in Nat, <1>3, <1>4
  <1> QED BY <1>3, <1>4, <1>5

LEMMA SyncSendPushStep ==
    ASSUME SyncInv, Sync!PagesAssumption, NEW d \in Devices, NEW w \in Workers, Sync!SendPush(d, w)
    PROVE  SyncInv'
  <1> PICK batch, base, p : /\ batch = [i \in DOMAIN Sync!Pending(d) |-> Sync!Pending(d)[i].mutation]
                            /\ base = Sync!Decoded(outbox[d].cursor)
                            /\ p = Sync!Pushing(d, base, batch)
    OBVIOUS
  <1>1. batch \in Seq(Sync!MutationRow) /\ \A i \in DOMAIN batch : batch[i] \in SyncQueued(d)
    BY SyncBatchFits
  <1>2. base \in Nat /\ base < nextCursor
    BY DEF SyncInv, SyncShape, SyncOutboxRow, SyncCursorsFit, Sync!CursorsExist, Sync!Decoded
  <1>3. p \in SyncPush /\ p.op = "push" /\ p.device = d /\ p.batch = batch /\ p.base = base
        /\ p.step = "read" /\ p.rows = <<>> /\ p.done = 0
    BY <1>1, <1>2 DEF Sync!Pushing, SyncPush
  <1>4. syncDoing' = [syncDoing EXCEPT ![w] = p] /\ UNCHANGED <<Sync!server, outbox>>
    BY DEF Sync!SendPush, Sync!Continue
  <1>5. syncDoing' \in [Workers -> SyncRequest] /\ syncDoing'[w] = p
        /\ \A v \in Workers \ {w} : syncDoing'[v] = syncDoing[v]
    BY <1>3, <1>4 DEF SyncInv, SyncShape, SyncRequest
  <1>6. Sync!Waiting("push", w, {}, 0) \in SyncWait /\ Sync!Waiting("push", w, {}, 0).results = {}
    BY DEF Sync!Waiting, SyncWait, Sync!PagesAssumption
  <1>7. sync' \in [Devices -> SyncWait] /\ \A c \in Devices : sync'[c].results = sync[c].results
          \/ sync'[c].results = {}
    BY <1>6 DEF Sync!SendPush, SyncInv, SyncShape
  <1>8. SyncAlone(w)'
    <2>1. 0 =< Len(batch)
      BY <1>1, SMTT(30)
    <2>2. SyncPushFits(w)'
      BY <1>3, <1>5, <2>1 DEF SyncPushFits
    <2> QED BY <1>3, <1>5, <2>2 DEF SyncAlone
  <1>9. SyncMutationsFit'
    <2>1. \A m \in SyncSent(w)' : m.device = d /\ SyncMade(m)
      BY <1>1, <1>3, <1>5 DEF SyncSent, SyncInv, SyncMutationsFit, SyncMade
    <2>2. \A v \in Workers : syncDoing'[v].op = "push" =>
            \A m \in SyncSent(v)' : m.device = syncDoing'[v].device /\ SyncMade(m)
      <3> SUFFICES ASSUME NEW v \in Workers
                   PROVE  syncDoing'[v].op = "push" =>
                            \A m \in SyncSent(v)' : m.device = syncDoing'[v].device /\ SyncMade(m)
        OBVIOUS
      <3>1. CASE v = w
        BY <1>3, <1>5, <2>1, <3>1
      <3>2. CASE v # w
        BY <1>5, <3>2, SyncSentKept
      <3> QED BY <3>1, <3>2
    <2>3. \A m \in SyncLogged' : SyncMade(m)
      BY <1>4, SyncLoggedKept DEF Sync!server
    <2> QED BY <1>4, <2>2, <2>3, SyncMutationsKept DEF SyncQueued
  <1>10. outbox' \in [Devices -> SyncOutboxRow]
    BY <1>4 DEF SyncInv, SyncShape
  <1> QED BY <1>2, <1>3, <1>4, <1>5, <1>7, <1>8, <1>9, <1>10, SyncRequestStep

(* Requests that end, or go on with what they had sent. *)
LEMMA SyncMadeKept ==
    ASSUME SyncInv, UNCHANGED Sync!server,
           \A d \in Devices : outbox'[d].made = outbox[d].made,
           \A d \in Devices : \A m \in SyncQueued(d)' : m \in SyncQueued(d),
           \A w \in Workers : syncDoing'[w].op = "push" =>
               /\ syncDoing[w].op = "push"
               /\ syncDoing'[w].batch = syncDoing[w].batch /\ syncDoing'[w].device = syncDoing[w].device
    PROVE  SyncMutationsFit'
  <1>1. \A w \in Workers : syncDoing'[w].op = "push" =>
          \A m \in SyncSent(w)' : m.device = syncDoing'[w].device /\ SyncMade(m)
    BY SyncSentKept
  <1>2. \A m \in SyncLogged' : SyncMade(m)
    BY SyncLoggedKept DEF Sync!server
  <1> QED BY <1>1, <1>2, SyncMutationsKept

LEMMA SyncSendPullStep ==
    ASSUME SyncInv, NEW d \in Devices, NEW w \in Workers, Sync!SendPull(d, w)
    PROVE  SyncInv'
  <1> PICK cursor, p, s : /\ cursor = Sync!Decoded(outbox[d].cursor)
                          /\ p = Sync!Pulling(d, cursor, confirmed[d])
                          /\ s = Sync!Waiting("pull", w, sync[d].results, sync[d].pages)
    OBVIOUS
  <1>1. cursor \in Nat /\ cursor < nextCursor /\ confirmed[d] \in Nat
    BY DEF SyncInv, SyncShape, SyncOutboxRow, SyncCursorsFit, Sync!CursorsExist, Sync!Decoded
  <1>2. p \in SyncPull /\ p.op = "pull" /\ p.cursor = cursor
    BY <1>1 DEF Sync!Pulling, SyncPull
  <1>3. syncDoing' = [syncDoing EXCEPT ![w] = p] /\ UNCHANGED <<Sync!server, outbox>>
    BY DEF Sync!SendPull, Sync!Continue
  <1>4. syncDoing' \in [Workers -> SyncRequest] /\ syncDoing'[w] = p
        /\ \A v \in Workers \ {w} : syncDoing'[v] = syncDoing[v]
    BY <1>2, <1>3 DEF SyncInv, SyncShape, SyncRequest
  <1>5. sync[d] \in SyncWait /\ sync \in [Devices -> SyncWait]
    BY DEF SyncInv, SyncShape
  <1>6. s \in SyncWait /\ s.results = sync[d].results
    BY <1>5 DEF Sync!Waiting, SyncWait
  <1>7. sync' = [sync EXCEPT ![d] = s]
    BY DEF Sync!SendPull
  <1>8. sync' \in [Devices -> SyncWait] /\ \A c \in Devices : sync'[c].results = sync[c].results
    BY <1>5, <1>6, <1>7
  <1>9. \A v \in Workers : syncDoing'[v].op = "push" => syncDoing'[v] = syncDoing[v]
    BY <1>2, <1>4
  <1>10. SyncMutationsFit'
    BY <1>3, <1>9, SyncMadeKept DEF SyncQueued
  <1>11. outbox' \in [Devices -> SyncOutboxRow]
    BY <1>3 DEF SyncInv, SyncShape
  <1> QED BY <1>1, <1>2, <1>3, <1>4, <1>8, <1>10, <1>11, SyncRequestStep

LEMMA SyncPushIs ==
    ASSUME SyncInv, NEW w \in Workers, syncDoing[w].op = "push"
    PROVE  syncDoing[w] \in SyncPush /\ syncDoing[w].base < nextCursor /\ SyncAlone(w)
  <1>1. syncDoing[w] \in SyncRequest
    BY DEF SyncInv, SyncShape
  <1>2. syncDoing[w] \in SyncPush
    BY <1>1 DEF SyncRequest, Sync!Idle, SyncPull
  <1>3. syncDoing[w].base < nextCursor
    BY DEF SyncInv, SyncCursorsFit
  <1>4. SyncAlone(w)
    BY DEF SyncInv, SyncPushesFit, SyncAlone
  <1> QED BY <1>2, <1>3, <1>4

(* A push that goes on with its batch. *)
LEMMA SyncPushGoesOn ==
    ASSUME SyncInv, NEW w \in Workers, syncDoing[w].op = "push", NEW p \in SyncPush,
           syncDoing' = [syncDoing EXCEPT ![w] = p],
           p.batch = syncDoing[w].batch, p.device = syncDoing[w].device, p.base = syncDoing[w].base,
           SyncPushFits(w)',
           p.step = "locked" => syncDoing[w].step = "locked" \/ ~ Sync!DeviceLocked(p.device),
           p.rows # <<>> => syncDoing[w].rows # <<>> \/ Sync!CounterFree(w),
           UNCHANGED <<Sync!server, outbox, sync>>
    PROVE  SyncInv'
  <1>1. syncDoing' \in [Workers -> SyncRequest] /\ syncDoing'[w] = p
        /\ \A v \in Workers \ {w} : syncDoing'[v] = syncDoing[v]
    BY DEF SyncInv, SyncShape, SyncRequest
  <1>2. p.op = "push" /\ p.base < nextCursor
    BY SyncPushIs DEF SyncPush
  <1>3. SyncAlone(w)'
    <2>1. \A v \in Workers \ {w} : syncDoing[v].op = "push" =>
            /\ syncDoing[w].device = syncDoing[v].device =>
                 syncDoing[w].step # "locked" \/ syncDoing[v].step # "locked"
            /\ syncDoing[w].rows = <<>> \/ syncDoing[v].rows = <<>>
      BY SyncPushIs DEF SyncAlone
    <2>2. ASSUME NEW v \in Workers \ {w}, syncDoing'[v].op = "push"
          PROVE  /\ p.device = syncDoing'[v].device =>
                      p.step # "locked" \/ syncDoing'[v].step # "locked"
                 /\ p.rows = <<>> \/ syncDoing'[v].rows = <<>>
      <3>1. syncDoing'[v] = syncDoing[v]
        BY <1>1
      <3>2. ~ Sync!DeviceLocked(p.device) => (p.device = syncDoing[v].device =>
              syncDoing[v].step # "locked")
        BY <2>2, <3>1 DEF Sync!DeviceLocked, Sync!PushOf
      <3>3. Sync!CounterFree(w) => syncDoing[v].rows = <<>>
        BY <2>2, <3>1 DEF Sync!CounterFree
      <3> QED BY <2>1, <2>2, <3>1, <3>2, <3>3
    <2> QED BY <1>1, <2>2 DEF SyncAlone
  <1>4. \A v \in Workers : syncDoing'[v].op = "push" =>
          /\ syncDoing[v].op = "push"
          /\ syncDoing'[v].batch = syncDoing[v].batch /\ syncDoing'[v].device = syncDoing[v].device
    BY <1>1
  <1>5. SyncMutationsFit'
    BY <1>4, SyncMadeKept DEF SyncQueued
  <1>6. sync' \in [Devices -> SyncWait] /\ outbox' \in [Devices -> SyncOutboxRow]
    BY DEF SyncInv, SyncShape
  <1> QED BY <1>1, <1>2, <1>3, <1>5, <1>6, SyncRequestStep

LEMMA SyncLockDeviceStep ==
    ASSUME SyncInv, NEW w \in Workers, Sync!LockDevice(w)
    PROVE  SyncInv'
  <1> PICK p : p = [syncDoing[w] EXCEPT !.step = "locked", !.last = lastVersion[syncDoing[w].device]]
    OBVIOUS
  <1>1. syncDoing[w] \in SyncPush /\ SyncAlone(w) /\ syncDoing[w].op = "push"
        /\ syncDoing[w].step = "read"
        /\ ~ Sync!DeviceLocked(syncDoing[w].device)
    BY SyncPushIs DEF Sync!LockDevice
  <1>2. lastVersion[syncDoing[w].device] \in Nat /\ syncDoing[w].device \in Devices
    BY <1>1 DEF SyncInv, SyncShape, SyncPush
  <1>3. /\ p \in SyncPush /\ p.batch = syncDoing[w].batch /\ p.device = syncDoing[w].device
        /\ p.base = syncDoing[w].base /\ p.done = syncDoing[w].done /\ p.rows = syncDoing[w].rows
        /\ p.from = syncDoing[w].from /\ p.last = lastVersion[syncDoing[w].device] /\ p.step = "locked"
    BY <1>1, <1>2 DEF SyncPush
  <1>4. syncDoing' = [syncDoing EXCEPT ![w] = p] /\ UNCHANGED <<Sync!server, outbox, sync>>
    BY DEF Sync!LockDevice, Sync!Continue
  <1>5. syncDoing'[w] = p /\ p.rows = <<>> /\ p.done = 0 /\ lastVersion' = lastVersion
        /\ nextCursor' = nextCursor
    BY <1>1, <1>3, <1>4 DEF SyncInv, SyncShape, SyncAlone, SyncPushFits, Sync!server
  <1>6. SyncPushFits(w)'
    <2>1. 0 =< Len(p.batch)
      BY <1>3 DEF SyncPush
    <2> QED BY <1>2, <1>3, <1>5, <2>1 DEF SyncPushFits
  <1> QED BY <1>1, <1>3, <1>4, <1>5, <1>6, SyncPushGoesOn

LEMMA SyncCurrentFits ==
    ASSUME SyncInv, NEW w \in Workers, Sync!Working(w)
    PROVE  /\ syncDoing[w] \in SyncPush /\ SyncPushFits(w) /\ syncDoing[w].op = "push"
              /\ syncDoing[w].step = "locked"
           /\ syncDoing[w].done \in Nat /\ syncDoing[w].done + 1 \in DOMAIN syncDoing[w].batch
           /\ syncDoing[w].done + 1 =< Len(syncDoing[w].batch)
           /\ Sync!Current(w) = syncDoing[w].batch[syncDoing[w].done + 1]
           /\ Sync!Current(w) \in Sync!MutationRow /\ Sync!Current(w) \in SyncSent(w)
  <1>1. syncDoing[w] \in SyncPush /\ SyncAlone(w) /\ syncDoing[w].op = "push"
        /\ syncDoing[w].step = "locked"
        /\ syncDoing[w].done < Len(syncDoing[w].batch)
    BY SyncPushIs DEF Sync!Working
  <1>2. syncDoing[w].done \in Nat /\ syncDoing[w].batch \in Seq(Sync!MutationRow)
    BY <1>1 DEF SyncPush
  <1>3. syncDoing[w].done + 1 \in DOMAIN syncDoing[w].batch
        /\ syncDoing[w].done + 1 =< Len(syncDoing[w].batch)
    BY <1>1, <1>2, SMTT(30)
  <1> QED BY <1>1, <1>2, <1>3 DEF SyncAlone, Sync!Current, SyncSent

LEMMA SyncReplayStep ==
    ASSUME SyncInv, NEW w \in Workers, Sync!Replay(w)
    PROVE  SyncInv'
  <1> PICK last, n : /\ last = Sync!Max({syncDoing[w].last, Sync!Current(w).version})
                     /\ n = syncDoing[w].done + 1
    OBVIOUS
  <1> PICK p : p = [syncDoing[w] EXCEPT !.done = n, !.last = last]
    OBVIOUS
  <1>1. /\ syncDoing[w] \in SyncPush /\ SyncPushFits(w) /\ syncDoing[w].op = "push"
           /\ syncDoing[w].step = "locked"
        /\ syncDoing[w].done \in Nat /\ n \in DOMAIN syncDoing[w].batch /\ n =< Len(syncDoing[w].batch)
        /\ Sync!Current(w) = syncDoing[w].batch[n]
        /\ Sync!Current(w) \in Sync!MutationRow /\ Sync!Current(w) \in SyncSent(w)
           /\ Sync!Known(Sync!Current(w))
    BY SyncCurrentFits DEF Sync!Replay
  <1>2. syncDoing[w].last \in Nat /\ Sync!Current(w).version \in Nat
    BY <1>1 DEF SyncPush, Sync!MutationRow
  <1>3. last \in Nat /\ syncDoing[w].last =< last
    BY <1>2, SyncMaxOfTwo
  <1>4. /\ p \in SyncPush /\ p.batch = syncDoing[w].batch /\ p.device = syncDoing[w].device
        /\ p.base = syncDoing[w].base /\ p.done = n /\ p.rows = syncDoing[w].rows
        /\ p.from = syncDoing[w].from /\ p.last = last /\ p.step = "locked"
    <2>1. n \in Nat
      BY <1>1
    <2> QED BY <1>1, <1>3, <2>1 DEF SyncPush
  <1>5. syncDoing' = [syncDoing EXCEPT ![w] = p] /\ UNCHANGED <<Sync!server, outbox, sync>>
    BY DEF Sync!Replay, Sync!Continue
  <1>6. syncDoing'[w] = p /\ lastVersion' = lastVersion /\ nextCursor' = nextCursor
        /\ mutations' = mutations
    BY <1>5 DEF SyncInv, SyncShape, Sync!server
  <1>7. \A m : Sync!Known(m)' <=> Sync!Known(m)
    BY <1>6 DEF Sync!Known
  <1>8. SyncPushFits(w)'
    <2>1. lastVersion[p.device] \in Nat
      BY <1>4 DEF SyncInv, SyncShape, SyncPush
    <2>2. SyncSent(w)' = SyncSent(w)
      BY <1>4, <1>6 DEF SyncSent
    <2>3. \A i \in DOMAIN p.rows : p.rows[i] \in Sync!MutationRow
      <3>1. p.rows \in Seq(Sync!MutationRow)
        BY <1>4 DEF SyncPush
      <3> QED BY <3>1
    <2>4. \A i \in DOMAIN p.rows :
            /\ p.rows[i] \in SyncSent(w) /\ ~ Sync!Known(p.rows[i])
            /\ lastVersion[p.device] < p.rows[i].version /\ p.rows[i].version =< syncDoing[w].last
      BY <1>1, <1>4 DEF SyncPushFits
    <2>5. \A i \in DOMAIN p.rows : p.rows[i].version =< last
      BY <1>2, <1>3, <2>3, <2>4 DEF Sync!MutationRow
    <2>6. \A i \in 1 .. n : i = n \/ i \in 1 .. syncDoing[w].done
      BY <1>1, SMTT(30)
    <2>7. \A i \in 1 .. n : Sync!Known(p.batch[i]) \/ \E j \in DOMAIN p.rows : p.rows[j] = p.batch[i]
      BY <1>1, <1>4, <2>6, SMTT(30) DEF SyncPushFits
    <2>8. lastVersion[p.device] =< last
      <3>1. lastVersion[p.device] =< syncDoing[w].last
        BY <1>1, <1>4, SMTT(30) DEF SyncPushFits
      <3> QED BY <1>2, <1>3, <2>1, <3>1
    <2>9. \A i, j \in DOMAIN p.rows : i < j => p.rows[i].version < p.rows[j].version
      BY <1>1, <1>4, SMTT(30) DEF SyncPushFits
    <2>10. p.rows # <<>> => p.from = nextCursor
      BY <1>1, <1>4 DEF SyncPushFits
    <2>11. p.done =< Len(p.batch)
      BY <1>1, <1>4
    <2>12. \A i \in DOMAIN p.rows : p.rows[i] \in SyncSent(w)' /\ ~ Sync!Known(p.rows[i])'
      BY <1>7, <2>2, <2>4
    <2>13. \A i \in 1 .. n : Sync!Known(p.batch[i])' \/ \E j \in DOMAIN p.rows : p.rows[j] = p.batch[i]
      BY <1>7, <2>7
    <2>14. \A i \in DOMAIN p.rows : lastVersion'[p.device] < p.rows[i].version
      BY <1>6, <2>4
    <2>15. lastVersion'[p.device] =< last /\ (p.rows # <<>> => p.from = nextCursor')
      BY <1>6, <2>8, <2>10, SMTT(30)
    <2> QED BY ONLY <1>4, <2>5, <2>9, <2>11, <2>12, <2>13, <2>14, <2>15, <1>6 DEF SyncPushFits
  <1> QED BY <1>1, <1>4, <1>5, <1>8, SyncPushGoesOn

LEMMA SyncApplyStep ==
    ASSUME SyncInv, NEW w \in Workers, Sync!Apply(w)
    PROVE  SyncInv'
  <1> PICK m, n, added, from :
         /\ m = Sync!Current(w) /\ n = syncDoing[w].done + 1 /\ added = Append(syncDoing[w].rows, m)
         /\ from = IF syncDoing[w].rows = <<>> THEN nextCursor ELSE syncDoing[w].from
    OBVIOUS
  <1> PICK p : p = [syncDoing[w] EXCEPT !.done = n, !.last = m.version, !.from = from, !.rows = added]
    OBVIOUS
  <1>1. /\ syncDoing[w] \in SyncPush /\ SyncPushFits(w) /\ syncDoing[w].op = "push"
           /\ syncDoing[w].step = "locked"
        /\ syncDoing[w].done \in Nat /\ n \in DOMAIN syncDoing[w].batch /\ n =< Len(syncDoing[w].batch)
        /\ m = syncDoing[w].batch[n] /\ m \in Sync!MutationRow /\ m \in SyncSent(w)
    BY SyncCurrentFits DEF Sync!Apply
  <1>2. ~ Sync!Known(m) /\ m.version > syncDoing[w].last /\ Sync!CounterFree(w)
    BY DEF Sync!Apply, Sync!Newer
  <1>3. /\ syncDoing[w].last \in Nat /\ m.version \in Nat /\ n \in Nat /\ from \in Nat
        /\ syncDoing[w].rows \in Seq(Sync!MutationRow) /\ added \in Seq(Sync!MutationRow)
    <2>1. nextCursor \in Nat
      BY DEF SyncInv, SyncShape
    <2>2. syncDoing[w].last \in Nat /\ syncDoing[w].from \in Nat
          /\ syncDoing[w].rows \in Seq(Sync!MutationRow)
      BY <1>1, SMTT(30) DEF SyncPush
    <2>3. m.version \in Nat
      BY <1>1 DEF Sync!MutationRow
    <2>4. from \in Nat
      BY <2>1, <2>2
    <2>5. added \in Seq(Sync!MutationRow)
      BY <1>1, <2>2, SMTT(30)
    <2> QED BY <1>1, <2>2, <2>3, <2>4, <2>5
  <1>4. /\ p \in SyncPush /\ p.batch = syncDoing[w].batch /\ p.device = syncDoing[w].device
        /\ p.base = syncDoing[w].base /\ p.done = n /\ p.rows = added
        /\ p.from = from /\ p.last = m.version /\ p.step = "locked"
    BY <1>1, <1>3 DEF SyncPush
  <1>5. syncDoing' = [syncDoing EXCEPT ![w] = p] /\ UNCHANGED <<Sync!server, outbox, sync>>
    BY DEF Sync!Apply, Sync!Continue
  <1>6. syncDoing'[w] = p /\ lastVersion' = lastVersion /\ nextCursor' = nextCursor
        /\ mutations' = mutations
    BY <1>5 DEF SyncInv, SyncShape, Sync!server
  <1>7. (\A o : Sync!Known(o)' <=> Sync!Known(o)) /\ SyncSent(w)' = SyncSent(w)
    BY <1>4, <1>6 DEF Sync!Known, SyncSent
  <1> PICK k \in Nat : k = Len(syncDoing[w].rows)
    BY <1>3, SMTT(30)
  <1>8. /\ DOMAIN syncDoing[w].rows = 1 .. k /\ DOMAIN added = 1 .. k + 1
        /\ added[k + 1] = m /\ \A i \in 1 .. k : added[i] = syncDoing[w].rows[i]
             /\ added[i] \in Sync!MutationRow
    <2> PICK q : q = syncDoing[w].rows
      OBVIOUS
    <2>1. q \in Seq(Sync!MutationRow) /\ added = Append(q, m) /\ k = Len(q)
      BY <1>3
    <2>2. /\ DOMAIN q = 1 .. k /\ DOMAIN added = 1 .. k + 1
          /\ added[k + 1] = m /\ \A i \in 1 .. k : added[i] = q[i] /\ q[i] \in Sync!MutationRow
      BY ONLY k \in Nat, <2>1
    <2> QED BY <2>2
  <1>9. /\ \A i \in 1 .. k : /\ added[i] \in SyncSent(w) /\ ~ Sync!Known(added[i])
                             /\ lastVersion[p.device] < added[i].version
                             /\ added[i].version =< syncDoing[w].last
        /\ \A i, j \in 1 .. k : i < j => added[i].version < added[j].version
        /\ lastVersion[p.device] =< syncDoing[w].last
        /\ syncDoing[w].rows # <<>> => syncDoing[w].from = nextCursor
        /\ \A i \in 1 .. syncDoing[w].done :
             Sync!Known(syncDoing[w].batch[i])
             \/ \E j \in 1 .. k : syncDoing[w].rows[j] = syncDoing[w].batch[i]
    <2>1. /\ \A i \in 1 .. k : /\ syncDoing[w].rows[i] \in SyncSent(w)
                                  /\ ~ Sync!Known(syncDoing[w].rows[i])
                               /\ lastVersion[syncDoing[w].device] < syncDoing[w].rows[i].version
                               /\ syncDoing[w].rows[i].version =< syncDoing[w].last
          /\ \A i, j \in 1 .. k : i < j => syncDoing[w].rows[i].version < syncDoing[w].rows[j].version
          /\ lastVersion[syncDoing[w].device] =< syncDoing[w].last
          /\ syncDoing[w].rows # <<>> => syncDoing[w].from = nextCursor
          /\ \A i \in 1 .. syncDoing[w].done :
               Sync!Known(syncDoing[w].batch[i])
               \/ \E j \in 1 .. k : syncDoing[w].rows[j] = syncDoing[w].batch[i]
      BY ONLY <1>1, <1>8 DEF SyncPushFits
    <2> QED BY <1>4, <1>8, <2>1
  <1>10. lastVersion[p.device] \in Nat /\ \A i \in 1 .. k + 1 : i = k + 1 \/ i \in 1 .. k
    <2>1. p.device \in Devices
      BY <1>4 DEF SyncPush
    <2>2. lastVersion[p.device] \in Nat
      BY <2>1 DEF SyncInv, SyncShape
    <2> QED BY <2>2
  <1>11. \A i \in 1 .. k : added[i].version \in Nat /\ added[i].version < m.version
    <2>1. \A i \in 1 .. k : added[i].version \in Nat
      BY <1>8 DEF Sync!MutationRow
    <2>2. \A i \in 1 .. k : added[i].version =< syncDoing[w].last
      BY <1>9
    <2> QED BY <1>2, <1>3, <2>1, <2>2, SMTT(30)
  <1>12. lastVersion[p.device] < m.version
    BY <1>2, <1>3, <1>9, <1>10
  <1>13. SyncPushFits(w)'
    <2>1. ASSUME NEW i \in DOMAIN p.rows
          PROVE  /\ p.rows[i] \in SyncSent(w)' /\ ~ Sync!Known(p.rows[i])'
                 /\ lastVersion'[p.device] < p.rows[i].version /\ p.rows[i].version =< m.version
      <3>1. CASE i = k + 1
        <4>1. p.rows[i] = m
          BY <1>4, <1>8, <3>1
        <4>2. m \in SyncSent(w)' /\ ~ Sync!Known(m)' /\ m.version =< m.version
          BY <1>1, <1>2, <1>3, <1>7, SMTT(30)
        <4> QED BY <1>6, <1>12, <4>1, <4>2
      <3>2. CASE i \in 1 .. k
        <4>1. added[i].version =< m.version
          BY <1>3, <1>11, <3>2, SMTT(30)
        <4> QED BY <1>4, <1>6, <1>7, <1>9, <3>2, <4>1
      <3> QED BY <1>4, <1>8, <1>10, <3>1, <3>2
    <2>2. ASSUME NEW i \in DOMAIN p.rows, NEW j \in DOMAIN p.rows, i < j
          PROVE  p.rows[i].version < p.rows[j].version
      <3>1. i \in 1 .. k /\ (j = k + 1 \/ j \in 1 .. k)
        BY <1>4, <1>8, <2>2
      <3> QED BY <1>4, <1>8, <1>9, <1>11, <2>2, <3>1
    <2>3. ASSUME NEW i \in 1 .. n
          PROVE  Sync!Known(p.batch[i])' \/ \E j \in DOMAIN p.rows : p.rows[j] = p.batch[i]
      <3>1. CASE i = n
        <4>1. k + 1 \in DOMAIN p.rows
          BY <1>4, <1>8
        <4> QED BY <1>1, <1>4, <1>8, <3>1, <4>1
      <3>2. CASE i \in 1 .. syncDoing[w].done
        <4>1. CASE Sync!Known(p.batch[i])
          BY <1>7, <4>1
        <4>2. CASE \E j \in 1 .. k : syncDoing[w].rows[j] = p.batch[i]
          <5>1. PICK j \in 1 .. k : syncDoing[w].rows[j] = p.batch[i]
            BY <4>2
          <5>2. j \in DOMAIN p.rows /\ p.rows[j] = p.batch[i]
            BY <1>4, <1>8, <5>1
          <5> QED BY <5>2
        <4> QED BY <1>4, <1>9, <3>2, <4>1, <4>2
      <3> QED BY <1>1, <3>1, <3>2, SMTT(30)
    <2>4. p.from = nextCursor'
      BY <1>4, <1>6, <1>9
    <2>5. p.done =< Len(p.batch) /\ lastVersion'[p.device] =< m.version
      <3>1. p.done =< Len(p.batch)
        BY ONLY <1>1, <1>4
      <3>2. lastVersion'[p.device] =< m.version
        BY ONLY <1>3, <1>6, <1>10, <1>12
      <3> QED BY ONLY <3>1, <3>2
    <2> QED BY ONLY <1>4, <1>6, <2>1, <2>2, <2>3, <2>4, <2>5 DEF SyncPushFits
  <1>14. p.step = "locked" => syncDoing[w].step = "locked"
    BY <1>1
  <1> QED BY <1>1, <1>2, <1>4, <1>5, <1>13, SyncPushGoesOn

(* Requests that end, and the wait of the device with them. *)
LEMMA SyncRequestEnds ==
    ASSUME SyncInv, NEW w \in Workers, Sync!Continue(w, Sync!Idle), UNCHANGED Sync!server,
           sync' \in [Devices -> SyncWait],
           \A d \in Devices : sync'[d].results = sync[d].results \/ sync'[d].results = {},
           outbox' \in [Devices -> SyncOutboxRow],
           \A c \in Devices : /\ outbox'[c].made = outbox[c].made
                              /\ outbox'[c].cursor = outbox[c].cursor
                              /\ \A m \in SyncQueued(c)' : m \in SyncQueued(c)
    PROVE  SyncInv'
  <1>1. /\ syncDoing' \in [Workers -> SyncRequest] /\ syncDoing'[w].op = "idle"
        /\ \A v \in Workers \ {w} : syncDoing'[v] = syncDoing[v]
    BY DEF Sync!Continue, SyncInv, SyncShape, SyncRequest, Sync!Idle
  <1>2. \A v \in Workers : syncDoing'[v].op = "push" => syncDoing'[v] = syncDoing[v]
    BY <1>1
  <1>3. SyncMutationsFit'
    BY <1>2, SyncMadeKept
  <1> QED BY <1>1, <1>3, SyncRequestStep

LEMMA SyncRefuseStep ==
    ASSUME SyncInv, Sync!PagesAssumption, NEW w \in Workers, Sync!Refuse(w)
    PROVE  SyncInv'
  <1> PICK d : d = syncDoing[w].device
    OBVIOUS
  <1>1. syncDoing[w].op = "push" /\ syncDoing[w] \in SyncPush /\ d \in Devices
    <2>1. syncDoing[w].op = "push"
      BY DEF Sync!Refuse, Sync!Working
    <2> QED BY <2>1, SyncPushIs DEF SyncPush
  <1>2. Sync!Continue(w, Sync!Idle) /\ UNCHANGED Sync!server
    BY DEF Sync!Refuse
  <1>3. CASE Sync!Awaits(d, w)
    <2>1. outbox' = Sync!AllTerminal(d) /\ sync' = [sync EXCEPT ![d] = Sync!Resting]
      BY <1>3 DEF Sync!Refuse
    <2>2. sync' \in [Devices -> SyncWait] /\ \A c \in Devices : sync'[c] = sync[c]
            \/ sync'[c] = Sync!Resting
      BY <1>1, <2>1, SyncRestingFits
    <2>3. \A c \in Devices : sync'[c].results = sync[c].results \/ sync'[c].results = {}
      BY <2>2 DEF Sync!Resting
    <2>4. /\ outbox' \in [Devices -> SyncOutboxRow]
          /\ \A c \in Devices : /\ outbox'[c].made = outbox[c].made
                                /\ outbox'[c].cursor = outbox[c].cursor
                                /\ \A m \in SyncQueued(c)' : m \in SyncQueued(c)
      BY <1>1, <2>1, SyncTerminalFits
    <2> QED BY <1>2, <2>2, <2>3, <2>4, SyncRequestEnds
  <1>4. CASE ~ Sync!Awaits(d, w)
    <2>1. outbox' = outbox /\ sync' = sync
      BY <1>4 DEF Sync!Refuse
    <2>2. sync' \in [Devices -> SyncWait] /\ outbox' \in [Devices -> SyncOutboxRow]
      BY <2>1 DEF SyncInv, SyncShape
    <2> QED BY <1>2, <2>1, <2>2, SyncRequestEnds DEF SyncQueued
  <1> QED BY <1>3, <1>4

LEMMA SyncRollbackStep ==
    ASSUME SyncInv, Sync!PagesAssumption, NEW w \in Workers, Sync!Rollback(w)
    PROVE  SyncInv'
  <1>1. Sync!Resting \in SyncWait /\ Sync!Resting.results = {}
    BY DEF Sync!Resting, SyncWait, Sync!PagesAssumption
  <1>2. /\ Sync!Continue(w, Sync!Idle) /\ UNCHANGED <<Sync!server, outbox>>
        /\ sync' = [d \in Devices |-> IF Sync!Awaits(d, w) THEN Sync!Resting ELSE sync[d]]
    BY DEF Sync!Rollback
  <1>3. sync \in [Devices -> SyncWait] /\ outbox \in [Devices -> SyncOutboxRow]
    BY DEF SyncInv, SyncShape
  <1>4. sync' \in [Devices -> SyncWait]
    BY <1>1, <1>2, <1>3
  <1>5. \A d \in Devices : sync'[d].results = sync[d].results \/ sync'[d].results = {}
    BY <1>1, <1>2
  <1> QED BY <1>2, <1>3, <1>4, <1>5, SyncRequestEnds DEF SyncQueued

(* The log that a push commits: its rows follow what was there.            *)
SyncExtended(N, k, added) ==
    /\ k \in Nat /\ added \in Seq(Sync!MutationRow) /\ DOMAIN added = 1 .. k /\ Len(added) = k
    /\ N \in Nat \ {0} /\ nextCursor = N /\ nextCursor' = N + k
    /\ DOMAIN mutations = 1 .. N - 1 /\ DOMAIN mutations' = 1 .. N + k - 1
    /\ \A c \in 1 .. N - 1 : mutations'[c] = mutations[c] /\ c \in DOMAIN mutations'
    /\ \A i \in 1 .. k : mutations'[N + i - 1] = added[i] /\ N + i - 1 \in DOMAIN mutations'
    /\ \A c \in DOMAIN mutations' : c \in 1 .. N - 1 \/ \E i \in 1 .. k : c = N + i - 1

LEMMA SyncCommitExtends ==
    ASSUME SyncInv, NEW w \in Workers, Sync!CommitPush(w)
    PROVE  /\ syncDoing[w] \in SyncPush /\ SyncAlone(w) /\ syncDoing[w].op = "push"
              /\ syncDoing[w].step = "locked"
           /\ syncDoing[w].done = Len(syncDoing[w].batch) /\ syncDoing[w].base < nextCursor
           /\ SyncExtended(nextCursor, Len(syncDoing[w].rows), syncDoing[w].rows)
  <1>1. /\ syncDoing[w] \in SyncPush /\ SyncAlone(w) /\ syncDoing[w].op = "push"
           /\ syncDoing[w].step = "locked"
        /\ syncDoing[w].done = Len(syncDoing[w].batch) /\ syncDoing[w].base < nextCursor
    BY SyncPushIs DEF Sync!CommitPush
  <1> PICK N, k, added, from : /\ N = nextCursor /\ added = syncDoing[w].rows /\ k = Len(added)
                               /\ from = syncDoing[w].from
    OBVIOUS
  <1>2. N \in Nat \ {0} /\ added \in Seq(Sync!MutationRow) /\ k \in Nat /\ DOMAIN added = 1 .. k
        /\ from \in Nat
        /\ DOMAIN mutations = 1 .. N - 1
    <2>1. added \in Seq(Sync!MutationRow) /\ from \in Nat
      BY <1>1 DEF SyncPush
    <2>2. N \in Nat \ {0} /\ DOMAIN mutations = 1 .. N - 1
      BY DEF SyncInv, SyncShape
    <2> QED BY <2>1, <2>2
  <1>3. k # 0 => from = N
    <2>1. k # 0 => added # <<>>
      BY <1>2
    <2> QED BY <1>1, <2>1 DEF SyncAlone, SyncPushFits
  <1>4. Sync!Taken(w) = from .. from + k - 1
    BY DEF Sync!Taken
  <1>5. /\ mutations' = [c \in DOMAIN mutations \cup Sync!Taken(w) |->
                           IF c \in Sync!Taken(w) THEN added[c - from + 1] ELSE mutations[c]]
        /\ nextCursor' = N + k
    BY DEF Sync!CommitPush
  <1>6. \A c : c \in Sync!Taken(w) <=> k # 0 /\ c \in N .. N + k - 1
    BY <1>2, <1>3, <1>4
  <1>7. \A i \in 1 .. k : /\ N + i - 1 \in Sync!Taken(w) /\ N + i - 1 \in 1 .. N + k - 1
                          /\ from = N /\ (N + i - 1) - N + 1 = i
    BY <1>2, <1>3, <1>6
  <1>8. \A i \in 1 .. k : mutations'[N + i - 1] = added[i]
    BY <1>5, <1>7
  <1>9. \A c \in 1 .. N - 1 : c \notin Sync!Taken(w) /\ c \in 1 .. N + k - 1
    BY <1>2, <1>6
  <1>10. \A c \in 1 .. N - 1 : mutations'[c] = mutations[c]
    BY <1>2, <1>5, <1>9
  <1>11. DOMAIN mutations' = 1 .. N + k - 1
    <2>1. \A c : c \in DOMAIN mutations \cup Sync!Taken(w) <=> c \in 1 .. N + k - 1
      BY <1>2, <1>6
    <2>2. DOMAIN mutations' = DOMAIN mutations \cup Sync!Taken(w)
      BY <1>5
    <2> QED BY <2>1, <2>2
  <1>12. ASSUME NEW c \in 1 .. N + k - 1
         PROVE  c \in 1 .. N - 1 \/ \E i \in 1 .. k : c = N + i - 1
    <2>1. CASE c < N
      BY <1>2, <2>1
    <2>2. CASE c >= N
      <3>1. c - N + 1 \in 1 .. k /\ c = N + (c - N + 1) - 1
        BY <1>2, <2>2
      <3> QED BY <3>1
    <2> QED BY <1>2, <2>1, <2>2
  <1>13. SyncExtended(N, k, added)
    <2>1. \A c \in 1 .. N - 1 : mutations'[c] = mutations[c] /\ c \in DOMAIN mutations'
      BY <1>9, <1>10, <1>11
    <2>2. \A i \in 1 .. k : mutations'[N + i - 1] = added[i] /\ N + i - 1 \in DOMAIN mutations'
      BY <1>7, <1>8, <1>11
    <2>3. \A c \in DOMAIN mutations' : c \in 1 .. N - 1 \/ \E i \in 1 .. k : c = N + i - 1
      BY <1>11, <1>12
    <2>4. nextCursor = N /\ Len(added) = k
      OBVIOUS
    <2> QED BY ONLY <1>2, <1>5, <1>11, <2>1, <2>2, <2>3, <2>4 DEF SyncExtended
  <1> QED BY <1>1, <1>13

(* What the committed log knows. *)
LEMMA SyncKnownGrows ==
    ASSUME NEW N, NEW k, NEW added, SyncExtended(N, k, added)
    PROVE  /\ \A m : Sync!Known(m) => Sync!Known(m)'
           /\ \A i \in 1 .. k : Sync!Known(added[i])'
           /\ \A m : Sync!Known(m)' => Sync!Known(m) \/ \E i \in 1 .. k : added[i].device = m.device
           /\ \A m \in SyncLogged' : m \in SyncLogged \/ \E i \in 1 .. k : m = added[i]
  <1>1. ASSUME NEW m, Sync!Known(m)
        PROVE  Sync!Known(m)'
    BY <1>1 DEF Sync!Known, SyncExtended
  <1>2. \A i \in 1 .. k : Sync!Known(added[i])'
    BY DEF Sync!Known, SyncExtended
  <1>3. ASSUME NEW m, Sync!Known(m)'
        PROVE  Sync!Known(m) \/ \E i \in 1 .. k : added[i].device = m.device
    <2>1. PICK c \in DOMAIN mutations' : mutations'[c].device = m.device /\ mutations'[c].id = m.id
      BY <1>3 DEF Sync!Known
    <2>2. CASE c \in 1 .. N - 1
      BY <2>1, <2>2 DEF Sync!Known, SyncExtended
    <2>3. CASE \E i \in 1 .. k : c = N + i - 1
      <3>1. PICK i \in 1 .. k : c = N + i - 1
        BY <2>3
      <3>2. mutations'[c] = added[i]
        BY <3>1 DEF SyncExtended
      <3> QED BY <2>1, <3>2
    <2> QED BY <2>1, <2>2, <2>3 DEF SyncExtended
  <1>4. ASSUME NEW c \in DOMAIN mutations'
        PROVE  mutations'[c] \in SyncLogged \/ \E i \in 1 .. k : mutations'[c] = added[i]
    BY DEF SyncExtended, SyncLogged
  <1>5. \A m \in SyncLogged' : m \in SyncLogged \/ \E i \in 1 .. k : m = added[i]
    BY <1>4 DEF SyncLogged
  <1> QED BY <1>1, <1>2, <1>3, <1>5

(* The rows of a push, before it commits them. *)
SyncRows(w, k, added, d, last) ==
        /\ added = syncDoing[w].rows /\ d = syncDoing[w].device /\ last = syncDoing[w].last
        /\ d \in Devices /\ lastVersion[d] \in Nat /\ last \in Nat
        /\ lastVersion[d] =< last
        /\ \A i \in 1 .. k :
             /\ added[i] \in Sync!MutationRow /\ added[i] \in SyncSent(w) /\ added[i].device = d
                /\ SyncMade(added[i])
             /\ ~ Sync!Known(added[i])
             /\ lastVersion[d] < added[i].version /\ added[i].version =< last
        /\ \A i, j \in 1 .. k : i < j => added[i].version < added[j].version
        /\ \A i \in DOMAIN syncDoing[w].batch :
             i =< syncDoing[w].done => Sync!Known(syncDoing[w].batch[i])
             \/ \E j \in 1 .. k : added[j] = syncDoing[w].batch[i]

LEMMA SyncRowsAre ==
    ASSUME SyncInv, NEW w \in Workers, Sync!CommitPush(w)
    PROVE  SyncRows(w, Len(syncDoing[w].rows), syncDoing[w].rows, syncDoing[w].device,
             syncDoing[w].last)
  <1> PICK N, k, added, d : /\ added = syncDoing[w].rows /\ d = syncDoing[w].device /\ N = nextCursor
                            /\ k = Len(added)
    OBVIOUS
  <1>0. /\ syncDoing[w] \in SyncPush /\ SyncAlone(w) /\ syncDoing[w].op = "push"
           /\ syncDoing[w].step = "locked"
        /\ SyncExtended(N, k, added)
    BY SyncCommitExtends
  <1>1. d \in Devices /\ syncDoing[w].last \in Nat
    BY <1>0 DEF SyncPush
  <1>2. lastVersion[d] \in Nat
    BY <1>1 DEF SyncInv, SyncShape
  <1>3. DOMAIN added = 1 .. k /\ \A i \in 1 .. k : added[i] \in Sync!MutationRow
    BY <1>0 DEF SyncExtended
  <1>4. SyncPushFits(w)
    BY <1>0 DEF SyncAlone
  <1>5. \A i \in 1 .. k : /\ added[i] \in SyncSent(w) /\ ~ Sync!Known(added[i])
                          /\ lastVersion[d] < added[i].version /\ added[i].version =< syncDoing[w].last
    BY <1>0, <1>3, <1>4 DEF SyncPushFits
  <1>6. \A i, j \in 1 .. k : i < j => added[i].version < added[j].version
    BY <1>0, <1>3, <1>4, SMTT(30) DEF SyncPushFits
  <1>7. lastVersion[d] =< syncDoing[w].last
    BY <1>0, <1>4 DEF SyncPushFits
  <1>8. \A m \in SyncSent(w) : m.device = d /\ SyncMade(m)
    BY <1>0 DEF SyncInv, SyncMutationsFit, SyncMade
  <1>9. \A i \in 1 .. syncDoing[w].done : Sync!Known(syncDoing[w].batch[i])
          \/ \E j \in 1 .. k : added[j] = syncDoing[w].batch[i]
    BY <1>0, <1>3, <1>4 DEF SyncPushFits
  <1>10. \A i \in DOMAIN syncDoing[w].batch : i =< syncDoing[w].done => i \in 1 .. syncDoing[w].done
    <2>1. syncDoing[w].batch \in Seq(Sync!MutationRow) /\ syncDoing[w].done \in Nat
      BY <1>0 DEF SyncPush
    <2> QED BY <2>1
  <1> QED BY <1>1, <1>2, <1>3, <1>5, <1>6, <1>7, <1>8, <1>9, <1>10 DEF SyncRows

LEMMA SyncCommitKeepsLog ==
    ASSUME SyncInv, NEW w \in Workers, Sync!CommitPush(w)
    PROVE  Sync!LogIsGapless' /\ Sync!VersionsIncrease'
  <1> PICK N, k, added, d, last : /\ N = nextCursor /\ added = syncDoing[w].rows /\ k = Len(added)
                                  /\ d = syncDoing[w].device /\ last = syncDoing[w].last
    OBVIOUS
  <1>1. SyncExtended(N, k, added)
    BY SyncCommitExtends
  <1>2. /\ d \in Devices /\ lastVersion[d] \in Nat /\ last \in Nat
        /\ lastVersion[d] =< last
        /\ \A i \in 1 .. k :
             /\ added[i] \in Sync!MutationRow /\ added[i].device = d /\ SyncMade(added[i])
             /\ ~ Sync!Known(added[i])
             /\ lastVersion[d] < added[i].version /\ added[i].version =< last
        /\ \A i, j \in 1 .. k : i < j => added[i].version < added[j].version
    <2>1. SyncRows(w, k, added, d, last)
      BY SyncRowsAre
    <2> QED BY ONLY <2>1 DEF SyncRows
  <1>3. lastVersion' = [lastVersion EXCEPT ![d] = last] /\ lastVersion \in [Devices -> Nat]
    BY DEF Sync!CommitPush, SyncInv, SyncShape
  <1>4. \A i, j \in 1 .. k : i # j => added[i].id # added[j].id
    <2>1. \A m, n \in Sync!MutationRow : SyncMade(m) /\ SyncMade(n) /\ m.device = n.device
            /\ m.id = n.id => m = n
      BY DEF SyncInv, SyncMutationsFit
    <2> SUFFICES ASSUME NEW i \in 1 .. k, NEW j \in 1 .. k, i < j
                 PROVE  added[i].id # added[j].id
      BY <1>1 DEF SyncExtended
    <2>2. added[i].version < added[j].version /\ added[j].version \in Nat
      BY <1>2 DEF Sync!MutationRow
    <2>3. added[i] # added[j]
      BY <2>2
    <2> QED BY <1>2, <2>1, <2>3, SMTT(30)
  <1>5. \A b \in 1 .. N - 1 : /\ mutations[b] \in Sync!MutationRow /\ b \in DOMAIN mutations
                                 /\ b \in Nat
                              /\ mutations[b].version =< lastVersion[mutations[b].device]
    <2>1. mutations \in [1 .. N - 1 -> Sync!MutationRow] /\ DOMAIN mutations = 1 .. N - 1
      BY <1>1 DEF SyncExtended, SyncInv, SyncShape
    <2>2. \A b \in DOMAIN mutations : mutations[b].version =< lastVersion[mutations[b].device]
      BY DEF SyncInv, Sync!VersionsIncrease
    <2>3. N \in Nat \ {0}
      BY <1>1 DEF SyncExtended
    <2>4. \A b \in 1 .. N - 1 : b \in Nat
      BY <2>3
    <2> QED BY ONLY <2>1, <2>2, <2>4
  <1>6. \A b \in 1 .. N - 1 : \A i \in 1 .. k :
          /\ ~ (mutations[b].device = d /\ mutations[b].id = added[i].id)
          /\ mutations[b].device = d => mutations[b].version < added[i].version
    <2> SUFFICES ASSUME NEW b \in 1 .. N - 1, NEW i \in 1 .. k
                 PROVE  /\ ~ (mutations[b].device = d /\ mutations[b].id = added[i].id)
                        /\ mutations[b].device = d => mutations[b].version < added[i].version
      OBVIOUS
    <2>1. ~ (mutations[b].device = d /\ mutations[b].id = added[i].id)
      BY <1>2, <1>5 DEF Sync!Known
    <2>2. mutations[b].version \in Nat /\ added[i].version \in Nat /\ lastVersion[d] < added[i].version
      BY <1>2, <1>5 DEF Sync!MutationRow
    <2> QED BY <1>2, <1>5, <2>1, <2>2, SMTT(30)
  <1>7. \A b, c \in 1 .. N - 1 : mutations[b].device = mutations[c].device =>
          (mutations[b].id = mutations[c].id => b = c)
          /\ (b < c => mutations[b].version < mutations[c].version)
    BY <1>5 DEF SyncInv, Sync!LogIsGapless, Sync!VersionsIncrease
  <1>8. /\ N \in Nat \ {0} /\ k \in Nat /\ nextCursor' = N + k
        /\ DOMAIN mutations' = 1 .. N + k - 1
        /\ \A c \in 1 .. N - 1 : mutations'[c] = mutations[c]
        /\ \A i \in 1 .. k : mutations'[N + i - 1] = added[i]
        /\ \A c \in DOMAIN mutations' : c \in 1 .. N - 1 \/ \E i \in 1 .. k : c = N + i - 1
    BY <1>1 DEF SyncExtended
  <1>9. ASSUME NEW b \in DOMAIN mutations', NEW c \in DOMAIN mutations',
                 mutations'[b].device = mutations'[c].device
        PROVE  (mutations'[b].id = mutations'[c].id => b = c)
               /\ (b < c => mutations'[b].version < mutations'[c].version)
    <2>1. CASE b \in 1 .. N - 1 /\ c \in 1 .. N - 1
      <3>1. mutations'[b] = mutations[b] /\ mutations'[c] = mutations[c]
        BY <1>8, <2>1
      <3> QED BY <1>7, <1>9, <2>1, <3>1
    <2>2. CASE b \in 1 .. N - 1 /\ \E i \in 1 .. k : c = N + i - 1
      <3>1. PICK i \in 1 .. k : c = N + i - 1
        BY <2>2
      <3>2. mutations'[c] = added[i] /\ mutations'[b] = mutations[b] /\ added[i].device = d
        BY <1>2, <1>8, <2>2, <3>1
      <3> QED BY <1>6, <1>9, <2>2, <3>2
    <2>3. CASE (\E i \in 1 .. k : b = N + i - 1) /\ c \in 1 .. N - 1
      <3>1. PICK i \in 1 .. k : b = N + i - 1
        BY <2>3
      <3>2. mutations'[b] = added[i] /\ mutations'[c] = mutations[c] /\ added[i].device = d
        BY <1>2, <1>8, <2>3, <3>1
      <3>3. ~ (b < c)
        BY <1>8, <2>3, <3>1
      <3> QED BY <1>6, <1>9, <2>3, <3>2, <3>3
    <2>4. CASE (\E i \in 1 .. k : b = N + i - 1) /\ (\E i \in 1 .. k : c = N + i - 1)
      <3>1. PICK i \in 1 .. k : b = N + i - 1
        BY <2>4
      <3>2. PICK j \in 1 .. k : c = N + j - 1
        BY <2>4
      <3>3. mutations'[b] = added[i] /\ mutations'[c] = added[j]
        BY <1>8, <3>1, <3>2
      <3>4. (b < c => i < j) /\ (i = j => b = c)
        BY <1>8, <3>1, <3>2
      <3> QED BY <1>2, <1>4, <3>3, <3>4
    <2> QED BY <1>8, <2>1, <2>2, <2>3, <2>4
  <1>10. ASSUME NEW c \in DOMAIN mutations'
         PROVE  mutations'[c].version =< lastVersion'[mutations'[c].device]
    <2>1. lastVersion'[d] = last
      BY <1>2, <1>3
    <2>2. CASE c \in 1 .. N - 1
      <3>1. mutations'[c] = mutations[c] /\ mutations[c] \in Sync!MutationRow
            /\ mutations[c].version =< lastVersion[mutations[c].device]
        BY <1>5, <1>8, <2>2
      <3>2. mutations[c].version \in Nat /\ mutations[c].device \in Devices
        BY <3>1 DEF Sync!MutationRow
      <3>3. CASE mutations[c].device = d
        BY <1>2, <2>1, <3>1, <3>2, <3>3
      <3>4. CASE mutations[c].device # d
        BY <1>3, <3>1, <3>2, <3>4
      <3> QED BY <3>3, <3>4
    <2>3. CASE \E i \in 1 .. k : c = N + i - 1
      <3>1. PICK i \in 1 .. k : c = N + i - 1
        BY <2>3
      <3>2. mutations'[c] = added[i] /\ added[i].device = d /\ added[i].version =< last
        BY <1>2, <1>8, <3>1
      <3> QED BY <2>1, <3>2
    <2> QED BY <1>8, <2>2, <2>3
  <1>11. Sync!LogIsGapless'
    <2>1. DOMAIN mutations' = 1 .. nextCursor' - 1
      BY <1>8
    <2>2. \A b, c \in DOMAIN mutations' :
            mutations'[b].device = mutations'[c].device /\ mutations'[b].id = mutations'[c].id => b = c
      BY <1>9
    <2> QED BY <2>1, <2>2 DEF Sync!LogIsGapless
  <1> QED BY <1>9, <1>10, <1>11 DEF Sync!VersionsIncrease

LEMMA SyncCommitKeepsShape ==
    ASSUME SyncInv, Sync!PagesAssumption, NEW w \in Workers, Sync!CommitPush(w)
    PROVE  SyncShape' /\ SyncCursorsFit' /\ SyncResultsKnown'
  <1> PICK N, k, m, d, sent : /\ m = syncDoing[w] /\ N = nextCursor /\ k = Len(m.rows)
                              /\ d = m.device /\ sent = {m.batch[i] : i \in DOMAIN m.batch}
    OBVIOUS
  <1>1. m \in SyncPush /\ SyncAlone(w) /\ m.op = "push" /\ m.step = "locked" /\ m.done = Len(m.batch)
        /\ m.base < N /\ SyncExtended(N, k, m.rows)
    BY SyncCommitExtends
  <1>2. N \in Nat \ {0} /\ k \in Nat /\ nextCursor' = N + k /\ DOMAIN mutations' = 1 .. N + k - 1
    BY <1>1 DEF SyncExtended
  <1>3. m.base \in Nat /\ m.last \in Nat /\ d \in Devices /\ m.batch \in Seq(Sync!MutationRow)
    BY <1>1 DEF SyncPush
  <1>4. mutations' \in [1 .. nextCursor' - 1 -> Sync!MutationRow]
    <2>1. \A c \in DOMAIN mutations' : mutations'[c] \in SyncLogged
            \/ \E i \in 1 .. k : mutations'[c] = m.rows[i]
      <3> SUFFICES ASSUME NEW c \in DOMAIN mutations'
                   PROVE  mutations'[c] \in SyncLogged \/ \E i \in 1 .. k : mutations'[c] = m.rows[i]
        OBVIOUS
      <3> QED BY ONLY <1>1, c \in DOMAIN mutations', ZenonT(60) DEF SyncExtended, SyncLogged
    <2>2. \A x \in SyncLogged : x \in Sync!MutationRow
      BY DEF SyncLogged, SyncInv, SyncShape
    <2>3. \A i \in 1 .. k : m.rows[i] \in Sync!MutationRow
      BY <1>1 DEF SyncExtended
    <2>4. mutations' = [c \in DOMAIN mutations \cup Sync!Taken(w) |->
                           IF c \in Sync!Taken(w) THEN m.rows[c - m.from + 1] ELSE mutations[c]]
      BY DEF Sync!CommitPush
    <2>5. mutations' = [c \in DOMAIN mutations' |-> mutations'[c]]
      BY <2>4
    <2> QED BY <1>2, <2>1, <2>2, <2>3, <2>5, SMTT(30)
  <1>5. Sync!Max({confirmed[d], m.base}) \in Nat /\ confirmed[d] \in Nat
        /\ (Sync!Max({confirmed[d], m.base}) = confirmed[d]
             \/ Sync!Max({confirmed[d], m.base}) = m.base)
    <2>1. confirmed[d] \in Nat
      BY <1>3 DEF SyncInv, SyncShape
    <2> QED BY <1>3, <2>1, SyncMaxOfTwo
  <1>6. confirmed' = [confirmed EXCEPT ![d] = Sync!Max({confirmed[d], m.base})]
        /\ lastVersion' = [lastVersion EXCEPT ![d] = m.last] /\ outbox' = outbox
    BY DEF Sync!CommitPush
  <1>7. sent \subseteq Sync!MutationRow /\ IsFiniteSet(sent) /\ \A x \in sent : Sync!Known(x)'
    <2> PICK n \in Nat : n = Len(m.batch)
      BY <1>3
    <2>1. DOMAIN m.batch = 1 .. n /\ \A i \in 1 .. n : m.batch[i] \in Sync!MutationRow
      BY <1>3
    <2>2. m.batch = [i \in DOMAIN m.batch |-> m.batch[i]] /\ IsFiniteSet(DOMAIN m.batch)
      <3>1. m.batch = [i \in DOMAIN m.batch |-> m.batch[i]]
        BY <1>3
      <3>2. IsFiniteSet(1 .. n)
        BY FS_Interval
      <3> QED BY <2>1, <3>1, <3>2
    <2>3. IsFiniteSet(sent)
      BY <2>2, ValuesFinite
    <2>4. \A i \in DOMAIN m.batch : Sync!Known(m.batch[i]) \/ \E j \in 1 .. k : m.rows[j] = m.batch[i]
      <3>1. \A i \in DOMAIN m.batch : i =< m.done
        BY <1>1, <2>1
      <3>2. syncDoing[w] = m /\ d = m.device
        OBVIOUS
      <3>3. SyncRows(w, k, m.rows, d, m.last)
        BY SyncRowsAre
      <3> QED BY ONLY <3>1, <3>2, <3>3 DEF SyncRows
    <2>5. \A i \in DOMAIN m.batch : Sync!Known(m.batch[i])'
      BY <1>1, <2>4, SyncKnownGrows
    <2> QED BY <2>1, <2>3, <2>5
  <1>8. \A c \in Devices : /\ sync'[c] \in SyncWait /\ IsFiniteSet(sync'[c].results)
                           /\ \A x \in sync'[c].results : Sync!Known(x)'
    <2> PICK s : s = Sync!Waiting("pull", Nobody, sent, 0)
      OBVIOUS
    <2>1. s \in SyncWait /\ s.results = sent
      BY <1>7 DEF Sync!Waiting, SyncWait, Sync!PagesAssumption
    <2>2. sync' = [sync EXCEPT ![d] = s] \/ sync' = sync
      BY DEF Sync!CommitPush
    <2>3. \A c \in Devices : sync'[c] = sync[c] \/ sync'[c] = s
      BY <2>2 DEF SyncInv, SyncShape
    <2> SUFFICES ASSUME NEW c \in Devices
                 PROVE  /\ sync'[c] \in SyncWait /\ IsFiniteSet(sync'[c].results)
                        /\ \A x \in sync'[c].results : Sync!Known(x)'
      OBVIOUS
    <2>4. CASE sync'[c] = s
      BY <1>7, <2>1, <2>4
    <2>5. CASE sync'[c] = sync[c]
      <3>1. \A x \in sync[c].results : Sync!Known(x)
        BY DEF SyncInv, SyncResultsKnown
      <3>2. \A x \in sync[c].results : Sync!Known(x)'
        BY <1>1, <3>1, SyncKnownGrows
      <3> QED BY <2>5, <3>2 DEF SyncInv, SyncShape
    <2> QED BY <2>3, <2>4, <2>5
  <1>9. sync' \in [Devices -> SyncWait]
    <2>1. (\E s : sync' = [sync EXCEPT ![d] = s]) \/ sync' = sync
      BY DEF Sync!CommitPush
    <2> QED BY <1>8, <2>1 DEF SyncInv, SyncShape
  <1>10. /\ syncDoing' \in [Workers -> SyncRequest]
         /\ \A v \in Workers : \/ v = w /\ syncDoing'[v] = Sync!Idle
                               \/ syncDoing'[v] = syncDoing[v]
                               \/ syncDoing[v].op = "push"
                                  /\ syncDoing'[v] = [syncDoing[v] EXCEPT !.step = "beaten"]
    <2>1. syncDoing' = [v \in Workers |->
                          IF v = w THEN Sync!Idle
                          ELSE IF Sync!PushOf(v, d) THEN [syncDoing[v] EXCEPT !.step = "beaten"]
                          ELSE syncDoing[v]]
      BY DEF Sync!CommitPush
    <2>2. \A v \in Workers : Sync!PushOf(v, d) => [syncDoing[v] EXCEPT !.step = "beaten"] \in SyncPush
      BY SyncPushIs DEF Sync!PushOf, SyncPush
    <2>3. \A v \in Workers : syncDoing[v] \in SyncRequest
      BY DEF SyncInv, SyncShape
    <2> QED BY <2>1, <2>2, <2>3 DEF SyncRequest, Sync!PushOf
  <1>11. SyncShape'
    <2>1. confirmed' \in [Devices -> Nat] /\ lastVersion' \in [Devices -> Nat]
          /\ outbox' \in [Devices -> SyncOutboxRow] /\ nextCursor' \in Nat \ {0}
      BY <1>2, <1>3, <1>5, <1>6, SMTT(30) DEF SyncInv, SyncShape
    <2> QED BY <1>4, <1>8, <1>9, <1>10, <2>1 DEF SyncShape
  <1>12. SyncCursorsFit'
    <2>1. \A a \in Nat : a < N => a < nextCursor'
      BY <1>2
    <2>2. \A c \in Devices : /\ confirmed[c] \in Nat /\ confirmed[c] < N
                             /\ outbox[c].cursor # Unset =>
                                  outbox[c].cursor \in Nat /\ outbox[c].cursor < N
      BY DEF SyncInv, SyncShape, SyncOutboxRow, SyncCursorsFit, Sync!CursorsExist
    <2>3. \A c \in Devices : confirmed'[c] = confirmed[c] \/ confirmed'[c] = m.base
      BY <1>5, <1>6 DEF SyncInv, SyncShape
    <2>4. \A c \in Devices : confirmed'[c] < nextCursor'
      BY <1>1, <1>3, <2>1, <2>2, <2>3
    <2>5. \A v \in Workers :
            /\ syncDoing[v].op = "push" => syncDoing[v].base \in Nat /\ syncDoing[v].base < N
            /\ syncDoing[v].op = "pull" => syncDoing[v].cursor \in Nat /\ syncDoing[v].cursor < N
      BY DEF SyncInv, SyncShape, SyncCursorsFit, SyncRequest, Sync!Idle, SyncPush, SyncPull
    <2>6. ASSUME NEW v \in Workers
          PROVE  /\ syncDoing'[v].op = "push" => syncDoing'[v].base < nextCursor'
                 /\ syncDoing'[v].op = "pull" => syncDoing'[v].cursor < nextCursor'
      <3>1. CASE syncDoing'[v] = Sync!Idle
        BY <3>1 DEF Sync!Idle
      <3>2. CASE syncDoing'[v] = syncDoing[v]
        BY <2>1, <2>5, <3>2
      <3>3. CASE syncDoing[v].op = "push" /\ syncDoing'[v] = [syncDoing[v] EXCEPT !.step = "beaten"]
        <4>1. syncDoing'[v].op = "push" /\ syncDoing'[v].base = syncDoing[v].base
          BY <3>3, SyncPushIs DEF SyncPush
        <4> QED BY <2>1, <2>5, <3>3, <4>1
      <3> QED BY <1>10, <3>1, <3>2, <3>3
    <2>7. \A c \in Devices : outbox'[c].cursor # Unset => outbox'[c].cursor < nextCursor'
      BY <1>6, <2>1, <2>2
    <2> QED BY <2>4, <2>6, <2>7 DEF SyncCursorsFit, Sync!CursorsExist
  <1> QED BY <1>8, <1>11, <1>12 DEF SyncResultsKnown

LEMMA SyncCommitKeepsPushes ==
    ASSUME SyncInv, NEW w \in Workers, Sync!CommitPush(w)
    PROVE  SyncMutationsFit' /\ SyncPushesFit'
  <1> PICK N, k, added, d, last : /\ N = nextCursor /\ added = syncDoing[w].rows /\ k = Len(added)
                                  /\ d = syncDoing[w].device /\ last = syncDoing[w].last
    OBVIOUS
  <1>1. SyncExtended(N, k, added) /\ SyncAlone(w) /\ syncDoing[w].op = "push"
        /\ syncDoing[w].step = "locked"
    BY SyncCommitExtends
  <1>2. SyncRows(w, k, added, d, last)
    BY SyncRowsAre
  <1>3. \A i \in 1 .. k : added[i].device = d /\ SyncMade(added[i])
    BY <1>2 DEF SyncRows
  <1>4. /\ \A m : Sync!Known(m) => Sync!Known(m)'
        /\ \A m : Sync!Known(m)' => Sync!Known(m) \/ \E i \in 1 .. k : added[i].device = m.device
        /\ \A m \in SyncLogged' : m \in SyncLogged \/ \E i \in 1 .. k : m = added[i]
    BY <1>1, SyncKnownGrows
  <1>5. /\ outbox' = outbox /\ lastVersion' = [lastVersion EXCEPT ![d] = last]
        /\ lastVersion \in [Devices -> Nat]
    BY DEF Sync!CommitPush, SyncInv, SyncShape
  <1>6. \A v \in Workers : syncDoing'[v].op = "push" =>
          /\ v # w /\ syncDoing[v].op = "push"
          /\ \/ syncDoing[v].device = d /\ syncDoing'[v] = [syncDoing[v] EXCEPT !.step = "beaten"]
             \/ syncDoing[v].device # d /\ syncDoing'[v] = syncDoing[v]
    <2>1. syncDoing' = [v \in Workers |->
                          IF v = w THEN Sync!Idle
                          ELSE IF Sync!PushOf(v, d) THEN [syncDoing[v] EXCEPT !.step = "beaten"]
                          ELSE syncDoing[v]]
      BY DEF Sync!CommitPush
    <2> SUFFICES ASSUME NEW v \in Workers, syncDoing'[v].op = "push"
                 PROVE  /\ v # w /\ syncDoing[v].op = "push"
                        /\ \/ syncDoing[v].device = d
                              /\ syncDoing'[v] = [syncDoing[v] EXCEPT !.step = "beaten"]
                           \/ syncDoing[v].device # d /\ syncDoing'[v] = syncDoing[v]
      OBVIOUS
    <2>2. v # w
      BY <2>1 DEF Sync!Idle
    <2>3. CASE Sync!PushOf(v, d)
      BY <2>1, <2>2, <2>3 DEF Sync!PushOf
    <2>4. CASE ~ Sync!PushOf(v, d)
      BY <2>1, <2>2, <2>4 DEF Sync!PushOf
    <2> QED BY <2>3, <2>4
  <1>7. ASSUME NEW v \in Workers, syncDoing'[v].op = "push"
        PROVE  /\ syncDoing[v].op = "push" /\ syncDoing'[v].batch = syncDoing[v].batch
               /\ syncDoing'[v].device = syncDoing[v].device /\ syncDoing'[v].rows = syncDoing[v].rows
               /\ syncDoing'[v].done = syncDoing[v].done /\ syncDoing'[v].from = syncDoing[v].from
               /\ syncDoing'[v].last = syncDoing[v].last
               /\ syncDoing'[v].step = IF syncDoing[v].device = d THEN "beaten" ELSE syncDoing[v].step
    <2>1. syncDoing[v].op = "push"
      BY <1>6, <1>7
    <2>2. syncDoing[v] \in SyncPush
      BY <2>1, SyncPushIs
    <2> QED BY <1>6, <1>7, <2>1, <2>2 DEF SyncPush
  <1>8. SyncMutationsFit'
    <2>1. \A v \in Workers : syncDoing'[v].op = "push" =>
            \A m \in SyncSent(v)' : m.device = syncDoing'[v].device /\ SyncMade(m)
      BY <1>7, SyncSentKept
    <2>2. \A m \in SyncLogged' : SyncMade(m)
      BY <1>3, <1>4 DEF SyncMade
    <2> QED BY <1>5, <2>1, <2>2, SyncMutationsKept DEF SyncQueued
  <1>9. ASSUME NEW v \in Workers, syncDoing'[v].op = "push", syncDoing[v].device = d
        PROVE  SyncPushFits(v)'
    <2>1. v # w /\ syncDoing[v].op = "push"
      BY <1>6, <1>9
    <2>2. syncDoing[v].step # "locked" /\ SyncPushFits(v)
      BY <1>1, <1>9, <2>1 DEF SyncAlone, SyncInv, SyncPushesFit
    <2>3. syncDoing[v].rows = <<>> /\ syncDoing[v].done = 0
          /\ syncDoing[v].done =< Len(syncDoing[v].batch)
      BY <2>2 DEF SyncPushFits
    <2>4. /\ syncDoing'[v].batch = syncDoing[v].batch /\ syncDoing'[v].rows = <<>>
             /\ syncDoing'[v].done = 0
          /\ syncDoing'[v].step = "beaten"
      BY <1>7, <1>9, <2>3
    <2> QED BY ONLY <2>3, <2>4 DEF SyncPushFits
  <1>10. ASSUME NEW v \in Workers, syncDoing'[v].op = "push", syncDoing[v].device # d
         PROVE  SyncPushFits(v)'
    <2>1. v # w /\ syncDoing[v].op = "push" /\ syncDoing'[v] = syncDoing[v]
      BY <1>6, <1>10
    <2>2. SyncPushFits(v) /\ (syncDoing[v].rows = <<>> \/ added = <<>>) /\ syncDoing[v] \in SyncPush
      BY <1>1, <2>1, SyncPushIs DEF SyncAlone
    <2>3. syncDoing[v].device \in Devices
      BY <2>2 DEF SyncPush
    <2>4. lastVersion'[syncDoing[v].device] = lastVersion[syncDoing[v].device]
      BY <1>5, <1>10, <2>3
    <2>5. syncDoing[v].rows # <<>> => nextCursor' = nextCursor
      <3>1. added = <<>> => k = 0
        OBVIOUS
      <3> QED BY <1>1, <2>2, <3>1 DEF SyncExtended
    <2>6. \A m \in SyncSent(v) : m.device = syncDoing[v].device
      BY <2>1 DEF SyncInv, SyncMutationsFit
    <2>7. \A m \in SyncSent(v) : ~ Sync!Known(m) => ~ Sync!Known(m)'
      BY <1>3, <1>4, <1>10, <2>6
    <2>8. SyncSent(v)' = SyncSent(v)
      BY <2>1 DEF SyncSent
    <2>11. PICK p : p = syncDoing[v]
      OBVIOUS
    <2>9. /\ p.done =< Len(p.batch)
          /\ p.step # "locked" => p.rows = <<>> /\ p.done = 0
          /\ p.rows # <<>> => p.from = nextCursor'
      BY <2>2, <2>5, <2>11 DEF SyncPushFits
    <2>10. ASSUME p.step = "locked"
           PROVE  /\ lastVersion'[p.device] =< p.last
                  /\ \A i \in DOMAIN p.rows :
                       /\ p.rows[i] \in SyncSent(v)' /\ ~ Sync!Known(p.rows[i])'
                       /\ lastVersion'[p.device] < p.rows[i].version /\ p.rows[i].version =< p.last
                  /\ \A i, j \in DOMAIN p.rows : i < j => p.rows[i].version < p.rows[j].version
                  /\ \A i \in 1 .. p.done :
                       Sync!Known(p.batch[i])' \/ \E j \in DOMAIN p.rows : p.rows[j] = p.batch[i]
      <3>1. /\ lastVersion[p.device] =< p.last
            /\ \A i \in DOMAIN p.rows :
                 /\ p.rows[i] \in SyncSent(v) /\ ~ Sync!Known(p.rows[i])
                 /\ lastVersion[p.device] < p.rows[i].version /\ p.rows[i].version =< p.last
            /\ \A i, j \in DOMAIN p.rows : i < j => p.rows[i].version < p.rows[j].version
            /\ \A i \in 1 .. p.done :
                 Sync!Known(p.batch[i]) \/ \E j \in DOMAIN p.rows : p.rows[j] = p.batch[i]
        BY <2>2, <2>10, <2>11 DEF SyncPushFits
      <3>2. lastVersion'[p.device] = lastVersion[p.device]
        BY <2>4, <2>11
      <3> QED BY ONLY <1>4, <2>7, <2>8, <3>1, <3>2
    <2> QED BY ONLY <2>1, <2>9, <2>10, <2>11 DEF SyncPushFits
  <1>11. ASSUME NEW u \in Workers, syncDoing'[u].op = "push",
                NEW v \in Workers, syncDoing'[v].op = "push", v # u
         PROVE  /\ syncDoing'[u].device = syncDoing'[v].device =>
                     syncDoing'[u].step # "locked" \/ syncDoing'[v].step # "locked"
                /\ syncDoing'[u].rows = <<>> \/ syncDoing'[v].rows = <<>>
    <2>1. syncDoing[u].op = "push" /\ syncDoing[v].op = "push"
      BY <1>7, <1>11
    <2>2. /\ syncDoing[u].device = syncDoing[v].device =>
               syncDoing[u].step # "locked" \/ syncDoing[v].step # "locked"
          /\ syncDoing[u].rows = <<>> \/ syncDoing[v].rows = <<>>
      BY <1>11, <2>1 DEF SyncInv, SyncPushesFit
    <2>3. /\ syncDoing'[u].device = syncDoing[u].device /\ syncDoing'[u].rows = syncDoing[u].rows
          /\ syncDoing'[v].device = syncDoing[v].device /\ syncDoing'[v].rows = syncDoing[v].rows
          /\ syncDoing'[u].step = "locked" => syncDoing[u].step = "locked"
          /\ syncDoing'[v].step = "locked" => syncDoing[v].step = "locked"
      BY <1>7, <1>11
    <2> QED BY <2>2, <2>3
  <1>12. SyncPushesFit'
    BY <1>9, <1>10, <1>11, <1>7 DEF SyncPushesFit
  <1> QED BY <1>8, <1>12

LEMMA SyncCommitPushStep ==
    ASSUME SyncInv, Sync!PagesAssumption, NEW w \in Workers, Sync!CommitPush(w)
    PROVE  SyncInv'
  BY SyncCommitKeepsLog, SyncCommitKeepsShape, SyncCommitKeepsPushes DEF SyncInv

(* What a device does with the answer to a pull. *)
LEMMA SyncUnsentFits ==
    ASSUME SyncInv, NEW d \in Devices
    PROVE  /\ Sync!Unsent(d) \in Seq(SyncItem)
           /\ SyncCovers(Sync!Unsent(d), outbox[d].items,
                         {i \in DOMAIN outbox[d].items :
                           outbox[d].items[i].mutation \notin sync[d].results})
  <1> PICK P : P = {i \in DOMAIN outbox[d].items : outbox[d].items[i].mutation \notin sync[d].results}
    OBVIOUS
  <1>1. P \in SUBSET DOMAIN outbox[d].items /\ Sync!Unsent(d) = Sync!Picked(outbox[d].items, P)
    BY DEF Sync!Unsent
  <1> QED BY <1>1, SyncPickedItems

LEMMA SyncPullAnswered ==
    ASSUME SyncInv, Sync!PagesAssumption, NEW w \in Workers, Sync!CommitPull(w), NEW d,
             d = syncDoing[w].device
    PROVE  /\ syncDoing[w] \in SyncPull /\ d \in Devices
           /\ outbox' \in [Devices -> SyncOutboxRow]
           /\ \A c \in Devices : c # d => outbox'[c] = outbox[c] /\ sync'[c] = sync[c]
           /\ outbox'[d].made = outbox[d].made
           /\ outbox'[d].cursor = outbox[d].cursor
              \/ outbox'[d].cursor = Sync!EndOf(syncDoing[w].cursor)
           /\ outbox'[d].items = outbox[d].items \/ outbox'[d].items = Sync!Unsent(d)
           /\ sync' \in [Devices -> SyncWait]
           /\ sync'[d].results = sync[d].results \/ sync'[d].results = {}
  <1> PICK m : m = syncDoing[w]
    OBVIOUS
  <1>1. m.op = "pull" /\ m \in SyncPull /\ d \in Devices /\ m.cursor \in Nat /\ m.cursor < nextCursor
    <2>1. m.op = "pull" /\ m \in SyncRequest
      BY DEF Sync!CommitPull, SyncInv, SyncShape
    <2>2. m \in SyncPull
      BY <2>1 DEF SyncRequest, Sync!Idle, SyncPush
    <2> QED BY <2>1, <2>2, SMTT(30) DEF SyncPull, SyncInv, SyncCursorsFit
  <1>2. Sync!EndOf(m.cursor) \in Nat /\ Sync!Page(m.cursor) \in SUBSET Nat
    BY <1>1, SyncEndFits
  <1>3. outbox \in [Devices -> SyncOutboxRow] /\ outbox[d] \in SyncOutboxRow
        /\ sync \in [Devices -> SyncWait] /\ sync[d] \in SyncWait /\ IsFiniteSet(sync[d].results)
    BY <1>1 DEF SyncInv, SyncShape
  <1>4. CASE ~ Sync!Awaits(d, w)
    <2>1. outbox' = outbox /\ sync' = sync
      BY <1>4, SMTT(30) DEF Sync!CommitPull
    <2> QED BY <1>1, <1>3, <2>1
  <1>5. CASE Sync!Awaits(d, w)
    <2>1. PICK end, done : end = Sync!EndOf(m.cursor) /\ done = ~ Sync!More(m.cursor)
      OBVIOUS
    <2>2. PICK items : items = IF done THEN Sync!Unsent(d) ELSE outbox[d].items
      OBVIOUS
    <2>3. PICK applied : applied = outbox[d].applied \cup Sync!Page(m.cursor)
      OBVIOUS
    <2>4. PICK last :
            last = IF done
                     THEN Sync!Max({outbox[d].last} \cup {r.version : r \in sync[d].results})
                     ELSE outbox[d].last
      OBVIOUS
    <2>5. PICK row : row = [outbox[d] EXCEPT !.applied = applied, !.cursor = end,
                                             !.items = items, !.last = last]
      OBVIOUS
    <2>6. PICK n : n = sync[d].pages + 1
      OBVIOUS
    <2>7. PICK s : s = IF done \/ n = MaxPages THEN Sync!Resting
                       ELSE Sync!Waiting("pull", Nobody, sync[d].results, n)
      BY SMTT(30)
    <2>8. outbox' = [outbox EXCEPT ![d] = row]
      <3>1. outbox' = [outbox EXCEPT ![d].applied = applied, ![d].cursor = end,
                                     ![d].items = items, ![d].last = last]
        BY <1>5, <2>1, <2>2, <2>3, <2>4, ZenonT(60) DEF Sync!CommitPull
      <3> QED BY <1>1, <1>3, <2>5, <3>1, ZenonT(60) DEF SyncOutboxRow
    <2>9. sync' = [sync EXCEPT ![d] = s]
      BY <1>5, <2>1, <2>6, <2>7 DEF Sync!CommitPull
    <2>10. Sync!Unsent(d) \in Seq(SyncItem)
      BY <1>1, SyncUnsentFits
    <2>11. \A r \in sync[d].results : r \in Sync!MutationRow
      BY <1>3 DEF SyncWait
    <2>12. outbox[d].last \in Nat /\ outbox[d].applied \in SUBSET Nat
           /\ outbox[d].items \in Seq(SyncItem)
      BY <1>3 DEF SyncOutboxRow
    <2>13. last \in Nat
      BY <1>3, <2>4, <2>11, <2>12, SyncMaxOfVersions
    <2>14. end \in Nat /\ applied \in SUBSET Nat /\ items \in Seq(SyncItem)
      BY <1>2, <2>1, <2>2, <2>3, <2>10, <2>12
    <2>15. row \in SyncOutboxRow /\ row.items = items /\ row.made = outbox[d].made /\ row.cursor = end
      BY <1>3, <2>5, <2>13, <2>14 DEF SyncOutboxRow
    <2>16. s \in SyncWait /\ (s.results = sync[d].results \/ s.results = {})
      <3>1. CASE done \/ n = MaxPages
        BY ONLY <2>7, <3>1, Sync!PagesAssumption DEF Sync!Resting, SyncWait, Sync!PagesAssumption
      <3>2. CASE ~ (done \/ n = MaxPages)
        <4>1. sync[d].pages \in 0 .. MaxPages - 1 /\ MaxPages \in Nat
              /\ sync[d].results \in SUBSET Sync!MutationRow
          BY <1>3 DEF SyncWait, Sync!PagesAssumption
        <4>2. n \in 0 .. MaxPages - 1
          BY ONLY <2>6, <3>2, <4>1
        <4>3. s = Sync!Waiting("pull", Nobody, sync[d].results, n)
          BY ONLY <2>7, <3>2
        <4> QED BY ONLY <4>1, <4>2, <4>3 DEF Sync!Waiting, SyncWait
      <3> QED BY ONLY <3>1, <3>2
    <2>17. outbox' \in [Devices -> SyncOutboxRow] /\ outbox'[d] = row
           /\ \A c \in Devices : c # d => outbox'[c] = outbox[c]
      BY ONLY <1>1, <1>3, <2>8, <2>15
    <2>18. sync' \in [Devices -> SyncWait] /\ sync'[d] = s
           /\ \A c \in Devices : c # d => sync'[c] = sync[c]
      BY ONLY <1>1, <1>3, <2>9, <2>16
    <2> QED BY <1>1, <2>1, <2>2, <2>15, <2>16, <2>17, <2>18
  <1> QED BY <1>4, <1>5

LEMMA SyncCommitPullStep ==
    ASSUME SyncInv, Sync!PagesAssumption, NEW w \in Workers, Sync!CommitPull(w)
    PROVE  SyncInv'
  <1> PICK d, end : d = syncDoing[w].device /\ end = Sync!EndOf(syncDoing[w].cursor)
    OBVIOUS
  <1>1. /\ syncDoing[w] \in SyncPull /\ d \in Devices
        /\ outbox' \in [Devices -> SyncOutboxRow]
        /\ \A c \in Devices : c # d => outbox'[c] = outbox[c] /\ sync'[c] = sync[c]
        /\ outbox'[d].made = outbox[d].made
        /\ outbox'[d].cursor = outbox[d].cursor \/ outbox'[d].cursor = end
        /\ outbox'[d].items = outbox[d].items \/ outbox'[d].items = Sync!Unsent(d)
        /\ sync' \in [Devices -> SyncWait]
        /\ sync'[d].results = sync[d].results \/ sync'[d].results = {}
    BY SyncPullAnswered, SMTT(30)
  <1>2. syncDoing[w].op = "pull" /\ syncDoing[w].cursor \in Nat /\ syncDoing[w].cursor < nextCursor
    BY <1>1 DEF SyncPull, SyncInv, SyncCursorsFit
  <1>3. end \in Nat /\ end < nextCursor
    BY <1>2, SyncEndFits
  <1>4. /\ UNCHANGED <<mutations, nextCursor, lastVersion>>
           /\ syncDoing' = [syncDoing EXCEPT ![w] = Sync!Idle]
        /\ confirmed' = confirmed \/ confirmed' = [confirmed EXCEPT ![d] = end]
    BY DEF Sync!CommitPull, Sync!Continue
  <1>5. /\ syncDoing' \in [Workers -> SyncRequest] /\ syncDoing'[w].op = "idle"
        /\ \A v \in Workers \ {w} : syncDoing'[v] = syncDoing[v]
    BY <1>4 DEF SyncInv, SyncShape, SyncRequest, Sync!Idle
  <1>6. Sync!LogIsGapless' /\ Sync!VersionsIncrease' /\ \A m : Sync!Known(m)' <=> Sync!Known(m)
    BY <1>4, SyncLogKept
  <1>7. \A c \in Devices : IsFiniteSet(sync'[c].results) /\ \A m \in sync'[c].results : Sync!Known(m)
    <2>1. IsFiniteSet({})
      BY FS_EmptySet
    <2> SUFFICES ASSUME NEW c \in Devices
                 PROVE  IsFiniteSet(sync'[c].results) /\ \A m \in sync'[c].results : Sync!Known(m)
      OBVIOUS
    <2>2. sync'[c].results = sync[c].results \/ sync'[c].results = {}
      BY <1>1
    <2>3. CASE sync'[c].results = sync[c].results
      BY <2>3 DEF SyncInv, SyncShape, SyncResultsKnown
    <2>4. CASE sync'[c].results = {}
      BY <2>1, <2>4
    <2> QED BY <2>2, <2>3, <2>4
  <1>8. \A c \in Devices : \A m \in SyncQueued(c)' : m \in SyncQueued(c)
    <2>1. CASE outbox'[d].items = outbox[d].items
      BY <1>1, <2>1, SMTT(30) DEF SyncQueued
    <2>2. CASE outbox'[d].items = Sync!Unsent(d)
      <3> PICK q, P : /\ q = Sync!Unsent(d)
                      /\ P = {i \in DOMAIN outbox[d].items :
                           outbox[d].items[i].mutation \notin sync[d].results}
        OBVIOUS
      <3>1. q \in Seq(SyncItem) /\ SyncCovers(q, outbox[d].items, P)
            /\ P \in SUBSET DOMAIN outbox[d].items
        BY <1>1, SyncUnsentFits
      <3> QED BY <1>1, <2>2, <3>1, SyncItemsPicked, ZenonT(60)
    <2> QED BY <1>1, <2>1, <2>2
  <1>9. SyncMutationsFit'
    <2>1. \A c \in Devices : outbox'[c].made = outbox[c].made
      BY <1>1
    <2>2. \A v \in Workers : syncDoing'[v].op = "push" =>
            \A m \in SyncSent(v)' : m.device = syncDoing'[v].device /\ SyncMade(m)
      BY <1>5, SyncSentKept
    <2>3. \A m \in SyncLogged' : SyncMade(m)
      BY <1>4, SyncLoggedKept
    <2> QED BY <1>8, <2>1, <2>2, <2>3, SyncMutationsKept
  <1>10. confirmed' \in [Devices -> Nat] /\ \A c \in Devices : confirmed'[c] = confirmed[c]
           \/ confirmed'[c] = end
    BY <1>1, <1>3, <1>4 DEF SyncInv, SyncShape
  <1>11. SyncShape'
    BY <1>1, <1>4, <1>5, <1>7, <1>10 DEF SyncInv, SyncShape
  <1>12. SyncCursorsFit'
    <2>1. \A c \in Devices : confirmed'[c] < nextCursor'
      BY <1>3, <1>4, <1>10 DEF SyncInv, SyncCursorsFit, Sync!CursorsExist
    <2>2. \A c \in Devices : outbox'[c].cursor # Unset => outbox'[c].cursor < nextCursor'
      BY <1>1, <1>3, <1>4 DEF SyncInv, SyncCursorsFit, Sync!CursorsExist
    <2>3. \A v \in Workers : /\ syncDoing'[v].op = "push" => syncDoing'[v].base < nextCursor'
                             /\ syncDoing'[v].op = "pull" => syncDoing'[v].cursor < nextCursor'
      BY <1>4, <1>5 DEF SyncInv, SyncCursorsFit
    <2> QED BY <2>1, <2>2, <2>3 DEF SyncCursorsFit, Sync!CursorsExist
  <1>13. SyncPushesFit'
    BY <1>4, <1>5, SyncPushesKept
  <1>14. SyncResultsKnown'
    BY <1>6, <1>7 DEF SyncResultsKnown
  <1> QED BY <1>6, <1>9, <1>11, <1>12, <1>13, <1>14 DEF SyncInv

LEMMA SyncInit ==
    ASSUME Sync!PagesAssumption, Sync!Init
    PROVE  SyncInv
  <1>1. /\ nextCursor = 1 /\ mutations = [c \in {} |-> {}] /\ DOMAIN mutations = {}
           /\ 1 .. nextCursor - 1 = {}
    BY DEF Sync!Init
  <1>2. \A d \in Devices : /\ outbox[d] \in SyncOutboxRow /\ outbox[d].items = <<>>
                              /\ outbox[d].cursor = Unset
                           /\ sync[d] = Sync!Resting /\ confirmed[d] = 0
    BY DEF Sync!Init, SyncOutboxRow
  <1>3. Sync!Resting \in SyncWait /\ Sync!Resting.results = {} /\ IsFiniteSet({})
    BY FS_EmptySet DEF Sync!Resting, SyncWait, Sync!PagesAssumption
  <1>4. \A w \in Workers : syncDoing[w] = Sync!Idle /\ syncDoing[w].op = "idle"
    BY DEF Sync!Init, Sync!Idle
  <1>5. SyncShape
    <2>1. mutations \in [1 .. nextCursor - 1 -> Sync!MutationRow]
      BY <1>1
    <2>2. outbox \in [Devices -> SyncOutboxRow] /\ sync \in [Devices -> SyncWait]
          /\ syncDoing \in [Workers -> SyncRequest]
      BY <1>2, <1>3, <1>4 DEF Sync!Init, SyncRequest
    <2>3. confirmed \in [Devices -> Nat] /\ lastVersion \in [Devices -> Nat]
      BY DEF Sync!Init
    <2>4. \A d \in Devices : IsFiniteSet(sync[d].results)
      BY <1>2, <1>3
    <2>5. nextCursor \in Nat \ {0}
      BY <1>1
    <2> QED BY <2>1, <2>2, <2>3, <2>4, <2>5 DEF SyncShape
  <1>6. Sync!LogIsGapless /\ Sync!VersionsIncrease
    BY <1>1 DEF Sync!LogIsGapless, Sync!VersionsIncrease
  <1>7. SyncCursorsFit
    BY <1>1, <1>2, <1>4 DEF SyncCursorsFit, Sync!CursorsExist
  <1>8. SyncMutationsFit
    <2>1. \A d \in Devices : SyncQueued(d) = {}
      BY <1>2 DEF SyncQueued
    <2>2. SyncLogged = {}
      BY <1>1 DEF SyncLogged
    <2> QED BY <1>4, <2>1, <2>2 DEF SyncMutationsFit, SyncMade
  <1>9. SyncPushesFit
    BY <1>4 DEF SyncPushesFit
  <1>10. SyncResultsKnown
    BY <1>2, <1>3 DEF SyncResultsKnown
  <1> QED BY <1>5, <1>6, <1>7, <1>8, <1>9, <1>10 DEF SyncInv

LEMMA SyncStep ==
    ASSUME SyncInv, Sync!PagesAssumption, [Sync!Next]_(Sync!vars)
    PROVE  SyncInv'
  <1>1. ASSUME NEW d \in Devices, NEW w \in Workers, Sync!SendPush(d, w)
        PROVE  SyncInv'
    BY <1>1, SyncSendPushStep
  <1>2. ASSUME NEW d \in Devices, NEW w \in Workers, Sync!SendPull(d, w)
        PROVE  SyncInv'
    BY <1>2, SyncSendPullStep
  <1>3. ASSUME NEW d \in Devices,
               Sync!Enqueue(d) \/ Sync!GiveUp(d) \/ Sync!TurnedAway(d) \/ Sync!Discard(d)
               \/ Sync!Reset(d) \/ Sync!LoadStatus(d)
        PROVE  SyncInv'
    BY <1>3, SyncEnqueueStep, SyncGiveUpStep, SyncTurnedAwayStep, SyncDiscardStep, SyncResetStep,
       SyncLoadStatusStep
  <1>4. ASSUME NEW w \in Workers, Sync!LockDevice(w) \/ Sync!Replay(w) \/ Sync!Apply(w)
               \/ Sync!Refuse(w) \/ Sync!CommitPush(w)
                                  \/ Sync!CommitPull(w) \/ Sync!Rollback(w)
        PROVE  SyncInv'
    BY <1>4, SyncLockDeviceStep, SyncReplayStep, SyncApplyStep, SyncRefuseStep,
       SyncCommitPushStep, SyncCommitPullStep, SyncRollbackStep
  <1>5. ASSUME UNCHANGED Sync!vars
        PROVE  SyncInv'
    <2>1. /\ mutations' = mutations /\ nextCursor' = nextCursor /\ confirmed' = confirmed
          /\ lastVersion' = lastVersion /\ outbox' = outbox /\ sync' = sync /\ syncDoing' = syncDoing
      BY <1>5 DEF Sync!vars
    <2>2. SyncShape' /\ Sync!LogIsGapless' /\ Sync!VersionsIncrease' /\ SyncCursorsFit'
      BY <2>1 DEF SyncInv, SyncShape, Sync!LogIsGapless, Sync!VersionsIncrease, SyncCursorsFit,
         Sync!CursorsExist
    <2>3. SyncMutationsFit'
      BY <2>1, SyncMadeKept DEF SyncQueued, Sync!server
    <2>4. \A m : Sync!Known(m)' <=> Sync!Known(m)
      BY <2>1 DEF Sync!Known
    <2>5. SyncResultsKnown'
      BY <2>1, <2>4 DEF SyncInv, SyncResultsKnown
    <2>6. \A w \in Workers : SyncPushFits(w) => SyncPushFits(w)'
      BY <2>1, <2>4 DEF SyncPushFits, SyncSent
    <2>7. SyncPushesFit'
      BY <2>1, <2>6 DEF SyncInv, SyncPushesFit
    <2> QED BY <2>2, <2>3, <2>5, <2>7 DEF SyncInv
  <1> QED BY <1>1, <1>2, <1>3, <1>4, <1>5 DEF Sync!Next

(* Any devices, requests and page sizes: the log and the outboxes keep     *)
(* their shape, the log has no gap and no repetition, versions of a device *)
(* only increase, and no cursor runs ahead (push_mutations and             *)
(* pull_mutations of services/offline.py).                                 *)
THEOREM SyncInvariant == Sync!PagesAssumption /\ Sync!Spec => []SyncInv
  <1> SUFFICES ASSUME Sync!PagesAssumption
               PROVE  Sync!Spec => []SyncInv
    OBVIOUS
  <1>1. Sync!Init => SyncInv
    BY SyncInit
  <1>2. SyncInv /\ [Sync!Next]_(Sync!vars) => SyncInv'
    BY SyncStep
  <1> QED BY <1>1, <1>2, PTL DEF Sync!Spec

LEMMA SyncTypes ==
    ASSUME SyncInv, Sync!PagesAssumption
    PROVE  Sync!TypeOK
  <1>1. \A d \in Devices : /\ outbox[d] \in SyncOutboxRow /\ sync[d] \in SyncWait
    BY DEF SyncInv, SyncShape
  <1>2. \A w \in Workers : syncDoing[w] \in SyncRequest
    BY DEF SyncInv, SyncShape
  <1>3. \A w \in Workers : syncDoing[w].op \in {"idle", "push", "pull"}
    BY <1>2 DEF SyncRequest, Sync!Idle, SyncPush, SyncPull
  <1>4. \A d \in Devices :
          /\ outbox[d].items \in Seq([mutation : Sync!MutationRow, terminal : BOOLEAN])
          /\ outbox[d].cursor \in Nat \cup {Unset} /\ outbox[d].last \in Nat
          /\ outbox[d].applied \in SUBSET Nat
    BY <1>1 DEF SyncOutboxRow, SyncItem
  <1>5. \A d \in Devices :
          sync[d] \in [step : {"idle", "push", "pull"}, request : Workers \cup {Nobody},
                       results : SUBSET Sync!MutationRow, pages : 0 .. MaxPages]
    <2>1. 0 .. MaxPages - 1 \subseteq 0 .. MaxPages
      BY DEF Sync!PagesAssumption
    <2> QED BY <1>1, <2>1 DEF SyncWait
  <1>6. nextCursor \in Nat \ {0} /\ confirmed \in [Devices -> Nat] /\ lastVersion \in [Devices -> Nat]
        /\ \A c \in DOMAIN mutations : c \in Nat \ {0} /\ mutations[c] \in Sync!MutationRow
    BY DEF SyncInv, SyncShape
  <1> QED BY <1>3, <1>4, <1>5, <1>6 DEF Sync!TypeOK

(* The log of mutations is numbered from 1 without gaps, each mutation of  *)
(* a device is in it once, and its versions increase, for any devices,     *)
(* requests and pages (push_mutations).                                    *)
THEOREM MutationLogIsExact ==
    Sync!PagesAssumption /\ Sync!Spec => [](Sync!TypeOK /\ Sync!LogIsGapless /\ Sync!VersionsIncrease
      /\ Sync!CursorsExist)
  <1> SUFFICES ASSUME Sync!PagesAssumption
               PROVE  Sync!Spec => [](Sync!TypeOK /\ Sync!LogIsGapless /\ Sync!VersionsIncrease
                        /\ Sync!CursorsExist)
    OBVIOUS
  <1>1. SyncInv => Sync!TypeOK /\ Sync!LogIsGapless /\ Sync!VersionsIncrease /\ Sync!CursorsExist
    BY SyncTypes DEF SyncInv, SyncCursorsFit
  <1> QED BY <1>1, SyncInvariant, PTL

SyncKeeps ==
    \A d \in Devices : \A i \in DOMAIN outbox[d].items :
        LET item == outbox[d].items[i]
        IN  ~ item.terminal =>
              \/ Sync!Known(item.mutation)
              \/ \E j \in DOMAIN outbox'[d].items : outbox'[d].items[j].mutation = item.mutation

LEMMA SyncKeepsStep ==
    ASSUME SyncInv, Sync!PagesAssumption, [Sync!Next]_(Sync!vars)
    PROVE  SyncKeeps
  <1>1. ASSUME outbox' = outbox
        PROVE  SyncKeeps
    BY <1>1 DEF SyncKeeps
  <1>2. ASSUME NEW d \in Devices, outbox' = Sync!AllTerminal(d)
        PROVE  SyncKeeps
    BY <1>2, SyncTerminalFits DEF SyncKeeps
  <1>3. ASSUME NEW d \in Devices, Sync!Enqueue(d)
        PROVE  SyncKeeps
    <2> PICK x, n : /\ x = [mutation |-> Sync!Mutation(d, outbox[d].made + 1, Sync!NextVersion(d)),
                       terminal |-> FALSE]
                    /\ n = outbox[d].made + 1
      OBVIOUS
    <2> PICK items : items = Append(outbox[d].items, x)
      OBVIOUS
    <2>1. outbox \in [Devices -> SyncOutboxRow] /\ outbox[d] \in SyncOutboxRow
          /\ outbox[d].items \in Seq(SyncItem)
      BY DEF SyncInv, SyncShape, SyncOutboxRow
    <2>2. outbox' = [outbox EXCEPT ![d] = [outbox[d] EXCEPT !.made = n, !.items = items]]
      BY <1>3 DEF Sync!Enqueue
    <2>3. outbox'[d].items = items /\ \A c \in Devices : c # d => outbox'[c] = outbox[c]
      BY <2>1, <2>2 DEF SyncOutboxRow
    <2>4. \A i \in DOMAIN outbox[d].items : i \in DOMAIN items /\ items[i] = outbox[d].items[i]
      BY <2>1
    <2>5. \A c \in Devices : \A i \in DOMAIN outbox[c].items :
            i \in DOMAIN outbox'[c].items /\ outbox'[c].items[i] = outbox[c].items[i]
      BY <2>3, <2>4
    <2> QED BY <2>5 DEF SyncKeeps
  <1>4. ASSUME NEW d \in Devices, NEW q, NEW P,
               \A c \in Devices : c # d => outbox'[c] = outbox[c],
               outbox'[d].items = q, SyncCovers(q, outbox[d].items, P),
               \A i \in DOMAIN outbox[d].items :
                 i \in P \/ outbox[d].items[i].terminal \/ Sync!Known(outbox[d].items[i].mutation)
        PROVE  SyncKeeps
    <2> SUFFICES ASSUME NEW c \in Devices, NEW i \in DOMAIN outbox[c].items,
                          ~ outbox[c].items[i].terminal,
                        ~ Sync!Known(outbox[c].items[i].mutation)
                 PROVE  \E j \in DOMAIN outbox'[c].items :
                          outbox'[c].items[j].mutation = outbox[c].items[i].mutation
      BY DEF SyncKeeps
    <2>1. CASE c # d
      BY <1>4, <2>1
    <2>2. CASE c = d
      <3>1. i \in P
        BY <1>4, <2>2
      <3>2. PICK j \in DOMAIN q : q[j] = outbox[d].items[i]
        BY <1>4, <3>1 DEF SyncCovers
      <3> QED BY <1>4, <2>2, <3>2
    <2> QED BY <2>1, <2>2
  <1>5. ASSUME NEW d \in Devices, Sync!Discard(d)
        PROVE  SyncKeeps
    <2>1. outbox \in [Devices -> SyncOutboxRow] /\ outbox[d] \in SyncOutboxRow
      BY DEF SyncInv, SyncShape
    <2> PICK q : q = Sync!Pending(d)
      OBVIOUS
    <2>2. outbox' = [outbox EXCEPT ![d] = [outbox[d] EXCEPT !.items = q]]
      BY <1>5 DEF Sync!Discard
    <2>3. outbox'[d].items = q /\ \A c \in Devices : c # d => outbox'[c] = outbox[c]
      BY <2>1, <2>2 DEF SyncOutboxRow
    <2>4. SyncCovers(q, outbox[d].items, SyncOpen(d))
      BY SyncPendingFits
    <2>5. \A i \in DOMAIN outbox[d].items : i \in SyncOpen(d) \/ outbox[d].items[i].terminal
      BY DEF SyncOpen
    <2> QED BY <1>4, <2>3, <2>4, <2>5
  <1>6. ASSUME NEW d \in Devices, Sync!Reset(d) \/ Sync!LoadStatus(d)
        PROVE  SyncKeeps
    <2>1. outbox \in [Devices -> SyncOutboxRow] /\ outbox[d] \in SyncOutboxRow
      BY DEF SyncInv, SyncShape
    <2>2. \A c \in Devices : outbox'[c].items = outbox[c].items
      <3>1. \/ outbox' = [outbox EXCEPT ![d].cursor = Unset, ![d].applied = {}]
            \/ \E cursor, last : outbox' = [outbox EXCEPT ![d].cursor = cursor, ![d].last = last]
        <4>1. CASE Sync!Reset(d)
          BY <4>1 DEF Sync!Reset
        <4>2. CASE Sync!LoadStatus(d)
          <5> PICK cursor, last : /\ cursor = IF outbox[d].cursor = Unset THEN confirmed[d]
                                     ELSE outbox[d].cursor
                                  /\ last = Sync!Max({outbox[d].last, lastVersion[d]})
            OBVIOUS
          <5>1. outbox' = [outbox EXCEPT ![d].cursor = cursor, ![d].last = last]
            BY <4>2 DEF Sync!LoadStatus
          <5> QED BY <5>1
        <4> QED BY <1>6, <4>1, <4>2
      <3>2. CASE outbox' = [outbox EXCEPT ![d].cursor = Unset, ![d].applied = {}]
        BY <2>1, <3>2 DEF SyncOutboxRow
      <3>3. CASE \E cursor, last : outbox' = [outbox EXCEPT ![d].cursor = cursor, ![d].last = last]
        BY <2>1, <3>3 DEF SyncOutboxRow
      <3> QED BY <3>1, <3>2, <3>3
    <2> QED BY <2>2 DEF SyncKeeps
  <1>7. ASSUME NEW w \in Workers, Sync!CommitPull(w)
        PROVE  SyncKeeps
    <2> PICK d : d = syncDoing[w].device
      OBVIOUS
    <2>1. /\ d \in Devices
          /\ \A c \in Devices : c # d => outbox'[c] = outbox[c]
          /\ outbox'[d].items = outbox[d].items \/ outbox'[d].items = Sync!Unsent(d)
      BY <1>7, SyncPullAnswered
    <2>2. CASE outbox'[d].items = outbox[d].items
      BY <2>1, <2>2, SMTT(30) DEF SyncKeeps
    <2>3. CASE outbox'[d].items = Sync!Unsent(d)
      <3> PICK q, P : /\ q = Sync!Unsent(d)
                      /\ P = {i \in DOMAIN outbox[d].items :
                           outbox[d].items[i].mutation \notin sync[d].results}
        OBVIOUS
      <3>1. SyncCovers(q, outbox[d].items, P)
        BY <2>1, SyncUnsentFits
      <3>2. \A m \in sync[d].results : Sync!Known(m)
        BY <2>1 DEF SyncInv, SyncResultsKnown
      <3>3. \A i \in DOMAIN outbox[d].items :
              i \in P \/ outbox[d].items[i].terminal \/ Sync!Known(outbox[d].items[i].mutation)
        BY <3>2
      <3> QED BY <1>4, <2>1, <2>3, <3>1, <3>3
    <2> QED BY <2>1, <2>2, <2>3
  <1>8. ASSUME NEW w \in Workers, Sync!Refuse(w)
        PROVE  SyncKeeps
    <2> PICK d : d = syncDoing[w].device
      OBVIOUS
    <2>1. syncDoing[w].op = "push"
      BY <1>8 DEF Sync!Refuse, Sync!Working
    <2>2. d \in Devices
      BY <2>1, SyncPushIs DEF SyncPush
    <2>3. outbox' = Sync!AllTerminal(d) \/ outbox' = outbox
      BY <1>8 DEF Sync!Refuse
    <2> QED BY <1>1, <1>2, <2>2, <2>3
  <1>9. ASSUME NEW d \in Devices, Sync!TurnedAway(d)
        PROVE  SyncKeeps
    BY <1>2, <1>9 DEF Sync!TurnedAway
  <1>10. ASSUME NEW d \in Devices, NEW w \in Workers, Sync!SendPush(d, w) \/ Sync!SendPull(d, w)
         PROVE  SyncKeeps
    BY <1>1, <1>10 DEF Sync!SendPush, Sync!SendPull
  <1>11. ASSUME NEW d \in Devices, Sync!GiveUp(d)
         PROVE  SyncKeeps
    BY <1>1, <1>11 DEF Sync!GiveUp
  <1>12. ASSUME NEW w \in Workers, Sync!LockDevice(w) \/ Sync!Replay(w) \/ Sync!Apply(w)
                \/ Sync!CommitPush(w) \/ Sync!Rollback(w)
         PROVE  SyncKeeps
    BY <1>1, <1>12 DEF Sync!LockDevice, Sync!Replay, Sync!Apply, Sync!CommitPush, Sync!Rollback
  <1>13. ASSUME UNCHANGED Sync!vars
         PROVE  SyncKeeps
    BY <1>1, <1>13 DEF Sync!vars
  <1> QED BY <1>3, <1>5, <1>6, <1>7, <1>8, <1>9, <1>10, <1>11, <1>12, <1>13 DEF Sync!Next

(* An outbox gives up a mutation on its own only when the log has it, for  *)
(* any devices and requests (removeAppliedOutboxItems).                    *)
THEOREM OutboxGivesUpRecorded == Sync!PagesAssumption /\ Sync!Spec => Sync!OutboxKeepsUnsent
  <1> SUFFICES ASSUME Sync!PagesAssumption
               PROVE  Sync!Spec => Sync!OutboxKeepsUnsent
    OBVIOUS
  <1>1. SyncInv /\ [Sync!Next]_(Sync!vars) => [SyncKeeps]_(Sync!vars)
    BY SyncKeepsStep
  <1>2. Sync!OutboxKeepsUnsent <=> [][SyncKeeps]_(Sync!vars)
    BY DEF Sync!OutboxKeepsUnsent, SyncKeeps
  <1> QED BY <1>1, <1>2, SyncInvariant, PTL DEF Sync!Spec

-----------------------------------------------------------------------------
(***************************************************************************)
(* Proofs about SupportChannel, for any requests, messages and queues. The *)
(* conversation's row is held from the second look at a key to the commit, *)
(* so that the numbers and the key that a request holds are still free     *)
(* when it posts; what is sent, listed and shown are the numbers of        *)
(* messages that were in the log, and messages stay.                       *)
(***************************************************************************)

(* Messages stand under numbers and keys of their own. *)
SupportDistinct(said) ==
    \A m, n \in said : m.sequence = n.sequence \/ (m.from = n.from /\ m.key = n.key) => m = n

(* A message of the tourist is followed by the bot's. *)
SupportReplied(said) ==
    \A m \in said : m.from = "TOURIST" => Support!Message(m.sequence + 1, "BOT", m.key) \in said

SupportLogInv ==
    /\ Support!Numbers(messages) = 1 .. nextSequence - 1
    /\ SupportDistinct(messages)
    /\ SupportReplied(messages)

(* The bot only answers the tourist. *)
SupportAsked(said) ==
    \A m \in said : m.from = "BOT" => \E n \in said : n.from = "TOURIST" /\ n.key = m.key

SupportBotAnswers == SupportAsked(messages)

(* A key that stands for no message yet. *)
SupportUnused(said, from, key) ==
    \A m \in said : m.key = key =>
        m.from # from /\ (from = "TOURIST" => m.from # "BOT")

(* One request holds the row, and it holds it while it commits. *)
SupportOneHoldsTheRow ==
    /\ \A v, w \in Workers :
        supportDoing[v] # Support!Idle /\ supportDoing[v].locked /\ supportDoing[w] # Support!Idle
        /\ supportDoing[w].locked => v = w
    /\ \A w \in Workers : Support!At(w, "commit") =>
        supportDoing[w].locked /\ supportDoing[w].rows = Support!Rows(w)
        /\ Support!Posted(supportDoing[w].from, supportDoing[w].key) = {}

(* What requests send and answer has been posted. *)
SupportSendsPosted ==
    \A w \in Workers : supportDoing[w] # Support!Idle =>
        supportDoing[w].send \subseteq Support!Numbers(messages)
        /\ supportDoing[w].answer \subseteq messages

(* So has what the page and its connections have. *)
SupportSeesPosted ==
    /\ \A s \in Sockets : \A i \in DOMAIN supportQueue[s] :
         supportQueue[s][i] \in Support!Numbers(messages)
    /\ supportPage.shown \subseteq Support!Numbers(messages)
    /\ supportPage.last # -1 => supportPage.last \in Support!Numbers(messages)
    /\ \A s \in Sockets : supportPage.listing[s] # Nobody =>
         supportPage.listing[s] \subseteq Support!Numbers(messages)

SupportInv ==
    /\ Support!TypeOK
    /\ SupportLogInv /\ SupportBotAnswers
    /\ SupportOneHoldsTheRow /\ SupportSendsPosted /\ SupportSeesPosted

(* What the instance counts with is what counts here. *)
LEMMA SupportCounts ==
    /\ \A Q : Support!IsFiniteSet(Q) <=> IsFiniteSet(Q)
    /\ \A Q : Support!Cardinality(Q) = Cardinality(Q)
  BY Zenon DEF Support!IsFiniteSet, IsFiniteSet, Support!Cardinality, Cardinality

(* A request that is not idle is a posting. *)
LEMMA SupportPostingIs ==
    ASSUME Support!TypeOK, NEW w \in Workers, supportDoing[w].step # "idle"
           \/ supportDoing[w] # Support!Idle
    PROVE  supportDoing[w] \in Support!Posting /\ supportDoing[w] # Support!Idle
  BY DEF Support!TypeOK, Support!Idle, Support!Posting

LEMMA SupportPostingIsBusy == \A m \in Support!Posting : m # Support!Idle
  BY DEF Support!Posting, Support!Idle

(* The largest of some numbers is one of them. *)
LEMMA SupportLargestIsIn ==
    ASSUME NEW S, IsFiniteSet(S), S # {}, S \subseteq Int
    PROVE  Support!Max(S) \in S
  <1>1. \E x \in S : \A y \in S : x >= y
    <2>1. PICK x \in S : \A y \in S : y =< x
      BY LargestExists
    <2>2. \A y \in S : x >= y
      BY <2>1
    <2> QED BY <2>2
  <1> QED BY <1>1 DEF Support!Max

LEMMA SupportInitially ==
    ASSUME Support!ChannelAssumption, Support!Init
    PROVE  SupportInv
  <1>1. Support!TypeOK
    <2>1. <<>> \in Seq(Support!Sequence) /\ Len(<<>>) = 0
      OBVIOUS
    <2>2. Support!Stopped \in Support!SocketRow /\ QueueSize \in Nat
      BY DEF Support!ChannelAssumption, Support!Stopped, Support!SocketRow
    <2>3. supportPage \in Support!Page
      BY DEF Support!Init, Support!Page, Support!Sequence
    <2>4. supportQueue \in [Sockets -> Seq(Support!Sequence)] /\ socket \in [Sockets -> Support!SocketRow]
          /\ \A s \in Sockets : Len(supportQueue[s]) =< QueueSize
      BY <2>1, <2>2 DEF Support!Init
    <2> QED BY <2>3, <2>4 DEF Support!Init, Support!TypeOK, Support!Sequence
  <1>2. Support!Numbers(messages) = {} /\ nextSequence = 1
    BY DEF Support!Init, Support!Numbers
  <1>3. SupportLogInv /\ SupportBotAnswers
    BY <1>2 DEF Support!Init, SupportLogInv, SupportDistinct, SupportReplied, SupportBotAnswers,
       SupportAsked
  <1>4. SupportOneHoldsTheRow /\ SupportSendsPosted /\ SupportSeesPosted
    BY DEF Support!Init, SupportOneHoldsTheRow, SupportSendsPosted, SupportSeesPosted, Support!At,
       Support!Idle
  <1> QED BY <1>1, <1>3, <1>4 DEF SupportInv

(* The log stays; one request goes on, without taking the row. *)
LEMMA SupportRequestMoves ==
    ASSUME SupportInv, NEW w \in Workers, NEW m \in {Support!Idle} \cup Support!Posting,
             Support!Continue(w, m),
           UNCHANGED <<messages, nextSequence>>,
           m # Support!Idle => /\ m.step # "commit"
                               /\ m.locked => Support!RowFree(w)
                               /\ m.send \subseteq Support!Numbers(messages)
                                  /\ m.answer \subseteq messages,
           Support!TypeOK', SupportSeesPosted'
    PROVE  SupportInv'
  <1>1. supportDoing' \in [Workers -> {Support!Idle} \cup Support!Posting] /\ supportDoing'[w] = m
        /\ \A v \in Workers \ {w} : supportDoing'[v] = supportDoing[v]
    BY DEF SupportInv, Support!TypeOK, Support!Continue
  <1>2. Support!Numbers(messages)' = Support!Numbers(messages) /\ SupportLogInv' /\ SupportBotAnswers'
    BY DEF SupportInv, SupportLogInv, SupportBotAnswers, SupportAsked, Support!Numbers
  <1>3. SupportSendsPosted'
    BY <1>1, <1>2 DEF SupportInv, SupportSendsPosted
  <1>4. \A v \in Workers : Support!At(v, "commit")' => v # w /\ Support!At(v, "commit")
    BY <1>1 DEF Support!At, Support!Idle
  <1>5. \A v \in Workers \ {w} : Support!Rows(v)' = Support!Rows(v)
                              /\ Support!Posted(supportDoing[v].from, supportDoing[v].key)' =
                                   Support!Posted(supportDoing[v].from, supportDoing[v].key)
    BY <1>1 DEF Support!Rows, Support!Posted
  <1>6. SupportOneHoldsTheRow'
    <2>1. \A u, v \in Workers :
            supportDoing'[u] # Support!Idle /\ supportDoing'[u].locked
            /\ supportDoing'[v] # Support!Idle /\ supportDoing'[v].locked => u = v
      BY <1>1 DEF SupportInv, SupportOneHoldsTheRow, Support!RowFree
    <2>2. \A v \in Workers : Support!At(v, "commit")' =>
            supportDoing'[v].locked /\ supportDoing'[v].rows = Support!Rows(v)'
            /\ Support!Posted(supportDoing[v].from, supportDoing[v].key)' = {}
      BY <1>1, <1>4, <1>5 DEF SupportInv, SupportOneHoldsTheRow
    <2> QED BY <2>1, <2>2 DEF SupportOneHoldsTheRow
  <1> QED BY <1>2, <1>3, <1>6 DEF SupportInv

(* The page and its connection move; requests and messages stay. *)
LEMMA SupportPageMoves ==
    ASSUME SupportInv, UNCHANGED <<messages, nextSequence, supportDoing>>, Support!TypeOK',
             SupportSeesPosted'
    PROVE  SupportInv'
  <1>1. Support!Numbers(messages)' = Support!Numbers(messages) /\ SupportLogInv' /\ SupportBotAnswers'
    BY DEF SupportInv, SupportLogInv, SupportBotAnswers, SupportAsked, Support!Numbers
  <1>2. \A v \in Workers : Support!Rows(v)' = Support!Rows(v)
                         /\ Support!Posted(supportDoing[v].from, supportDoing[v].key)' =
                              Support!Posted(supportDoing[v].from, supportDoing[v].key)
    BY DEF Support!Rows, Support!Posted
  <1>3. SupportOneHoldsTheRow' /\ SupportSendsPosted'
    BY <1>1, <1>2 DEF SupportInv, SupportOneHoldsTheRow, SupportSendsPosted, Support!At
  <1> QED BY <1>1, <1>3 DEF SupportInv

LEMMA SupportNumbersAre ==
    ASSUME NEW said, said \subseteq messages
    PROVE  Support!Numbers(said) \subseteq Support!Numbers(messages)
  BY DEF Support!Numbers

LEMMA SupportLogNumbers ==
    ASSUME SupportInv
    PROVE  /\ Support!Numbers(messages) \subseteq Support!Sequence
              /\ Support!Numbers(messages) = 1 .. nextSequence - 1
           /\ nextSequence \in Nat /\ nextSequence > 0
  BY DEF SupportInv, SupportLogInv, Support!TypeOK, Support!Sequence

(* Some numbers of messages have a largest, which is one. *)
LEMMA SupportLargestIsPosted ==
    ASSUME SupportInv, NEW S, S \subseteq Support!Numbers(messages), NEW start \in Int
    PROVE  Support!Max({start} \cup S) \in {start} \cup S
  <1>1. IsFiniteSet(1 .. nextSequence - 1) /\ S \subseteq 1 .. nextSequence - 1 /\ S \subseteq Int
    <2>1. Support!Numbers(messages) = 1 .. nextSequence - 1 /\ nextSequence \in Nat
      BY SupportLogNumbers
    <2>2. IsFiniteSet(1 .. nextSequence - 1)
      BY <2>1, FS_Interval
    <2> QED BY <2>1, <2>2
  <1>2. IsFiniteSet(S)
    BY <1>1, FS_Subset
  <1>3. IsFiniteSet(S \cup {start})
    BY <1>2, FS_AddElement
  <1>4. {start} \cup S = S \cup {start}
    OBVIOUS
  <1>5. IsFiniteSet({start} \cup S)
    BY <1>3, <1>4
  <1>6. {start} \cup S # {} /\ {start} \cup S \subseteq Int
    BY <1>1
  <1> QED BY <1>5, <1>6, SupportLargestIsIn

(* The steps of a request. *)
SupportSentBy(w, m) ==
    m \in {Support!Idle} \cup Support!Posting /\ Support!Continue(w, m)

(* While nothing but a request moves, the types and what is seen stay. *)
LEMMA SupportOnlyRequests ==
    ASSUME SupportInv, NEW w \in Workers, NEW m \in {Support!Idle} \cup Support!Posting,
             Support!Continue(w, m),
           UNCHANGED <<messages, nextSequence, supportQueue, supportPage, socket>>
    PROVE  Support!TypeOK' /\ SupportSeesPosted'
  <1>1. supportDoing' \in [Workers -> {Support!Idle} \cup Support!Posting]
    BY DEF SupportInv, Support!TypeOK, Support!Continue
  <1>2. Support!Numbers(messages)' = Support!Numbers(messages)
    BY DEF Support!Numbers
  <1> QED BY <1>1, <1>2 DEF SupportInv, Support!TypeOK, SupportSeesPosted

LEMMA SupportPostIs ==
    ASSUME NEW from \in {"TOURIST", "SUPPORT"}, NEW key \in Int
    PROVE  /\ Support!Post(from, key) \in Support!Posting /\ Support!Post(from, key).step = "look"
           /\ ~ Support!Post(from, key).locked /\ Support!Post(from, key).send = {}
              /\ Support!Post(from, key).answer = {}
  BY DEF Support!Post, Support!Posting

LEMMA SupportSendsKeep ==
    ASSUME SupportInv, NEW w \in Workers,
           Support!Send(w) \/ (\E key \in -MaxAgentSends .. -1 : Support!AgentSends(w, key))
    PROVE  SupportInv'
  <1>1. CASE \E key \in -MaxAgentSends .. -1 : Support!AgentSends(w, key)
    <2>1. PICK key \in Int : Support!AgentSends(w, key)
      BY <1>1
    <2> DEFINE m == Support!Post("SUPPORT", key)
    <2>2. m \in Support!Posting /\ m.step = "look" /\ ~ m.locked /\ m.send = {} /\ m.answer = {}
      BY SupportPostIs
    <2>3. Support!Continue(w, m) /\ UNCHANGED <<messages, nextSequence, supportQueue, supportPage,
            socket>>
      BY <2>1 DEF Support!AgentSends
    <2> HIDE DEF m
    <2>4. Support!TypeOK' /\ SupportSeesPosted'
      BY <2>2, <2>3, SupportOnlyRequests
    <2> QED BY <2>2, <2>3, <2>4, SupportRequestMoves
  <1>2. CASE Support!Send(w)
    <2>1. PICK key \in {supportPage.sent, supportPage.sent + 1} :
            /\ key \in 1 .. MaxSends
            /\ Support!Continue(w, Support!Post("TOURIST", key))
            /\ supportPage' = [supportPage EXCEPT !.request = w, !.sent = key, !.open = TRUE]
      BY <1>2 DEF Support!Send
    <2>2. key \in Int /\ supportPage.sent \in Nat
      BY <2>1 DEF SupportInv, Support!TypeOK, Support!Page
    <2> DEFINE m == Support!Post("TOURIST", key)
    <2>3. m \in Support!Posting /\ m.step = "look" /\ ~ m.locked /\ m.send = {} /\ m.answer = {}
      BY <2>2, SupportPostIs
    <2>4. Support!Continue(w, m) /\ UNCHANGED <<messages, nextSequence, supportQueue, socket>>
      BY <1>2, <2>1 DEF Support!Send
    <2> HIDE DEF m
    <2>5. supportDoing' \in [Workers -> {Support!Idle} \cup Support!Posting]
      BY <2>3, <2>4 DEF SupportInv, Support!TypeOK, Support!Continue
    <2>6. supportPage' = [supportPage EXCEPT !.request = w, !.sent = key, !.open = TRUE]
      BY <2>1
    <2>7. supportPage'.shown = supportPage.shown /\ supportPage'.last = supportPage.last
          /\ supportPage'.listing = supportPage.listing
      BY <2>6
    <2>8. Support!TypeOK'
      <3>1. supportPage \in Support!Page /\ key \in Nat
        BY <2>1, <2>2 DEF SupportInv, Support!TypeOK
      <3>2. supportPage' \in Support!Page
        BY <2>6, <3>1 DEF Support!Page
      <3> QED BY <2>4, <2>5, <3>2 DEF SupportInv, Support!TypeOK
    <2>9. SupportSeesPosted'
      BY <2>4, <2>7 DEF SupportInv, SupportSeesPosted, Support!Numbers
    <2> QED BY <2>3, <2>4, <2>8, <2>9, SupportRequestMoves
  <1> QED BY <1>1, <1>2

LEMMA SupportAnsweringIs ==
    ASSUME SupportInv, NEW w \in Workers, supportDoing[w] # Support!Idle, NEW said,
             said \subseteq messages
    PROVE  /\ Support!Answering(w, said) \in Support!Posting
           /\ Support!Answering(w, said).step = "send"
              /\ Support!Answering(w, said).locked = supportDoing[w].locked
           /\ Support!Answering(w, said).send = Support!Numbers(said)
           /\ Support!Answering(w, said).answer = said
  <1>1. supportDoing[w] \in Support!Posting /\ messages \subseteq Support!MessageRow
    BY SupportPostingIs DEF SupportInv, Support!TypeOK
  <1>2. Support!Numbers(said) \subseteq Support!Sequence
    BY SupportLogNumbers, SupportNumbersAre
  <1> QED BY <1>1, <1>2 DEF Support!Answering, Support!Posting

LEMMA SupportLookKeeps ==
    ASSUME SupportInv, NEW w \in Workers, Support!Look(w)
    PROVE  SupportInv'
  <1> DEFINE found == Support!Posted(supportDoing[w].from, supportDoing[w].key)
  <1>1. supportDoing[w] \in Support!Posting /\ supportDoing[w] # Support!Idle
    BY SupportPostingIs DEF Support!Look, Support!At, SupportInv
  <1>2. found \subseteq messages
    BY DEF Support!Posted
  <1>3. supportDoing[w].locked => Support!RowFree(w)
    BY <1>1 DEF SupportInv, SupportOneHoldsTheRow, Support!RowFree
  <1>4. CASE found # {}
    <2> DEFINE m == Support!Answering(w, found)
    <2>1. m \in Support!Posting /\ m.step = "send" /\ m.locked = supportDoing[w].locked
          /\ m.send \subseteq Support!Numbers(messages) /\ m.answer \subseteq messages
      BY <1>1, <1>2, SupportAnsweringIs, SupportNumbersAre
    <2>2. Support!Continue(w, m) /\ UNCHANGED <<messages, nextSequence, supportQueue, supportPage,
            socket>>
      BY <1>4 DEF Support!Look
    <2> HIDE DEF m
    <2>3. Support!TypeOK' /\ SupportSeesPosted'
      BY <2>1, <2>2, SupportOnlyRequests
    <2> QED BY <1>3, <2>1, <2>2, <2>3, SupportRequestMoves
  <1>5. CASE found = {}
    <2> DEFINE m == [supportDoing[w] EXCEPT !.step = "reserve"]
    <2>1. m \in Support!Posting /\ m.step = "reserve" /\ m.locked = supportDoing[w].locked
          /\ m.send = supportDoing[w].send /\ m.answer = supportDoing[w].answer
      BY <1>1 DEF Support!Posting
    <2>2. Support!Continue(w, m) /\ UNCHANGED <<messages, nextSequence, supportQueue, supportPage,
            socket>>
      BY <1>5 DEF Support!Look
    <2>3. supportDoing[w].send \subseteq Support!Numbers(messages)
          /\ supportDoing[w].answer \subseteq messages
      BY <1>1 DEF SupportInv, SupportSendsPosted
    <2> HIDE DEF m
    <2>4. Support!TypeOK' /\ SupportSeesPosted'
      BY <2>1, <2>2, SupportOnlyRequests
    <2> QED BY <1>3, <2>1, <2>2, <2>3, <2>4, SupportRequestMoves
  <1> QED BY <1>4, <1>5

(* The rows that a request is about to post. *)
LEMMA SupportRowsAre ==
    ASSUME SupportInv, NEW w \in Workers, supportDoing[w] # Support!Idle
    PROVE  Support!Rows(w) \subseteq Support!MessageRow
  BY SupportPostingIs DEF SupportInv, Support!TypeOK, Support!Rows, Support!Message,
     Support!MessageRow, Support!Posting, Support!Sequence

(* The row is taken, by one, for a key that is not posted. *)
LEMMA SupportReserveKeeps ==
    ASSUME SupportInv, NEW w \in Workers, Support!Reserve(w)
    PROVE  SupportInv'
  <1> DEFINE found == Support!Posted(supportDoing[w].from, supportDoing[w].key)
  <1>1. supportDoing[w] \in Support!Posting /\ supportDoing[w] # Support!Idle /\ Support!RowFree(w)
    BY SupportPostingIs DEF Support!Reserve, Support!At, SupportInv
  <1>2. found \subseteq messages
    BY DEF Support!Posted
  <1>3. CASE found # {}
    <2> DEFINE a == Support!Answering(w, found)
               m == [a EXCEPT !.locked = TRUE]
    <2>1. a \in Support!Posting /\ a.step = "send" /\ a.send \subseteq Support!Numbers(messages)
          /\ a.answer \subseteq messages
      BY <1>1, <1>2, SupportAnsweringIs, SupportNumbersAre
    <2>2. Support!Continue(w, m) /\ UNCHANGED <<messages, nextSequence, supportQueue, supportPage,
            socket>>
      BY <1>3 DEF Support!Reserve
    <2> HIDE DEF a
    <2>3. m \in Support!Posting /\ m.step = "send" /\ m.send = a.send /\ m.answer = a.answer
      BY <2>1 DEF Support!Posting
    <2> HIDE DEF m
    <2>4. Support!TypeOK' /\ SupportSeesPosted'
      BY <2>2, <2>3, SupportOnlyRequests
    <2> QED BY <1>1, <2>1, <2>2, <2>3, <2>4, SupportRequestMoves
  <1>4. CASE found = {}
    <2> DEFINE m == [supportDoing[w] EXCEPT !.step = "commit", !.locked = TRUE,
          !.rows = Support!Rows(w)]
    <2>1. Support!Rows(w) \subseteq Support!MessageRow
      BY <1>1, SupportRowsAre
    <2>2. m \in Support!Posting /\ m.step = "commit" /\ m.locked /\ m.rows = Support!Rows(w)
          /\ m.from = supportDoing[w].from /\ m.key = supportDoing[w].key
          /\ m.send = supportDoing[w].send /\ m.answer = supportDoing[w].answer
      BY <1>1, <2>1 DEF Support!Posting
    <2>3. Support!Continue(w, m) /\ UNCHANGED <<messages, nextSequence, supportQueue, supportPage,
            socket>>
      BY <1>4 DEF Support!Reserve
    <2>4. supportDoing[w].send \subseteq Support!Numbers(messages)
          /\ supportDoing[w].answer \subseteq messages
      BY <1>1 DEF SupportInv, SupportSendsPosted
    <2> HIDE DEF m
    <2>5. Support!TypeOK' /\ SupportSeesPosted'
      BY <2>2, <2>3, SupportOnlyRequests
    <2>6. supportDoing'[w] = m /\ m # Support!Idle
          /\ \A v \in Workers \ {w} : supportDoing'[v] = supportDoing[v]
      BY <2>2, <2>3, SupportPostingIsBusy DEF SupportInv, Support!TypeOK, Support!Continue
    <2>7. Support!Numbers(messages)' = Support!Numbers(messages) /\ SupportLogInv' /\ SupportBotAnswers'
      BY <2>3 DEF SupportInv, SupportLogInv, SupportBotAnswers, SupportAsked, Support!Numbers
    <2>8. SupportSendsPosted'
      BY <2>2, <2>3, <2>4, <2>6, <2>7 DEF SupportInv, SupportSendsPosted
    <2>9. \A v \in Workers : /\ Support!Rows(v)' = Support!Rows(v)
                           /\ Support!Posted(supportDoing[v].from, supportDoing[v].key)' =
                                Support!Posted(supportDoing[v].from, supportDoing[v].key)
      BY <2>2, <2>3, <2>6 DEF Support!Rows, Support!Posted
    <2>10. \A v \in Workers \ {w} : ~ (supportDoing[v] # Support!Idle /\ supportDoing[v].locked)
      BY <1>1 DEF Support!RowFree
    <2>11. \A u, v \in Workers :
             supportDoing'[u] # Support!Idle /\ supportDoing'[u].locked
             /\ supportDoing'[v] # Support!Idle /\ supportDoing'[v].locked => u = v
      BY <2>6, <2>10
    <2>12. \A v \in Workers : Support!At(v, "commit")' => v = w
      <3>1. \A v \in Workers : Support!At(v, "commit") =>
              supportDoing[v] # Support!Idle /\ supportDoing[v].locked
        BY DEF SupportInv, SupportOneHoldsTheRow, Support!At, Support!Idle
      <3> QED BY <2>6, <2>10, <3>1 DEF Support!At
    <2>13. SupportOneHoldsTheRow'
      BY <1>4, <2>2, <2>6, <2>9, <2>11, <2>12 DEF SupportOneHoldsTheRow
    <2> QED BY <2>5, <2>7, <2>8, <2>13 DEF SupportInv
  <1> QED BY <1>3, <1>4

LEMMA SupportIntervalGrows ==
    ASSUME NEW n \in Nat, n > 0
    PROVE  /\ (1 .. n - 1) \cup {n} = 1 .. (n + 1) - 1
           /\ (1 .. n - 1) \cup {n, n + 1} = 1 .. (n + 2) - 1
  OBVIOUS

(* The log grows by one message, or by a message and its reply. *)
SupportExtends(old, n, new, from, key) ==
    \/ from = "SUPPORT" /\ new = {Support!Message(n, "SUPPORT", key)}
    \/ from = "TOURIST" /\ new = {Support!Message(n, "TOURIST", key),
         Support!Message(n + 1, "BOT", key)}

LEMMA SupportLogExtended ==
    ASSUME NEW old, NEW n \in Nat, n > 0, NEW new, NEW from, NEW key \in Int,
             SupportExtends(old, n, new, from, key),
           Support!Numbers(old) = 1 .. n - 1, SupportDistinct(old), SupportReplied(old),
           SupportAsked(old), SupportUnused(old, from, key)
    PROVE  /\ Support!Numbers(old \cup new) = 1 .. (n + Cardinality(new)) - 1
              /\ Cardinality(new) \in 1 .. 2
           /\ SupportDistinct(old \cup new) /\ SupportReplied(old \cup new)
           /\ SupportAsked(old \cup new)
  <1>1. Support!Numbers(old \cup new) = Support!Numbers(old) \cup Support!Numbers(new)
    BY DEF Support!Numbers
  <1>2. \A m \in old : m.sequence \in Support!Numbers(old)
    BY DEF Support!Numbers
  <1>3. \A m \in old : m.sequence \in Int /\ m.sequence < n
    BY <1>2
  <1>4. CASE from = "SUPPORT" /\ new = {Support!Message(n, "SUPPORT", key)}
    <2>1. Support!Numbers(new) = {n}
      BY <1>4 DEF Support!Numbers, Support!Message
    <2>2. Cardinality(new) = 1
      BY <1>4, FS_Singleton
    <2>3. Support!Numbers(old \cup new) = 1 .. (n + 1) - 1
      BY <1>1, <2>1, SupportIntervalGrows
    <2>4. \A m \in new : m.sequence = n /\ m.from = "SUPPORT" /\ m.key = key
      BY <1>4 DEF Support!Message
    <2>5. \A m \in old : ~ (m.from = "SUPPORT" /\ m.key = key)
      BY <1>4 DEF SupportUnused
    <2>6. SupportDistinct(old \cup new)
      <3> SUFFICES ASSUME NEW m \in old \cup new, NEW t \in old \cup new,
                          m.sequence = t.sequence \/ (m.from = t.from /\ m.key = t.key)
                   PROVE  m = t
        BY DEF SupportDistinct
      <3>1. CASE m \in old /\ t \in old
        BY <3>1 DEF SupportDistinct
      <3>2. CASE m \in new /\ t \in new
        BY <1>4, <3>2
      <3>3. CASE m \in old /\ t \in new
        BY <1>3, <2>4, <2>5, <3>3
      <3>4. CASE m \in new /\ t \in old
        BY <1>3, <2>4, <2>5, <3>4
      <3> QED BY <3>1, <3>2, <3>3, <3>4
    <2>7. SupportReplied(old \cup new)
      BY <2>4 DEF SupportReplied
    <2>8. SupportAsked(old \cup new)
      BY <2>4 DEF SupportAsked
    <2> QED BY <2>2, <2>3, <2>6, <2>7, <2>8
  <1>5. CASE from = "TOURIST" /\ new = {Support!Message(n, "TOURIST", key),
               Support!Message(n + 1, "BOT", key)}
    <2> DEFINE own == Support!Message(n, "TOURIST", key)
               bot == Support!Message(n + 1, "BOT", key)
    <2>1. /\ own.sequence = n /\ own.from = "TOURIST" /\ own.key = key
          /\ bot.sequence = n + 1 /\ bot.from = "BOT" /\ bot.key = key
          /\ Support!Message(own.sequence + 1, "BOT", own.key) = bot
      BY DEF Support!Message
    <2>2. new = {own, bot} /\ own # bot
      BY <1>5, <2>1
    <2> HIDE DEF own, bot
    <2>3. Support!Numbers(new) = {n, n + 1}
      BY <2>1, <2>2 DEF Support!Numbers
    <2>4. Cardinality(new) = 2
      <3>1. IsFiniteSet({own}) /\ Cardinality({own}) = 1
        BY FS_Singleton
      <3>2. bot \notin {own} /\ new = {own} \cup {bot}
        BY <2>2
      <3>3. Cardinality({own} \cup {bot}) = 1 + 1
        BY <3>1, <3>2, FS_AddElement
      <3>4. Cardinality(new) = Cardinality({own} \cup {bot})
        BY <3>2
      <3>5. 1 + 1 = 2
        OBVIOUS
      <3> QED BY ONLY <3>3, <3>4, <3>5
    <2>5. Support!Numbers(old \cup new) = 1 .. (n + 2) - 1
      BY <1>1, <2>3, SupportIntervalGrows
    <2>6. \A m \in old : ~ (m.from \in {"TOURIST", "BOT"} /\ m.key = key)
      BY <1>5 DEF SupportUnused
    <2>7. SupportDistinct(old \cup new)
      <3> SUFFICES ASSUME NEW m \in old \cup new, NEW t \in old \cup new,
                          m.sequence = t.sequence \/ (m.from = t.from /\ m.key = t.key)
                   PROVE  m = t
        BY DEF SupportDistinct
      <3>1. CASE m \in old /\ t \in old
        BY <3>1 DEF SupportDistinct
      <3>2. CASE m \in new /\ t \in new
        BY <2>1, <2>2, <3>2
      <3>3. CASE m \in old /\ t \in new
        BY <1>3, <2>1, <2>2, <2>6, <3>3
      <3>4. CASE m \in new /\ t \in old
        BY <1>3, <2>1, <2>2, <2>6, <3>4
      <3> QED BY <3>1, <3>2, <3>3, <3>4
    <2>8. SupportReplied(old \cup new)
      BY <2>1, <2>2 DEF SupportReplied
    <2>9. SupportAsked(old \cup new)
      BY <2>1, <2>2 DEF SupportAsked
    <2> QED BY <2>4, <2>5, <2>7, <2>8, <2>9
  <1> QED BY <1>4, <1>5 DEF SupportExtends

LEMMA SupportCommitKeeps ==
    ASSUME SupportInv, NEW w \in Workers, Support!CommitPost(w)
    PROVE  SupportInv'
  <1> DEFINE new == supportDoing[w].rows
             n == nextSequence
             from == supportDoing[w].from
             key == supportDoing[w].key
             a == Support!Answering(w, new)
             m == [a EXCEPT !.locked = FALSE, !.rows = {}]
  <1>1. supportDoing[w] \in Support!Posting /\ supportDoing[w] # Support!Idle
    BY SupportPostingIs DEF Support!CommitPost, Support!At, SupportInv
  <1>2. supportDoing[w].locked /\ new = Support!Rows(w) /\ Support!Posted(from, key) = {}
        /\ new \subseteq Support!MessageRow
    BY <1>1, SupportRowsAre DEF Support!CommitPost, SupportInv, SupportOneHoldsTheRow
  <1>3. n \in Nat /\ n > 0 /\ key \in Int /\ from \in {"TOURIST", "SUPPORT"}
        /\ Support!Numbers(messages) = 1 .. n - 1
    BY <1>1, SupportLogNumbers DEF Support!Posting
  <1>4. SupportExtends(messages, n, new, from, key)
    BY <1>2, <1>3 DEF Support!Rows, SupportExtends
  <1>5. SupportUnused(messages, from, key)
    BY <1>2 DEF Support!Posted, SupportUnused
  <1>6. SupportDistinct(messages) /\ SupportReplied(messages) /\ SupportAsked(messages)
    BY DEF SupportInv, SupportLogInv, SupportBotAnswers
  <1>7. /\ messages' = messages \cup new /\ nextSequence' = n + Cardinality(new)
        /\ Support!Continue(w, m) /\ UNCHANGED <<supportQueue, supportPage, socket>>
    BY SupportCounts DEF Support!CommitPost
  <1> HIDE DEF n, from, key, new
  <1>8. /\ Support!Numbers(messages \cup new) = 1 .. (n + Cardinality(new)) - 1
           /\ Cardinality(new) \in 1 .. 2
        /\ SupportDistinct(messages \cup new) /\ SupportReplied(messages \cup new)
        /\ SupportAsked(messages \cup new)
    BY <1>3, <1>4, <1>5, <1>6, SupportLogExtended
  <1>9. SupportLogInv' /\ SupportBotAnswers'
    <2>1. Support!Numbers(messages)' = Support!Numbers(messages \cup new)
          /\ SupportDistinct(messages)' = SupportDistinct(messages \cup new)
          /\ SupportReplied(messages)' = SupportReplied(messages \cup new)
             /\ SupportAsked(messages)' = SupportAsked(messages \cup new)
      BY <1>7 DEF Support!Numbers, SupportDistinct, SupportReplied, SupportAsked
    <2>2. SupportLogInv'
      BY <1>7, <1>8, <2>1 DEF SupportLogInv
    <2> QED BY <1>8, <2>1, <2>2 DEF SupportBotAnswers
  <1>10. Support!Numbers(messages) \subseteq Support!Numbers(messages)'
         /\ Support!Numbers(new) \subseteq Support!Numbers(messages)'
         /\ Support!Numbers(new) \subseteq Support!Sequence
    BY <1>2, <1>7 DEF Support!Numbers, Support!MessageRow
  <1>11. a \in Support!Posting /\ a.step = "send" /\ a.send = Support!Numbers(new) /\ a.answer = new
    BY <1>1, <1>2, <1>10 DEF Support!Answering, Support!Posting
  <1> HIDE DEF a
  <1>12. m \in Support!Posting /\ m.step = "send" /\ ~ m.locked /\ m.send = Support!Numbers(new)
         /\ m.answer = new
    BY <1>11 DEF Support!Posting
  <1> HIDE DEF m
  <1>13. supportDoing' \in [Workers -> {Support!Idle} \cup Support!Posting] /\ supportDoing'[w] = m
         /\ \A v \in Workers \ {w} : supportDoing'[v] = supportDoing[v]
    BY <1>7, <1>12 DEF SupportInv, Support!TypeOK, Support!Continue
  <1>14. Support!TypeOK'
    BY <1>2, <1>3, <1>7, <1>8, <1>13 DEF SupportInv, Support!TypeOK, Support!Sequence
  <1>15. SupportSendsPosted'
    BY <1>7, <1>10, <1>12, <1>13, SMTT(30) DEF SupportInv, SupportSendsPosted
  <1>16. SupportSeesPosted'
    BY <1>7, <1>10 DEF SupportInv, SupportSeesPosted
  <1>17. SupportOneHoldsTheRow'
    <2>1. \A v \in Workers \ {w} : ~ (supportDoing[v] # Support!Idle /\ supportDoing[v].locked)
      BY <1>1, <1>2 DEF SupportInv, SupportOneHoldsTheRow
    <2>2. \A v \in Workers : ~ (supportDoing'[v] # Support!Idle /\ supportDoing'[v].locked)
      BY <1>12, <1>13, <2>1
    <2>3. \A v \in Workers : ~ Support!At(v, "commit")'
      <3>1. \A v \in Workers : Support!At(v, "commit") =>
              supportDoing[v] # Support!Idle /\ supportDoing[v].locked
        BY DEF SupportInv, SupportOneHoldsTheRow, Support!At, Support!Idle
      <3> QED BY <1>12, <1>13, <2>1, <3>1 DEF Support!At
    <2> QED BY <2>2, <2>3 DEF SupportOneHoldsTheRow
  <1> QED BY <1>9, <1>14, <1>15, <1>16, <1>17 DEF SupportInv

(* A queue of events, each of which has been posted. *)
SupportEvents(q) ==
    /\ q \in Seq(Support!Sequence)
    /\ Len(q) =< QueueSize
    /\ \A i \in DOMAIN q : q[i] \in Support!Numbers(messages)

SupportQueues(queues) ==
    /\ queues = [s \in Sockets |-> queues[s]]
    /\ \A s \in Sockets : SupportEvents(queues[s])

LEMMA SupportQueueHolds == ASSUME SupportInv PROVE SupportQueues(supportQueue)
  BY DEF SupportInv, Support!TypeOK, SupportSeesPosted, SupportEvents, SupportQueues

LEMMA SupportEmptyQueue == ASSUME Support!ChannelAssumption PROVE SupportEvents(<<>>)
  <1>1. <<>> \in Seq(Support!Sequence) /\ Len(<<>>) = 0 /\ QueueSize \in Nat
    BY DEF Support!ChannelAssumption
  <1> QED BY <1>1 DEF SupportEvents

LEMMA SupportTailHolds == ASSUME NEW q, q # <<>>, SupportEvents(q), QueueSize \in Nat
  PROVE SupportEvents(Tail(q)) /\ Len(Tail(q)) = Len(q) - 1
  <1>1. /\ q \in Seq(Support!Sequence) /\ Tail(q) \in Seq(Support!Sequence) /\ Len(Tail(q)) = Len(q) - 1
        /\ \A i \in DOMAIN Tail(q) : Tail(q)[i] = q[i + 1] /\ i + 1 \in DOMAIN q
    BY DEF SupportEvents
  <1>2. Len(q) \in Nat /\ Len(Tail(q)) \in Nat
    BY <1>1
  <1> QED BY <1>1, <1>2 DEF SupportEvents

LEMMA SupportQueuedHolds ==
    ASSUME Support!ChannelAssumption, SupportInv, NEW e \in Support!Numbers(messages), NEW s \in Sockets
    PROVE  SupportEvents(Support!Queued(s, e))
  <1> PICK old : old = supportQueue[s]
    OBVIOUS
  <1> DEFINE q == IF Len(old) = QueueSize THEN Tail(old) ELSE old
  <1>1. QueueSize \in Nat /\ QueueSize > 0 /\ SupportEvents(old) /\ old \in Seq(Support!Sequence)
    BY SupportQueueHolds DEF Support!ChannelAssumption, SupportEvents, SupportQueues
  <1>2. SupportEvents(q) /\ Len(q) < QueueSize
    <2>1. CASE Len(old) = QueueSize
      <3>1. old # <<>>
        BY <1>1, <2>1
      <3>2. SupportEvents(Tail(old)) /\ Len(Tail(old)) = Len(old) - 1
        BY <1>1, <3>1, SupportTailHolds
      <3> QED BY <1>1, <2>1, <3>2
    <2>2. CASE Len(old) # QueueSize
      BY <1>1, <2>2 DEF SupportEvents
    <2> QED BY <2>1, <2>2
  <1> HIDE DEF q
  <1>3. e \in Support!Sequence
    BY SupportLogNumbers
  <1>4. /\ Append(q, e) \in Seq(Support!Sequence) /\ Len(Append(q, e)) = Len(q) + 1 /\ Len(q) \in Nat
        /\ \A i \in 1 .. Len(q) : Append(q, e)[i] = q[i]
        /\ Append(q, e)[Len(q) + 1] = e
    BY <1>2, <1>3 DEF SupportEvents
  <1>5. SupportEvents(Append(q, e))
    BY <1>1, <1>2, <1>4 DEF SupportEvents
  <1> QED BY <1>5 DEF Support!Queued, q

(* What a page shows after an answer, a list or an event. *)
SupportShows(p) ==
    /\ p \in Support!Page
    /\ p.shown \subseteq Support!Numbers(messages)
    /\ p.last # -1 => p.last \in Support!Numbers(messages)
    /\ \A s \in Sockets : p.listing[s] # Nobody => p.listing[s] \subseteq Support!Numbers(messages)

LEMMA SupportPageShows == ASSUME SupportInv PROVE SupportShows(supportPage)
  BY DEF SupportInv, Support!TypeOK, SupportSeesPosted, SupportShows

LEMMA SupportShowingShows ==
    ASSUME SupportInv, NEW S, S \subseteq Support!Numbers(messages)
    PROVE  SupportShows(Support!Showing(S))
  <1>1. supportPage \in Support!Page /\ SupportShows(supportPage)
        /\ Support!Numbers(messages) \subseteq Support!Sequence
    BY SupportPageShows, SupportLogNumbers DEF SupportShows
  <1>2. supportPage.last \in Int
    BY <1>1 DEF Support!Page, Support!Sequence
  <1>3. Support!Max({supportPage.last} \cup S) \in {supportPage.last} \cup S
    BY <1>2, SupportLargestIsPosted
  <1>4. Support!Showing(S) = [supportPage EXCEPT !.shown = supportPage.shown \cup S,
          !.last = Support!Max({supportPage.last} \cup S)]
    BY DEF Support!Showing
  <1> DEFINE largest == Support!Max({supportPage.last} \cup S)
  <1>5. Support!Showing(S) = [shown |-> supportPage.shown \cup S, last |-> largest,
          listing |-> supportPage.listing, current |-> supportPage.current,
          request |-> supportPage.request, sent |-> supportPage.sent, open |-> supportPage.open]
    BY <1>1, <1>4 DEF Support!Page
  <1> HIDE DEF largest
  <1>6. largest \in Support!Sequence \cup {-1}
        /\ (largest # -1 => largest \in Support!Numbers(messages))
    BY <1>1, <1>3 DEF SupportShows, Support!Page, largest
  <1> QED BY <1>1, <1>5, <1>6 DEF SupportShows, Support!Page

(* Seen from the page and its connections. *)
LEMMA SupportViewMoves ==
    ASSUME SupportInv, UNCHANGED <<messages, nextSequence>>,
             supportDoing' \in [Workers -> {Support!Idle} \cup Support!Posting],
           SupportQueues(supportQueue'), SupportShows(supportPage'),
           socket' \in [Sockets -> Support!SocketRow]
    PROVE  Support!TypeOK' /\ SupportSeesPosted'
  <1>1. Support!Numbers(messages)' = Support!Numbers(messages)
    BY DEF Support!Numbers
  <1>2. supportQueue' \in [Sockets -> Seq(Support!Sequence)]
        /\ \A s \in Sockets : Len(supportQueue'[s]) =< QueueSize
    BY DEF SupportQueues, SupportEvents
  <1>3. \A s \in Sockets : \A i \in DOMAIN supportQueue'[s] :
          supportQueue'[s][i] \in Support!Numbers(messages)
    BY DEF SupportQueues, SupportEvents
  <1>4. Support!TypeOK'
    BY <1>2 DEF SupportInv, Support!TypeOK, SupportShows
  <1> QED BY <1>1, <1>3, <1>4 DEF SupportSeesPosted, SupportShows

LEMMA SupportBroadcastKeeps ==
    ASSUME Support!ChannelAssumption, SupportInv, NEW w \in Workers, Support!Broadcast(w)
    PROVE  SupportInv'
  <1>1. supportDoing[w] \in Support!Posting /\ supportDoing[w] # Support!Idle
        /\ supportDoing[w].step = "send"
    BY SupportPostingIs DEF Support!Broadcast, Support!At, SupportInv
  <1>2. PICK e \in supportDoing[w].send :
          /\ supportQueue' = [s \in Sockets |-> IF socket[s].state # "open" THEN supportQueue[s]
                                               ELSE Support!Queued(s, e)]
          /\ Support!Continue(w, [supportDoing[w] EXCEPT !.send = @ \ {e}])
    BY DEF Support!Broadcast
  <1> DEFINE m == [supportDoing[w] EXCEPT !.send = supportDoing[w].send \ {e}]
  <1>3. supportDoing[w].send \subseteq Support!Numbers(messages)
        /\ supportDoing[w].answer \subseteq messages
    BY <1>1 DEF SupportInv, SupportSendsPosted
  <1>4. m \in Support!Posting /\ m.step = "send" /\ m.locked = supportDoing[w].locked
        /\ m.answer = supportDoing[w].answer
        /\ m.send \subseteq supportDoing[w].send
    BY <1>1 DEF Support!Posting
  <1>5. Support!Continue(w, m) /\ UNCHANGED <<messages, nextSequence, supportPage, socket>>
    BY <1>2 DEF Support!Broadcast
  <1> HIDE DEF m
  <1>6. SupportQueues(supportQueue')
    <2>1. \A s \in Sockets : SupportEvents(supportQueue[s]) /\ SupportEvents(Support!Queued(s, e))
      BY <1>3, SupportQueueHolds, SupportQueuedHolds DEF SupportQueues
    <2>2. \A s \in Sockets : supportQueue'[s] = supportQueue[s] \/ supportQueue'[s] = Support!Queued(s, e)
      BY <1>2
    <2>3. supportQueue' = [s \in Sockets |-> supportQueue'[s]]
      BY <1>2
    <2> QED BY <2>1, <2>2, <2>3 DEF SupportQueues
  <1>7. supportDoing' \in [Workers -> {Support!Idle} \cup Support!Posting]
    BY <1>4, <1>5 DEF SupportInv, Support!TypeOK, Support!Continue
  <1>8. supportDoing[w].locked => Support!RowFree(w)
    BY <1>1 DEF SupportInv, SupportOneHoldsTheRow, Support!RowFree
  <1>9. Support!TypeOK' /\ SupportSeesPosted'
    BY <1>5, <1>6, <1>7, SupportPageShows, SupportViewMoves DEF SupportInv, Support!TypeOK
  <1> QED BY <1>3, <1>4, <1>5, <1>8, <1>9, SupportRequestMoves

LEMMA SupportEndsKeep ==
    ASSUME SupportInv, NEW w \in Workers, Support!Answer(w) \/ Support!Fail(w)
    PROVE  SupportInv'
  <1>1. Support!Continue(w, Support!Idle) /\ UNCHANGED <<messages, nextSequence, supportQueue, socket>>
    BY DEF Support!Answer, Support!Fail
  <1>2. supportDoing' \in [Workers -> {Support!Idle} \cup Support!Posting]
    BY <1>1 DEF SupportInv, Support!TypeOK, Support!Continue
  <1>3. supportPage \in Support!Page /\ SupportShows(supportPage)
    BY SupportPageShows DEF SupportShows
  <1>4. SupportShows(supportPage')
    <2>1. CASE Support!Fail(w)
      BY <1>3, <2>1 DEF Support!Fail, SupportShows, Support!Page
    <2>2. CASE Support!Answer(w)
      <3>1. supportDoing[w] # Support!Idle
        BY <2>2, SupportPostingIs DEF Support!Answer, Support!At, SupportInv
      <3>2. Support!Numbers(supportDoing[w].answer) \subseteq Support!Numbers(messages)
        BY <3>1, SupportNumbersAre DEF SupportInv, SupportSendsPosted
      <3> DEFINE p == Support!Showing(Support!Numbers(supportDoing[w].answer))
      <3>3. SupportShows(p)
        BY <3>2, SupportShowingShows
      <3>4. supportPage' = supportPage \/ supportPage' = [p EXCEPT !.request = Nobody, !.open = FALSE]
        BY <2>2 DEF Support!Answer
      <3> HIDE DEF p
      <3>5. SupportShows([p EXCEPT !.request = Nobody, !.open = FALSE])
        BY <3>3 DEF SupportShows, Support!Page
      <3> QED BY <1>3, <3>4, <3>5
    <2> QED BY <2>1, <2>2
  <1>5. Support!TypeOK' /\ SupportSeesPosted'
    BY <1>1, <1>2, <1>4, SupportQueueHolds, SupportViewMoves DEF SupportInv, Support!TypeOK
  <1> QED BY <1>1, <1>5, SupportRequestMoves

(* The page lists, and its sockets connect, deliver and give up. *)
SupportPageStep(s) ==
    \/ Support!Select(s) \/ Support!Listed(s) \/ Support!NotListed(s)
    \/ Support!Open(s) \/ Support!Disconnected(s) \/ Support!Reconnect(s) \/ Support!Deliver(s)

LEMMA SupportSocketsKeep ==
    ASSUME Support!ChannelAssumption, SupportInv, NEW s \in Sockets, SupportPageStep(s)
    PROVE  socket' \in [Sockets -> Support!SocketRow]
  <1>1. socket \in [Sockets -> Support!SocketRow] /\ MaxAttempts \in Nat
    BY DEF SupportInv, Support!TypeOK, Support!ChannelAssumption
  <1>2. \A a \in 0 .. MaxAttempts :
          /\ a < MaxAttempts => a + 1 \in 0 .. MaxAttempts
          /\ ~ a >= MaxAttempts => a < MaxAttempts
    BY <1>1
  <1>3. \A t \in Sockets : socket[t].attempts \in 0 .. MaxAttempts
    BY <1>1 DEF Support!SocketRow
  <1>4. Support!Stopped \in Support!SocketRow
    BY <1>1 DEF Support!Stopped, Support!SocketRow
  <1>5. CASE Support!Select(s)
    BY <1>1, <1>4, <1>5 DEF Support!Select
  <1>6. CASE Support!Listed(s)
    <2>1. [state |-> "connecting", attempts |-> 0] \in Support!SocketRow
      BY <1>1 DEF Support!SocketRow
    <2> QED BY <1>1, <1>6, <2>1 DEF Support!Listed
  <1>7. CASE Support!Open(s)
    <2>1. [state |-> "open", attempts |-> 0] \in Support!SocketRow
      BY <1>1 DEF Support!SocketRow
    <2> QED BY <1>1, <1>7, <2>1 DEF Support!Open
  <1>8. CASE Support!Disconnected(s)
    <2>1. CASE socket[s].attempts >= MaxAttempts
      <3>1. [socket[s] EXCEPT !.state = "degraded"] \in Support!SocketRow
        BY <1>1 DEF Support!SocketRow
      <3> QED BY <1>1, <1>8, <2>1, <3>1 DEF Support!Disconnected
    <2>2. CASE ~ (socket[s].attempts >= MaxAttempts)
      <3>1. [state |-> "waiting", attempts |-> socket[s].attempts + 1] \in Support!SocketRow
        BY <1>2, <1>3, <2>2 DEF Support!SocketRow
      <3> QED BY <1>1, <1>8, <2>2, <3>1 DEF Support!Disconnected
    <2> QED BY <2>1, <2>2
  <1>9. CASE Support!Reconnect(s)
    BY <1>1, <1>9 DEF Support!Reconnect, Support!SocketRow
  <1> QED BY <1>1, <1>5, <1>6, <1>7, <1>8, <1>9
             DEF SupportPageStep, Support!NotListed, Support!Deliver

LEMMA SupportQueuesKeep ==
    ASSUME Support!ChannelAssumption, SupportInv, NEW s \in Sockets, SupportPageStep(s)
    PROVE  SupportQueues(supportQueue')
  <1>1. SupportQueues(supportQueue) /\ SupportEvents(<<>>) /\ QueueSize \in Nat
    BY SupportQueueHolds, SupportEmptyQueue DEF Support!ChannelAssumption
  <1>2. CASE Support!Select(s)
    <2>1. supportQueue' = [t \in Sockets |-> IF t = supportPage.current THEN <<>> ELSE supportQueue[t]]
      BY <1>2 DEF Support!Select
    <2> QED BY <1>1, <2>1 DEF SupportQueues
  <1>3. CASE Support!Open(s) \/ Support!Disconnected(s)
    <2>1. supportQueue' = [supportQueue EXCEPT ![s] = <<>>]
      BY <1>3 DEF Support!Open, Support!Disconnected
    <2> QED BY <1>1, <2>1 DEF SupportQueues
  <1>4. CASE Support!Deliver(s)
    <2>1. supportQueue' = [supportQueue EXCEPT ![s] = Tail(supportQueue[s])] /\ supportQueue[s] # <<>>
      BY <1>4 DEF Support!Deliver
    <2>2. SupportEvents(Tail(supportQueue[s]))
      BY <1>1, <2>1, SupportTailHolds DEF SupportQueues
    <2> QED BY <1>1, <2>1, <2>2 DEF SupportQueues
  <1>5. CASE UNCHANGED supportQueue
    BY <1>1, <1>5
  <1> QED BY <1>2, <1>3, <1>4, <1>5
             DEF SupportPageStep, Support!Listed, Support!NotListed, Support!Reconnect

LEMMA SupportPageKeeps ==
    ASSUME SupportInv, NEW s \in Sockets, SupportPageStep(s)
    PROVE  SupportShows(supportPage')
  <1>1. supportPage \in Support!Page /\ SupportShows(supportPage)
        /\ Support!Numbers(messages) \subseteq Support!Sequence
    BY SupportPageShows, SupportLogNumbers DEF SupportShows
  <1>2. CASE Support!Select(s)
    <2> DEFINE listing == [supportPage.listing EXCEPT ![s] = Support!Numbers(messages)]
    <2>1. supportPage' = [supportPage EXCEPT !.listing = listing, !.current = Nobody]
      BY <1>1, <1>2 DEF Support!Select, Support!Page
    <2>2. listing \in [Sockets -> {Nobody} \cup SUBSET Support!Sequence]
          /\ \A t \in Sockets : listing[t] # Nobody => listing[t] \subseteq Support!Numbers(messages)
      BY <1>1 DEF SupportShows, Support!Page
    <2> HIDE DEF listing
    <2> QED BY <1>1, <2>1, <2>2 DEF SupportShows, Support!Page
  <1>3. CASE Support!NotListed(s)
    <2> DEFINE listing == [supportPage.listing EXCEPT ![s] = Nobody]
    <2>1. supportPage' = [supportPage EXCEPT !.listing = listing]
      BY <1>1, <1>3 DEF Support!NotListed, Support!Page
    <2>2. listing \in [Sockets -> {Nobody} \cup SUBSET Support!Sequence]
          /\ \A t \in Sockets : listing[t] # Nobody => listing[t] \subseteq Support!Numbers(messages)
      BY <1>1 DEF SupportShows, Support!Page
    <2> HIDE DEF listing
    <2> QED BY <1>1, <2>1, <2>2 DEF SupportShows, Support!Page
  <1>4. CASE Support!Listed(s)
    <2> DEFINE listing == [supportPage.listing EXCEPT ![s] = Nobody]
               listed == supportPage.listing[s]
               largest == Support!Max({-1} \cup listed)
    <2>1. listed \subseteq Support!Numbers(messages)
      BY <1>1, <1>4 DEF Support!Listed, SupportShows
    <2>2. largest \in {-1} \cup listed
      BY <2>1, SupportLargestIsPosted
    <2>3. supportPage' = [supportPage EXCEPT !.listing = listing, !.current = s,
                                             !.shown = listed, !.last = largest]
      BY <1>1, <1>4 DEF Support!Listed, Support!Page
    <2>4. listing \in [Sockets -> {Nobody} \cup SUBSET Support!Sequence]
          /\ \A t \in Sockets : listing[t] # Nobody => listing[t] \subseteq Support!Numbers(messages)
      BY <1>1 DEF SupportShows, Support!Page
    <2> HIDE DEF listing, listed, largest
    <2>5. largest \in Support!Sequence \cup {-1}
          /\ (largest # -1 => largest \in Support!Numbers(messages))
      BY <1>1, <2>1, <2>2
    <2> QED BY <1>1, <2>1, <2>3, <2>4, <2>5 DEF SupportShows, Support!Page
  <1>5. CASE Support!Deliver(s)
    <2> PICK q : q = supportQueue[s]
      OBVIOUS
    <2>1. q \in Seq(Support!Sequence) /\ q # <<>>
          /\ \A i \in DOMAIN q : q[i] \in Support!Numbers(messages)
      BY <1>5, SupportQueueHolds DEF Support!Deliver, SupportQueues, SupportEvents
    <2>2. Head(q) \in Support!Numbers(messages)
      BY <2>1
    <2>3. SupportShows(Support!Showing({Head(q)}))
      BY <2>2, SupportShowingShows
    <2> QED BY <1>1, <1>5, <2>3 DEF Support!Deliver
  <1> QED BY <1>1, <1>2, <1>3, <1>4, <1>5
             DEF SupportPageStep, Support!Open, Support!Disconnected, Support!Reconnect

LEMMA SupportPageStepKeeps ==
    ASSUME Support!ChannelAssumption, SupportInv,
           Support!GiveUp \/ \E s \in Sockets : SupportPageStep(s)
    PROVE  SupportInv'
  <1>1. UNCHANGED <<messages, nextSequence, supportDoing>>
    BY DEF SupportPageStep, Support!GiveUp, Support!Select, Support!Listed, Support!NotListed,
       Support!Open, Support!Disconnected, Support!Reconnect, Support!Deliver
  <1>2. supportDoing' \in [Workers -> {Support!Idle} \cup Support!Posting]
    BY <1>1 DEF SupportInv, Support!TypeOK
  <1>3. /\ socket' \in [Sockets -> Support!SocketRow]
        /\ SupportQueues(supportQueue') /\ SupportShows(supportPage')
    <2>1. CASE Support!GiveUp
      <3>1. socket \in [Sockets -> Support!SocketRow] /\ SupportQueues(supportQueue)
            /\ supportPage \in Support!Page /\ SupportShows(supportPage)
        BY SupportQueueHolds, SupportPageShows DEF SupportInv, Support!TypeOK
      <3>2. SupportShows([supportPage EXCEPT !.request = Nobody])
        BY <3>1 DEF SupportShows, Support!Page
      <3> QED BY <2>1, <3>1, <3>2 DEF Support!GiveUp
    <2>2. CASE \E s \in Sockets : SupportPageStep(s)
      BY <2>2, SupportSocketsKeep, SupportQueuesKeep, SupportPageKeeps
    <2> QED BY <2>1, <2>2
  <1>4. Support!TypeOK' /\ SupportSeesPosted'
    BY <1>1, <1>2, <1>3, SupportViewMoves
  <1> QED BY <1>1, <1>4, SupportPageMoves, SMTT(30)

LEMMA SupportStepKeeps ==
    ASSUME Support!ChannelAssumption, SupportInv, [Support!Next]_(Support!vars)
    PROVE  SupportInv'
  <1>1. CASE UNCHANGED Support!vars
    <2>1. UNCHANGED <<messages, nextSequence, supportDoing, supportQueue, supportPage, socket>>
      BY <1>1 DEF Support!vars
    <2>2. Support!TypeOK' /\ SupportSeesPosted'
      BY <2>1 DEF SupportInv, Support!TypeOK, SupportSeesPosted, Support!Numbers
    <2> QED BY <2>1, <2>2, SupportPageMoves
  <1> QED
    BY <1>1, SupportSendsKeep, SupportLookKeeps, SupportReserveKeeps, SupportCommitKeeps,
       SupportBroadcastKeeps, SupportEndsKeep, SupportPageStepKeeps DEF Support!Next, SupportPageStep

THEOREM SupportInvariant == Support!ChannelAssumption /\ Support!Spec => []SupportInv
  <1> SUFFICES ASSUME Support!ChannelAssumption PROVE Support!Spec => []SupportInv
    OBVIOUS
  <1>1. Support!Init => SupportInv
    BY SupportInitially
  <1>2. SupportInv /\ [Support!Next]_(Support!vars) => SupportInv'
    BY SupportStepKeeps
  <1> QED BY <1>1, <1>2, PTL DEF Support!Spec

(* Messages are numbered one by one, under keys of their own, each of the  *)
(* tourist's with the bot's right after it; and nothing is on its way to a *)
(* page, or on it, that is not in the log.                                 *)
THEOREM SupportLogIsExact ==
    Support!ChannelAssumption /\ Support!Spec =>
      [](Support!TypeOK /\ Support!LogIsNumbered /\ Support!RepliesFollow
      /\ Support!OnlyPersistedIsSeen)
  <1>1. SupportInv => Support!TypeOK /\ Support!LogIsNumbered /\ Support!RepliesFollow
        /\ Support!OnlyPersistedIsSeen
    BY DEF SupportInv, SupportLogInv, SupportDistinct, SupportReplied, SupportSeesPosted,
       Support!LogIsNumbered, Support!RepliesFollow, Support!OnlyPersistedIsSeen
  <1> QED BY <1>1, SupportInvariant, PTL

-----------------------------------------------------------------------------
(***************************************************************************)
(* Proofs about CrowdFeed, for any processes and number of snapshots.      *)
(* Numbers are taken in turn because the one that is written is the one    *)
(* after a snapshot that exists and is itself not taken; what is on its    *)
(* way carries the number of a snapshot, and snapshots stay.               *)
(***************************************************************************)

CrowdNumbersOf(kept) == {s.sequence : s \in kept}

(* The snapshots are n, numbered one by one. *)
CrowdNumbered(kept, n) ==
    /\ n \in Nat
    /\ CrowdNumbersOf(kept) = 1 .. n
    /\ IsFiniteSet(kept) /\ Cardinality(kept) = n

(* What a publisher remembers has been persisted. *)
CrowdRemembers(m, n) ==
    /\ m.step = "write" => m.base =< n
    /\ m.step \in {"local", "publish"} => m.event =< n

CrowdAllUpTo(q, n) == \A i \in DOMAIN q : q[i] =< n

CrowdLink == [process : Processes \cup {Nowhere}, stage : {"none", "greeted", "open"}, queue : Seq(Nat)]

(* A connection holds one event at most, and its greeting until it is open.*)
CrowdCarries(c, n) ==
    /\ c \in CrowdLink /\ Len(c.queue) =< 1 /\ CrowdAllUpTo(c.queue, n)
    /\ c.stage = "greeted" => c.queue # <<>>

CrowdSeenUpTo(n) ==
    /\ \A p \in Processes : CrowdRemembers(tick[p], n) /\ CrowdAllUpTo(wire[p], n)
    /\ CrowdCarries(connection, n)
    /\ crowdPage.shown =< n
    /\ crowdPage.answer # Nowhere => crowdPage.answer =< n

CrowdInv == Crowd!TypeOK /\ CrowdNumbered(crowdSnapshots, Crowd!Latest) /\ CrowdSeenUpTo(Crowd!Latest)

(* What the instance counts with is what counts here. *)
LEMMA CrowdCounts ==
    /\ \A Q : Crowd!IsFiniteSet(Q) <=> IsFiniteSet(Q)
    /\ \A Q : Crowd!Cardinality(Q) = Cardinality(Q)
  BY Zenon DEF Crowd!IsFiniteSet, IsFiniteSet, Crowd!Cardinality, Cardinality

(* The latest of n numbered snapshots is the n-th. *)
LEMMA CrowdLatestIs ==
    ASSUME NEW n, CrowdNumbered(crowdSnapshots, n)
    PROVE  Crowd!Latest = n
  <1>1. n \in Nat /\ {0} \cup {s.sequence : s \in crowdSnapshots} = 0 .. n
    BY DEF CrowdNumbered, CrowdNumbersOf
  <1>2. Crowd!Latest = (CHOOSE x \in 0 .. n : \A y \in 0 .. n : x >= y)
    BY <1>1 DEF Crowd!Latest, Crowd!Max
  <1>3. n \in 0 .. n /\ \A y \in 0 .. n : n >= y
    BY <1>1
  <1>4. Crowd!Latest \in 0 .. n /\ \A y \in 0 .. n : Crowd!Latest >= y
    BY <1>2, <1>3
  <1> QED BY <1>1, <1>3, <1>4

LEMMA CrowdLatestNext ==
    ASSUME NEW n, CrowdNumbered(crowdSnapshots', n)
    PROVE  Crowd!Latest' = n
  <1>1. n \in Nat /\ {0} \cup {s.sequence : s \in crowdSnapshots'} = 0 .. n
    BY DEF CrowdNumbered, CrowdNumbersOf
  <1>2. Crowd!Latest' = (CHOOSE x \in 0 .. n : \A y \in 0 .. n : x >= y)
    BY <1>1 DEF Crowd!Latest, Crowd!Max
  <1>3. n \in 0 .. n /\ \A y \in 0 .. n : n >= y
    BY <1>1
  <1>4. Crowd!Latest' \in 0 .. n /\ \A y \in 0 .. n : Crowd!Latest' >= y
    BY <1>2, <1>3
  <1> QED BY <1>1, <1>3, <1>4

LEMMA CrowdLatestStays ==
    ASSUME UNCHANGED crowdSnapshots
    PROVE  Crowd!Latest' = Crowd!Latest
  BY DEF Crowd!Latest

(* A step that takes no snapshot. *)
LEMMA CrowdSameSnapshots ==
    ASSUME CrowdInv, UNCHANGED crowdSnapshots, Crowd!TypeOK', CrowdSeenUpTo(Crowd!Latest)'
    PROVE  CrowdInv'
  BY CrowdLatestStays DEF CrowdInv, CrowdNumbered

(* A publisher goes on; pages and connections stay. *)
LEMMA CrowdPublisherMoves ==
    ASSUME CrowdInv, NEW p \in Processes, NEW m \in Crowd!Tick, CrowdRemembers(m, Crowd!Latest),
             Crowd!Continue(p, m),
           window' \in BOOLEAN, UNCHANGED <<crowdSnapshots, crowdPage>>,
           CrowdCarries(connection', Crowd!Latest),
           wire' \in [Processes -> Seq(Nat)], \A q \in Processes : CrowdAllUpTo(wire'[q], Crowd!Latest)
    PROVE  CrowdInv'
  <1>1. tick' \in [Processes -> Crowd!Tick] /\ \A q \in Processes :
          CrowdRemembers(tick'[q], Crowd!Latest)
    BY DEF CrowdInv, Crowd!TypeOK, CrowdSeenUpTo, Crowd!Continue
  <1>2. Crowd!TypeOK'
    BY <1>1 DEF CrowdInv, Crowd!TypeOK, CrowdCarries, CrowdLink
  <1>3. CrowdSeenUpTo(Crowd!Latest)'
    BY <1>1, CrowdLatestStays DEF CrowdInv, CrowdSeenUpTo
  <1> QED BY <1>2, <1>3, CrowdSameSnapshots

(* One event for the connection of a process. *)
LEMMA CrowdFannedIs ==
    ASSUME CrowdInv, NEW p \in Processes, NEW e \in Nat, e =< Crowd!Latest
    PROVE  CrowdCarries(Crowd!Fanned(p, e), Crowd!Latest)
  <1>1. <<e>> \in Seq(Nat) /\ Len(<<e>>) = 1 /\ CrowdAllUpTo(<<e>>, Crowd!Latest)
    BY DEF CrowdAllUpTo
  <1>2. CASE connection.stage = "open" /\ connection.process = p
    <2>1. Crowd!Fanned(p, e) = [process |-> connection.process, stage |-> connection.stage,
            queue |-> <<e>>]
      BY <1>2 DEF Crowd!Fanned, CrowdInv, CrowdSeenUpTo, CrowdCarries, CrowdLink
    <2>2. Crowd!Fanned(p, e) \in CrowdLink
      BY <1>1, <2>1 DEF CrowdInv, CrowdSeenUpTo, CrowdCarries, CrowdLink
    <2> QED BY <1>1, <1>2, <2>1, <2>2 DEF CrowdCarries
  <1> QED BY <1>2 DEF Crowd!Fanned, CrowdInv, CrowdSeenUpTo

(* A connection without events. *)
LEMMA CrowdEmptyCarries ==
    ASSUME NEW p \in Processes \cup {Nowhere}, NEW stage \in {"none", "open"}, NEW n
    PROVE  CrowdCarries([process |-> p, stage |-> stage, queue |-> <<>>], n)
  <1>1. <<>> \in Seq(Nat) /\ Len(<<>>) = 0 /\ CrowdAllUpTo(<<>>, n)
    BY DEF CrowdAllUpTo
  <1> QED BY <1>1 DEF CrowdCarries, CrowdLink

LEMMA CrowdSimpleTicks ==
    ASSUME CrowdInv, NEW p \in Processes, Crowd!Lead(p) \/ Crowd!Read(p) \/ Crowd!TickFails(p)
           \/ Crowd!Reread(p)
    PROVE  CrowdInv'
  <1>1. Crowd!Latest \in Nat
    BY DEF CrowdInv, CrowdNumbered
  <1>2. \E m \in Crowd!Tick : CrowdRemembers(m, Crowd!Latest) /\ Crowd!Continue(p, m)
    <2>1. CASE Crowd!Lead(p)
      BY <2>1 DEF Crowd!Lead, Crowd!Tick, CrowdRemembers
    <2>2. CASE Crowd!Read(p)
      BY <1>1, <2>2 DEF Crowd!Read, Crowd!Tick, CrowdRemembers
    <2>3. CASE Crowd!TickFails(p)
      BY <2>3 DEF Crowd!TickFails, Crowd!Waiting, Crowd!Tick, CrowdRemembers
    <2>4. CASE Crowd!Reread(p)
      BY <1>1, <2>4 DEF Crowd!Reread, Crowd!Tick, CrowdRemembers
    <2> QED BY <2>1, <2>2, <2>3, <2>4
  <1>3. window' \in BOOLEAN /\ UNCHANGED <<crowdSnapshots, wire, connection, crowdPage>>
    BY DEF Crowd!Lead, Crowd!Read, Crowd!TickFails, Crowd!Reread, CrowdInv, Crowd!TypeOK
  <1> QED BY <1>2, <1>3, CrowdPublisherMoves DEF CrowdInv, Crowd!TypeOK, CrowdSeenUpTo

(* The number after that of a snapshot, which is not taken, is the next.   *)
LEMMA CrowdWriteKeeps ==
    ASSUME CrowdInv, NEW p \in Processes, Crowd!Write(p)
    PROVE  CrowdInv'
  <1> DEFINE n == Crowd!Latest
             base == tick[p].base
             s == [sequence |-> base + 1, by |-> p]
  <1>1. n \in Nat /\ base \in Nat /\ base =< n
    BY DEF CrowdInv, CrowdNumbered, Crowd!TypeOK, Crowd!Tick, CrowdSeenUpTo, CrowdRemembers,
       Crowd!Write
  <1>2. base = n
    <2>1. base + 1 \notin CrowdNumbersOf(crowdSnapshots)
      BY DEF Crowd!Write, Crowd!SequenceIsNew, CrowdNumbersOf
    <2>2. CrowdNumbersOf(crowdSnapshots) = 1 .. n
      BY DEF CrowdInv, CrowdNumbered
    <2> HIDE DEF base, n
    <2> QED BY <1>1, <2>1, <2>2
  <1>3. s \notin crowdSnapshots /\ s \in Crowd!SnapshotRow /\ s.sequence = n + 1
    BY <1>1, <1>2 DEF Crowd!Write, Crowd!SequenceIsNew, Crowd!SnapshotRow
  <1>4. crowdSnapshots' = crowdSnapshots \cup {s}
    BY DEF Crowd!Write
  <1>5. IsFiniteSet(crowdSnapshots') /\ Cardinality(crowdSnapshots') = n + 1
    BY <1>3, <1>4, FS_AddElement DEF CrowdInv, CrowdNumbered
  <1>6. CrowdNumbersOf(crowdSnapshots') = 1 .. (n + 1)
    <2>1. CrowdNumbersOf(crowdSnapshots') = CrowdNumbersOf(crowdSnapshots) \cup {n + 1}
      BY <1>3, <1>4 DEF CrowdNumbersOf
    <2>2. CrowdNumbersOf(crowdSnapshots) = 1 .. n
      BY DEF CrowdInv, CrowdNumbered
    <2> HIDE DEF n
    <2> QED BY <1>1, <2>1, <2>2
  <1>7. CrowdNumbered(crowdSnapshots', n + 1)
    <2> HIDE DEF n
    <2> QED BY <1>1, <1>5, <1>6 DEF CrowdNumbered
  <1>8. Crowd!Latest' = n + 1
    BY <1>7, CrowdLatestNext
  <1>9. tick' = [tick EXCEPT ![p] = [step |-> "reread"]]
        /\ UNCHANGED <<window, wire, connection, crowdPage>>
    BY DEF Crowd!Write, Crowd!Continue
  <1>10. Crowd!TypeOK'
    <2>1. [step |-> "reread"] \in Crowd!Tick
      BY DEF Crowd!Tick
    <2> QED BY <1>3, <1>4, <1>9, <2>1 DEF CrowdInv, Crowd!TypeOK
  <1>11. CrowdSeenUpTo(Crowd!Latest)'
    <2>1. ASSUME NEW q \in Processes
          PROVE  CrowdRemembers(tick'[q], n + 1) /\ CrowdAllUpTo(wire'[q], n + 1)
      <3>1. CrowdRemembers(tick[q], n) /\ CrowdAllUpTo(wire[q], n) /\ wire[q] \in Seq(Nat)
            /\ tick[q] \in Crowd!Tick
        BY DEF CrowdInv, CrowdSeenUpTo, Crowd!TypeOK
      <3>2. CrowdAllUpTo(wire'[q], n + 1)
        BY <1>1, <1>9, <3>1 DEF CrowdAllUpTo
      <3>3. CrowdRemembers(tick[q], n + 1)
        BY <1>1, <3>1 DEF CrowdRemembers, Crowd!Tick
      <3>4. CrowdRemembers([step |-> "reread"], n + 1)
        BY DEF CrowdRemembers
      <3> QED BY <1>9, <3>2, <3>3, <3>4 DEF CrowdInv, Crowd!TypeOK
    <2>2. CrowdCarries(connection', n + 1)
      BY <1>1, <1>9 DEF CrowdCarries, CrowdLink, CrowdAllUpTo, CrowdInv, CrowdSeenUpTo, Crowd!TypeOK
    <2>3. crowdPage'.shown =< n + 1 /\ (crowdPage'.answer # Nowhere => crowdPage'.answer =< n + 1)
      BY <1>1, <1>9 DEF CrowdInv, CrowdSeenUpTo, Crowd!TypeOK
    <2> QED BY <1>8, <1>9, <2>1, <2>2, <2>3 DEF CrowdSeenUpTo, CrowdInv
  <1> HIDE DEF n
  <1> QED BY <1>7, <1>8, <1>10, <1>11 DEF CrowdInv

LEMMA CrowdBroadcastKeeps ==
    ASSUME CrowdInv, NEW p \in Processes, Crowd!BroadcastLocal(p)
    PROVE  CrowdInv'
  <1> DEFINE m == [tick[p] EXCEPT !.step = "publish"]
  <1>1. tick[p].event \in Nat /\ tick[p].event =< Crowd!Latest
    BY DEF CrowdInv, Crowd!TypeOK, Crowd!Tick, CrowdSeenUpTo, CrowdRemembers, Crowd!BroadcastLocal
  <1>2. m \in Crowd!Tick /\ CrowdRemembers(m, Crowd!Latest)
    BY <1>1 DEF CrowdInv, Crowd!TypeOK, Crowd!Tick, Crowd!BroadcastLocal, CrowdRemembers
  <1>3. Crowd!Continue(p, m) /\ connection' = Crowd!Fanned(p, tick[p].event)
        /\ UNCHANGED <<crowdSnapshots, window, wire, crowdPage>>
    BY DEF Crowd!BroadcastLocal
  <1> HIDE DEF m
  <1>4. CrowdInv => window' \in BOOLEAN /\ wire' \in [Processes -> Seq(Nat)]
                    /\ \A q \in Processes : CrowdAllUpTo(wire'[q], Crowd!Latest)
    BY <1>3 DEF CrowdInv, Crowd!TypeOK, CrowdSeenUpTo
  <1> QED BY <1>1, <1>2, <1>3, <1>4, CrowdFannedIs, CrowdPublisherMoves

LEMMA CrowdPublishKeeps ==
    ASSUME CrowdInv, NEW p \in Processes, Crowd!Publish(p)
    PROVE  CrowdInv'
  <1>1. tick[p].event \in Nat /\ tick[p].event =< Crowd!Latest
    BY DEF CrowdInv, Crowd!TypeOK, Crowd!Tick, CrowdSeenUpTo, CrowdRemembers, Crowd!Publish
  <1>2. Crowd!Waiting \in Crowd!Tick /\ CrowdRemembers(Crowd!Waiting, Crowd!Latest)
    BY DEF Crowd!Tick, Crowd!Waiting, CrowdRemembers
  <1>3. ASSUME NEW q \in Processes
        PROVE  /\ Append(wire[q], tick[p].event) \in Seq(Nat)
               /\ CrowdAllUpTo(Append(wire[q], tick[p].event), Crowd!Latest)
    <2>1. wire[q] \in Seq(Nat) /\ CrowdAllUpTo(wire[q], Crowd!Latest)
      BY DEF CrowdInv, Crowd!TypeOK, CrowdSeenUpTo
    <2>2. /\ Len(Append(wire[q], tick[p].event)) = Len(wire[q]) + 1
          /\ \A i \in 1 .. Len(wire[q]) : Append(wire[q], tick[p].event)[i] = wire[q][i]
          /\ Append(wire[q], tick[p].event)[Len(wire[q]) + 1] = tick[p].event
          /\ Append(wire[q], tick[p].event) \in Seq(Nat)
      BY <1>1, <2>1
    <2> QED BY <1>1, <2>1, <2>2 DEF CrowdAllUpTo
  <1>4. wire' \in [Processes -> Seq(Nat)] /\ \A q \in Processes : CrowdAllUpTo(wire'[q], Crowd!Latest)
    <2>1. CASE UNCHANGED wire
      BY <2>1 DEF CrowdInv, Crowd!TypeOK, CrowdSeenUpTo
    <2>2. CASE wire' = [q \in Processes |-> IF q = p THEN wire[q] ELSE Append(wire[q], tick[p].event)]
      BY <1>3, <2>2 DEF CrowdInv, Crowd!TypeOK, CrowdSeenUpTo
    <2> QED BY <2>1, <2>2 DEF Crowd!Publish
  <1>5. Crowd!Continue(p, Crowd!Waiting) /\ UNCHANGED <<crowdSnapshots, window, connection, crowdPage>>
    BY DEF Crowd!Publish
  <1> QED BY <1>2, <1>4, <1>5, CrowdPublisherMoves DEF CrowdInv, Crowd!TypeOK, CrowdSeenUpTo

LEMMA CrowdReceiveKeeps ==
    ASSUME CrowdInv, NEW p \in Processes, Crowd!Receive(p)
    PROVE  CrowdInv'
  <1>1. wire[p] \in Seq(Nat) /\ wire[p] # <<>> /\ CrowdAllUpTo(wire[p], Crowd!Latest)
    BY DEF CrowdInv, Crowd!TypeOK, CrowdSeenUpTo, Crowd!Receive
  <1>2. Head(wire[p]) \in Nat /\ Head(wire[p]) =< Crowd!Latest
    BY <1>1 DEF CrowdAllUpTo
  <1>3. Tail(wire[p]) \in Seq(Nat) /\ CrowdAllUpTo(Tail(wire[p]), Crowd!Latest)
    BY <1>1 DEF CrowdAllUpTo
  <1>4. wire' \in [Processes -> Seq(Nat)] /\ \A q \in Processes : CrowdAllUpTo(wire'[q], Crowd!Latest)
    BY <1>3 DEF Crowd!Receive, CrowdInv, Crowd!TypeOK, CrowdSeenUpTo
  <1>5. connection' = Crowd!Fanned(p, Head(wire[p]))
        /\ UNCHANGED <<crowdSnapshots, window, tick, crowdPage>>
    BY DEF Crowd!Receive
  <1>6. tick[p] \in Crowd!Tick /\ CrowdRemembers(tick[p], Crowd!Latest) /\ Crowd!Continue(p, tick[p])
    BY <1>5 DEF CrowdInv, Crowd!TypeOK, CrowdSeenUpTo, Crowd!Continue
  <1> QED BY <1>2, <1>4, <1>5, <1>6, CrowdFannedIs, CrowdPublisherMoves DEF CrowdInv, Crowd!TypeOK

(* The page and its connection move. *)
LEMMA CrowdPageMoves ==
    ASSUME CrowdInv, UNCHANGED <<crowdSnapshots, window, tick, wire>>,
           CrowdCarries(connection', Crowd!Latest),
           crowdPage' \in [shown : Nat \cup {-1}, answer : Nat \cup {Nowhere}],
           crowdPage'.shown =< Crowd!Latest, crowdPage'.answer # Nowhere =>
             crowdPage'.answer =< Crowd!Latest
    PROVE  CrowdInv'
  <1>1. Crowd!TypeOK'
    BY DEF CrowdInv, Crowd!TypeOK, CrowdCarries, CrowdLink
  <1>2. CrowdSeenUpTo(Crowd!Latest)'
    BY CrowdLatestStays DEF CrowdInv, CrowdSeenUpTo
  <1> QED BY <1>1, <1>2, CrowdSameSnapshots

(* A number that has been persisted is shown, or another is shown already. *)
LEMMA CrowdShowingIs ==
    ASSUME CrowdInv, NEW e \in Nat, e =< Crowd!Latest
    PROVE  /\ Crowd!Showing(e) \in [shown : Nat \cup {-1}, answer : Nat \cup {Nowhere}]
           /\ Crowd!Showing(e).shown =< Crowd!Latest /\ Crowd!Showing(e).shown >= crowdPage.shown
           /\ Crowd!Showing(e).answer = crowdPage.answer
  BY DEF Crowd!Showing, Crowd!Accepted, CrowdInv, Crowd!TypeOK, CrowdSeenUpTo

LEMMA CrowdConnectionKeeps ==
    ASSUME CrowdInv, NEW p \in Processes \cup {Nowhere}, Crowd!Connect(p) \/ Crowd!Disconnect
    PROVE  CrowdInv'
  <1>1. Crowd!Latest \in Nat
    BY DEF CrowdInv, CrowdNumbered
  <1>2. CASE Crowd!Connect(p)
    <2>1. <<Crowd!Latest>> \in Seq(Nat) /\ Len(<<Crowd!Latest>>) = 1
          /\ CrowdAllUpTo(<<Crowd!Latest>>, Crowd!Latest)
      BY <1>1 DEF CrowdAllUpTo
    <2>2. CrowdCarries(connection', Crowd!Latest)
      BY <1>2, <2>1 DEF Crowd!Connect, CrowdCarries, CrowdLink
    <2> QED BY <1>2, <2>2, CrowdPageMoves DEF Crowd!Connect, CrowdInv, Crowd!TypeOK, CrowdSeenUpTo
  <1>3. CASE Crowd!Disconnect
    BY <1>3, CrowdEmptyCarries, CrowdPageMoves
       DEF Crowd!Disconnect, Crowd!Unconnected, CrowdInv, Crowd!TypeOK, CrowdSeenUpTo
  <1> QED BY <1>2, <1>3

LEMMA CrowdDeliveryKeeps ==
    ASSUME CrowdInv, Crowd!Register \/ Crowd!Deliver
    PROVE  CrowdInv' /\ crowdPage'.shown >= crowdPage.shown
  <1>1. /\ connection.queue \in Seq(Nat) /\ connection.queue # <<>>
        /\ CrowdAllUpTo(connection.queue, Crowd!Latest)
    BY DEF CrowdInv, Crowd!TypeOK, CrowdSeenUpTo, CrowdCarries, Crowd!Register, Crowd!Deliver
  <1>2. Head(connection.queue) \in Nat /\ Head(connection.queue) =< Crowd!Latest
    BY <1>1 DEF CrowdAllUpTo
  <1>3. crowdPage' = Crowd!Showing(Head(connection.queue))
    BY DEF Crowd!Register, Crowd!Deliver
  <1>4. CrowdCarries(connection', Crowd!Latest)
    <2>1. connection \in CrowdLink
      BY DEF CrowdInv, CrowdSeenUpTo, CrowdCarries
    <2>2. connection' = [process |-> connection.process, stage |-> "open", queue |-> <<>>]
      BY <2>1 DEF Crowd!Register, Crowd!Deliver, CrowdLink
    <2> QED BY <2>1, <2>2, CrowdEmptyCarries DEF CrowdLink
  <1>5. UNCHANGED <<crowdSnapshots, window, tick, wire>>
    BY DEF Crowd!Register, Crowd!Deliver
  <1> QED BY <1>2, <1>3, <1>4, <1>5, CrowdShowingIs, CrowdPageMoves DEF CrowdInv, CrowdSeenUpTo

LEMMA CrowdRestKeeps ==
    ASSUME CrowdInv, Crowd!Ask \/ Crowd!Answered
    PROVE  CrowdInv' /\ crowdPage'.shown >= crowdPage.shown
  <1>1. Crowd!Latest \in Nat /\ crowdPage \in [shown : Nat \cup {-1}, answer : Nat \cup {Nowhere}]
        /\ crowdPage.shown =< Crowd!Latest /\ (crowdPage.answer # Nowhere =>
             crowdPage.answer =< Crowd!Latest)
    BY DEF CrowdInv, CrowdNumbered, Crowd!TypeOK, CrowdSeenUpTo
  <1>2. /\ crowdPage' \in [shown : Nat \cup {-1}, answer : Nat \cup {Nowhere}]
           /\ crowdPage'.shown =< Crowd!Latest
        /\ crowdPage'.shown >= crowdPage.shown
           /\ (crowdPage'.answer # Nowhere => crowdPage'.answer =< Crowd!Latest)
    <2>1. CASE Crowd!Ask
      BY <1>1, <2>1 DEF Crowd!Ask
    <2>2. CASE Crowd!Answered
      BY <1>1, <2>2, CrowdShowingIs DEF Crowd!Answered
    <2> QED BY <2>1, <2>2
  <1> QED BY <1>2, CrowdPageMoves
             DEF Crowd!Ask, Crowd!Answered, CrowdInv, Crowd!TypeOK, CrowdSeenUpTo

LEMMA CrowdStepKeeps ==
    ASSUME CrowdInv, [Crowd!Next]_(Crowd!vars)
    PROVE  CrowdInv'
  <1>1. CASE Crowd!PeriodEnds
    BY <1>1, CrowdLatestStays
       DEF Crowd!PeriodEnds, CrowdInv, Crowd!TypeOK, CrowdNumbered, CrowdSeenUpTo
  <1>2. CASE UNCHANGED Crowd!vars
    BY <1>2, CrowdLatestStays DEF Crowd!vars, CrowdInv, Crowd!TypeOK, CrowdNumbered, CrowdSeenUpTo
  <1> QED
    BY <1>1, <1>2, CrowdSimpleTicks, CrowdWriteKeeps, CrowdBroadcastKeeps, CrowdPublishKeeps,
       CrowdReceiveKeeps, CrowdConnectionKeeps, CrowdDeliveryKeeps, CrowdRestKeeps DEF Crowd!Next

LEMMA CrowdInitially == Crowd!Init => CrowdInv
  <1> SUFFICES ASSUME Crowd!Init PROVE CrowdInv
    OBVIOUS
  <1>1. CrowdNumbered(crowdSnapshots, 0)
    BY FS_EmptySet DEF Crowd!Init, CrowdNumbered, CrowdNumbersOf
  <1>2. Crowd!Latest = 0
    BY <1>1, CrowdLatestIs
  <1>3. Crowd!TypeOK
    <2>1. <<>> \in Seq(Nat) /\ Len(<<>>) = 0
      OBVIOUS
    <2>2. Crowd!Waiting \in Crowd!Tick /\ Crowd!Unconnected \in CrowdLink
      BY <2>1 DEF Crowd!Waiting, Crowd!Tick, Crowd!Unconnected, CrowdLink
    <2>3. [shown |-> -1, answer |-> Nowhere] \in [shown : Nat \cup {-1}, answer : Nat \cup {Nowhere}]
      OBVIOUS
    <2>4. Len(Crowd!Unconnected.queue) =< 1
      BY <2>1 DEF Crowd!Unconnected
    <2> QED BY <2>1, <2>2, <2>3, <2>4 DEF Crowd!Init, Crowd!TypeOK, CrowdLink
  <1>4. CrowdSeenUpTo(0)
    <2>1. CrowdCarries(connection, 0)
      BY CrowdEmptyCarries DEF Crowd!Init, Crowd!Unconnected
    <2>2. CrowdAllUpTo(<<>>, 0)
      BY DEF CrowdAllUpTo
    <2> QED BY <2>1, <2>2 DEF Crowd!Init, CrowdSeenUpTo, CrowdRemembers, Crowd!Waiting
  <1> QED BY <1>1, <1>2, <1>3, <1>4 DEF CrowdInv

THEOREM CrowdInvariant == Crowd!Spec => []CrowdInv
  BY CrowdInitially, CrowdStepKeeps, PTL DEF Crowd!Spec

(* Snapshots are numbered without gaps or repeats, and no event, page or   *)
(* connection is ahead of them.                                            *)
THEOREM SnapshotsStayNumbered == Crowd!Spec =>
  [](Crowd!TypeOK /\ Crowd!SnapshotsAreNumbered /\ Crowd!EventsArePersisted)
  <1>1. CrowdInv => Crowd!TypeOK /\ Crowd!SnapshotsAreNumbered /\ Crowd!EventsArePersisted
    BY CrowdCounts DEF CrowdInv, CrowdNumbered, CrowdNumbersOf, Crowd!SnapshotsAreNumbered,
       Crowd!EventsArePersisted, CrowdSeenUpTo, CrowdCarries, CrowdAllUpTo
  <1> QED BY <1>1, CrowdInvariant, PTL

(* What is late or comes again does not turn the board back. *)
THEOREM BoardOnlyAdvances == Crowd!Spec => Crowd!BoardNeverGoesBack
  <1>1. CrowdInv /\ [Crowd!Next]_(Crowd!vars) => [crowdPage'.shown >= crowdPage.shown]_(Crowd!vars)
    <2> SUFFICES ASSUME CrowdInv, [Crowd!Next]_(Crowd!vars)
                 PROVE  [crowdPage'.shown >= crowdPage.shown]_(Crowd!vars)
      OBVIOUS
    <2>1. crowdPage.shown \in Int
      BY DEF CrowdInv, Crowd!TypeOK
    <2>2. CASE Crowd!Register \/ Crowd!Deliver \/ Crowd!Ask \/ Crowd!Answered
      BY <2>2, CrowdDeliveryKeeps, CrowdRestKeeps
    <2>3. CASE UNCHANGED crowdPage
      BY <2>1, <2>3
    <2> QED
      BY <2>2, <2>3 DEF Crowd!Next, Crowd!vars, Crowd!Lead, Crowd!Read, Crowd!Write,
         Crowd!TickFails, Crowd!Reread, Crowd!BroadcastLocal, Crowd!Publish, Crowd!Receive,
         Crowd!Connect, Crowd!PeriodEnds, Crowd!Disconnect
  <1> QED BY <1>1, CrowdInvariant, PTL DEF Crowd!Spec, Crowd!BoardNeverGoesBack
=============================================================================
