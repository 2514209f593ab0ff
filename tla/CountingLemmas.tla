--------------------------- MODULE CountingLemmas ---------------------------
(***************************************************************************)
(* How counters follow what they count: the units of a table's rows are    *)
(* pairs of a row and a number, and a counter is their cardinality; the    *)
(* balance of an account is where its entries end.                         *)
(***************************************************************************)
EXTENDS Integers, Sequences, FiniteSets, FiniteSetTheorems, WellFoundedInduction, TLAPS

(* The units of one row are as many as it asks for. *)
LEMMA ColumnCount ==
  ASSUME NEW x, NEW q \in Nat
  PROVE  /\ IsFiniteSet({x} \X (1 .. q))
         /\ Cardinality({x} \X (1 .. q)) = q
<1>1. /\ IsFiniteSet({x}) /\ Cardinality({x}) = 1
  BY FS_Singleton
<1>2. /\ IsFiniteSet(1 .. q) /\ Cardinality(1 .. q) = q
  BY FS_Interval
<1>3. /\ IsFiniteSet({x} \X (1 .. q))
      /\ Cardinality({x} \X (1 .. q)) = Cardinality({x}) * Cardinality(1 .. q)
  BY <1>1, <1>2, FS_Product
<1>. QED
  BY <1>1, <1>2, <1>3

(* Adding units that were not there, and taking away units that were. *)
LEMMA CountAdded ==
  ASSUME NEW A, NEW B, IsFiniteSet(A), IsFiniteSet(B), A \cap B = {}
  PROVE  /\ IsFiniteSet(A \cup B)
         /\ Cardinality(A \cup B) = Cardinality(A) + Cardinality(B)
<1>1. Cardinality(A) \in Nat /\ Cardinality(B) \in Nat
  BY FS_CardinalityType
<1>2. Cardinality(A \cap B) = 0
  BY FS_EmptySet
<1>3. /\ IsFiniteSet(A \cup B)
      /\ Cardinality(A \cup B) = Cardinality(A) + Cardinality(B) - Cardinality(A \cap B)
  BY FS_Union
<1>. QED
  BY <1>1, <1>2, <1>3

LEMMA CountRemoved ==
  ASSUME NEW A, NEW B, IsFiniteSet(A), B \subseteq A
  PROVE  /\ IsFiniteSet(A \ B) /\ IsFiniteSet(B)
         /\ Cardinality(B) \in Nat
         /\ Cardinality(B) =< Cardinality(A)
         /\ Cardinality(A \ B) = Cardinality(A) - Cardinality(B)
<1>1. IsFiniteSet(B) /\ Cardinality(B) =< Cardinality(A)
  BY FS_Subset
<1>2. Cardinality(B) \in Nat
  BY <1>1, FS_CardinalityType
<1>3. A \cap B = B
  OBVIOUS
<1>4. /\ IsFiniteSet(A \ B)
      /\ Cardinality(A \ B) = Cardinality(A) - Cardinality(A \cap B)
  BY FS_Difference
<1>. QED
  BY <1>1, <1>2, <1>3, <1>4
-----------------------------------------------------------------------------
(* An account as one sequence of entries. *)
Start(s, i) == IF i = 1 THEN 0 ELSE s[i - 1].after

Chain(s, b) ==
    /\ b = Start(s, Len(s) + 1)
    /\ \A i \in DOMAIN s : s[i].after = Start(s, i) + s[i].delta /\ s[i].after >= 0

Single(s) ==
    \A i, j \in DOMAIN s : s[i].type = s[j].type /\ s[i].source = s[j].source => i = j

(* A new entry carries on from the balance, and says something new. *)
CarriesOn(Rows, q, b, e) ==
    /\ q \in Seq(Rows) /\ b \in Nat /\ e \in Rows
    /\ e.after = b + e.delta /\ e.after >= 0
    /\ \A i \in DOMAIN q : ~ (q[i].type = e.type /\ q[i].source = e.source)

ExtendedBy(Rows, q, e, r) ==
    /\ r \in Seq(Rows) /\ Chain(r, e.after) /\ Single(r)
    /\ \A i \in DOMAIN q : i \in DOMAIN r /\ r[i] = q[i]
    /\ \E n \in DOMAIN r : r[n] = e /\ \A i \in DOMAIN r : i # n => i \in DOMAIN q

(* An entry is posted behind the others. *)
LEMMA EntryAppended ==
    ASSUME NEW Rows, NEW q, NEW b, NEW e, NEW r, CarriesOn(Rows, q, b, e), Chain(q, b), Single(q), r = Append(q, e)
    PROVE  ExtendedBy(Rows, q, e, r)
  <1>0. /\ q \in Seq(Rows) /\ b \in Nat /\ e \in Rows
        /\ e.after = b + e.delta /\ e.after >= 0
        /\ \A i \in DOMAIN q : ~ (q[i].type = e.type /\ q[i].source = e.source)
    BY DEF CarriesOn
  <1> PICK n : n = Len(q)
    OBVIOUS
  <1>1. /\ r \in Seq(Rows) /\ n \in Nat /\ DOMAIN q = 1 .. n
        /\ DOMAIN r = 1 .. n + 1 /\ Len(r) = n + 1
        /\ r[n + 1] = e /\ \A i \in 1 .. n : r[i] = q[i]
    BY <1>0
  <1>2. /\ b = IF n = 0 THEN 0 ELSE q[n].after
        /\ \A i \in 1 .. n :
             q[i].after = (IF i = 1 THEN 0 ELSE q[i - 1].after) + q[i].delta /\ q[i].after >= 0
    <2>1. n + 1 = 1 <=> n = 0
      BY <1>1
    <2>2. n + 1 - 1 = n
      BY <1>1
    <2> QED BY <1>1, <2>1, <2>2 DEF Chain, Start
  <1>3. e.after >= 0
    BY <1>0
  <1>4. Chain(r, e.after)
    <2>1. e.after = Start(r, Len(r) + 1)
      <3>1. n + 1 + 1 # 1 /\ n + 1 + 1 - 1 = n + 1
        BY <1>1
      <3> QED BY <1>1, <3>1 DEF Start
    <2>2. ASSUME NEW i \in 1 .. n
          PROVE  r[i].after = Start(r, i) + r[i].delta /\ r[i].after >= 0
      <3>1. i # 1 => i - 1 \in 1 .. n
        BY <1>1
      <3>2. Start(r, i) = IF i = 1 THEN 0 ELSE q[i - 1].after
        BY <1>1, <3>1 DEF Start
      <3> QED BY <1>1, <1>2, <3>2
    <2>3. r[n + 1].after = Start(r, n + 1) + r[n + 1].delta /\ r[n + 1].after >= 0
      <3>1. Start(r, n + 1) = b
        <4>1. n # 0 => n \in 1 .. n
          BY <1>1
        <4>2. n + 1 - 1 = n /\ (n + 1 = 1 <=> n = 0)
          BY <1>1
        <4> QED BY <1>1, <1>2, <4>1, <4>2 DEF Start
      <3> QED BY <1>0, <1>1, <1>3, <3>1
    <2>4. \A i \in 1 .. n + 1 : i \in 1 .. n \/ i = n + 1
      BY <1>1
    <2> QED BY <1>1, <2>1, <2>2, <2>3, <2>4 DEF Chain
  <1>5. Single(r)
    <2> SUFFICES ASSUME NEW i \in 1 .. n + 1, NEW j \in 1 .. n + 1,
                        r[i].type = r[j].type, r[i].source = r[j].source
                 PROVE  i = j
      BY <1>1 DEF Single
    <2>1. \A x \in 1 .. n + 1 : x \in 1 .. n \/ x = n + 1
      BY <1>1
    <2>2. \A x \in 1 .. n : ~ (r[x].type = e.type /\ r[x].source = e.source)
      BY <1>0, <1>1
    <2>3. CASE i \in 1 .. n /\ j \in 1 .. n
      BY <1>1, <2>3 DEF Single
    <2> QED BY <1>1, <2>1, <2>2, <2>3
  <1>6. n + 1 \in DOMAIN r /\ \A i \in DOMAIN r : i # n + 1 => i \in DOMAIN q
    BY <1>1
  <1>7. \A i \in DOMAIN q : i \in DOMAIN r /\ r[i] = q[i]
    BY <1>1
  <1> QED BY <1>1, <1>4, <1>5, <1>6, <1>7 DEF ExtendedBy

-----------------------------------------------------------------------------
(* Induction over the numbers, as a statement about a set of them.         *)
LEMMA NatSetInduction ==
    ASSUME NEW S, 0 \in S, \A n \in Nat : n \in S => n + 1 \in S
    PROVE  Nat \subseteq S
  <1> DEFINE T == Nat \ S
             R == OpToRel(<, Nat)
  <1> SUFFICES ASSUME T # {} PROVE FALSE
    OBVIOUS
  <1>1. IsWellFoundedOn(R, Nat)
    BY NatLessThanWellFounded
  <1>2. \A x, y \in Nat : x < y => <<x, y>> \in R
    BY DEF OpToRel
  <1> HIDE DEF R
  <1>3. PICK x \in T : \A y \in T : ~ (<<y, x>> \in R)
    <2>1. T \subseteq Nat
      OBVIOUS
    <2> HIDE DEF T
    <2> QED BY <1>1, <2>1, WFMin
  <1>4. x # 0 /\ x \in Nat
    OBVIOUS
  <1>5. x - 1 \in Nat /\ x - 1 < x /\ x - 1 + 1 = x
    BY <1>4
  <1>6. x - 1 \notin T
    BY <1>2, <1>3, <1>4, <1>5
  <1> QED BY <1>3, <1>5, <1>6

(* A finite set of numbers has a largest one. *)
LEMMA LargestExists ==
    ASSUME NEW S, IsFiniteSet(S), S # {}, S \subseteq Int
    PROVE  \E x \in S : \A y \in S : y =< x
  <1> DEFINE Reached == {n \in Nat : \A A \in SUBSET S :
                           A # {} /\ Cardinality(A) = n => \E x \in A : \A y \in A : y =< x}
  <1>1. \A A \in SUBSET S : IsFiniteSet(A) /\ Cardinality(A) \in Nat
    BY FS_Subset, FS_CardinalityType
  <1>2. 0 \in Reached
    BY <1>1, FS_EmptySet
  <1>3. ASSUME NEW n \in Nat, n \in Reached
        PROVE  n + 1 \in Reached
    <2> SUFFICES ASSUME NEW A \in SUBSET S, A # {}, Cardinality(A) = n + 1
                 PROVE  \E x \in A : \A y \in A : y =< x
      OBVIOUS
    <2>1. PICK a : a \in A
      OBVIOUS
    <2> PICK B : B = A \ {a}
      OBVIOUS
    <2>2. B \in SUBSET S /\ Cardinality(B) = n
      <3>1. IsFiniteSet(A) /\ Cardinality(A) = n + 1
        BY <1>1
      <3>2. Cardinality(A \ {a}) = Cardinality(A) - 1
        BY <2>1, <3>1, FS_RemoveElement
      <3>3. Cardinality(B) = n
        BY ONLY <3>1, <3>2, n \in Nat, B = A \ {a}
      <3> QED BY <3>3
    <2>3. CASE B = {}
      BY <2>1, <2>3
    <2>4. CASE B # {}
      <3>1. PICK x \in B : \A y \in B : y =< x
        BY <1>3, <2>2, <2>4
      <3>2. x \in A /\ x \in Int /\ a \in Int /\ \A y \in A : y = a \/ y \in B
        BY <2>1
      <3>3. CASE a =< x
        BY <3>1, <3>2, <3>3
      <3>4. CASE x < a
        <4>1. \A y \in B : y \in Int
          BY <2>2
        <4>2. \A y \in A : y =< a
          BY <3>1, <3>2, <3>4, <4>1
        <4> QED BY <2>1, <4>2
      <3> QED BY <3>2, <3>3, <3>4
    <2> QED BY <2>3, <2>4
  <1> HIDE DEF Reached
  <1>4. Nat \subseteq Reached
    BY <1>2, <1>3, NatSetInduction
  <1> QED BY <1>1, <1>4 DEF Reached

LEMMA LargestBy ==
    ASSUME NEW S, IsFiniteSet(S), S # {}, NEW f, \A x \in S : f[x] \in Int
    PROVE  \E x \in S : \A y \in S : f[y] =< f[x]
  <1> PICK V, g : V = {f[x] : x \in S} /\ g = [x \in S |-> f[x]]
    OBVIOUS
  <1>1. V # {} /\ V \subseteq Int /\ \A x \in S : f[x] \in V
    OBVIOUS
  <1>2. IsFiniteSet(V)
    <2>1. g \in [S -> V] /\ \A t \in V : \E x \in S : g[x] = t
      OBVIOUS
    <2>2. g \in Surjection(S, V)
      BY <2>1 DEF Surjection
    <2> QED BY <2>2, FS_Surjection
  <1>3. PICK v \in V : \A u \in V : u =< v
    BY ONLY <1>1, <1>2, LargestExists
  <1>4. PICK x \in S : f[x] = v
    OBVIOUS
  <1> QED BY <1>1, <1>3, <1>4

(* A function is defined by its value at 0 and a step from n - 1 to n.     *)
StepOn(V, G) == G \in [V \X Nat -> V]

Recursion(f, V, c, N, G) ==
    f \in [0 .. N -> V] /\ f[0] = c /\ \A n \in 1 .. N : f[n] = G[<<f[n - 1], n>>]

LEMMA RecursionExists ==
    ASSUME NEW V, NEW c \in V, NEW N \in Nat, NEW G, StepOn(V, G)
    PROVE  \E f : Recursion(f, V, c, N, G)
  <1>0. G \in [V \X Nat -> V]
    BY DEF StepOn
  <1> DEFINE Defined == {m \in Nat : \E f \in [0 .. m -> V] :
                           f[0] = c /\ \A n \in 1 .. m : f[n] = G[<<f[n - 1], n>>]}
  <1>1. 0 \in Defined
    <2> PICK f : f = [n \in 0 .. 0 |-> c]
      OBVIOUS
    <2>1. f \in [0 .. 0 -> V] /\ f[0] = c /\ \A n \in 1 .. 0 : f[n] = G[<<f[n - 1], n>>]
      OBVIOUS
    <2> QED BY <2>1
  <1>2. ASSUME NEW m \in Nat, m \in Defined
        PROVE  m + 1 \in Defined
    <2>1. PICK f \in [0 .. m -> V] : f[0] = c /\ \A n \in 1 .. m : f[n] = G[<<f[n - 1], n>>]
      BY <1>2
    <2> PICK v : v = G[<<f[m], m + 1>>]
      OBVIOUS
    <2> PICK g : g = [n \in 0 .. m + 1 |-> IF n = m + 1 THEN v ELSE f[n]]
      OBVIOUS
    <2>2. v \in V
      <3>1. f[m] \in V /\ m + 1 \in Nat
        OBVIOUS
      <3> QED BY <1>0, <3>1
    <2>3. \A n \in 0 .. m + 1 : n = m + 1 \/ n \in 0 .. m
      OBVIOUS
    <2>4. g \in [0 .. m + 1 -> V]
      BY <2>2, <2>3
    <2>5. g[m + 1] = v /\ \A n \in 0 .. m : g[n] = f[n]
      OBVIOUS
    <2>6. ASSUME NEW n \in 1 .. m + 1
          PROVE  g[n] = G[<<g[n - 1], n>>]
      <3>1. CASE n = m + 1
        <4>1. n - 1 = m /\ m \in 0 .. m
          BY <3>1
        <4> QED BY <2>5, <3>1, <4>1
      <3>2. CASE n \in 1 .. m
        <4>1. n - 1 \in 0 .. m /\ n \in 0 .. m
          BY <3>2
        <4> QED BY <2>1, <2>5, <3>2, <4>1
      <3> QED BY <3>1, <3>2
    <2>7. g[0] = c
      BY <2>1, <2>5
    <2>8. \E f2 \in [0 .. m + 1 -> V] :
            f2[0] = c /\ \A n \in 1 .. m + 1 : f2[n] = G[<<f2[n - 1], n>>]
      BY <2>4, <2>6, <2>7
    <2>9. m + 1 \in Nat
      OBVIOUS
    <2> QED BY <2>8, <2>9
  <1> HIDE DEF Defined
  <1>3. N \in Defined
    BY <1>1, <1>2, NatSetInduction
  <1> QED BY <1>3 DEF Defined, Recursion

(* A function on a finite set has finitely many values.                    *)
LEMMA ValuesFinite ==
    ASSUME NEW s, IsFiniteSet(DOMAIN s), s = [i \in DOMAIN s |-> s[i]]
    PROVE  IsFiniteSet({s[i] : i \in DOMAIN s})
  <1> PICK D, T : D = DOMAIN s /\ T = {s[i] : i \in DOMAIN s}
    OBVIOUS
  <1>1. s \in [D -> T] /\ \A t \in T : \E i \in D : s[i] = t
    OBVIOUS
  <1>2. s \in Surjection(D, T)
    BY <1>1 DEF Surjection
  <1> QED BY <1>2, FS_Surjection

(* A sequence over a set is one over a larger set. *)
LEMMA SequencesWiden ==
    ASSUME NEW S, NEW T, S \subseteq T, NEW s \in Seq(S)
    PROVE  s \in Seq(T)
  OBVIOUS
=============================================================================
