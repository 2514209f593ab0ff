------------------------- MODULE QueueFastPassProofs -------------------------
(***************************************************************************)
(* The FastPass quota is exact, an active pass belongs to an entry that    *)
(* can still use it, newcomers go last and nobody is called out of turn,   *)
(* for any number of users, entries, requests and publishers.              *)
(***************************************************************************)
EXTENDS QueueFastPass, FiniteSetTheorems, TLAPS

Sold(rows) == {e \in DOMAIN rows : rows[e].status # "CANCELLED"}

-----------------------------------------------------------------------------
(* The shape of what a process remembers.                                  *)

LEMMA RecordTypes ==
  /\ Idle \in Request
  /\ \A u \in Users, k \in Keys, place, wait \in Nat : Joining(u, k, place, wait) \in Request
  /\ \A e \in Entries, row \in EntryRow :
        row.status \in {"WAITING", "CALLED", "SERVING"} => Looking(e, row) \in Request
  /\ \A m \in Request, refund \in SUBSET Entries :
        m.op = "look" => Leaving(m, refund) \in Request
  /\ \A e \in Entries, row \in EntryRow, k \in Keys :
        row.status \in {"WAITING", "CALLED"} => Buying(e, row, k) \in Request
BY DEF Request, Idle, Joining, Looking, Leaving, Buying, EntryRow

LEMMA RequestFields ==
  ASSUME NEW m \in Request
  PROVE  /\ m.op = "join" => /\ m.user \in Users /\ m.key \in Keys
                             /\ m.place \in Nat /\ m.wait \in Nat
         /\ m.op = "look" => /\ m.entry \in Entries /\ m.version \in Nat
         /\ m.op = "leave" => /\ m.entry \in Entries /\ m.version \in Nat
                              /\ m.refund \in SUBSET Entries
         /\ m.op = "buy" => /\ m.entry \in Entries /\ m.version \in Nat
                            /\ m.status \in {"WAITING", "CALLED"}
                            /\ m.user \in Users /\ m.key \in Keys
BY DEF Request, Idle

LEMMA Ops ==
  /\ Idle.op = "idle"
  /\ \A u, k, p, n : Joining(u, k, p, n).op = "join" /\ Joining(u, k, p, n).place = p
  /\ \A e, row : Looking(e, row).op = "look"
  /\ \A m, r : Leaving(m, r).op = "leave"
  /\ \A e, row, k : Buying(e, row, k).op = "buy"
  /\ \A x, s : Selecting(x, s).op = "select"
  /\ \A x, s, g : Ticking(x, s, g).op = "tick"
BY DEF Idle, Joining, Looking, Leaving, Buying, Selecting, Ticking

(* Remembering changes the record of one process.                          *)
LEMMA Remembered ==
  ASSUME NEW p \in Workers \cup Publishers, NEW m, Remember(p, m),
         DOMAIN txn = Workers \cup Publishers
  PROVE  /\ DOMAIN txn' = Workers \cup Publishers
         /\ \A q \in Workers \cup Publishers : txn'[q] = IF q = p THEN m ELSE txn[q]
BY DEF Remember

-----------------------------------------------------------------------------
(* Leavers.                                                                *)

(* No entry disappears or goes back in version, and a pass becomes active  *)
(* only with a new version of its entry.                                   *)
EntriesAdvance ==
  /\ \A e \in DOMAIN entries :
        /\ e \in DOMAIN entries'
        /\ entries[e].version =< entries'[e].version
        /\ entries[e].version = entries'[e].version /\ e \in ActivePasses'
           => e \in ActivePasses

LEMMA LeaversStaySound ==
  ASSUME NEW m \in Request, LeaverKnowsPass(m), EntriesAdvance,
         \A e \in DOMAIN entries : entries[e].version \in Nat,
         \A e \in DOMAIN entries' : entries'[e].version \in Nat,
         NEW m2, m2 = m
  PROVE  /\ m2.op \in {"look", "leave"} =>
              /\ m2.entry \in DOMAIN entries'
              /\ m2.version =< entries'[m2.entry].version
              /\ /\ m2.op = "leave"
                 /\ m2.version = entries'[m2.entry].version
                 /\ m2.entry \in ActivePasses'
                 => m2.entry \in m2.refund
BY RequestFields DEF LeaverKnowsPass, EntriesAdvance

(* What a step of process p must show about the records when it changes    *)
(* its own record to m.                                                    *)
LEMMA RecordsSound ==
  ASSUME QueueInv, EntriesAdvance,
         \A e \in DOMAIN entries' : entries'[e].version \in Nat,
         NEW p \in Workers \cup Publishers, NEW m, Remember(p, m),
         p \in Workers => m \in Request,
         p \in Publishers => m = Idle \/ IsTick(m),
         p \in Workers => LeaverKnowsPass(txn[p])' /\ JoinerHasCounter(p)',
         \/ counterLock \in {p, Nobody}
         \/ nextSequence' = nextSequence /\ counterLock' = counterLock
  PROVE  /\ DOMAIN txn' = Workers \cup Publishers
         /\ \A w \in Workers : txn'[w] \in Request
         /\ \A q \in Publishers : txn'[q] = Idle \/ IsTick(txn'[q])
         /\ \A w \in Workers : LeaverKnowsPass(txn[w])' /\ JoinerHasCounter(w)'
<1>. DOMAIN txn = Workers \cup Publishers
  BY DEF QueueInv, TypeOK
<1>1. /\ DOMAIN txn' = Workers \cup Publishers
      /\ \A q \in Workers \cup Publishers : txn'[q] = IF q = p THEN m ELSE txn[q]
  BY Remembered
<1>2. \A w \in Workers : txn'[w] \in Request
  BY <1>1 DEF QueueInv, TypeOK
<1>3. \A q \in Publishers : txn'[q] = Idle \/ IsTick(txn'[q])
  BY <1>1 DEF QueueInv, TypeOK
<1>4. ASSUME NEW w \in Workers
      PROVE  LeaverKnowsPass(txn[w])'
  <2>1. CASE w = p
    BY <2>1
  <2>2. CASE w # p
    <3>1. txn'[w] = txn[w] /\ txn[w] \in Request /\ LeaverKnowsPass(txn[w])
      BY <2>2, <1>1 DEF QueueInv, TypeOK
    <3>2. \A e \in DOMAIN entries : entries[e].version \in Nat
      BY DEF QueueInv, TypeOK, EntryRow
    <3>. QED
      BY <3>1, <3>2, LeaversStaySound DEF LeaverKnowsPass
  <2>. QED
    BY <2>1, <2>2
<1>5. ASSUME NEW w \in Workers
      PROVE  JoinerHasCounter(w)'
  <2>1. CASE w = p
    BY <2>1
  <2>2. CASE w # p
    BY <2>2, <1>1, ProcessesAssumption DEF JoinerHasCounter, QueueInv
  <2>. QED
    BY <2>1, <2>2
<1>. QED
  BY <1>1, <1>2, <1>3, <1>4, <1>5

-----------------------------------------------------------------------------
(* Steps that only read.                                                   *)

LEMMA UnchangedAdvances ==
  ASSUME QueueInv, UNCHANGED <<entries, passes>>
  PROVE  /\ EntriesAdvance
         /\ \A e \in DOMAIN entries' : entries'[e].version \in Nat
BY DEF EntriesAdvance, QueueInv, TypeOK, EntryRow, ActivePasses

(* A request that remembers anything but a join or a leave is sound.       *)
LEMMA OtherRecordsSound ==
  ASSUME NEW p \in Workers, NEW m, m.op \notin {"look", "leave", "join"}, Remember(p, m),
         DOMAIN txn = Workers \cup Publishers
  PROVE  LeaverKnowsPass(txn[p])' /\ JoinerHasCounter(p)'
<1>1. txn'[p] = m
  BY Remembered
<1>. QED
  BY <1>1 DEF LeaverKnowsPass, JoinerHasCounter

(* A step that changes no row keeps the invariant if the records stay      *)
(* sound.                                                                  *)
LEMMA ReadPreserves ==
  ASSUME QueueInv, UNCHANGED database,
         NEW p \in Workers \cup Publishers, NEW m, Remember(p, m),
         p \in Workers => m \in Request,
         p \in Publishers => m = Idle \/ IsTick(m),
         p \in Workers => LeaverKnowsPass(txn[p])' /\ JoinerHasCounter(p)',
         counterLock \in {p, Nobody} \/ counterLock' = counterLock,
         counterLock' \in Workers \cup {Nobody}
  PROVE  QueueInv'
<1>1. UNCHANGED <<entries, passes, nextSequence, confirmed>>
  BY DEF database
<1>2. /\ DOMAIN txn' = Workers \cup Publishers
      /\ \A w \in Workers : txn'[w] \in Request
      /\ \A q \in Publishers : txn'[q] = Idle \/ IsTick(txn'[q])
      /\ \A w \in Workers : LeaverKnowsPass(txn[w])' /\ JoinerHasCounter(w)'
  BY <1>1, UnchangedAdvances, RecordsSound
<1>3. TypeOK'
  BY <1>1, <1>2 DEF QueueInv, TypeOK
<1>4. QuotaExact' /\ ActivePassHasLiveEntry' /\ PlacesTaken'
  BY <1>1 DEF QueueInv, QuotaExact, ActivePassHasLiveEntry, PlacesTaken, ActivePasses,
              Boardable, InStatus
<1>. QED
  BY <1>2, <1>3, <1>4 DEF QueueInv

LEMMA RollbackPreserves ==
  ASSUME QueueInv, NEW p \in Workers \cup Publishers, Rollback(p)
  PROVE  QueueInv'
<1>1. p \in Workers => LeaverKnowsPass(txn[p])' /\ JoinerHasCounter(p)'
  BY OtherRecordsSound, Ops DEF Rollback, QueueInv, TypeOK
<1>. QED
  BY <1>1, ReadPreserves, RecordTypes DEF Rollback, QueueInv, TypeOK

LEMMA LockToJoinPreserves ==
  ASSUME QueueInv, NEW w \in Workers, NEW u \in Users, NEW k \in Keys, LockToJoin(w, u, k)
  PROVE  QueueInv'
<1>1. PICK n : n = IF Cardinality(InQueue) > DefaultWait THEN Cardinality(InQueue)
                                                         ELSE DefaultWait
  OBVIOUS
<1>2. n \in Nat
  <2>1. IsFiniteSet(InQueue)
    BY EntriesAssumption, FS_Subset DEF InQueue, InStatus, QueueInv, TypeOK
  <2>. QED
    BY <2>1, <1>1, FS_CardinalityType, WaitAssumption
<1>3. Remember(w, Joining(u, k, nextSequence, n)) /\ UNCHANGED database
      /\ counterLock = Nobody /\ counterLock' = w
  BY <1>1 DEF LockToJoin, CounterLocked
<1>4. txn'[w] = Joining(u, k, nextSequence, n)
  BY <1>3, Remembered DEF QueueInv, TypeOK
<1>5. LeaverKnowsPass(txn[w])' /\ JoinerHasCounter(w)'
  BY <1>3, <1>4, Ops DEF LeaverKnowsPass, JoinerHasCounter, database
<1>6. Joining(u, k, nextSequence, n) \in Request
  BY <1>2, RecordTypes DEF QueueInv, TypeOK
<1>. QED
  BY <1>3, <1>5, <1>6, ReadPreserves, ProcessesAssumption

LEMMA ReadEntryToLeavePreserves ==
  ASSUME QueueInv, NEW w \in Workers, NEW e \in DOMAIN entries, ReadEntryToLeave(w, e)
  PROVE  QueueInv'
<1>1. PICK m : m = Looking(e, entries[e])
  OBVIOUS
<1>2. Remember(w, m) /\ UNCHANGED database /\ counterLock' = counterLock
  BY <1>1 DEF ReadEntryToLeave
<1>3. m \in Request
  <2>1. /\ e \in Entries /\ entries[e] \in EntryRow
        /\ entries[e].status \in {"WAITING", "CALLED", "SERVING"}
    BY DEF ReadEntryToLeave, QueueInv, TypeOK, InQueue, InStatus
  <2>. QED
    BY <1>1, <2>1, RecordTypes
<1>4. txn'[w] = m
  BY <1>2, Remembered DEF QueueInv, TypeOK
<1>5. m.op = "look" /\ m.entry = e /\ m.version = entries[e].version
  BY <1>1 DEF Looking
<1>6. entries' = entries /\ entries[e].version \in Nat
  BY <1>2 DEF database, QueueInv, TypeOK, EntryRow
<1>7. LeaverKnowsPass(txn[w])' /\ JoinerHasCounter(w)'
  BY <1>4, <1>5, <1>6 DEF LeaverKnowsPass, JoinerHasCounter
<1>. QED
  BY <1>2, <1>3, <1>7, ReadPreserves, ProcessesAssumption DEF QueueInv, TypeOK

LEMMA ReadPassToLeavePreserves ==
  ASSUME QueueInv, NEW w \in Workers, ReadPassToLeave(w)
  PROVE  QueueInv'
<1>1. PICK old : old = txn[w]
  OBVIOUS
<1>2. PICK m : m = Leaving(old, {old.entry} \cap ActivePasses)
  OBVIOUS
<1>3. Remember(w, m) /\ UNCHANGED database /\ counterLock' = counterLock
  BY <1>1, <1>2 DEF ReadPassToLeave
<1>4. old \in Request /\ old.op = "look" /\ LeaverKnowsPass(old)
  BY <1>1 DEF ReadPassToLeave, QueueInv, TypeOK
<1>5. m \in Request
  BY <1>2, <1>4, RecordTypes, RequestFields
<1>6. txn'[w] = m
  BY <1>3, Remembered DEF QueueInv, TypeOK
<1>7. /\ m.op = "leave" /\ m.entry = old.entry /\ m.version = old.version
      /\ m.refund = {old.entry} \cap ActivePasses
  BY <1>2 DEF Leaving
<1>8. ActivePasses' = ActivePasses /\ entries' = entries
  BY <1>3 DEF ActivePasses, database
<1>9. LeaverKnowsPass(txn[w])' /\ JoinerHasCounter(w)'
  BY <1>4, <1>6, <1>7, <1>8 DEF LeaverKnowsPass, JoinerHasCounter
<1>. QED
  BY <1>3, <1>5, <1>9, ReadPreserves, ProcessesAssumption DEF QueueInv, TypeOK

LEMMA ReadToBuyPreserves ==
  ASSUME QueueInv, NEW w \in Workers, NEW e \in DOMAIN entries, NEW k \in Keys,
         ReadToBuy(w, e, k)
  PROVE  QueueInv'
<1>1. PICK m : m = Buying(e, entries[e], k)
  OBVIOUS
<1>2. Remember(w, m) /\ UNCHANGED database /\ counterLock' = counterLock
  BY <1>1 DEF ReadToBuy
<1>3. m \in Request /\ m.op = "buy"
  BY <1>1, RecordTypes, Ops DEF ReadToBuy, QueueInv, TypeOK, Boardable, InStatus
<1>4. LeaverKnowsPass(txn[w])' /\ JoinerHasCounter(w)'
  BY <1>2, <1>3, OtherRecordsSound DEF QueueInv, TypeOK
<1>. QED
  BY <1>2, <1>3, <1>4, ReadPreserves, ProcessesAssumption DEF QueueInv, TypeOK

LEMMA SelectEntriesPreserves ==
  ASSUME QueueInv, NEW p \in Publishers, SelectEntries(p)
  PROVE  QueueInv'
<1>1. PICK m : m = Selecting({e \in ActivePasses : passes[e].window = "over"},
                             [e \in InQueue |-> entries[e]])
  OBVIOUS
<1>2. Remember(p, m) /\ UNCHANGED database /\ counterLock' = counterLock
  BY <1>1 DEF SelectEntries
<1>3. IsTick(m)
  BY <1>1 DEF IsTick, Selecting, QueueInv, TypeOK, ActivePasses, InQueue, InStatus
<1>. QED
  BY <1>2, <1>3, ReadPreserves, ProcessesAssumption DEF QueueInv, TypeOK

LEMMA SelectPassesPreserves ==
  ASSUME QueueInv, NEW p \in Publishers, SelectPasses(p)
  PROVE  QueueInv'
<1>1. PICK privileged \in SUBSET (ActivePasses \ txn[p].expired) :
          Remember(p, Ticking(txn[p].expired, txn[p].seen, privileged))
  BY DEF SelectPasses
<1>2. PICK m : m = Ticking(txn[p].expired, txn[p].seen, privileged)
  OBVIOUS
<1>3. Remember(p, m) /\ UNCHANGED database /\ counterLock' = counterLock
  BY <1>1, <1>2 DEF SelectPasses
<1>4. IsTick(txn[p])
  BY Ops DEF QueueInv, TypeOK, SelectPasses
<1>5. IsTick(m)
  BY <1>2, <1>4 DEF IsTick, Ticking
<1>. QED
  BY <1>3, <1>5, ReadPreserves, ProcessesAssumption DEF QueueInv, TypeOK

-----------------------------------------------------------------------------
(* Steps that commit.                                                      *)

LEMMA SoldFinite ==
  ASSUME QueueInv
  PROVE  IsFiniteSet(Sold(passes)) /\ confirmed = Cardinality(Sold(passes))
BY EntriesAssumption, FS_Subset DEF Sold, QueueInv, TypeOK, QuotaExact

LEMMA WindowMovesPreserves ==
  ASSUME QueueInv, NEW e \in DOMAIN passes, WindowMoves(e)
  PROVE  QueueInv'
<1>1. /\ UNCHANGED <<entries, nextSequence, confirmed, counterLock, txn>>
      /\ DOMAIN passes' = DOMAIN passes
      /\ \A f \in DOMAIN passes : passes'[f].status = passes[f].status
      /\ \A f \in DOMAIN passes : passes'[f] \in PassRow
  BY DEF WindowMoves, QueueInv, TypeOK, PassRow
<1>2. ActivePasses' = ActivePasses /\ Sold(passes') = Sold(passes)
  BY <1>1 DEF ActivePasses, Sold
<1>3. TypeOK'
  BY <1>1 DEF QueueInv, TypeOK
<1>4. QuotaExact'
  BY <1>1, <1>2 DEF QueueInv, QuotaExact, Sold
<1>5. ActivePassHasLiveEntry' /\ PlacesTaken'
  BY <1>1, <1>2 DEF QueueInv, ActivePassHasLiveEntry, PlacesTaken, Boardable, InStatus
<1>6. \A w \in Workers : LeaverKnowsPass(txn[w])' /\ JoinerHasCounter(w)'
  BY <1>1, <1>2 DEF QueueInv, LeaverKnowsPass, JoinerHasCounter
<1>. QED
  BY <1>3, <1>4, <1>5, <1>6 DEF QueueInv

LEMMA CommitJoinPreserves ==
  ASSUME QueueInv, NEW w \in Workers, NEW e \in Entries, CommitJoin(w, e)
  PROVE  QueueInv'
<1>1. PICK m : m = txn[w]
  OBVIOUS
<1>2. m \in Request /\ m.op = "join" /\ counterLock = w /\ m.place = nextSequence
  BY <1>1 DEF CommitJoin, QueueInv, TypeOK, JoinerHasCounter
<1>3. PICK row : row = [status |-> "WAITING", user |-> m.user, key |-> m.key,
                        version |-> 1, place |-> m.place, wait |-> m.wait]
  OBVIOUS
<1>4. row \in EntryRow /\ row.place = nextSequence /\ row.version = 1 /\ row.status = "WAITING"
  BY <1>2, <1>3, RequestFields DEF EntryRow
<1>5. /\ e \notin DOMAIN entries
      /\ DOMAIN entries' = DOMAIN entries \cup {e}
      /\ entries'[e] = row
      /\ \A f \in DOMAIN entries : entries'[f] = entries[f]
      /\ nextSequence' = nextSequence + 1
      /\ counterLock' = Nobody
      /\ UNCHANGED <<passes, confirmed>>
      /\ Remember(w, Idle)
  BY <1>1, <1>2, <1>3 DEF CommitJoin
<1>6. ActivePasses' = ActivePasses
  BY <1>5 DEF ActivePasses
<1>7. \A f \in DOMAIN entries' : entries'[f].version \in Nat
  BY <1>4, <1>5 DEF QueueInv, TypeOK, EntryRow
<1>8. EntriesAdvance
  BY <1>5, <1>6 DEF EntriesAdvance, QueueInv, TypeOK, EntryRow
<1>9. LeaverKnowsPass(txn[w])' /\ JoinerHasCounter(w)'
  BY <1>5, OtherRecordsSound, Ops DEF QueueInv, TypeOK
<1>10. /\ DOMAIN txn' = Workers \cup Publishers
       /\ \A x \in Workers : txn'[x] \in Request
       /\ \A q \in Publishers : txn'[q] = Idle \/ IsTick(txn'[q])
       /\ \A x \in Workers : LeaverKnowsPass(txn[x])' /\ JoinerHasCounter(x)'
  BY <1>2, <1>5, <1>7, <1>8, <1>9, RecordTypes, RecordsSound, ProcessesAssumption
<1>11. TypeOK'
  BY <1>4, <1>5, <1>10 DEF QueueInv, TypeOK
<1>12. QuotaExact'
  BY <1>5 DEF QueueInv, QuotaExact
<1>13. ActivePassHasLiveEntry'
  BY <1>5, <1>6 DEF QueueInv, ActivePassHasLiveEntry, Boardable, InStatus
<1>14. PlacesTaken'
  BY <1>4, <1>5 DEF QueueInv, TypeOK, PlacesTaken, EntryRow
<1>. QED
  BY <1>10, <1>11, <1>12, <1>13, <1>14 DEF QueueInv

LEMMA LeftRowFields ==
  ASSUME NEW row \in EntryRow
  PROVE  /\ LeftRow(row) \in EntryRow
         /\ LeftRow(row).version = row.version + 1
         /\ LeftRow(row).place = row.place
<1>1. row.version + 1 \in Nat
  BY DEF EntryRow
<1>. QED
  BY <1>1 DEF LeftRow, EntryRow

LEMMA ClaimedRowFields ==
  ASSUME NEW row \in EntryRow
  PROVE  /\ ClaimedRow(row) \in EntryRow
         /\ ClaimedRow(row).version = row.version + 1
         /\ ClaimedRow(row).status = row.status
         /\ ClaimedRow(row).place = row.place
<1>1. row.version + 1 \in Nat
  BY DEF EntryRow
<1>. QED
  BY <1>1 DEF ClaimedRow, EntryRow

LEMMA CommitLeavePreserves ==
  ASSUME QueueInv, NEW w \in Workers, CommitLeave(w)
  PROVE  QueueInv'
<1>1. PICK m : m = txn[w]
  OBVIOUS
<1>2. PICK e : e = m.entry
  OBVIOUS
<1>3. /\ m \in Request /\ m.op = "leave" /\ LeaverKnowsPass(m)
      /\ e \in DOMAIN entries /\ m.version = entries[e].version
  BY <1>1, <1>2 DEF CommitLeave, QueueInv, TypeOK, Matches, InStatus
<1>4. e \in ActivePasses => e \in m.refund
  BY <1>2, <1>3 DEF LeaverKnowsPass, QueueInv, TypeOK, EntryRow
<1>5. /\ DOMAIN entries' = DOMAIN entries
      /\ entries'[e] = LeftRow(entries[e])
      /\ \A f \in DOMAIN entries \ {e} : entries'[f] = entries[f]
      /\ UNCHANGED <<nextSequence, counterLock>>
      /\ Remember(w, Idle)
  BY <1>1, <1>2, <1>3 DEF CommitLeave
<1>6. /\ entries[e] \in EntryRow /\ entries'[e] \in EntryRow
      /\ entries'[e].version = entries[e].version + 1
      /\ entries'[e].place = entries[e].place
  <2>1. entries[e] \in EntryRow
    BY <1>3 DEF QueueInv, TypeOK
  <2>. QED
    BY <2>1, <1>5, LeftRowFields
<1>7. /\ DOMAIN passes' = DOMAIN passes
      /\ \A f \in DOMAIN passes : passes'[f] \in PassRow
      /\ \A f \in DOMAIN passes \ {e} : passes'[f] = passes[f]
      /\ ActivePasses' = ActivePasses \ {e}
      /\ confirmed' \in Nat
      /\ confirmed' = Cardinality(Sold(passes'))
      /\ confirmed' =< confirmed
  <2>1. CASE e \in m.refund
    <3>1. /\ e \in ActivePasses /\ confirmed >= 1 /\ confirmed' = confirmed - 1
          /\ passes' = [passes EXCEPT ![e].status = "CANCELLED"]
      BY <2>1, <1>1, <1>2 DEF CommitLeave, UnitReleased
    <3>2. /\ DOMAIN passes' = DOMAIN passes
          /\ e \in DOMAIN passes /\ passes'[e].status = "CANCELLED" /\ passes'[e] \in PassRow
          /\ \A f \in DOMAIN passes \ {e} : passes'[f] = passes[f]
      BY <3>1 DEF QueueInv, TypeOK, PassRow, ActivePasses
    <3>3. Sold(passes') = Sold(passes) \ {e} /\ e \in Sold(passes)
      BY <3>1, <3>2 DEF Sold, ActivePasses
    <3>4. Cardinality(Sold(passes')) = Cardinality(Sold(passes)) - 1
      BY <3>3, SoldFinite, FS_RemoveElement
    <3>5. ActivePasses' = ActivePasses \ {e}
      BY <3>2 DEF ActivePasses
    <3>6. confirmed \in Nat /\ \A f \in DOMAIN passes : passes[f] \in PassRow
      BY DEF QueueInv, TypeOK
    <3>. QED
      BY <3>1, <3>2, <3>4, <3>5, <3>6, SoldFinite
  <2>2. CASE e \notin m.refund
    <3>1. UNCHANGED <<passes, confirmed>>
      BY <2>2, <1>1, <1>2 DEF CommitLeave
    <3>. QED
      BY <3>1, <2>2, <1>4, SoldFinite DEF ActivePasses, QueueInv, TypeOK
  <2>. QED
    BY <2>1, <2>2
<1>8. \A f \in DOMAIN entries' : entries'[f].version \in Nat
  BY <1>5, <1>6 DEF QueueInv, TypeOK, EntryRow
<1>9. EntriesAdvance
  <2>1. \A f \in DOMAIN entries : entries[f].version \in Nat
    BY DEF QueueInv, TypeOK, EntryRow
  <2>2. ASSUME NEW f \in DOMAIN entries, f # e
        PROVE  entries'[f] = entries[f] /\ (f \in ActivePasses' => f \in ActivePasses)
    BY <2>2, <1>5, <1>7
  <2>3. entries[e].version < entries'[e].version
    BY <2>1, <1>3, <1>6
  <2>. QED
    BY <2>1, <2>2, <2>3, <1>5, <1>6 DEF EntriesAdvance
<1>10. LeaverKnowsPass(txn[w])' /\ JoinerHasCounter(w)'
  BY <1>5, OtherRecordsSound, Ops DEF QueueInv, TypeOK
<1>11. /\ DOMAIN txn' = Workers \cup Publishers
       /\ \A x \in Workers : txn'[x] \in Request
       /\ \A q \in Publishers : txn'[q] = Idle \/ IsTick(txn'[q])
       /\ \A x \in Workers : LeaverKnowsPass(txn[x])' /\ JoinerHasCounter(x)'
  BY <1>5, <1>8, <1>9, <1>10, RecordTypes, RecordsSound, ProcessesAssumption
<1>12. TypeOK'
  BY <1>5, <1>6, <1>7, <1>11 DEF QueueInv, TypeOK
<1>13. QuotaExact'
  BY <1>7, CapacityAssumption DEF QueueInv, TypeOK, QuotaExact, Sold
<1>14. ActivePassHasLiveEntry'
  BY <1>5, <1>7 DEF QueueInv, ActivePassHasLiveEntry, Boardable, InStatus
<1>15. PlacesTaken'
  BY <1>5, <1>6 DEF QueueInv, PlacesTaken
<1>. QED
  BY <1>11, <1>12, <1>13, <1>14, <1>15 DEF QueueInv

LEMMA CommitPurchasePreserves ==
  ASSUME QueueInv, NEW w \in Workers, NEW window \in {"early", "open"},
         CommitPurchase(w, window)
  PROVE  QueueInv'
<1>1. PICK m : m = txn[w]
  OBVIOUS
<1>2. PICK e : e = m.entry
  OBVIOUS
<1>3. PICK pass : pass = [status |-> "ACTIVE", user |-> m.user, key |-> m.key,
                          window |-> window]
  OBVIOUS
<1>4. /\ m \in Request /\ m.op = "buy"
      /\ e \in DOMAIN entries /\ m.version = entries[e].version
      /\ entries[e].status = m.status
  BY <1>1, <1>2 DEF CommitPurchase, QueueInv, TypeOK, Matches, InStatus
<1>5. /\ entries[e].status \in {"WAITING", "CALLED"}
      /\ pass \in PassRow /\ pass.status = "ACTIVE"
  BY <1>3, <1>4, RequestFields DEF PassRow
<1>6. /\ DOMAIN entries' = DOMAIN entries
      /\ entries'[e] = ClaimedRow(entries[e])
      /\ \A f \in DOMAIN entries \ {e} : entries'[f] = entries[f]
      /\ e \notin DOMAIN passes
      /\ DOMAIN passes' = DOMAIN passes \cup {e}
      /\ passes'[e] = pass
      /\ \A f \in DOMAIN passes : passes'[f] = passes[f]
      /\ confirmed' = confirmed + 1 /\ confirmed + 1 =< PassCapacity
      /\ UNCHANGED <<nextSequence, counterLock>>
      /\ Remember(w, Idle)
  BY <1>1, <1>2, <1>3, <1>4 DEF CommitPurchase, Claimed
<1>7. /\ entries'[e] \in EntryRow
      /\ entries[e].version \in Nat
      /\ entries'[e].version = entries[e].version + 1
      /\ entries'[e].place = entries[e].place
      /\ entries'[e].status = entries[e].status
  <2>1. entries[e] \in EntryRow
    BY <1>4 DEF QueueInv, TypeOK
  <2>2. entries[e].version \in Nat
    BY <2>1 DEF EntryRow
  <2>. QED
    BY <2>1, <2>2, <1>6, ClaimedRowFields
<1>8. \A f \in DOMAIN entries' : entries'[f].version \in Nat
  BY <1>6, <1>7 DEF QueueInv, TypeOK, EntryRow
<1>9. EntriesAdvance
  <2>1. \A f \in DOMAIN entries : entries[f].version \in Nat
    BY DEF QueueInv, TypeOK, EntryRow
  <2>2. ASSUME NEW f \in DOMAIN entries, f # e
        PROVE  entries'[f] = entries[f] /\ (f \in ActivePasses' => f \in ActivePasses)
    BY <2>2, <1>6 DEF ActivePasses
  <2>3. entries[e].version < entries'[e].version
    BY <1>7
  <2>. QED
    BY <2>1, <2>2, <2>3, <1>6, <1>7 DEF EntriesAdvance
<1>10. LeaverKnowsPass(txn[w])' /\ JoinerHasCounter(w)'
  BY <1>6, OtherRecordsSound, Ops DEF QueueInv, TypeOK
<1>11. /\ DOMAIN txn' = Workers \cup Publishers
       /\ \A x \in Workers : txn'[x] \in Request
       /\ \A q \in Publishers : txn'[q] = Idle \/ IsTick(txn'[q])
       /\ \A x \in Workers : LeaverKnowsPass(txn[x])' /\ JoinerHasCounter(x)'
  BY <1>6, <1>8, <1>9, <1>10, RecordTypes, RecordsSound, ProcessesAssumption
<1>12. TypeOK'
  BY <1>4, <1>5, <1>6, <1>7, <1>11 DEF QueueInv, TypeOK
<1>13. QuotaExact'
  <2>1. Sold(passes') = Sold(passes) \cup {e} /\ e \notin Sold(passes)
    BY <1>5, <1>6 DEF Sold
  <2>2. Cardinality(Sold(passes')) = Cardinality(Sold(passes)) + 1
    BY <2>1, SoldFinite, FS_AddElement
  <2>. QED
    BY <2>2, <1>6, SoldFinite DEF QuotaExact, Sold
<1>14. ActivePassHasLiveEntry'
  <2>1. ActivePasses' = ActivePasses \cup {e}
    BY <1>5, <1>6 DEF ActivePasses
  <2>2. Boardable' = Boardable /\ e \in Boardable
    <3>1. \A f \in DOMAIN entries : entries'[f].status = entries[f].status
      BY <1>6, <1>7
    <3>. QED
      BY <3>1, <1>4, <1>5, <1>6 DEF Boardable, InStatus
  <2>. QED
    BY <2>1, <2>2 DEF QueueInv, ActivePassHasLiveEntry
<1>15. PlacesTaken'
  BY <1>6, <1>7 DEF QueueInv, PlacesTaken
<1>. QED
  BY <1>11, <1>12, <1>13, <1>14, <1>15 DEF QueueInv

-----------------------------------------------------------------------------
(* A tick.                                                                 *)

LEMMA AheadCount ==
  ASSUME NEW m, IsTick(m), NEW e \in DOMAIN m.seen
  PROVE  Cardinality(Ahead(m, e)) \in Nat
<1>1. Ahead(m, e) \subseteq Entries
  BY DEF Ahead, Seen, IsTick
<1>2. IsFiniteSet(Ahead(m, e))
  BY <1>1, EntriesAssumption, FS_Subset
<1>. QED
  BY <1>2, FS_CardinalityType

(* The sets of entries a tick moves on are those whose rows are in the     *)
(* status it saw.                                                          *)
LEMMA TickSets ==
  ASSUME NEW m
  PROVE  /\ Finishes(m) \subseteq InStatus("SERVING")
         /\ Boards(m) \subseteq InStatus("CALLED")
         /\ Calls(m) \subseteq InStatus("WAITING")
         /\ Reestimates(m) \subseteq InStatus("WAITING") \cap DOMAIN m.seen
BY DEF Finishes, Boards, Calls, Reestimates, Next1, Matches, Seen

LEMMA EntryAfterRow ==
  ASSUME QueueInv, NEW m, IsTick(m), NEW e \in DOMAIN entries
  PROVE  /\ EntryAfter(m, e) \in EntryRow
         /\ entries[e].version =< EntryAfter(m, e).version
         /\ EntryAfter(m, e).place = entries[e].place
         /\ e \notin Finishes(m) \cup Boards(m) /\ e \in Boardable
            => EntryAfter(m, e).status \in {"WAITING", "CALLED"}
<1>1. PICK old : old = entries[e]
  OBVIOUS
<1>2. PICK row : row = ClaimedRow(old)
  OBVIOUS
<1>3. old \in EntryRow /\ old.version \in Nat
  BY <1>1 DEF QueueInv, TypeOK, EntryRow
<1>4. /\ row \in EntryRow /\ row.version = old.version + 1
      /\ row.place = old.place /\ row.status = old.status
  BY <1>2, <1>3, ClaimedRowFields
<1>5. PICK ahead : ahead = Cardinality(Ahead(m, e))
  OBVIOUS
<1>6. /\ e \in Finishes(m) => old.status = "SERVING"
      /\ e \in Boards(m) => old.status = "CALLED"
      /\ e \in Calls(m) \cup Reestimates(m) => old.status = "WAITING"
  BY <1>1, TickSets DEF InStatus
<1>7. e \in Reestimates(m) => ahead \in Nat
  BY <1>5, TickSets, AheadCount
<1>8. PICK finished : finished = [row EXCEPT !.status = "COMPLETED"]
  OBVIOUS
<1>9. PICK boarded : boarded = [row EXCEPT !.status = "SERVING", !.wait = 0]
  OBVIOUS
<1>10. PICK called : called = [row EXCEPT !.status = "CALLED", !.wait = 0]
  OBVIOUS
<1>11. PICK waiting : waiting = [row EXCEPT !.wait = ahead]
  OBVIOUS
<1>12. PICK new : new = EntryAfter(m, e)
  OBVIOUS
<1>13. new = CASE e \in Finishes(m)    -> finished
               [] e \in Boards(m)      -> boarded
               [] e \in Calls(m)       -> called
               [] e \in Reestimates(m) -> waiting
               [] OTHER                -> old
  BY ONLY <1>1, <1>2, <1>5, <1>8, <1>9, <1>10, <1>11, <1>12 DEF EntryAfter
<1>14. \/ new = finished /\ e \in Finishes(m)
       \/ new = boarded /\ e \in Boards(m)
       \/ new = called
       \/ new = waiting /\ e \in Reestimates(m)
       \/ new = old
  BY ONLY <1>13
<1>15. /\ finished \in EntryRow /\ finished.version = row.version
       /\ finished.place = row.place
  BY <1>4, <1>8 DEF EntryRow
<1>16. /\ boarded \in EntryRow /\ boarded.version = row.version
       /\ boarded.place = row.place
  BY <1>4, <1>9 DEF EntryRow
<1>17. /\ called \in EntryRow /\ called.version = row.version
       /\ called.place = row.place /\ called.status = "CALLED"
  BY <1>4, <1>10 DEF EntryRow
<1>18. e \in Reestimates(m) => /\ waiting \in EntryRow /\ waiting.version = row.version
                              /\ waiting.place = row.place /\ waiting.status = "WAITING"
  BY <1>4, <1>6, <1>7, <1>11 DEF EntryRow
<1>19. e \in Boardable => old.status \in {"WAITING", "CALLED"}
  BY <1>1 DEF Boardable, InStatus
<1>. QED
  BY <1>1, <1>3, <1>4, <1>12, <1>14, <1>15, <1>16, <1>17, <1>18, <1>19

LEMMA PassAfterTick ==
  ASSUME QueueInv, NEW m
  PROVE  /\ DOMAIN PassesAfter(m) = DOMAIN passes
         /\ \A e \in DOMAIN passes : PassesAfter(m)[e] \in PassRow
         /\ Sold(PassesAfter(m)) = Sold(passes)
         /\ \A e \in DOMAIN passes : PassesAfter(m)[e].status = "ACTIVE"
               => e \in ActivePasses /\ e \notin Boards(m)
<1>1. DOMAIN PassesAfter(m) = DOMAIN passes
  BY DEF PassesAfter
<1>2. ASSUME NEW e \in DOMAIN passes
      PROVE  /\ PassesAfter(m)[e] \in PassRow
             /\ PassesAfter(m)[e].status = "ACTIVE" => e \in ActivePasses /\ e \notin Boards(m)
             /\ PassesAfter(m)[e].status = "CANCELLED" <=> passes[e].status = "CANCELLED"
  <2>1. PICK old : old = passes[e]
    OBVIOUS
  <2>2. old \in PassRow /\ (e \in ActivePasses <=> old.status = "ACTIVE")
    BY <2>1 DEF QueueInv, TypeOK, ActivePasses
  <2>3. PICK new : new = PassesAfter(m)[e]
    OBVIOUS
  <2>4. PICK expired : expired = [old EXCEPT !.status = "EXPIRED"]
    OBVIOUS
  <2>5. PICK used : used = [old EXCEPT !.status = "USED"]
    OBVIOUS
  <2>6. new = IF e \in m.expired \cap ActivePasses THEN expired
              ELSE IF e \in Boards(m) \cap ActivePasses THEN used ELSE old
    BY <2>1, <2>3, <2>4, <2>5 DEF PassesAfter
  <2>7. \/ new = old /\ (e \notin ActivePasses \/ e \notin Boards(m))
        \/ new = expired /\ e \in ActivePasses
        \/ new = used /\ e \in ActivePasses
    BY ONLY <2>6
  <2>8. /\ expired \in PassRow /\ expired.status = "EXPIRED"
        /\ used \in PassRow /\ used.status = "USED"
    BY <2>2, <2>4, <2>5 DEF PassRow
  <2>. QED
    BY <2>1, <2>2, <2>3, <2>7, <2>8
<1>3. Sold(PassesAfter(m)) = Sold(passes)
  BY <1>1, <1>2 DEF Sold
<1>. QED
  BY <1>1, <1>2, <1>3

LEMMA CommitTickPreserves ==
  ASSUME QueueInv, NEW p \in Publishers, CommitTick(p)
  PROVE  QueueInv'
<1>1. PICK m : m = txn[p]
  OBVIOUS
<1>2. IsTick(m)
  BY <1>1, Ops DEF CommitTick, QueueInv, TypeOK
<1>3. /\ DOMAIN entries' = DOMAIN entries
      /\ \A e \in DOMAIN entries : entries'[e] = EntryAfter(m, e)
      /\ passes' = PassesAfter(m)
      /\ UNCHANGED <<nextSequence, confirmed, counterLock>>
      /\ Remember(p, Idle)
  BY <1>1 DEF CommitTick
<1>4. \A e \in DOMAIN entries : /\ entries'[e] \in EntryRow
                                /\ entries[e].version =< entries'[e].version
                                /\ entries'[e].place = entries[e].place
  BY <1>2, <1>3, EntryAfterRow
<1>5. /\ DOMAIN passes' = DOMAIN passes
      /\ \A e \in DOMAIN passes : passes'[e] \in PassRow
      /\ Sold(passes') = Sold(passes)
      /\ ActivePasses' \subseteq ActivePasses \ Boards(m)
  <2>1. /\ DOMAIN passes' = DOMAIN passes
        /\ \A e \in DOMAIN passes : passes'[e] \in PassRow
        /\ Sold(passes') = Sold(passes)
        /\ \A e \in DOMAIN passes : passes'[e].status = "ACTIVE"
              => e \in ActivePasses /\ e \notin Boards(m)
    BY <1>3, PassAfterTick
  <2>2. ActivePasses' = {e \in DOMAIN passes' : passes'[e].status = "ACTIVE"}
    BY DEF ActivePasses
  <2>. QED
    BY <2>1, <2>2
<1>6. \A e \in DOMAIN entries' : entries'[e].version \in Nat
  BY <1>3, <1>4 DEF EntryRow
<1>7. EntriesAdvance
  BY <1>3, <1>4, <1>5 DEF EntriesAdvance
<1>8. /\ DOMAIN txn' = Workers \cup Publishers
      /\ \A x \in Workers : txn'[x] \in Request
      /\ \A q \in Publishers : txn'[q] = Idle \/ IsTick(txn'[q])
      /\ \A x \in Workers : LeaverKnowsPass(txn[x])' /\ JoinerHasCounter(x)'
  BY <1>3, <1>6, <1>7, RecordsSound, ProcessesAssumption
<1>9. TypeOK'
  BY <1>3, <1>4, <1>5, <1>8 DEF QueueInv, TypeOK
<1>10. QuotaExact'
  BY <1>3, <1>5 DEF QueueInv, QuotaExact, Sold
<1>11. ActivePassHasLiveEntry'
  <2>1. ASSUME NEW e \in ActivePasses'
        PROVE  e \in Boardable'
    <3>1. e \in Boardable /\ e \notin Boards(m) /\ e \in DOMAIN entries
      BY <1>5 DEF QueueInv, ActivePassHasLiveEntry, Boardable, InStatus
    <3>2. e \notin Finishes(m)
      BY <3>1, TickSets DEF Boardable, InStatus
    <3>3. entries'[e].status \in {"WAITING", "CALLED"}
      BY <1>2, <1>3, <3>1, <3>2, EntryAfterRow
    <3>. QED
      BY <3>1, <3>3, <1>3 DEF Boardable, InStatus
  <2>. QED
    BY <2>1 DEF ActivePassHasLiveEntry
<1>12. PlacesTaken'
  BY <1>3, <1>4 DEF QueueInv, PlacesTaken
<1>. QED
  BY <1>8, <1>9, <1>10, <1>11, <1>12 DEF QueueInv

-----------------------------------------------------------------------------
(* The theorems.                                                           *)

LEMMA InitQueueInv ==
  ASSUME Init
  PROVE  QueueInv
<1>1. TypeOK
  BY RecordTypes DEF Init, TypeOK
<1>2. QuotaExact
  <2>1. {e \in DOMAIN passes : passes[e].status # "CANCELLED"} = {}
    BY DEF Init
  <2>. QED
    BY <2>1, FS_EmptySet, CapacityAssumption DEF Init, QuotaExact
<1>3. ActivePassHasLiveEntry /\ PlacesTaken
  BY DEF Init, ActivePassHasLiveEntry, ActivePasses, PlacesTaken
<1>4. \A w \in Workers : LeaverKnowsPass(txn[w]) /\ JoinerHasCounter(w)
  BY Ops DEF Init, LeaverKnowsPass, JoinerHasCounter
<1>. QED
  BY <1>1, <1>2, <1>3, <1>4 DEF QueueInv

LEMMA NextQueueInv ==
  ASSUME QueueInv, [Next]_vars
  PROVE  QueueInv'
<1>1. CASE UNCHANGED vars
  BY <1>1 DEF vars, QueueInv, TypeOK, QuotaExact, ActivePassHasLiveEntry, ActivePasses,
              Boardable, InStatus, PlacesTaken, LeaverKnowsPass, JoinerHasCounter
<1>2. ASSUME NEW e \in DOMAIN passes, WindowMoves(e)
      PROVE  QueueInv'
  BY <1>2, WindowMovesPreserves
<1>3. ASSUME NEW w \in Workers, Serve(w)
      PROVE  QueueInv'
  BY <1>3, LockToJoinPreserves, CommitJoinPreserves, ReadEntryToLeavePreserves,
     ReadPassToLeavePreserves,
     CommitLeavePreserves, ReadToBuyPreserves, CommitPurchasePreserves DEF Serve
<1>4. ASSUME NEW p \in Publishers, Publish(p)
      PROVE  QueueInv'
  BY <1>4, SelectEntriesPreserves, SelectPassesPreserves, CommitTickPreserves DEF Publish
<1>5. ASSUME NEW p \in Workers \cup Publishers, Rollback(p)
      PROVE  QueueInv'
  BY <1>5, RollbackPreserves
<1>. QED
  BY <1>1, <1>2, <1>3, <1>4, <1>5 DEF Next

(* The inductive invariant holds in every reachable state of the queue.    *)
THEOREM QueueInvariant == Spec => []QueueInv
<1>1. Init => QueueInv
  BY InitQueueInv
<1>2. QueueInv /\ [Next]_vars => QueueInv'
  BY NextQueueInv
<1>. QED
  BY <1>1, <1>2, PTL DEF Spec

(* Entries, passes, counters and what requests remember are well typed;    *)
(* confirmed never goes below zero.                                        *)
THEOREM QueueTypeCorrect == Spec => []TypeOK
<1>1. QueueInv => TypeOK
  BY DEF QueueInv
<1>. QED
  BY <1>1, QueueInvariant, PTL

(* buy_fast_pass and leave_queue keep the bucket exact: as many confirmed  *)
(* units as passes not cancelled, never more than the capacity.            *)
THEOREM QuotaIsExact == Spec => []QuotaExact
<1>1. QueueInv => QuotaExact
  BY DEF QueueInv
<1>. QED
  BY <1>1, QueueInvariant, PTL

(* Leaving, boarding, expiring and buying never leave an active pass       *)
(* behind on an entry that cannot use it.                                  *)
THEOREM ActivePassUsable == Spec => []ActivePassHasLiveEntry
<1>1. QueueInv => ActivePassHasLiveEntry
  BY DEF QueueInv
<1>. QED
  BY <1>1, QueueInvariant, PTL

-----------------------------------------------------------------------------
(* Order.                                                                  *)

(* Entries stay, keep their places and never wait again; at most one is    *)
(* added, at the end.                                                      *)
OrderAdvances ==
  /\ \A e \in DOMAIN entries :
        /\ e \in DOMAIN entries'
        /\ entries'[e].place = entries[e].place
        /\ entries'[e].status = "WAITING" => entries[e].status = "WAITING"
  /\ \A e, f \in DOMAIN entries' \ DOMAIN entries : e = f
  /\ NewcomersLast
  /\ DOMAIN passes \subseteq DOMAIN passes'

LEMMA UnchangedOrder ==
  ASSUME UNCHANGED entries, DOMAIN passes \subseteq DOMAIN passes'
  PROVE  OrderAdvances
BY DEF OrderAdvances, NewcomersLast

LEMMA CommitJoinOrder ==
  ASSUME QueueInv, NEW w \in Workers, NEW e \in Entries, CommitJoin(w, e)
  PROVE  OrderAdvances
<1>1. PICK m : m = txn[w]
  OBVIOUS
<1>2. m \in Request /\ m.op = "join" /\ m.place = nextSequence
  BY <1>1 DEF CommitJoin, QueueInv, TypeOK, JoinerHasCounter
<1>3. PICK row : row = [status |-> "WAITING", user |-> m.user, key |-> m.key,
                        version |-> 1, place |-> m.place, wait |-> m.wait]
  OBVIOUS
<1>4. /\ e \notin DOMAIN entries
      /\ DOMAIN entries' = DOMAIN entries \cup {e}
      /\ entries'[e] = row
      /\ \A f \in DOMAIN entries : entries'[f] = entries[f]
      /\ UNCHANGED passes
  BY <1>1, <1>3 DEF CommitJoin
<1>5. \A f \in DOMAIN entries : entries[f].place < entries'[e].place
  BY <1>2, <1>3, <1>4 DEF QueueInv, PlacesTaken
<1>. QED
  BY <1>4, <1>5 DEF OrderAdvances, NewcomersLast

LEMMA CommitLeaveOrder ==
  ASSUME QueueInv, NEW w \in Workers, CommitLeave(w)
  PROVE  OrderAdvances
<1>1. PICK e : e = txn[w].entry
  OBVIOUS
<1>2. /\ entries' = [entries EXCEPT ![e] = LeftRow(@)]
      /\ DOMAIN passes' = DOMAIN passes
  BY <1>1 DEF CommitLeave
<1>3. \A f \in DOMAIN entries : entries[f] \in EntryRow
  BY DEF QueueInv, TypeOK
<1>4. \A f \in DOMAIN entries : LeftRow(entries[f]).place = entries[f].place
  BY <1>3, LeftRowFields
<1>5. \A f \in DOMAIN entries : LeftRow(entries[f]).status = "LEFT"
  BY <1>3 DEF LeftRow, EntryRow
<1>6. /\ DOMAIN entries' = DOMAIN entries
      /\ \A f \in DOMAIN entries : \/ entries'[f] = entries[f]
                                   \/ entries'[f] = LeftRow(entries[f])
  BY <1>2
<1>. QED
  BY <1>2, <1>4, <1>5, <1>6 DEF OrderAdvances, NewcomersLast

LEMMA CommitPurchaseOrder ==
  ASSUME QueueInv, NEW w \in Workers, NEW window \in {"early", "open"},
         CommitPurchase(w, window)
  PROVE  OrderAdvances
<1>1. PICK e : e = txn[w].entry
  OBVIOUS
<1>2. /\ entries' = [entries EXCEPT ![e] = ClaimedRow(@)]
      /\ DOMAIN passes' = DOMAIN passes \cup {e}
  BY <1>1 DEF CommitPurchase, Claimed
<1>3. \A f \in DOMAIN entries : entries[f] \in EntryRow
  BY DEF QueueInv, TypeOK
<1>4. \A f \in DOMAIN entries : /\ ClaimedRow(entries[f]).place = entries[f].place
                                /\ ClaimedRow(entries[f]).status = entries[f].status
  BY <1>3, ClaimedRowFields
<1>5. /\ DOMAIN entries' = DOMAIN entries
      /\ \A f \in DOMAIN entries : \/ entries'[f] = entries[f]
                                   \/ entries'[f] = ClaimedRow(entries[f])
  BY <1>2
<1>. QED
  BY <1>2, <1>4, <1>5 DEF OrderAdvances, NewcomersLast

(* Only an entry that waits is left waiting by a tick, only the first in   *)
(* turn is called, and only whoever boards or has not finished is served.  *)
LEMMA EntryAfterStatus ==
  ASSUME QueueInv, NEW m, IsTick(m), NEW e \in DOMAIN entries
  PROVE  /\ EntryAfter(m, e).status = "WAITING" => entries[e].status = "WAITING"
         /\ entries[e].status = "WAITING" /\ EntryAfter(m, e).status = "CALLED"
            => e \in Calls(m)
         /\ EntryAfter(m, e).status = "SERVING"
            => \/ e \in Boards(m)
               \/ entries[e].status = "SERVING" /\ e \notin Finishes(m)
<1>1. PICK old : old = entries[e]
  OBVIOUS
<1>2. PICK row : row = ClaimedRow(old)
  OBVIOUS
<1>3. old \in EntryRow
  BY <1>1 DEF QueueInv, TypeOK
<1>4. row \in EntryRow /\ row.status = old.status
  BY <1>2, <1>3, ClaimedRowFields
<1>5. PICK ahead : ahead = Cardinality(Ahead(m, e))
  OBVIOUS
<1>6. e \in Reestimates(m) => old.status = "WAITING"
  BY <1>1, TickSets DEF InStatus
<1>7. PICK finished : finished = [row EXCEPT !.status = "COMPLETED"]
  OBVIOUS
<1>8. PICK boarded : boarded = [row EXCEPT !.status = "SERVING", !.wait = 0]
  OBVIOUS
<1>9. PICK called : called = [row EXCEPT !.status = "CALLED", !.wait = 0]
  OBVIOUS
<1>10. PICK waiting : waiting = [row EXCEPT !.wait = ahead]
  OBVIOUS
<1>11. PICK new : new = EntryAfter(m, e)
  OBVIOUS
<1>12. new = CASE e \in Finishes(m)    -> finished
               [] e \in Boards(m)      -> boarded
               [] e \in Calls(m)       -> called
               [] e \in Reestimates(m) -> waiting
               [] OTHER                -> old
  BY ONLY <1>1, <1>2, <1>5, <1>7, <1>8, <1>9, <1>10, <1>11 DEF EntryAfter
<1>13. \/ new = finished
       \/ new = boarded /\ e \in Boards(m)
       \/ new = called /\ e \in Calls(m)
       \/ new = waiting /\ e \in Reestimates(m)
       \/ new = old /\ e \notin Finishes(m)
  BY ONLY <1>12
<1>14. /\ finished.status = "COMPLETED"
       /\ boarded.status = "SERVING"
       /\ called.status = "CALLED"
       /\ waiting.status = row.status
  BY <1>4, <1>7, <1>8, <1>9, <1>10 DEF EntryRow
<1>. QED
  BY <1>1, <1>4, <1>6, <1>11, <1>13, <1>14

LEMMA CommitTickOrder ==
  ASSUME QueueInv, NEW p \in Publishers, CommitTick(p)
  PROVE  OrderAdvances
<1>1. PICK m : m = txn[p]
  OBVIOUS
<1>2. IsTick(m)
  BY <1>1, Ops DEF CommitTick, QueueInv, TypeOK
<1>3. /\ DOMAIN entries' = DOMAIN entries
      /\ \A e \in DOMAIN entries : entries'[e] = EntryAfter(m, e)
      /\ DOMAIN passes' = DOMAIN passes
  BY <1>1 DEF CommitTick, PassesAfter
<1>4. \A e \in DOMAIN entries :
          /\ entries'[e].place = entries[e].place
          /\ entries'[e].status = "WAITING" => entries[e].status = "WAITING"
  BY <1>2, <1>3, EntryAfterRow, EntryAfterStatus
<1>. QED
  BY <1>3, <1>4 DEF OrderAdvances, NewcomersLast

LEMMA StepOrder ==
  ASSUME QueueInv, [Next]_vars
  PROVE  OrderAdvances
<1>1. CASE UNCHANGED vars
  BY <1>1, UnchangedOrder DEF vars
<1>2. ASSUME NEW e \in DOMAIN passes, WindowMoves(e)
      PROVE  OrderAdvances
  BY <1>2, UnchangedOrder DEF WindowMoves
<1>3. ASSUME NEW w \in Workers, Serve(w)
      PROVE  OrderAdvances
  <2>1. ASSUME NEW u \in Users, NEW k \in Keys, LockToJoin(w, u, k)
        PROVE  OrderAdvances
    BY <2>1, UnchangedOrder DEF LockToJoin, database
  <2>2. ASSUME NEW e \in DOMAIN entries, ReadEntryToLeave(w, e)
        PROVE  OrderAdvances
    BY <2>2, UnchangedOrder DEF ReadEntryToLeave, database
  <2>3. ASSUME NEW e \in DOMAIN entries, NEW k \in Keys, ReadToBuy(w, e, k)
        PROVE  OrderAdvances
    BY <2>3, UnchangedOrder DEF ReadToBuy, database
  <2>4. CASE ReadPassToLeave(w)
    BY <2>4, UnchangedOrder DEF ReadPassToLeave, database
  <2>. QED
    BY <1>3, <2>1, <2>2, <2>3, <2>4, CommitJoinOrder, CommitLeaveOrder, CommitPurchaseOrder
       DEF Serve
<1>4. ASSUME NEW p \in Publishers, Publish(p)
      PROVE  OrderAdvances
  <2>1. CASE SelectEntries(p)
    BY <2>1, UnchangedOrder DEF SelectEntries, database
  <2>2. CASE SelectPasses(p)
    BY <2>2, UnchangedOrder DEF SelectPasses, database
  <2>3. CASE CommitTick(p)
    BY <2>3, CommitTickOrder
  <2>. QED
    BY <1>4, <2>1, <2>2, <2>3 DEF Publish
<1>5. ASSUME NEW p \in Workers \cup Publishers, Rollback(p)
      PROVE  OrderAdvances
  BY <1>5, UnchangedOrder DEF Rollback, database
<1>. QED
  BY <1>1, <1>2, <1>3, <1>4, <1>5 DEF Next

LEMMA SnapshotsStaySound ==
  ASSUME NEW m, IsTick(m), SnapshotSound(m), OrderAdvances,
         \A e \in DOMAIN entries : entries[e].place \in Nat,
         \A e \in DOMAIN entries' : entries'[e].place \in Nat
  PROVE  SnapshotSound(m)'
<1>1. ASSUME NEW e \in DOMAIN m.seen
      PROVE  e \in DOMAIN entries' /\ m.seen[e].place = entries'[e].place
  BY <1>1 DEF SnapshotSound, OrderAdvances, IsTick
<1>2. ASSUME NEW e \in DOMAIN m.seen, NEW f \in DOMAIN entries',
             entries'[f].status = "WAITING", entries'[f].place =< entries'[e].place
      PROVE  f \in Seen(m, "WAITING")
  <2>1. e \in DOMAIN entries /\ entries'[e].place = entries[e].place
    BY DEF SnapshotSound, OrderAdvances, IsTick
  <2>2. f \in DOMAIN entries
    <3>1. SUFFICES ASSUME f \notin DOMAIN entries PROVE FALSE
      OBVIOUS
    <3>2. entries[e].place < entries'[f].place
      BY <2>1, <3>1 DEF OrderAdvances, NewcomersLast
    <3>. QED
      BY <1>2, <2>1, <3>2
  <2>3. f \in InStatus("WAITING") /\ entries[f].place =< entries[e].place
    BY <1>2, <2>1, <2>2 DEF OrderAdvances, InStatus
  <2>. QED
    BY <2>3 DEF SnapshotSound, IsTick
<1>3. m.op = "tick" => m.privileged \subseteq DOMAIN passes'
  BY DEF SnapshotSound, OrderAdvances
<1>. QED
  BY <1>1, <1>2, <1>3 DEF SnapshotSound, InStatus, Seen

(* Only one record changes; the others stay sound.                         *)
LEMMA OtherSnapshots ==
  ASSUME OrderInv, QueueInv', OrderAdvances,
         NEW p \in Workers \cup Publishers, NEW m, Remember(p, m),
         p \in Publishers => SnapshotSound(m)'
  PROVE  OrderInv'
<1>1. /\ \A e \in DOMAIN entries : entries[e].place \in Nat
      /\ \A e \in DOMAIN entries' : entries'[e].place \in Nat
  BY DEF OrderInv, QueueInv, TypeOK, EntryRow
<1>2. \A q \in Workers \cup Publishers : txn'[q] = IF q = p THEN m ELSE txn[q]
  BY Remembered DEF OrderInv, QueueInv, TypeOK
<1>3. ASSUME NEW q \in Publishers
      PROVE  SnapshotSound(txn[q])'
  <2>1. CASE q = p
    <3>1. txn'[q] = m
      BY <2>1, <1>2
    <3>. QED
      BY <3>1, <2>1 DEF SnapshotSound, InStatus, Seen
  <2>2. CASE q # p
    <3>1. PICK old : old = txn[q]
      OBVIOUS
    <3>2. txn'[q] = old
      BY <2>2, <1>2, <3>1
    <3>3. SnapshotSound(old)
      BY <3>1 DEF OrderInv
    <3>4. old = Idle \/ IsTick(old)
      BY <3>1 DEF OrderInv, QueueInv, TypeOK
    <3>5. SnapshotSound(old)'
      <4>1. CASE IsTick(old)
        BY <4>1, <1>1, <3>3, SnapshotsStaySound
      <4>2. CASE old = Idle
        BY <4>2, Ops DEF SnapshotSound
      <4>. QED
        BY <3>4, <4>1, <4>2
    <3>. QED
      BY <3>2, <3>5 DEF SnapshotSound, InStatus, Seen
  <2>. QED
    BY <2>1, <2>2
<1>4. PlacesDistinct'
  <2>1. ASSUME NEW e \in DOMAIN entries', NEW f \in DOMAIN entries',
               entries'[e].place = entries'[f].place
        PROVE  e = f
    <3>1. CASE e \in DOMAIN entries /\ f \in DOMAIN entries
      BY <2>1, <3>1 DEF OrderInv, PlacesDistinct, OrderAdvances
    <3>2. CASE e \notin DOMAIN entries /\ f \in DOMAIN entries
      <4>1. entries[f].place < entries'[e].place /\ entries'[f].place = entries[f].place
        BY <3>2 DEF OrderAdvances, NewcomersLast
      <4>. QED
        BY <4>1, <2>1, <1>1
    <3>3. CASE e \in DOMAIN entries /\ f \notin DOMAIN entries
      <4>1. entries[e].place < entries'[f].place /\ entries'[e].place = entries[e].place
        BY <3>3 DEF OrderAdvances, NewcomersLast
      <4>. QED
        BY <4>1, <2>1, <1>1
    <3>4. CASE e \notin DOMAIN entries /\ f \notin DOMAIN entries
      BY <3>4 DEF OrderAdvances
    <3>. QED
      BY <3>1, <3>2, <3>3, <3>4
  <2>. QED
    BY <2>1 DEF PlacesDistinct
<1>. QED
  BY <1>3, <1>4 DEF OrderInv

LEMMA SelectEntriesSees ==
  ASSUME OrderInv, NEW p \in Publishers, SelectEntries(p)
  PROVE  \E m : Remember(p, m) /\ SnapshotSound(m)'
<1>1. PICK m : m = Selecting({e \in ActivePasses : passes[e].window = "over"},
                             [e \in InQueue |-> entries[e]])
  OBVIOUS
<1>2. Remember(p, m) /\ UNCHANGED entries
  BY <1>1 DEF SelectEntries, database
<1>3. /\ m.op = "select"
      /\ DOMAIN m.seen = InQueue
      /\ \A e \in InQueue : m.seen[e] = entries[e]
  BY <1>1 DEF Selecting
<1>4. InQueue \subseteq DOMAIN entries /\ InStatus("WAITING") \subseteq InQueue
  BY DEF InQueue, InStatus
<1>5. InStatus("WAITING") \subseteq Seen(m, "WAITING")
  BY <1>3, <1>4 DEF Seen, InStatus
<1>6. SnapshotSound(m)'
  BY <1>2, <1>3, <1>4, <1>5 DEF SnapshotSound, InStatus, Seen
<1>. QED
  BY <1>2, <1>6

LEMMA SelectPassesSees ==
  ASSUME OrderInv, NEW p \in Publishers, SelectPasses(p)
  PROVE  \E m : Remember(p, m) /\ SnapshotSound(m)'
<1>1. PICK old : old = txn[p]
  OBVIOUS
<1>2. PICK privileged \in SUBSET (ActivePasses \ old.expired) :
          Remember(p, Ticking(old.expired, old.seen, privileged))
  BY <1>1 DEF SelectPasses
<1>3. PICK m : m = Ticking(old.expired, old.seen, privileged)
  OBVIOUS
<1>4. Remember(p, m) /\ UNCHANGED <<entries, passes>>
  BY <1>2, <1>3 DEF SelectPasses, database
<1>5. m.op = "tick" /\ m.seen = old.seen /\ m.privileged \subseteq DOMAIN passes
  BY <1>2, <1>3 DEF Ticking, ActivePasses
<1>6. SnapshotSound(old) /\ old.op = "select"
  BY <1>1 DEF OrderInv, SelectPasses
<1>7. SnapshotSound(m)'
  BY <1>4, <1>5, <1>6 DEF SnapshotSound, InStatus, Seen
<1>. QED
  BY <1>4, <1>7

LEMMA NextOrderInv ==
  ASSUME OrderInv, [Next]_vars
  PROVE  OrderInv'
<1>1. QueueInv' /\ OrderAdvances
  BY NextQueueInv, StepOrder DEF OrderInv
<1>2. CASE UNCHANGED vars
  BY <1>1, <1>2 DEF vars, OrderInv, PlacesDistinct, SnapshotSound, InStatus, Seen
<1>3. ASSUME NEW e \in DOMAIN passes, WindowMoves(e)
      PROVE  OrderInv'
  <2>1. UNCHANGED <<entries, txn>> /\ DOMAIN passes' = DOMAIN passes
    BY <1>3 DEF WindowMoves
  <2>. QED
    BY <1>1, <2>1 DEF OrderInv, PlacesDistinct, SnapshotSound, InStatus, Seen
<1>4. ASSUME NEW w \in Workers, Serve(w)
      PROVE  OrderInv'
  <2>1. \E m : Remember(w, m)
    BY <1>4 DEF Serve, LockToJoin, CommitJoin, ReadEntryToLeave, ReadPassToLeave,
                CommitLeave, ReadToBuy,
                CommitPurchase
  <2>2. w \notin Publishers
    BY ProcessesAssumption
  <2>. QED
    BY <1>1, <2>1, <2>2, OtherSnapshots
<1>5. ASSUME NEW p \in Workers \cup Publishers, Remember(p, Idle)
      PROVE  OrderInv'
  <2>1. SnapshotSound(Idle)'
    BY Ops DEF SnapshotSound
  <2>. QED
    BY <1>1, <1>5, <2>1, OtherSnapshots
<1>6. ASSUME NEW p \in Publishers, Publish(p)
      PROVE  OrderInv'
  <2>1. CASE SelectEntries(p)
    BY <1>1, <2>1, SelectEntriesSees, OtherSnapshots
  <2>2. CASE SelectPasses(p)
    BY <1>1, <2>2, SelectPassesSees, OtherSnapshots
  <2>3. CASE CommitTick(p)
    BY <1>5, <2>3 DEF CommitTick
  <2>. QED
    BY <1>6, <2>1, <2>2, <2>3 DEF Publish
<1>7. ASSUME NEW p \in Workers \cup Publishers, Rollback(p)
      PROVE  OrderInv'
  BY <1>5, <1>7 DEF Rollback
<1>. QED
  BY <1>2, <1>3, <1>4, <1>6, <1>7 DEF Next

(* Places in the queue are distinct, and what a tick has seen stays good   *)
(* enough to call in turn however late it commits.                         *)
THEOREM OrderInvariant == Spec => []OrderInv
<1>1. Init => OrderInv
  <2>1. ASSUME Init
        PROVE  OrderInv
    <3>1. PlacesDistinct
      BY <2>1 DEF Init, PlacesDistinct
    <3>2. \A p \in Publishers : SnapshotSound(txn[p])
      BY <2>1, Ops DEF Init, SnapshotSound
    <3>. QED
      BY <2>1, <3>1, <3>2, InitQueueInv DEF OrderInv
  <2>. QED
    BY <2>1
<1>2. OrderInv /\ [Next]_vars => OrderInv'
  BY NextOrderInv
<1>. QED
  BY <1>1, <1>2, PTL DEF Spec

(* join_queue: nobody is ever placed before or level with somebody already *)
(* in the queue.                                                           *)
THEOREM Newcomers == Spec => NewcomersGoLast
<1>1. QueueInv /\ [Next]_vars => [NewcomersLast]_vars
  BY StepOrder DEF OrderAdvances
<1>. QED
  BY <1>1, QueueInvariant, PTL DEF Spec, NewcomersGoLast

-----------------------------------------------------------------------------
(* Turns.                                                                  *)

LEMMA TickCallsInTurn ==
  ASSUME OrderInv, NEW p \in Publishers, CommitTick(p)
  PROVE  CalledInTurn
<1>1. PICK m : m = txn[p]
  OBVIOUS
<1>2. /\ m.op = "tick" /\ IsTick(m) /\ SnapshotSound(m)
      /\ \A e \in DOMAIN entries : entries'[e] = EntryAfter(m, e)
  BY <1>1, Ops DEF CommitTick, OrderInv, QueueInv, TypeOK
<1>3. SUFFICES ASSUME NEW e \in DOMAIN entries, NEW f \in DOMAIN entries,
                      entries[e].status = "WAITING", entries'[e].status = "CALLED",
                      entries[f].status = "WAITING", entries'[f].status = "WAITING",
                      ~ entries[e].place < entries[f].place, e \notin DOMAIN passes
               PROVE  FALSE
  BY DEF CalledInTurn
<1>4. e \in Calls(m)
  BY <1>2, <1>3, EntryAfterStatus DEF OrderInv
<1>5. e \in Seen(m, "WAITING") /\ Ahead(m, e) = {} /\ e \in DOMAIN m.seen
  BY <1>4 DEF Calls, Next1, Seen
<1>6. /\ entries[e].place \in Nat /\ entries[f].place \in Nat
      /\ entries[e].place # entries[f].place
  BY <1>3 DEF OrderInv, QueueInv, TypeOK, EntryRow, PlacesDistinct
<1>7. entries[f].place < entries[e].place
  BY <1>3, <1>6
<1>8. f \in Seen(m, "WAITING")
  BY <1>2, <1>3, <1>5, <1>7, <1>6 DEF SnapshotSound, InStatus
<1>9. m.seen[f].place < m.seen[e].place
  BY <1>2, <1>5, <1>7, <1>8 DEF SnapshotSound, Seen
<1>10. e \notin m.privileged
  BY <1>2, <1>3 DEF SnapshotSound
<1>11. f \in Ahead(m, e)
  <2>1. CASE f \in m.privileged
    BY <2>1, <1>5, <1>8, <1>10 DEF Ahead, Seen
  <2>2. CASE f \notin m.privileged
    BY <2>2, <1>5, <1>8, <1>9, <1>10 DEF Ahead, Seen
  <2>. QED
    BY <2>1, <2>2
<1>. QED
  BY <1>5, <1>11

(* Nothing but a tick calls anybody.                                       *)
NobodyCalled ==
  \A e \in DOMAIN entries :
      entries[e].status = "WAITING" => entries'[e].status # "CALLED"

LEMMA UnchangedCalls ==
  ASSUME UNCHANGED entries
  PROVE  NobodyCalled
BY DEF NobodyCalled

LEMMA ServeCallsNobody ==
  ASSUME QueueInv, NEW w \in Workers, Serve(w)
  PROVE  NobodyCalled
<1>1. CASE UNCHANGED entries
  BY <1>1, UnchangedCalls
<1>2. ASSUME NEW e \in Entries, CommitJoin(w, e)
      PROVE  NobodyCalled
  <2>1. \A f \in DOMAIN entries : entries'[f] = entries[f]
    BY <1>2 DEF CommitJoin
  <2>. QED
    BY <2>1 DEF NobodyCalled
<1>3. CASE CommitLeave(w)
  <2>1. \A f \in DOMAIN entries : LeftRow(entries[f]).status = "LEFT"
    BY DEF LeftRow, EntryRow, QueueInv, TypeOK
  <2>2. \A f \in DOMAIN entries : \/ entries'[f] = entries[f]
                                  \/ entries'[f] = LeftRow(entries[f])
    BY <1>3 DEF CommitLeave
  <2>. QED
    BY <2>1, <2>2 DEF NobodyCalled
<1>4. ASSUME NEW window \in {"early", "open"}, CommitPurchase(w, window)
      PROVE  NobodyCalled
  <2>1. \A f \in DOMAIN entries : ClaimedRow(entries[f]).status = entries[f].status
    BY ClaimedRowFields DEF QueueInv, TypeOK
  <2>2. \A f \in DOMAIN entries : \/ entries'[f] = entries[f]
                                  \/ entries'[f] = ClaimedRow(entries[f])
    BY <1>4 DEF CommitPurchase, Claimed
  <2>. QED
    BY <2>1, <2>2 DEF NobodyCalled
<1>. QED
  BY <1>1, <1>2, <1>3, <1>4
     DEF Serve, LockToJoin, ReadEntryToLeave, ReadPassToLeave, ReadToBuy, database

(* advance_queue_tick: however old its snapshot, and however many ticks    *)
(* overlap, nobody is called before an earlier comer who goes on waiting,  *)
(* except on a FastPass.                                                   *)
THEOREM InTurn == Spec => NoOvertaking
<1>1. ASSUME OrderInv, [Next]_vars
      PROVE  CalledInTurn
  <2>1. NobodyCalled => CalledInTurn
    BY DEF NobodyCalled, CalledInTurn
  <2>2. CASE UNCHANGED entries
    BY <2>1, <2>2, UnchangedCalls
  <2>3. ASSUME NEW w \in Workers, Serve(w)
        PROVE  CalledInTurn
    BY <1>1, <2>1, <2>3, ServeCallsNobody DEF OrderInv
  <2>4. ASSUME NEW p \in Publishers, CommitTick(p)
        PROVE  CalledInTurn
    BY <1>1, <2>4, TickCallsInTurn
  <2>5. ASSUME NEW p \in Publishers, Publish(p)
        PROVE  CalledInTurn
    BY <2>2, <2>4, <2>5 DEF Publish, SelectEntries, SelectPasses, database
  <2>. QED
    BY <1>1, <2>2, <2>3, <2>5 DEF Next, WindowMoves, Rollback, database, vars
<1>2. OrderInv /\ [Next]_vars => [CalledInTurn]_vars
  BY <1>1
<1>. QED
  BY <1>2, OrderInvariant, PTL DEF Spec, NoOvertaking

-----------------------------------------------------------------------------
(* Serving.  A party is being served only while the publisher knows of it: *)
(* whoever is served was seen so by the tick under way, and has not changed*)
(* since.  With two publishers the second tick breaks this.                *)

OneServes == \A e, f \in InStatus("SERVING") : e = f

ServingSeen(m) ==
    m.op \in {"select", "tick"} =>
        /\ \A e \in InStatus("SERVING") :
               e \in Seen(m, "SERVING") /\ m.seen[e].version = entries[e].version
        /\ \A e, f \in Seen(m, "SERVING") : e = f

ServingInv == OrderInv /\ OneServes /\ \A p \in Publishers : ServingSeen(txn[p])

(* Nobody begins to be served, and whoever still is has not changed. *)
NobodyBoards ==
    \A e \in DOMAIN entries' :
        entries'[e].status = "SERVING" => e \in DOMAIN entries /\ entries'[e] = entries[e]

LEMMA UnchangedBoards ==
  ASSUME UNCHANGED entries
  PROVE  NobodyBoards
BY DEF NobodyBoards

LEMMA ServeBoardsNobody ==
  ASSUME QueueInv, NEW w \in Workers, Serve(w)
  PROVE  NobodyBoards
<1>1. CASE UNCHANGED entries
  BY <1>1, UnchangedBoards
<1>2. ASSUME NEW e \in Entries, CommitJoin(w, e)
      PROVE  NobodyBoards
  <2>1. PICK row : row = [status |-> "WAITING", user |-> txn[w].user, key |-> txn[w].key,
                          version |-> 1, place |-> txn[w].place, wait |-> txn[w].wait]
    OBVIOUS
  <2>2. /\ DOMAIN entries' = DOMAIN entries \cup {e} /\ entries'[e] = row
        /\ \A f \in DOMAIN entries : entries'[f] = entries[f]
    BY <1>2, <2>1 DEF CommitJoin
  <2>3. row.status = "WAITING"
    BY <2>1
  <2>. QED
    BY <2>2, <2>3 DEF NobodyBoards
<1>3. CASE CommitLeave(w)
  <2>1. \A f \in DOMAIN entries : LeftRow(entries[f]).status = "LEFT"
    BY DEF LeftRow, EntryRow, QueueInv, TypeOK
  <2>2. /\ DOMAIN entries' = DOMAIN entries
        /\ \A f \in DOMAIN entries : \/ entries'[f] = entries[f]
                                     \/ entries'[f] = LeftRow(entries[f])
    BY <1>3 DEF CommitLeave
  <2>. QED
    BY <2>1, <2>2 DEF NobodyBoards
<1>4. ASSUME NEW window \in {"early", "open"}, CommitPurchase(w, window)
      PROVE  NobodyBoards
  <2>1. PICK m : m = txn[w]
    OBVIOUS
  <2>2. /\ m.op = "buy" /\ Matches(m.entry, m.status, m.version)
        /\ entries' = [entries EXCEPT ![m.entry] = ClaimedRow(@)]
    BY <1>4, <2>1 DEF CommitPurchase, Claimed
  <2>3. m.status \in {"WAITING", "CALLED"}
    BY <2>1, <2>2, RequestFields DEF QueueInv, TypeOK
  <2>4. /\ m.entry \in DOMAIN entries /\ entries[m.entry] \in EntryRow
        /\ entries[m.entry].status = m.status
    BY <2>2 DEF Matches, InStatus, QueueInv, TypeOK
  <2>5. PICK e, row : e = m.entry /\ row = ClaimedRow(entries[e])
    OBVIOUS
  <2>6. /\ DOMAIN entries' = DOMAIN entries /\ entries'[e] = row
        /\ \A f \in DOMAIN entries : f # e => entries'[f] = entries[f]
    BY <2>2, <2>4, <2>5
  <2>7. row.status # "SERVING"
    BY <2>3, <2>4, <2>5, ClaimedRowFields
  <2>. QED
    BY <2>6, <2>7 DEF NobodyBoards
<1>. QED
  BY <1>1, <1>2, <1>3, <1>4
     DEF Serve, LockToJoin, ReadEntryToLeave, ReadPassToLeave, ReadToBuy, database

(* What a tick has seen of the party being served stays right. *)
LEMMA ServingSeenStays ==
  ASSUME NobodyBoards, NEW m, ServingSeen(m)
  PROVE  ServingSeen(m)'
BY DEF NobodyBoards, ServingSeen, InStatus, Seen

LEMMA OtherServing ==
  ASSUME ServingInv, OrderInv', NobodyBoards,
         NEW p \in Workers \cup Publishers, NEW m, Remember(p, m),
         p \in Publishers => ServingSeen(m)'
  PROVE  ServingInv'
<1>1. \A q \in Workers \cup Publishers : txn'[q] = IF q = p THEN m ELSE txn[q]
  BY Remembered DEF ServingInv, OrderInv, QueueInv, TypeOK
<1>2. ASSUME NEW q \in Publishers
      PROVE  ServingSeen(txn[q])'
  <2>1. CASE q = p
    <3>1. txn'[q] = m
      BY <2>1, <1>1
    <3>. QED
      BY <3>1, <2>1 DEF ServingSeen, InStatus, Seen
  <2>2. CASE q # p
    <3>1. PICK old : old = txn[q]
      OBVIOUS
    <3>2. txn'[q] = old
      BY <2>2, <1>1, <3>1
    <3>3. ServingSeen(old)'
      BY <3>1, ServingSeenStays DEF ServingInv
    <3>. QED
      BY <3>2, <3>3 DEF ServingSeen, InStatus, Seen
  <2>. QED
    BY <2>1, <2>2
<1>3. OneServes'
  BY DEF ServingInv, OneServes, NobodyBoards, InStatus
<1>. QED
  BY <1>2, <1>3 DEF ServingInv

LEMMA SelectEntriesServing ==
  ASSUME ServingInv, NEW p \in Publishers, SelectEntries(p)
  PROVE  \E m : Remember(p, m) /\ ServingSeen(m)'
<1>1. PICK m : m = Selecting({e \in ActivePasses : passes[e].window = "over"},
                             [e \in InQueue |-> entries[e]])
  OBVIOUS
<1>2. Remember(p, m) /\ UNCHANGED entries
  BY <1>1 DEF SelectEntries, database
<1>3. /\ DOMAIN m.seen = InQueue
      /\ \A e \in InQueue : m.seen[e] = entries[e]
  BY <1>1 DEF Selecting
<1>4. InQueue \subseteq DOMAIN entries /\ InStatus("SERVING") \subseteq InQueue
  BY DEF InQueue, InStatus
<1>5. Seen(m, "SERVING") = InStatus("SERVING")
  BY <1>3, <1>4 DEF Seen, InStatus
<1>6. ServingSeen(m)'
  BY <1>2, <1>3, <1>4, <1>5 DEF ServingSeen, ServingInv, OneServes, InStatus, Seen
<1>. QED
  BY <1>2, <1>6

LEMMA SelectPassesServing ==
  ASSUME ServingInv, NEW p \in Publishers, SelectPasses(p)
  PROVE  \E m : Remember(p, m) /\ ServingSeen(m)'
<1>1. PICK old : old = txn[p]
  OBVIOUS
<1>2. PICK privileged : Remember(p, Ticking(old.expired, old.seen, privileged))
  BY <1>1 DEF SelectPasses
<1>3. PICK m : m = Ticking(old.expired, old.seen, privileged)
  OBVIOUS
<1>4. Remember(p, m) /\ UNCHANGED entries
  BY <1>2, <1>3 DEF SelectPasses, database
<1>5. m.seen = old.seen
  BY <1>3 DEF Ticking
<1>6. ServingSeen(old) /\ old.op = "select"
  BY <1>1 DEF ServingInv, SelectPasses
<1>7. ServingSeen(m)'
  BY <1>4, <1>5, <1>6 DEF ServingSeen, InStatus, Seen
<1>. QED
  BY <1>4, <1>7

(* The tick ends the turn of whoever is served and lets one party board. *)
LEMMA TickServing ==
  ASSUME ServingInv, OrderInv', \A p, q \in Publishers : p = q,
         NEW p \in Publishers, CommitTick(p)
  PROVE  ServingInv'
<1>1. PICK m : m = txn[p]
  OBVIOUS
<1>2. /\ m.op = "tick" /\ IsTick(m) /\ SnapshotSound(m) /\ ServingSeen(m)
      /\ DOMAIN entries' = DOMAIN entries
      /\ \A e \in DOMAIN entries : entries'[e] = EntryAfter(m, e)
      /\ Remember(p, Idle)
  BY <1>1, Ops DEF CommitTick, ServingInv, OrderInv, QueueInv, TypeOK
<1>3. InStatus("SERVING") \subseteq Finishes(m)
  <2>1. ASSUME NEW e \in InStatus("SERVING")
        PROVE  e \in Finishes(m)
    <3>1. e \in Seen(m, "SERVING") /\ m.seen[e].version = entries[e].version
      BY <1>2 DEF ServingSeen
    <3>2. e \in DOMAIN m.seen /\ m.seen[e].status = "SERVING" /\ m.seen[e].place \in Nat
      BY <1>2, <3>1 DEF Seen, IsTick, EntryRow
    <3>3. Ahead(m, e) = {}
      <4>1. ASSUME NEW f \in Ahead(m, e)
            PROVE  FALSE
        <5>1. f \in Seen(m, "SERVING") /\ m.seen[f].place < m.seen[e].place
          BY <3>2 DEF Ahead
        <5>2. f = e
          BY <1>2, <3>1, <5>1 DEF ServingSeen
        <5>. QED
          BY <3>2, <5>1, <5>2
      <4>. QED
        BY <4>1
    <3>4. Matches(e, "SERVING", m.seen[e].version)
      BY <3>1 DEF Matches
    <3>. QED
      BY <3>1, <3>3, <3>4 DEF Finishes, Next1
  <2>. QED
    BY <2>1
<1>4. \A e, f \in Boards(m) : e = f
  <2>1. ASSUME NEW e \in Boards(m), NEW f \in Boards(m), m.seen[e].place < m.seen[f].place
        PROVE  FALSE
    <3>1. /\ e \in Seen(m, "CALLED") /\ f \in Seen(m, "CALLED") /\ Ahead(m, f) = {}
      BY DEF Boards, Next1
    <3>2. e \in Ahead(m, f)
      BY <2>1, <3>1 DEF Ahead, Seen
    <3>. QED
      BY <3>1, <3>2
  <2>2. ASSUME NEW e \in Boards(m)
        PROVE  /\ e \in DOMAIN entries /\ m.seen[e].place = entries[e].place
               /\ m.seen[e].place \in Nat
    <3>1. e \in DOMAIN m.seen
      BY DEF Boards, Next1, Seen
    <3>. QED
      BY <1>2, <3>1 DEF SnapshotSound, IsTick, EntryRow
  <2>3. ASSUME NEW e \in Boards(m), NEW f \in Boards(m)
        PROVE  e = f
    <3>1. m.seen[e].place = m.seen[f].place
      BY <2>1, <2>2
    <3>. QED
      BY <2>2, <3>1 DEF ServingInv, OrderInv, PlacesDistinct
  <2>. QED
    BY <2>3
<1>5. InStatus("SERVING")' \subseteq Boards(m)
  <2>1. ASSUME NEW e \in DOMAIN entries, EntryAfter(m, e).status = "SERVING"
        PROVE  e \in Boards(m)
    <3>1. \/ e \in Boards(m)
          \/ entries[e].status = "SERVING" /\ e \notin Finishes(m)
      BY <1>2, <2>1, EntryAfterStatus DEF ServingInv, OrderInv
    <3>. QED
      BY <1>3, <3>1 DEF InStatus
  <2>. QED
    BY <1>2, <2>1 DEF InStatus
<1>6. OneServes'
  BY <1>4, <1>5 DEF OneServes
<1>7. \A q \in Publishers : ServingSeen(txn[q])'
  <2>1. \A q \in Publishers : txn'[q] = Idle
    BY <1>2, Remembered DEF ServingInv, OrderInv, QueueInv, TypeOK
  <2>. QED
    BY <2>1, Ops DEF ServingSeen
<1>. QED
  BY <1>6, <1>7 DEF ServingInv

LEMMA NextServing ==
  ASSUME \A p, q \in Publishers : p = q, ServingInv, [Next]_vars
  PROVE  ServingInv'
<1>1. OrderInv'
  BY NextOrderInv DEF ServingInv
<1>2. QueueInv
  BY DEF ServingInv, OrderInv
<1>3. CASE UNCHANGED <<entries, txn>>
  BY <1>1, <1>3 DEF ServingInv, OneServes, ServingSeen, InStatus, Seen
<1>4. ASSUME NEW w \in Workers, Serve(w)
      PROVE  ServingInv'
  <2>1. \E m : Remember(w, m)
    BY <1>4 DEF Serve, LockToJoin, CommitJoin, ReadEntryToLeave, ReadPassToLeave,
                CommitLeave, ReadToBuy,
                CommitPurchase
  <2>2. w \notin Publishers
    BY ProcessesAssumption
  <2>3. NobodyBoards
    BY <1>2, <1>4, ServeBoardsNobody
  <2>. QED
    BY <1>1, <2>1, <2>2, <2>3, OtherServing
<1>5. ASSUME NEW p \in Publishers, Publish(p)
      PROVE  ServingInv'
  <2>1. CASE SelectEntries(p)
    <3>1. NobodyBoards
      BY <2>1, UnchangedBoards DEF SelectEntries, database
    <3>. QED
      BY <1>1, <2>1, <3>1, SelectEntriesServing, OtherServing
  <2>2. CASE SelectPasses(p)
    <3>1. NobodyBoards
      BY <2>2, UnchangedBoards DEF SelectPasses, database
    <3>. QED
      BY <1>1, <2>2, <3>1, SelectPassesServing, OtherServing
  <2>3. CASE CommitTick(p)
    BY <1>1, <2>3, TickServing
  <2>. QED
    BY <1>5, <2>1, <2>2, <2>3 DEF Publish
<1>6. ASSUME NEW p \in Workers \cup Publishers, Rollback(p)
      PROVE  ServingInv'
  <2>1. NobodyBoards /\ Remember(p, Idle)
    BY <1>6, UnchangedBoards DEF Rollback, database
  <2>2. ServingSeen(Idle)'
    BY Ops DEF ServingSeen
  <2>. QED
    BY <1>1, <2>1, <2>2, OtherServing
<1>. QED
  BY <1>3, <1>4, <1>5, <1>6 DEF Next, WindowMoves, vars

(* advance_queue_tick: with one publisher, whatever joins, leaves and      *)
(* purchases run in the middle of its ticks and however often they fail,   *)
(* no two parties are served at the same time.                             *)
THEOREM OneAtATime ==
  ASSUME \A p, q \in Publishers : p = q
  PROVE  Spec => []AtMostOneServing
<1>1. Init => ServingInv
  <2>1. ASSUME Init
        PROVE  ServingInv
    <3>1. OrderInv
      <4>1. PlacesDistinct
        BY <2>1 DEF Init, PlacesDistinct
      <4>2. \A p \in Publishers : SnapshotSound(txn[p])
        BY <2>1, Ops DEF Init, SnapshotSound
      <4>. QED
        BY <2>1, <4>1, <4>2, InitQueueInv DEF OrderInv
    <3>2. OneServes
      BY <2>1 DEF Init, OneServes, InStatus
    <3>3. \A p \in Publishers : ServingSeen(txn[p])
      BY <2>1, Ops DEF Init, ServingSeen
    <3>. QED
      BY <3>1, <3>2, <3>3 DEF ServingInv
  <2>. QED
    BY <2>1
<1>2. ServingInv /\ [Next]_vars => ServingInv'
  BY NextServing
<1>3. ServingInv => AtMostOneServing
  <2>1. ASSUME ServingInv
        PROVE  AtMostOneServing
    <3>1. CASE InStatus("SERVING") = {}
      BY <3>1, FS_EmptySet DEF AtMostOneServing
    <3>2. CASE InStatus("SERVING") # {}
      <4>1. PICK e : InStatus("SERVING") = {e}
        BY <2>1, <3>2 DEF ServingInv, OneServes
      <4>. QED
        BY <4>1, FS_Singleton DEF AtMostOneServing
    <3>. QED
      BY <3>1, <3>2
  <2>. QED
    BY <2>1
<1>. QED
  BY <1>1, <1>2, <1>3, PTL DEF Spec
=============================================================================
