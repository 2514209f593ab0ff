---------------------------- MODULE PointsLedger ----------------------------
(***************************************************************************)
(* Point accounts and their entries: the part of services/points.py that   *)
(* paid orders, stamps, green tasks, shares and redemptions call.          *)
(*                                                                         *)
(* An account is locked by incrementing its version and stays locked to    *)
(* the end of the transaction.  Its entries are kept in the order in which *)
(* they were appended, which the lock makes the order of the commits.      *)
(***************************************************************************)
EXTENDS Integers, Sequences

CONSTANTS
    Users,          \* accounts
    Workers,        \* requests served concurrently
    Nobody          \* the holder of a free row

VARIABLES
    balance,        \* point_accounts.balance
    entries,        \* point_ledger_entries of each account
    accountLock     \* who holds the row of point_accounts

accounts == <<balance, entries, accountLock>>

(* What an entry is about: uq_point_ledger_source names its source and its *)
(* type.  The result row of the source is written by the same transaction. *)
Entry(type, source, delta, after) ==
    [type |-> type, source |-> source, delta |-> delta, after |-> after]

Recorded(u, type, source) ==
    \E i \in DOMAIN entries[u] : entries[u][i].type = type /\ entries[u][i].source = source

AccountsInit ==
    /\ balance = [u \in Users |-> 0]
    /\ entries = [u \in Users |-> <<>>]
    /\ accountLock = [u \in Users |-> Nobody]

(* _lock_point_account: an UPDATE that waits for the row. *)
LockAccount(w, u) ==
    /\ accountLock[u] = Nobody
    /\ accountLock' = [accountLock EXCEPT ![u] = w]

(* The end of the transaction of w gives back whatever it holds. *)
AccountsReleased(w) ==
    [u \in Users |-> IF accountLock[u] = w THEN Nobody ELSE accountLock[u]]

(* Bug: an entry carries the balance before it. *)
PostBefore(u, type, source, delta) ==
    /\ balance' = [balance EXCEPT ![u] = @ + delta]
    /\ entries' = [entries EXCEPT ![u] = Append(@, Entry(type, source, delta, balance[u]))]

(* Bug: what is spent leaves no entry. *)
PostEarned(u, type, source, delta) ==
    /\ balance' = [balance EXCEPT ![u] = @ + delta]
    /\ entries' = IF type = "SPEND" THEN entries
                  ELSE [entries EXCEPT
                          ![u] = Append(@, Entry(type, source, delta, balance[u] + delta))]

Post(u, type, source, delta) ==
    /\ balance' = [balance EXCEPT ![u] = @ + delta]
    /\ entries' = [entries EXCEPT
                     ![u] = Append(@, Entry(type, source, delta, balance[u] + delta))]

(* award_points, from the look for an existing entry on: the database adds *)
(* to the balance it finds and says what came out.                         *)
Award(u, source, points) ==
    IF Recorded(u, "EARN", source)
    THEN UNCHANGED <<balance, entries>>
    ELSE Post(u, "EARN", source, points)

(* The debit of redeem_reward, conditional on the balance. *)
Spend(u, source, points) ==
    /\ balance[u] >= points
    /\ Post(u, "SPEND", source, - points)

-----------------------------------------------------------------------------
EntryRow(Sources) ==
    [type : {"EARN", "SPEND"}, source : Sources, delta : Int, after : Nat]

AccountsTypeOK(Sources) ==
    /\ balance \in [Users -> Nat]
    /\ entries \in [Users -> Seq(EntryRow(Sources))]
    /\ accountLock \in [Users -> Workers \cup {Nobody}]

(* The balance before the entry at position i. *)
Before(u, i) == IF i = 1 THEN 0 ELSE entries[u][i - 1].after

(* The account is its entries: each carries on from the one before it, the *)
(* balance is where the last one ended, and none ends below zero.          *)
BalanceIsItsEntries ==
    \A u \in Users :
        /\ balance[u] = Before(u, Len(entries[u]) + 1)
        /\ \A i \in DOMAIN entries[u] :
            /\ entries[u][i].after = Before(u, i) + entries[u][i].delta
            /\ entries[u][i].after >= 0

(* Nothing is earned or spent twice for one source. *)
OneEntryPerSource ==
    \A u \in Users : \A i, j \in DOMAIN entries[u] :
        /\ entries[u][i].type = entries[u][j].type
        /\ entries[u][i].source = entries[u][j].source
        => i = j
=============================================================================
