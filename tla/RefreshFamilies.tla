--------------------------- MODULE RefreshFamilies ---------------------------
(***************************************************************************)
(* Sessions and their renewal: services/auth.py on refresh_sessions.       *)
(*                                                                         *)
(* A login starts a family.  A rotation marks the session it was given as  *)
(* consumed, keeps that row locked, and commits the mark together with the *)
(* next session.  Revoking a family is one UPDATE over the rows it could   *)
(* see when it began, which waits for those that are locked.               *)
(***************************************************************************)
EXTENDS Integers, Sequences

CONSTANTS
    Users,
    Workers,
    MaxSessions     \* bound: rows of refresh_sessions

VARIABLES
    accountState,   \* of each username: unknown, active or inactive
    sessions,       \* refresh_sessions, in the order of their commits
    doing           \* what each request is doing

vars == <<accountState, sessions, doing>>

-----------------------------------------------------------------------------
(* A family is named by the first of its sessions. *)
Session(u, family, parent) ==
    [user |-> u, family |-> family, parent |-> parent,
     consumed |-> FALSE, revoked |-> FALSE, lapsed |-> FALSE]

Ids == DOMAIN sessions

FamilyOf(s) == sessions[s].family

Usable(s) == ~ sessions[s].consumed /\ ~ sessions[s].revoked /\ ~ sessions[s].lapsed

NewId == Len(sessions) + 1

HasRoom == Len(sessions) < MaxSessions

Idle == [op |-> "idle"]

LoggingIn(u) == [op |-> "login", user |-> u]

Rotating(s) == [op |-> "rotate", session |-> s]

(* "consumes" is the session a rotation has marked before it found out     *)
(* that the account is unavailable, or 0.                                  *)
Revoking(S, s) == [op |-> "revoke", rows |-> S, consumes |-> s]

Continue(w, record) == doing' = [doing EXCEPT ![w] = record]

End(w) == Continue(w, Idle)

(* The row of refresh_sessions a request has updated and not committed. *)
Holds(w, s) ==
    \/ doing[w].op = "rotate" /\ doing[w].session = s
    \/ doing[w].op = "revoke" /\ doing[w].consumes = s

Locked(s) == \E w \in Workers : Holds(w, s)

(* What the UPDATE of _revoke_family sees when it begins. *)
Unrevoked(family) == {s \in Ids : FamilyOf(s) = family /\ ~ sessions[s].revoked}

Init ==
    /\ accountState = [u \in Users |-> "unknown"]
    /\ sessions = <<>>
    /\ doing = [w \in Workers |-> Idle]

(* Somebody closes an account in the database. *)
Deactivate(u) ==
    /\ accountState[u] = "active"
    /\ accountState' = [accountState EXCEPT ![u] = "inactive"]
    /\ UNCHANGED <<sessions, doing>>

Lapse(s) ==
    /\ ~ sessions[s].lapsed
    /\ sessions' = [sessions EXCEPT ![s].lapsed = TRUE]
    /\ UNCHANGED <<accountState, doing>>

(* register_tourist_and_issue: one transaction, guarded by the uniqueness  *)
(* of the name.                                                            *)
Register(u) ==
    /\ accountState[u] = "unknown"
    /\ HasRoom
    /\ accountState' = [accountState EXCEPT ![u] = "active"]
    /\ sessions' = Append(sessions, Session(u, NewId, 0))
    /\ UNCHANGED doing

(* authenticate_and_issue: the account is read first. *)
CheckPassword(w, u) ==
    /\ doing[w] = Idle
    /\ accountState[u] = "active"
    /\ Continue(w, LoggingIn(u))
    /\ UNCHANGED <<accountState, sessions>>

CommitLogin(w) ==
    /\ doing[w].op = "login"
    /\ HasRoom
    /\ sessions' = Append(sessions, Session(doing[w].user, NewId, 0))
    /\ End(w)
    /\ UNCHANGED accountState

(* Bug: a SELECT before the UPDATE, which then has no condition. *)
CanConsumeUnlocked(s) == Usable(s)

(* Bug: the UPDATE forgets that the session was consumed. *)
CanConsumeAgain(s) == ~ sessions[s].revoked /\ ~ sessions[s].lapsed /\ ~ Locked(s)

(* Bug: the UPDATE forgets that the session was revoked. *)
CanConsumeRevoked(s) == ~ sessions[s].consumed /\ ~ sessions[s].lapsed /\ ~ Locked(s)

(* The conditional UPDATE of rotate_refresh_token, then the account. *)
CanConsume(s) == Usable(s) /\ ~ Locked(s)

Consume(w, s) ==
    /\ doing[w] = Idle
    /\ CanConsume(s)
    /\ IF accountState[sessions[s].user] = "active"
       THEN Continue(w, Rotating(s))
       ELSE Continue(w, Revoking(Unrevoked(FamilyOf(s)), s))
    /\ UNCHANGED <<accountState, sessions>>

CommitRotation(w) ==
    /\ doing[w].op = "rotate"
    /\ HasRoom
    /\ LET s == doing[w].session
       IN  sessions' = Append([sessions EXCEPT ![s].consumed = TRUE],
                              Session(sessions[s].user, FamilyOf(s), s))
    /\ End(w)
    /\ UNCHANGED accountState

(* A token that is known and cannot be used ends its family; so does a     *)
(* logout with any token of it.                                            *)
Replay(w, s) ==
    /\ doing[w] = Idle
    /\ ~ Usable(s) /\ ~ Locked(s)
    /\ Continue(w, Revoking(Unrevoked(FamilyOf(s)), 0))
    /\ UNCHANGED <<accountState, sessions>>

LogOut(w, s) ==
    /\ doing[w] = Idle
    /\ Continue(w, Revoking(Unrevoked(FamilyOf(s)), 0))
    /\ UNCHANGED <<accountState, sessions>>

CommitRevocation(w) ==
    /\ doing[w].op = "revoke"
    /\ LET m == doing[w]
       IN  /\ \A v \in Workers \ {w}, s \in m.rows : ~ Holds(v, s)
           /\ sessions' = [s \in Ids |->
                             [sessions[s] EXCEPT !.revoked = @ \/ s \in m.rows,
                                                 !.consumed = @ \/ s = m.consumes]]
    /\ End(w)
    /\ UNCHANGED accountState

(* A refused or failing request, a crash. *)
Rollback(w) ==
    /\ doing[w] # Idle
    /\ End(w)
    /\ UNCHANGED <<accountState, sessions>>

Next ==
    \/ \E u \in Users : Register(u) \/ Deactivate(u)
    \/ \E s \in Ids : Lapse(s)
    \/ \E w \in Workers :
        \/ \E u \in Users : CheckPassword(w, u)
        \/ \E s \in Ids : Consume(w, s) \/ Replay(w, s) \/ LogOut(w, s)
        \/ CommitLogin(w) \/ CommitRotation(w) \/ CommitRevocation(w) \/ Rollback(w)

Spec == Init /\ [][Next]_vars

-----------------------------------------------------------------------------
AccountState == {"unknown", "active", "inactive"}

SessionRow == [user : Users, family : Nat \ {0}, parent : Nat,
               consumed : BOOLEAN, revoked : BOOLEAN, lapsed : BOOLEAN]

TypeOK ==
    /\ accountState \in [Users -> AccountState]
    /\ sessions \in Seq(SessionRow)
    /\ doing \in [Workers -> {Idle}
                    \cup [op : {"login"}, user : Users]
                    \cup [op : {"rotate"}, session : Nat \ {0}]
                    \cup [op : {"revoke"}, rows : SUBSET (Nat \ {0}), consumes : Nat]]

(* A family has at most one session that can be renewed, however often its *)
(* tokens are sent, at once or again.                                      *)
OneLivePerFamily ==
    \A s, t \in Ids :
        FamilyOf(s) = FamilyOf(t) /\ Usable(s) /\ Usable(t) => s = t

(* A session is renewed at most once, only the one that was consumed for   *)
(* it, and the whole chain belongs to one account.                         *)
FamilyIsAChain ==
    \A s \in Ids :
        LET p == sessions[s].parent
        IN  IF p = 0 THEN FamilyOf(s) = s
            ELSE /\ p < s /\ sessions[p].consumed
                 /\ FamilyOf(p) = FamilyOf(s) /\ sessions[p].user = sessions[s].user
                 /\ \A t \in Ids : sessions[t].parent = p => t = s

(* A revoked session is never renewed, and never comes back.               *)
RevokedIsFinal ==
    [][\A s \in Ids : sessions[s].revoked =>
        sessions'[s].revoked /\ sessions'[s].consumed = sessions[s].consumed]_vars

(* docs/data-model.md:112 and docs/api.md:44: a replay, like a logout,     *)
(* revokes the whole family.                                               *)
RevocationEndsFamily ==
    [][\A w \in Workers :
        (CommitRevocation(w) /\ doing[w].rows # {}) =>
            \A s \in Ids, t \in doing[w].rows : FamilyOf(s) = FamilyOf(t) => sessions'[s].revoked]_vars
=============================================================================
