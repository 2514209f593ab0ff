---------------------------- MODULE SupportChannel ----------------------------
(***************************************************************************)
(* A support conversation: messages posted by the tourist and by an agent, *)
(* the demo bot's replies, the events about them on a live connection, and *)
(* the page that shows them: services/support.py, realtime/support.py,     *)
(* SupportSocket.ets and SupportCenterView.ets.  The key of a message      *)
(* stands for its content (a page makes a key per content), and nothing in *)
(* the code closes a conversation.                                         *)
(***************************************************************************)
EXTENDS Integers, Sequences, FiniteSets, FiniteSetsExt

CONSTANTS
    Workers,        \* requests served concurrently
    Nobody,         \* no request, no list, no socket
    Sockets,        \* bound: lists asked for and sockets that run, at once
    QueueSize,      \* events kept for a slow connection (10)
    MaxAttempts,    \* reconnections before giving up (4)
    MaxSends,       \* bound: messages the tourist writes
    MaxAgentSends   \* bound: messages the agent writes

VARIABLES
    log,            \* support_messages
    nextSequence,   \* support_conversations.next_sequence
    doing,          \* what each request is doing
    queue,          \* the events the hub holds for each connection
    page,           \* what the page shows and waits for
    socket          \* the SupportSocket of each selection

vars == <<log, nextSequence, doing, queue, page, socket>>

Message(sequence, from, key) == [sequence |-> sequence, from |-> from, key |-> key]

Idle == [step |-> "idle"]

Post(from, key) ==
    [step |-> "look", from |-> from, key |-> key, locked |-> FALSE,
     rows |-> {}, send |-> {}, answer |-> {}]

Continue(w, record) == doing' = [doing EXCEPT ![w] = record]

At(w, step) == doing[w].step = step

(* The messages a key stands for, with the bot's reply. *)
Posted(from, key) ==
    {m \in log : m.key = key /\ m.from \in {from} \cup (IF from = "TOURIST" THEN {"BOT"} ELSE {})}

(* The messages of a list or an answer, by their numbers. *)
Numbers(messages) == {m.sequence : m \in messages}

(* A SupportSocket that does not run. *)
Stopped == [state |-> "stopped", attempts |-> 0]

Init ==
    /\ log = {} /\ nextSequence = 1
    /\ doing = [w \in Workers |-> Idle]
    /\ queue = [s \in Sockets |-> <<>>]
    /\ page = [shown |-> {}, last |-> -1, listing |-> [s \in Sockets |-> Nobody],
               current |-> Nobody, request |-> Nobody, sent |-> 0, open |-> FALSE]
    /\ socket = [s \in Sockets |-> Stopped]

-----------------------------------------------------------------------------
(* post_message *)

(* The keys of the agent are negative; any may be sent again. *)
AgentSends(w, key) ==
    /\ doing[w] = Idle
    /\ key = -1 \/ \E m \in log : m.from = "SUPPORT" /\ m.key = key + 1
    /\ Continue(w, Post("SUPPORT", key))
    /\ UNCHANGED <<log, nextSequence, queue, page, socket>>

(* sendMessage of the page, which waits for an answer.  The same text is   *)
(* sent with the same key until it has succeeded, another with a new one.  *)
Send(w) ==
    /\ doing[w] = Idle
    /\ page.request = Nobody
    /\ \E key \in {page.sent, page.sent + 1} :
        /\ key = page.sent => page.open
        /\ key \in 1 .. MaxSends
        /\ Continue(w, Post("TOURIST", key))
        /\ page' = [page EXCEPT !.request = w, !.sent = key, !.open = TRUE]
    /\ UNCHANGED <<log, nextSequence, queue, socket>>

(* A key that is found is answered with what was posted, and sent again.   *)
Answering(w, messages) ==
    [doing[w] EXCEPT !.step = "send", !.send = Numbers(messages), !.answer = messages]

Look(w) ==
    /\ At(w, "look")
    /\ LET found == Posted(doing[w].from, doing[w].key)
       IN  Continue(w, IF found # {} THEN Answering(w, found)
                       ELSE [doing[w] EXCEPT !.step = "reserve"])
    /\ UNCHANGED <<log, nextSequence, queue, page, socket>>

(* Bug: the number is read without locking the conversation. *)
RowShared(w) == TRUE

(* The conversation's row, held to the end of the transaction. *)
RowFree(w) == \A v \in Workers \ {w} : doing[v] # Idle => ~ doing[v].locked

(* Bug: the reply takes its number first. *)
RowsReplyFirst(w) ==
    LET m == doing[w]
    IN  IF m.from = "TOURIST"
        THEN {Message(nextSequence, "BOT", m.key), Message(nextSequence + 1, m.from, m.key)}
        ELSE {Message(nextSequence, m.from, m.key)}

Rows(w) ==
    LET m == doing[w]
        own == Message(nextSequence, m.from, m.key)
    IN  IF m.from = "TOURIST" THEN {own, Message(nextSequence + 1, "BOT", m.key)} ELSE {own}

(* _append_message: the row, then a second look at the key.  A key found   *)
(* now is answered without a commit: the number it took is given back, and *)
(* the row is held until the request has ended.                            *)
Reserve(w) ==
    /\ At(w, "reserve")
    /\ RowFree(w)
    /\ LET found == Posted(doing[w].from, doing[w].key)
       IN  Continue(w, IF found # {} THEN [Answering(w, found) EXCEPT !.locked = TRUE]
                       ELSE [doing[w] EXCEPT !.step = "commit", !.locked = TRUE, !.rows = Rows(w)])
    /\ UNCHANGED <<log, nextSequence, queue, page, socket>>

(* Bug: a commit that fails does not end the request. *)
CommitUnsaved(w) ==
    /\ At(w, "commit")
    /\ Continue(w, [Answering(w, doing[w].rows) EXCEPT !.locked = FALSE, !.rows = {}])
    /\ UNCHANGED <<log, nextSequence, queue, page, socket>>

CommitPost(w) ==
    /\ At(w, "commit")
    /\ log' = log \cup doing[w].rows
    /\ nextSequence' = nextSequence + Cardinality(doing[w].rows)
    /\ Continue(w, [Answering(w, doing[w].rows) EXCEPT !.locked = FALSE, !.rows = {}])
    /\ UNCHANGED <<queue, page, socket>>

(* SupportConnectionHub.broadcast, of one message after the other: a full  *)
(* queue loses its oldest event.                                           *)
Queued(s, event) == Append(IF Len(queue[s]) = QueueSize THEN Tail(queue[s]) ELSE queue[s], event)

Broadcast(w) ==
    /\ At(w, "send")
    /\ \E next \in doing[w].send :
        /\ \A other \in doing[w].send : next <= other
        /\ queue' = [s \in Sockets |->
                       IF socket[s].state # "open" THEN queue[s] ELSE Queued(s, next)]
        /\ Continue(w, [doing[w] EXCEPT !.send = @ \ {next}])
    /\ UNCHANGED <<log, nextSequence, page, socket>>

(* appendMessage for each message of the answer; the text is cleared. *)
Showing(sequences) ==
    [page EXCEPT !.shown = @ \cup sequences, !.last = Max({@} \cup sequences)]

Answer(w) ==
    /\ At(w, "send") /\ doing[w].send = {}
    /\ Continue(w, Idle)
    /\ page' = IF page.request # w THEN page
               ELSE [Showing(Numbers(doing[w].answer)) EXCEPT
                        !.request = Nobody, !.open = FALSE]
    /\ UNCHANGED <<log, nextSequence, queue, socket>>

(* A crash or a server error, and a page that waits no longer: the key is  *)
(* kept, as neither is a definitive refusal.                               *)
Fail(w) ==
    /\ doing[w] # Idle
    /\ Continue(w, Idle)
    /\ page' = IF page.request = w THEN [page EXCEPT !.request = Nobody] ELSE page
    /\ UNCHANGED <<log, nextSequence, queue, socket>>

GiveUp ==
    /\ page.request # Nobody
    /\ page' = [page EXCEPT !.request = Nobody]
    /\ UNCHANGED <<log, nextSequence, doing, queue, socket>>

-----------------------------------------------------------------------------
(* selectConversation: the page's socket is stopped, the messages are      *)
(* listed, the list replaces what is shown, and a socket s is started.     *)
(* Until then the page has no socket to stop, so that another selection    *)
(* may start a second one; the first runs on.                              *)
Select(s) ==
    /\ page.listing[s] = Nobody
    /\ socket[s].state \in {"stopped", "degraded"} \/ s = page.current
    /\ page' = [page EXCEPT !.listing[s] = Numbers(log), !.current = Nobody]
    /\ socket' = [t \in Sockets |-> IF t = page.current THEN Stopped ELSE socket[t]]
    /\ queue' = [t \in Sockets |-> IF t = page.current THEN <<>> ELSE queue[t]]
    /\ UNCHANGED <<log, nextSequence, doing>>

Listed(s) ==
    /\ page.listing[s] # Nobody
    /\ page' = [page EXCEPT !.listing[s] = Nobody, !.current = s,
                            !.shown = page.listing[s],
                            !.last = Max({-1} \cup page.listing[s])]
    /\ socket' = [socket EXCEPT ![s] = [state |-> "connecting", attempts |-> 0]]
    /\ UNCHANGED <<log, nextSequence, doing, queue>>

(* The list could not be loaded. *)
NotListed(s) ==
    /\ page.listing[s] # Nobody
    /\ page' = [page EXCEPT !.listing[s] = Nobody]
    /\ UNCHANGED <<log, nextSequence, doing, queue, socket>>

(* support_websocket: the ticket is taken, the connection is registered    *)
(* and gets its initial event, which brings no message.                    *)
Open(s) ==
    /\ socket[s].state = "connecting"
    /\ socket' = [socket EXCEPT ![s] = [state |-> "open", attempts |-> 0]]
    /\ queue' = [queue EXCEPT ![s] = <<>>]
    /\ UNCHANGED <<log, nextSequence, doing, page>>

(* Bug: an attempt that fails is not counted. *)
DisconnectedUncounted(s) ==
    /\ socket[s].state \in {"connecting", "open"}
    /\ socket' = [socket EXCEPT ![s].state = "waiting"]
    /\ queue' = [queue EXCEPT ![s] = <<>>]
    /\ UNCHANGED <<log, nextSequence, doing, page>>

(* scheduleReconnect, when no ticket is had or a connection fails or ends. *)
Disconnected(s) ==
    /\ socket[s].state \in {"connecting", "open"}
    /\ socket' = [socket EXCEPT ![s] =
                    IF @.attempts >= MaxAttempts
                    THEN [@ EXCEPT !.state = "degraded"]
                    ELSE [state |-> "waiting", attempts |-> @.attempts + 1]]
    /\ queue' = [queue EXCEPT ![s] = <<>>]
    /\ UNCHANGED <<log, nextSequence, doing, page>>

Reconnect(s) ==
    /\ socket[s].state = "waiting"
    /\ socket' = [socket EXCEPT ![s].state = "connecting"]
    /\ UNCHANGED <<log, nextSequence, doing, queue, page>>

(* shouldAcceptSupportSequence *)
Accepted(sequence) == sequence > page.last

(* Events of whichever socket are shown. *)
Deliver(s) ==
    /\ socket[s].state = "open" /\ queue[s] # <<>>
    /\ queue' = [queue EXCEPT ![s] = Tail(@)]
    /\ page' = IF Accepted(Head(queue[s])) THEN Showing({Head(queue[s])}) ELSE page
    /\ UNCHANGED <<log, nextSequence, doing, socket>>

Next ==
    \/ \E w \in Workers :
        \/ \E key \in -MaxAgentSends .. -1 : AgentSends(w, key)
        \/ Send(w) \/ Look(w) \/ Reserve(w) \/ CommitPost(w)
        \/ Broadcast(w) \/ Answer(w) \/ Fail(w)
    \/ GiveUp
    \/ \E s \in Sockets :
        \/ Select(s) \/ Listed(s) \/ NotListed(s)
        \/ Open(s) \/ Disconnected(s) \/ Reconnect(s) \/ Deliver(s)

(* The timer of a reconnection fires, and an attempt to connect ends.      *)
Connects(s) == Open(s) \/ (socket[s].state = "connecting" /\ Disconnected(s))

Fairness == \A s \in Sockets : WF_vars(Reconnect(s)) /\ WF_vars(Connects(s))

Spec == Init /\ [][Next]_vars

FairSpec == Spec /\ Fairness

-----------------------------------------------------------------------------
ChannelAssumption == QueueSize \in Nat \ {0} /\ MaxAttempts \in Nat

Sequence == Nat \ {0}

MessageRow == [sequence : Sequence, from : {"TOURIST", "SUPPORT", "BOT"}, key : Int]

Posting ==
    [step : {"look", "reserve", "commit", "send"}, from : {"TOURIST", "SUPPORT"}, key : Int,
     locked : BOOLEAN, rows : SUBSET MessageRow, send : SUBSET Sequence, answer : SUBSET MessageRow]

Page ==
    [shown : SUBSET Sequence, last : Sequence \cup {-1},
     listing : [Sockets -> {Nobody} \cup SUBSET Sequence], current : Sockets \cup {Nobody},
     request : Workers \cup {Nobody}, sent : Nat, open : BOOLEAN]

SocketRow ==
    [state : {"stopped", "connecting", "open", "waiting", "degraded"}, attempts : 0 .. MaxAttempts]

TypeOK ==
    /\ log \subseteq MessageRow
    /\ nextSequence \in Sequence
    /\ doing \in [Workers -> {Idle} \cup Posting]
    /\ queue \in [Sockets -> Seq(Sequence)] /\ \A s \in Sockets : Len(queue[s]) =< QueueSize
    /\ page \in Page
    /\ socket \in [Sockets -> SocketRow]

(* docs/data-model.md:111: messages are numbered 1, 2, 3 ... without a gap *)
(* or a repetition, and a key posts at most one of them, however often and *)
(* however concurrently it is sent.                                        *)
LogIsNumbered ==
    /\ Numbers(log) = 1 .. nextSequence - 1
    /\ \A m, n \in log :
        m.sequence = n.sequence \/ (m.from = n.from /\ m.key = n.key) => m = n

(* The bot answers each message of the tourist, right after it, whatever   *)
(* others post at the time.                                                *)
RepliesFollow ==
    \A m \in log : m.from = "TOURIST" => Message(m.sequence + 1, "BOT", m.key) \in log

(* docs/data-model.md:111: fan-out happens after persistence: nothing is   *)
(* on its way to a page, or on it, that is not in the log.                 *)
OnlyPersistedIsSeen ==
    LET persisted == Numbers(log)
    IN  /\ \A s \in Sockets : {queue[s][i] : i \in DOMAIN queue[s]} \subseteq persisted
        /\ page.shown \subseteq persisted
        /\ page.last # -1 => page.last \in persisted

(* A socket that is trying to connect ends up connected, or stops trying   *)
(* and says so: no lost callback leaves it trying for ever.                *)
SocketSettles ==
    \A s \in Sockets : socket[s].state \in {"connecting", "waiting"} ~>
                         socket[s].state \in {"open", "degraded", "stopped"}

(* docs/architecture.md:73: the initial state of a connection includes the *)
(* persisted messages.                                                     *)
ConnectedSeesPersisted ==
    [][\A s \in Sockets : socket[s].state # "open" /\ socket'[s].state = "open" =>
         Numbers(log) \subseteq page'.shown]_vars
=============================================================================
