---------------------------- MODULE PublicStream ----------------------------
(* The public market stream: sessions that connect, subscribe and read until *)
(* something fails, a protocol processor whose cursors outlive the sessions, *)
(* a bounded queue towards each instrument's actor and the freshness that    *)
(* others read. The exchange is external: its history of candles and books   *)
(* only grows, but the node behind a connection may lag.                     *)
EXTENDS Integers, Sequences

CONSTANTS
    Instruments,
    KlineHistory,      \* what the exchange publishes of a candle topic, in order
    BookHistory,       \* the update ids of the books it publishes, in order
    QueueCapacity,
    MaxFailures        \* MAX_CONSECUTIVE_SESSION_FAILURES

\* An exchange has something to publish, and a queue has room for an event.
Candles == [start : Nat, trade : Nat, confirmed : BOOLEAN]
ASSUME HistoryAssumption ==
    /\ KlineHistory \in Seq(Candles) \ {<<>>}
    /\ BookHistory \in Seq(Nat \ {0}) \ {<<>>}
    /\ QueueCapacity \in Nat \ {0} /\ MaxFailures \in Nat \ {0}

\* It publishes candles in the order of their starts and the states of an open candle in the order
\* of its trades, the closed one last; books in the order of their ids, from one restart of the
\* service to the next.
ASSUME OrderAssumption ==
    /\ \A i, j \in DOMAIN KlineHistory : i < j =>
          LET old == KlineHistory[i]  new == KlineHistory[j]
          IN  \/ old.start < new.start
              \/ /\ old.start = new.start /\ ~old.confirmed
                 /\ old.trade < new.trade \/ (old.trade = new.trade /\ new.confirmed)
    /\ \A i, j \in DOMAIN BookHistory :
          i < j /\ (\A k \in (i + 1)..j : BookHistory[k] # 1) => BookHistory[i] < BookHistory[j]

VARIABLES
    phase,       \* where run and run_session are
    result,      \* how run ended
    cancelled,   \* the shutdown signal
    failures,    \* consecutive_failures
    session,     \* subscription_confirmed, awaiting_pong and delivered_data
    cursor,      \* kline_cursors and book_cursors, or NoCursor
    vouched,     \* freshness: the version a topic was last recorded for, 0 for none
    queue,       \* the bounded queue of each instrument
    published,   \* how far the exchange has got with each topic
    node,        \* how far the node behind this connection has got
    given,       \* history: the last version put into the queue
    barren       \* history: sessions since one delivered data, the delivering one excluded

client == <<phase, result, failures, session>>
protocol == <<cursor, vouched, queue, given>>
exchange == <<published, node>>
vars == <<phase, result, cancelled, failures, session, cursor, vouched, queue, published, node,
          given, barren>>

\* A plan has the same topics for each instrument: its candles and its best book.
Topics == Instruments \X {"kline", "book"}
History(t) == IF t[2] = "kline" THEN KlineHistory ELSE BookHistory
Key(t, v) == IF t[2] = "kline" THEN KlineHistory[v] ELSE [update |-> BookHistory[v]]
NoCursor == [none |-> TRUE]
NewSession == [subscribed |-> FALSE, awaiting |-> FALSE, delivered |-> FALSE]

Init ==
    /\ phase = "idle" /\ result = "none" /\ cancelled = FALSE /\ failures = 0
    /\ session = NewSession
    /\ cursor = [t \in Topics |-> NoCursor]
    /\ vouched = [t \in Topics |-> 0]
    /\ queue = [i \in Instruments |-> <<>>]
    /\ published = [t \in Topics |-> 1]
    /\ node = [t \in Topics |-> 1]
    /\ given = [t \in Topics |-> 0]
    /\ barren = 0

-----------------------------------------------------------------------------
(* The exchange, the consumer and the owner of the client *)

Publish(t) ==
    /\ published[t] < Len(History(t))
    /\ published' = [published EXCEPT ![t] = @ + 1]
    /\ UNCHANGED <<client, cancelled, protocol, node, barren>>

Take(i) ==
    /\ queue[i] # <<>>
    /\ queue' = [queue EXCEPT ![i] = Tail(@)]
    /\ UNCHANGED <<client, cancelled, cursor, vouched, given, exchange, barren>>

Cancel ==
    /\ ~cancelled
    /\ cancelled' = TRUE
    /\ UNCHANGED <<client, protocol, exchange, barren>>

-----------------------------------------------------------------------------
(* run and the stages of run_session *)

\* A restart of the book service, which begins with update id 1, empties all its nodes: none
\* goes back behind it.
BehindRestart(t, v) == t[2] = "book" /\ \E w \in (v + 1)..published[t] : BookHistory[w] = 1

StartSession ==
    /\ phase = "idle" /\ ~cancelled
    /\ phase' = "connecting"
    /\ session' = NewSession
    /\ UNCHANGED <<result, failures, cancelled, protocol, exchange, barren>>

\* The node may be behind the one of an earlier connection.
Connect ==
    /\ phase = "connecting"
    /\ phase' = "subscribing"
    /\ node' \in {f \in [Topics -> 1..(Len(KlineHistory) + Len(BookHistory))] :
                      \A t \in Topics : f[t] <= published[t] /\ ~BehindRestart(t, f[t])}
    /\ UNCHANGED <<result, failures, session, cancelled, protocol, published, barren>>

SendSubscription ==
    /\ phase = "subscribing"
    /\ phase' = "open"
    /\ UNCHANGED <<result, failures, session, cancelled, protocol, exchange, barren>>

\* Only data that was new and found room starts the count of failures anew.
MutantFailuresAfter(delivered) == failures + 1
FailuresAfter(delivered) == IF delivered THEN 1 ELSE failures + 1

EndSession(delivered) ==
    /\ failures' = FailuresAfter(delivered)
    /\ barren' = IF delivered THEN 0 ELSE barren + 1
    /\ IF failures' >= MaxFailures
         THEN phase' = "ended" /\ result' = "exhausted"
         ELSE phase' = "waiting" /\ UNCHANGED result

\* Connecting fails or takes too long, the subscription cannot be written, or while reading:
\* the stream ends, breaks, closes, is binary or violates the contract, or a pong or ping
\* cannot be written.
SessionFails ==
    /\ phase \in {"connecting", "subscribing", "open"}
    /\ EndSession(session.delivered)
    /\ UNCHANGED <<session, cancelled, protocol, exchange>>

\* The exchange rejects the subscription, or the system clock cannot be read: no retry.
SessionRejected ==
    /\ phase = "open"
    /\ phase' = "ended" /\ result' = "rejected"
    /\ UNCHANGED <<failures, session, cancelled, protocol, exchange, barren>>

Subscribed ==
    /\ phase = "open" /\ ~session.subscribed
    /\ session' = [session EXCEPT !.subscribed = TRUE]
    /\ UNCHANGED <<phase, result, failures, cancelled, protocol, exchange, barren>>

SubscriptionTimeout ==
    /\ phase = "open" /\ ~session.subscribed
    /\ EndSession(session.delivered)
    /\ UNCHANGED <<session, cancelled, protocol, exchange>>

\* Every interval a ping goes out; a ping without a pong since the last one ends the session.
HeartbeatTick ==
    /\ phase = "open"
    /\ \/ /\ ~session.awaiting
          /\ session' = [session EXCEPT !.awaiting = TRUE]
          /\ UNCHANGED <<phase, result, failures, barren>>
       \/ /\ session.awaiting
          /\ EndSession(session.delivered)
          /\ UNCHANGED session
    /\ UNCHANGED <<cancelled, protocol, exchange>>

Pong ==
    /\ phase = "open" /\ session.awaiting
    /\ session' = [session EXCEPT !.awaiting = FALSE]
    /\ UNCHANGED <<phase, result, failures, cancelled, protocol, exchange, barren>>

\* The backoff of reconnect_delay is over.
BackoffEnds ==
    /\ phase = "waiting"
    /\ phase' = "idle"
    /\ UNCHANGED <<result, failures, session, cancelled, protocol, exchange, barren>>

\* Connecting and subscribing do not look at the signal.
MutantWatchesShutdown == phase \in {"idle", "waiting"}
WatchesShutdown == phase \in {"idle", "open", "waiting"}

ShutdownSeen ==
    /\ cancelled /\ WatchesShutdown
    /\ phase' = "ended" /\ result' = "shutdown"
    /\ UNCHANGED <<failures, session, cancelled, protocol, exchange, barren>>

-----------------------------------------------------------------------------
(* ProtocolProcessor and EventRouter *)

\* classify_kline: a later candle, a later trade of an open candle, or its closing is news.
MutantSupersedes(new, old) ==
    new.start > old.start \/ (new.start = old.start /\ ~old.confirmed /\ new.trade > old.trade)
Supersedes(new, old) ==
    \/ new.start > old.start
    \/ /\ new.start = old.start /\ ~old.confirmed
       /\ new.trade > old.trade \/ (new.trade = old.trade /\ new.confirmed)
Precedes(new, old) ==
    new.start < old.start \/ (new.start = old.start /\ new.trade < old.trade)
KlineVerdict(new, old) ==
    IF old = NoCursor \/ Supersedes(new, old) THEN "event"
    ELSE IF Precedes(new, old) THEN "out of order" ELSE "duplicate"

\* classify_book: update id 1 is a restarted book service.
MutantBookVerdict(new, old) ==
    IF old = NoCursor \/ new # old THEN "event" ELSE "duplicate"
BookVerdict(new, old) ==
    IF old = NoCursor \/ (new.update = 1 /\ old.update # 1) \/ new.update > old.update THEN "event"
    ELSE IF new.update < old.update THEN "out of order" ELSE "duplicate"

Verdict(t, key) ==
    IF t[2] = "kline" THEN KlineVerdict(key, cursor[t]) ELSE BookVerdict(key, cursor[t])

\* Whatever is not out of order keeps the topic fresh, a duplicate too.
VouchedAfter(t, v, verdict) ==
    IF verdict = "out of order" THEN vouched ELSE [vouched EXCEPT ![t] = v]

\* handle_text on an update of topic t, with what happens to its result. The cursor and the
\* freshness move before the event is routed; a full queue ends the client for good.
Receive(t, v) ==
    LET key == Key(t, v)
        verdict == Verdict(t, key)
    IN /\ phase = "open"
       /\ node[t] <= v /\ v <= published[t]
       /\ node' = [node EXCEPT ![t] = v]
       /\ vouched' = VouchedAfter(t, v, verdict)
       /\ IF verdict # "event" THEN UNCHANGED <<client, cursor, queue, given>>
          ELSE /\ cursor' = [cursor EXCEPT ![t] = key]
               /\ UNCHANGED failures
               /\ IF Len(queue[t[1]]) < QueueCapacity
                    THEN /\ queue' = [queue EXCEPT ![t[1]] = Append(@, <<t, v>>)]
                         /\ given' = [given EXCEPT ![t] = v]
                         /\ session' = [session EXCEPT !.delivered = TRUE]
                         /\ UNCHANGED <<phase, result>>
                    ELSE /\ phase' = "ended" /\ result' = "backpressure"
                         /\ UNCHANGED <<queue, given, session>>
       /\ UNCHANGED <<cancelled, published, barren>>

Next ==
    \/ Cancel
    \/ \E t \in Topics : Publish(t)
    \/ \E i \in Instruments : Take(i)
    \/ StartSession \/ Connect \/ SendSubscription
    \/ SessionFails \/ SessionRejected \/ Subscribed \/ SubscriptionTimeout
    \/ HeartbeatTick \/ Pong \/ BackoffEnds \/ ShutdownSeen
    \/ \E t \in Topics : \E v \in 1..published[t] : Receive(t, v)

\* A connection attempt has a time limit, a write is assumed to end, and select! takes the
\* branch of a signal that stays ready.
Fairness ==
    /\ WF_vars(Connect \/ SendSubscription \/ (phase # "open" /\ SessionFails))
    /\ WF_vars(ShutdownSeen)

Spec == Init /\ [][Next]_vars /\ Fairness

-----------------------------------------------------------------------------
\* Over all sessions and nodes, an actor's candles and books never go back: what is queued for a
\* topic was published after everything queued for it before. Only the first book after a restart
\* of the service is taken again when a node repeats it.
ActorSeesOnlyNews ==
    [][\A t \in Topics :
          given'[t] # given[t] =>
              \/ given'[t] > given[t]
              \/ t[2] = "book" /\ BookHistory[given'[t]] = 1]_vars

\* Fresh never covers for withheld data: a topic that counts as fresh has had content queued that
\* is as recent as its latest observation, unless the queue was full, which ends the client, or
\* a restarted book service has come to the id seen last: its new book passes for a duplicate.
FreshMeansDelivered ==
    result # "backpressure" => \A t \in Topics :
        \/ vouched[t] <= given[t]
        \/ t[2] = "book" /\ BookHistory[vouched[t]] = BookHistory[given[t]]

\* The client gives up only after sessions in a row that brought nothing, however many sessions
\* with data failed before them.
GivesUpOnlyWhenBarren == result = "exhausted" => barren >= MaxFailures - 1

\* A shutdown ends the client from every stage of a session and from every backoff.
ShutdownEndsStream == cancelled ~> phase = "ended"
=============================================================================
