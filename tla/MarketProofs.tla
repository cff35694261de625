---------------------------- MODULE MarketProofs ----------------------------
(* Proofs about the public stream and the market replay, for any histories,  *)
(* datasets and periods: only news is queued, nothing comes early, events    *)
(* are spaced, and but for its channel a reflected market is mirrored.       *)
EXTENDS PublicStream, Replay, SumTheorems

(***************************************************************************)
(* The topics.  Unless a full queue ended the client, a topic's cursor is  *)
(* the content last queued; between the node's place and that content the  *)
(* book service did not restart.                                           *)
(***************************************************************************)
TopicTypes ==
    /\ published \in [Topics -> Nat \ {0}] /\ node \in [Topics -> Nat \ {0}]
    /\ given \in [Topics -> Nat] /\ vouched \in [Topics -> Nat]
    /\ cursor \in [Topics -> Candles \cup [update : Nat \ {0}] \cup {NoCursor}]
    /\ \A t \in Topics : published[t] <= Len(History(t)) /\ given[t] <= published[t]

FreshAt(t) ==
    \/ given[t] = 0 /\ vouched[t] = 0 /\ cursor[t] = NoCursor
    \/ /\ given[t] # 0 /\ cursor[t] = Key(t, given[t])
       /\ \/ vouched[t] <= given[t]
          \/ t[2] = "book" /\ BookHistory[vouched[t]] = BookHistory[given[t]]

NoRestartSince(t) == \A w \in (node[t] + 1)..given[t] : BookHistory[w] # 1

TopicInv ==
    /\ TopicTypes
    /\ result # "none" => phase = "ended"
    /\ result # "backpressure" => \A t \in Topics : FreshAt(t)
    /\ \A t \in Topics : t[2] = "book" => NoRestartSince(t)

LEMMA Histories ==
    ASSUME NEW t \in Topics
    PROVE  /\ Len(History(t)) \in Nat \ {0}
           /\ \A v \in 1..Len(History(t)) :
                 Key(t, v) \in Candles \cup [update : Nat \ {0}]
           /\ t[2] = "kline" => /\ Len(History(t)) = Len(KlineHistory)
                                /\ \A v \in 1..Len(KlineHistory) :
                                      Key(t, v) = KlineHistory[v] /\ KlineHistory[v] \in Candles
           /\ t[2] # "kline" => /\ Len(History(t)) = Len(BookHistory) /\ t[2] = "book"
                                /\ \A v \in 1..Len(BookHistory) :
                                      /\ Key(t, v) = [update |-> BookHistory[v]]
                                      /\ BookHistory[v] \in Nat \ {0}
<1>1. t[2] \in {"kline", "book"}
  BY DEF Topics
<1>2. \A v \in 1..Len(KlineHistory) : KlineHistory[v] \in Candles
  BY HistoryAssumption
<1>3. \A v \in 1..Len(BookHistory) : BookHistory[v] \in Nat \ {0}
  BY HistoryAssumption
<1>4. Len(KlineHistory) \in Nat \ {0} /\ Len(BookHistory) \in Nat \ {0}
  BY HistoryAssumption
<1> QED
  BY <1>1, <1>2, <1>3, <1>4 DEF History, Key

LEMMA InitTopics == Init => TopicInv
<1> SUFFICES ASSUME Init PROVE TopicInv
  OBVIOUS
<1>1. \A t \in Topics : 1 <= Len(History(t))
  BY Histories
<1>2. TopicTypes
  BY <1>1 DEF Init, TopicTypes
<1>3. \A t \in Topics : FreshAt(t) /\ NoRestartSince(t)
  BY DEF Init, FreshAt, NoRestartSince
<1> QED
  BY <1>2, <1>3 DEF Init, TopicInv

\* The verdict on a candle: later ones are news, earlier ones never are.
LEMMA KlineVerdicts ==
    ASSUME NEW v \in 1..Len(KlineHistory), NEW g \in 1..Len(KlineHistory)
    PROVE  /\ v > g => KlineVerdict(KlineHistory[v], KlineHistory[g]) = "event"
           /\ v <= g => KlineVerdict(KlineHistory[v], KlineHistory[g]) # "event"
<1> DEFINE a == KlineHistory[v]
           b == KlineHistory[g]
<1>1. a \in Candles /\ b \in Candles
  BY HistoryAssumption
<1>2. /\ a.start \in Nat /\ a.trade \in Nat /\ b.start \in Nat /\ b.trade \in Nat
      /\ b # NoCursor
  BY <1>1 DEF Candles, NoCursor
<1>3. DOMAIN KlineHistory = 1..Len(KlineHistory)
  BY HistoryAssumption
<1>4. v > g => Supersedes(a, b)
  BY <1>3, OrderAssumption DEF Supersedes
<1>5. g > v => Supersedes(b, a)
  BY <1>3, OrderAssumption DEF Supersedes
<1> HIDE DEF a, b
<1>6. ~(Supersedes(a, b) /\ Supersedes(b, a))
  BY <1>2 DEF Supersedes
<1>7. v = g => a = b
  BY DEF a, b
<1>8. v <= g => ~Supersedes(a, b)
  <2>1. CASE v = g
    BY <2>1, <1>6, <1>7
  <2>2. CASE v # g
    BY <2>2, <1>5, <1>6
  <2> QED
    BY <2>1, <2>2
<1>9. /\ v > g => KlineVerdict(a, b) = "event"
      /\ v <= g => KlineVerdict(a, b) # "event"
  BY <1>2, <1>4, <1>8 DEF KlineVerdict
<1> QED
  BY <1>9 DEF a, b

\* The verdict on a book: a duplicate repeats the id, and without a restart between the two an
\* earlier book is news only if its own id is a restart's.
LEMMA BookVerdicts ==
    ASSUME NEW v \in 1..Len(BookHistory), NEW g \in 1..Len(BookHistory)
    PROVE  LET verdict == BookVerdict([update |-> BookHistory[v]], [update |-> BookHistory[g]])
           IN  /\ verdict = "duplicate" => BookHistory[v] = BookHistory[g]
               /\ verdict \in {"event", "out of order", "duplicate"}
               /\ verdict = "event" /\ v <= g /\ (\A w \in (v + 1)..g : BookHistory[w] # 1)
                  => BookHistory[v] = 1
<1> DEFINE a == [update |-> BookHistory[v]]
           b == [update |-> BookHistory[g]]
<1>1. BookHistory[v] \in Nat /\ BookHistory[g] \in Nat
  BY HistoryAssumption
<1>2. b # NoCursor /\ a.update = BookHistory[v] /\ b.update = BookHistory[g]
  BY DEF NoCursor
<1>3. DOMAIN BookHistory = 1..Len(BookHistory)
  BY HistoryAssumption
<1>4. v < g /\ (\A w \in (v + 1)..g : BookHistory[w] # 1) => BookHistory[v] < BookHistory[g]
  BY <1>3, OrderAssumption
<1> HIDE DEF a, b
<1> QED
  BY <1>1, <1>2, <1>4 DEF BookVerdict, a, b

\* What an update changes of its topic, by the verdict on it.
LEMMA ReceiveTopics ==
    ASSUME TopicInv, NEW t \in Topics, NEW v \in 1..published[t], Receive(t, v)
    PROVE  TopicInv' /\ (given'[t] # given[t] =>
                            given'[t] > given[t] \/ (t[2] = "book" /\ BookHistory[given'[t]] = 1))
<1> DEFINE key == Key(t, v)
           verdict == Verdict(t, key)
<1>1. /\ TopicTypes /\ phase = "open" /\ result = "none"
      /\ \A s \in Topics : FreshAt(s)
      /\ \A s \in Topics : s[2] = "book" => NoRestartSince(s)
  BY DEF TopicInv, Receive
<1>2. /\ published[t] \in Nat /\ published[t] <= Len(History(t)) /\ given[t] \in Nat
      /\ given[t] <= published[t] /\ node[t] \in Nat /\ vouched[t] \in Nat
  BY <1>1 DEF TopicTypes
<1>3. Len(History(t)) \in Nat
  BY Histories
<1>4. v \in 1..Len(History(t)) /\ v \in Nat \ {0} /\ node[t] <= v
  BY <1>2, <1>3 DEF Receive
<1>5. key \in Candles \cup [update : Nat \ {0}]
  BY <1>4, Histories
<1>6. CASE verdict # "event"
  <2>1. /\ UNCHANGED <<phase, result, cursor, given, published>>
        /\ node' = [node EXCEPT ![t] = v] /\ vouched' = VouchedAfter(t, v, verdict)
    BY <1>6 DEF Receive, client
  <2>2. given[t] # 0
    BY <1>1, <1>6 DEF FreshAt, Verdict, KlineVerdict, BookVerdict
  <2>3. cursor[t] = Key(t, given[t])
    BY <1>1, <2>2 DEF FreshAt
  <2>4. given[t] \in 1..Len(History(t))
    BY <1>2, <1>3, <2>2
  <2>5. verdict = "out of order" \/ v <= given[t]
           \/ (t[2] = "book" /\ BookHistory[v] = BookHistory[given[t]])
    <3>1. CASE t[2] = "kline"
      <4>1. /\ v \in 1..Len(KlineHistory) /\ given[t] \in 1..Len(KlineHistory)
            /\ key = KlineHistory[v] /\ cursor[t] = KlineHistory[given[t]]
        BY <1>4, <2>3, <2>4, <3>1, Histories
      <4>2. verdict = KlineVerdict(KlineHistory[v], KlineHistory[given[t]])
        BY <3>1, <4>1 DEF Verdict
      <4>3. ~(v > given[t])
        <5>1. v > given[t] => KlineVerdict(KlineHistory[v], KlineHistory[given[t]]) = "event"
          BY <4>1, KlineVerdicts
        <5> QED
          BY <1>6, <4>2, <5>1
      <4> QED
        <5>1. v <= given[t]
          BY <1>2, <1>4, <4>3
        <5> QED
          BY <5>1
    <3>2. CASE t[2] # "kline"
      <4>1. /\ v \in 1..Len(BookHistory) /\ given[t] \in 1..Len(BookHistory) /\ t[2] = "book"
            /\ key = [update |-> BookHistory[v]]
            /\ cursor[t] = [update |-> BookHistory[given[t]]]
        BY <1>4, <2>3, <2>4, <3>2, Histories
      <4>2. verdict = BookVerdict([update |-> BookHistory[v]], [update |-> BookHistory[given[t]]])
        BY <3>2, <4>1 DEF Verdict
      <4> QED
        BY <1>6, <4>1, <4>2, BookVerdicts
    <3> QED
      BY <3>1, <3>2
  <2>6. vouched' = vouched \/ (vouched' = [vouched EXCEPT ![t] = v]
           /\ (v <= given[t] \/ (t[2] = "book" /\ BookHistory[v] = BookHistory[given[t]])))
    BY <2>1, <2>5 DEF VouchedAfter
  <2>7. \A s \in Topics : FreshAt(s)'
    <3> SUFFICES ASSUME NEW s \in Topics PROVE FreshAt(s)'
      OBVIOUS
    <3>1. FreshAt(s)
      BY <1>1
    <3>2. CASE s # t
      BY <2>1, <2>6, <3>1, <3>2, <1>1 DEF FreshAt, TopicTypes
    <3>3. CASE s = t
      BY <2>1, <2>2, <2>3, <2>6, <3>1, <3>3, <1>1 DEF FreshAt, TopicTypes
    <3> QED
      BY <3>2, <3>3
  <2>8. \A s \in Topics : s[2] = "book" => NoRestartSince(s)'
    BY <1>1, <1>2, <1>4, <2>1, SMTT(30) DEF NoRestartSince, TopicTypes
  <2>9. TopicTypes'
    BY <1>1, <1>4, <2>1, <2>6, ZenonT(40) DEF TopicTypes
  <2> QED
    BY <1>1, <2>1, <2>7, <2>8, <2>9 DEF TopicInv
<1>7. CASE verdict = "event"
  <2>1. /\ vouched' = [vouched EXCEPT ![t] = v] /\ cursor' = [cursor EXCEPT ![t] = key]
        /\ node' = [node EXCEPT ![t] = v] /\ UNCHANGED published
    BY <1>7 DEF Receive, VouchedAfter
  <2>2. \/ given' = [given EXCEPT ![t] = v] /\ UNCHANGED <<phase, result>>
        \/ UNCHANGED given /\ phase' = "ended" /\ result' = "backpressure"
    BY <1>7 DEF Receive
  <2>3. TopicTypes'
    <3>1. v <= published[t]
      BY <1>2
    <3> QED
      BY <1>1, <1>4, <1>5, <2>1, <2>2, <3>1, ZenonT(40) DEF TopicTypes
  <2>4. result' # "backpressure" => \A s \in Topics : FreshAt(s)'
    <3> SUFFICES ASSUME result' # "backpressure", NEW s \in Topics PROVE FreshAt(s)'
      OBVIOUS
    <3>1. FreshAt(s) /\ given' = [given EXCEPT ![t] = v]
      BY <1>1, <2>2
    <3>2. CASE s # t
      BY <2>1, <3>1, <3>2, <1>1 DEF FreshAt, TopicTypes
    <3>3. CASE s = t
      BY <1>4, <2>1, <3>1, <3>3, <1>1 DEF FreshAt, TopicTypes
    <3> QED
      BY <3>2, <3>3
  <2>5. \A s \in Topics : s[2] = "book" => NoRestartSince(s)'
    BY <1>1, <1>2, <1>4, <2>1, <2>2, SMTT(30) DEF NoRestartSince, TopicTypes
  <2>6. given'[t] # given[t] =>
            given'[t] > given[t] \/ (t[2] = "book" /\ BookHistory[given'[t]] = 1)
    <3> SUFFICES ASSUME given'[t] # given[t], ~(v > given[t])
                 PROVE  t[2] = "book" /\ BookHistory[v] = 1
      BY <1>1, <2>2 DEF TopicTypes
    <3>1. given[t] # 0 /\ given[t] \in 1..Len(History(t)) /\ v <= given[t]
      BY <1>2, <1>3, <1>4
    <3>2. cursor[t] = Key(t, given[t])
      BY <1>1, <3>1 DEF FreshAt
    <3>3. ASSUME t[2] = "kline" PROVE FALSE
      <4>1. /\ v \in 1..Len(KlineHistory) /\ given[t] \in 1..Len(KlineHistory)
            /\ key = KlineHistory[v] /\ cursor[t] = KlineHistory[given[t]]
        BY <1>4, <3>1, <3>2, <3>3, Histories
      <4> QED
        BY <1>7, <3>1, <3>3, <4>1, KlineVerdicts DEF Verdict
    <3>4. t[2] = "book"
      BY <3>3, Histories
    <3>5. \A w \in (v + 1)..given[t] : BookHistory[w] # 1
      BY <1>1, <1>2, <1>4, <3>4 DEF NoRestartSince
    <3>6. /\ v \in 1..Len(BookHistory) /\ given[t] \in 1..Len(BookHistory)
          /\ key = [update |-> BookHistory[v]]
          /\ cursor[t] = [update |-> BookHistory[given[t]]]
      BY <1>4, <3>1, <3>2, <3>3, Histories
    <3>7. verdict = BookVerdict([update |-> BookHistory[v]], [update |-> BookHistory[given[t]]])
      BY <3>3, <3>6 DEF Verdict
    <3> QED
      BY <1>7, <3>1, <3>4, <3>5, <3>6, <3>7, BookVerdicts
  <2> QED
    BY <1>1, <2>2, <2>3, <2>4, <2>5, <2>6 DEF TopicInv
<1> QED
  BY <1>6, <1>7

LEMMA StepTopics ==
    ASSUME TopicInv, [Next]_vars
    PROVE  TopicInv' /\ (\A t \in Topics : given'[t] # given[t] =>
                            given'[t] > given[t] \/ (t[2] = "book" /\ BookHistory[given'[t]] = 1))
<1> DEFINE News == \A t \in Topics : given'[t] # given[t] =>
                        given'[t] > given[t] \/ (t[2] = "book" /\ BookHistory[given'[t]] = 1)
<1>1. ASSUME NEW t \in Topics, Publish(t)
      PROVE  TopicInv' /\ News
  <2>1. /\ published' = [published EXCEPT ![t] = @ + 1] /\ published[t] < Len(History(t))
        /\ UNCHANGED <<phase, result, cursor, vouched, given, node>>
    BY <1>1 DEF Publish, client, protocol
  <2>2. Len(History(t)) \in Nat
    BY Histories
  <2>3. TopicTypes'
    BY <2>1, <2>2 DEF TopicInv, TopicTypes
  <2> QED
    BY <2>1, <2>3 DEF TopicInv, FreshAt, NoRestartSince
<1>2. CASE Connect
  <2>1. /\ UNCHANGED <<result, cursor, vouched, given, published>> /\ phase = "connecting"
        /\ node' \in [Topics -> 1..(Len(KlineHistory) + Len(BookHistory))]
        /\ \A t \in Topics : node'[t] <= published[t] /\ ~BehindRestart(t, node'[t])
    BY <1>2 DEF Connect, protocol
  <2>2. Len(KlineHistory) \in Nat /\ Len(BookHistory) \in Nat
    BY HistoryAssumption
  <2>3. TopicTypes'
    BY <2>1, <2>2 DEF TopicInv, TopicTypes
  <2>4. \A t \in Topics : t[2] = "book" => NoRestartSince(t)'
    <3> SUFFICES ASSUME NEW t \in Topics, t[2] = "book",
                        NEW w \in (node'[t] + 1)..given[t]
                 PROVE  BookHistory[w] # 1
      BY <2>1 DEF NoRestartSince
    <3>1. given[t] \in Nat /\ published[t] \in Nat /\ given[t] <= published[t] /\ node'[t] \in Nat
      BY <2>1, <2>2 DEF TopicInv, TopicTypes
    <3>2. w \in (node'[t] + 1)..published[t]
      BY <3>1
    <3> QED
      BY <2>1, <3>2 DEF BehindRestart
  <2> QED
    BY <2>1, <2>3, <2>4 DEF TopicInv, FreshAt
<1>3. ASSUME NEW t \in Topics, NEW v \in 1..published[t], Receive(t, v)
      PROVE  TopicInv' /\ News
  <2>1. \A s \in Topics \ {t} : given'[s] = given[s]
    BY <1>3 DEF Receive, TopicInv, TopicTypes
  <2> QED
    BY <1>3, <2>1, ReceiveTopics
<1>4. CASE /\ UNCHANGED <<cursor, vouched, given, published, node>>
           /\ \/ UNCHANGED <<phase, result>>
              \/ phase # "ended" /\ UNCHANGED result
              \/ phase # "ended" /\ phase' = "ended" /\ result' # "backpressure"
  BY <1>4 DEF TopicInv, TopicTypes, FreshAt, NoRestartSince
<1>5. ASSUME EndSession(session.delivered), phase # "ended"
      PROVE  (phase' = "ended" /\ result' # "backpressure") \/ result' = result
  BY <1>5 DEF EndSession
<1>6. CASE SessionFails \/ SubscriptionTimeout \/ HeartbeatTick
  BY <1>4, <1>5, <1>6
     DEF SessionFails, SubscriptionTimeout, HeartbeatTick, EndSession, protocol, exchange
<1>7. CASE Cancel \/ StartSession \/ SendSubscription \/ Subscribed \/ Pong \/ BackoffEnds
           \/ \E i \in Instruments : Take(i)
  BY <1>4, <1>7
     DEF Cancel, StartSession, SendSubscription, Subscribed, Pong, BackoffEnds, Take, client,
         protocol, exchange
<1>8. CASE SessionRejected \/ ShutdownSeen
  BY <1>4, <1>8 DEF SessionRejected, ShutdownSeen, WatchesShutdown, protocol, exchange
<1>9. CASE UNCHANGED vars
  BY <1>4, <1>9 DEF vars
<1> QED
  BY <1>1, <1>2, <1>3, <1>6, <1>7, <1>8, <1>9 DEF Next

\* Over all sessions and nodes, an actor's candles and books never go back: what is queued for a
\* topic was published after everything queued for it before, save the first book after a restart
\* of the book service, which ProtocolProcessor takes again when a node repeats it.
THEOREM OnlyNewsIsQueued == Spec => ActorSeesOnlyNews
<1>1. TopicInv /\ [Next]_vars => TopicInv'
  BY StepTopics
<1>2. TopicInv /\ [Next]_vars =>
         [\A t \in Topics :
             given'[t] # given[t] =>
                 \/ given'[t] > given[t]
                 \/ t[2] = "book" /\ BookHistory[given'[t]] = 1]_vars
  BY StepTopics
<1> QED
  BY <1>1, <1>2, InitTopics, PTL DEF Spec, ActorSeesOnlyNews

\* The freshness recorded before an event is routed never covers for data the actor was denied:
\* a topic counts as fresh for content that was queued, or that repeats the id of the book queued
\* last, until a full queue ends the client.
THEOREM FreshIsDelivered == Spec => []FreshMeansDelivered
<1>1. TopicInv /\ [Next]_vars => TopicInv'
  BY StepTopics
<1>2. TopicInv => FreshMeansDelivered
  BY DEF TopicInv, TopicTypes, FreshAt, FreshMeansDelivered
<1> QED
  BY <1>1, <1>2, InitTopics, PTL DEF Spec

(***************************************************************************)
(* The failures.  Their count is the sessions since the last that brought  *)
(* data, and one for that session itself.                                  *)
(***************************************************************************)
FailureInv ==
    /\ failures \in Nat /\ barren \in Nat
    /\ failures <= barren + 1
    /\ GivesUpOnlyWhenBarren
    /\ result # "none" => phase = "ended"

LEMMA InitFailures == Init => FailureInv
BY HistoryAssumption DEF Init, FailureInv, GivesUpOnlyWhenBarren

LEMMA FailureBound ==
    ASSUME NEW f \in Nat, NEW b \in Nat, NEW m \in Nat, f <= b + 1, m <= f
    PROVE  b >= m - 1
OBVIOUS

LEMMA StepFailures == FailureInv /\ [Next]_vars => FailureInv'
<1> SUFFICES ASSUME FailureInv, [Next]_vars PROVE FailureInv'
  OBVIOUS
<1>1. ASSUME EndSession(session.delivered), phase # "ended"
      PROVE  FailureInv'
  <2>1. result = "none" /\ MaxFailures \in Nat \ {0}
    BY <1>1, HistoryAssumption DEF FailureInv
  <2>2. failures' \in Nat /\ barren' \in Nat /\ failures' <= barren' + 1
    BY <1>1 DEF EndSession, FailuresAfter, FailureInv
  <2>3. \/ failures' >= MaxFailures /\ phase' = "ended"
        \/ result' = "none"
    BY <1>1, <2>1 DEF EndSession
  <2>4. ASSUME failures' >= MaxFailures PROVE barren' >= MaxFailures - 1
    BY <2>1, <2>2, <2>4, FailureBound
  <2>5. GivesUpOnlyWhenBarren'
    <3> SUFFICES ASSUME result' = "exhausted" PROVE barren' >= MaxFailures - 1
      BY DEF GivesUpOnlyWhenBarren
    <3>1. failures' >= MaxFailures
      BY <2>3
    <3> QED
      BY <2>4, <3>1
  <2> QED
    BY <2>2, <2>3, <2>5 DEF FailureInv
<1>2. CASE /\ UNCHANGED <<failures, barren>>
           /\ \/ UNCHANGED <<phase, result>>
              \/ phase # "ended" /\ UNCHANGED result
              \/ phase # "ended" /\ phase' = "ended" /\ result' # "exhausted"
  BY <1>2 DEF FailureInv, GivesUpOnlyWhenBarren
<1>3. CASE SessionFails \/ SubscriptionTimeout \/ HeartbeatTick
  BY <1>1, <1>2, <1>3 DEF SessionFails, SubscriptionTimeout, HeartbeatTick
<1>4. CASE \/ Cancel \/ StartSession \/ Connect \/ SendSubscription \/ Subscribed \/ Pong
           \/ BackoffEnds \/ (\E t \in Topics : Publish(t)) \/ (\E i \in Instruments : Take(i))
  BY <1>2, <1>4
     DEF Cancel, StartSession, Connect, SendSubscription, Subscribed, Pong, BackoffEnds, Publish,
         Take, client
<1>5. CASE SessionRejected \/ ShutdownSeen
  BY <1>2, <1>5 DEF SessionRejected, ShutdownSeen, WatchesShutdown
<1>6. ASSUME NEW t \in Topics, NEW v \in 1..published[t], Receive(t, v)
      PROVE  FailureInv'
  <2>1. /\ phase = "open" /\ UNCHANGED <<failures, barren>>
        /\ \/ UNCHANGED <<phase, result>>
           \/ phase' = "ended" /\ result' = "backpressure"
    BY <1>6 DEF Receive, client
  <2> QED
    BY <1>2, <2>1
<1>7. CASE UNCHANGED vars
  BY <1>2, <1>7 DEF vars
<1> QED
  BY <1>3, <1>4, <1>5, <1>6, <1>7 DEF Next

\* run gives up only when MAX_CONSECUTIVE_SESSION_FAILURES sessions failed since the last that
\* brought data, that one included; sessions with data before them do not count, however many.
THEOREM GivingUpIsEarned == Spec => []GivesUpOnlyWhenBarren
<1>1. FailureInv => GivesUpOnlyWhenBarren
  BY DEF FailureInv
<1> QED
  BY <1>1, InitFailures, StepFailures, PTL DEF Spec

(***************************************************************************)
(* The spacing of events.  Until the cooldown after an event is over, the  *)
(* engine keeps an entry of its instrument that runs at least as long.     *)
(***************************************************************************)
CooldownKept(e) ==
    \/ now >= e.at + Cooldown
    \/ e.instrument \in DOMAIN engine.cooldown /\ engine.cooldown[e.instrument] >= e.at + Cooldown

SpacedInv ==
    /\ now \in Nat /\ IsFiniteSet(events)
    /\ \A i \in DOMAIN engine.cooldown : engine.cooldown[i] \in Nat
    /\ \A e \in events : /\ e.at \in Nat /\ e.at <= now /\ CooldownKept(e)
                         /\ e.nr \in Nat /\ e.nr <= Cardinality(events)
    /\ EventsAreSpaced

LEMMA PolicyNumbers == Cooldown \in Nat \ {0} /\ EventTtl \in Nat \ {0}
BY PolicyAssumption DEF PolicyAssumption

LEMMA InitSpaced == ReplayInit => SpacedInv
BY LiveAssumption, FS_EmptySet DEF ReplayInit, SpacedInv, EventsAreSpaced, NewEngine

\* What an evaluation leaves of the cooldowns: an entry goes only when its time has come, and an
\* event is let through only when its instrument has none.
LEMMA CooldownsAfter ==
    ASSUME NEW e, NEW snapshot, NEW previous, NEW context, NEW t \in Nat,
           \A i \in DOMAIN e.cooldown : e.cooldown[i] \in Nat
    PROVE  LET outcome == Evaluate(e, snapshot, previous, context, t)
               after == outcome.engine.cooldown
           IN  /\ \A i \in DOMAIN after : after[i] \in Nat
               /\ \A i \in DOMAIN e.cooldown :
                     t < e.cooldown[i] => /\ i \in DOMAIN after /\ after[i] = e.cooldown[i]
                                          /\ outcome.verdict = "event" => i # snapshot.instrument
               /\ outcome.verdict = "event" =>
                     /\ snapshot.instrument \in DOMAIN after
                     /\ after[snapshot.instrument] = t + Cooldown
<1> DEFINE kept == Prune(e, t)
           event == EventId(snapshot, EventKinds(snapshot, previous, context))
           reasons == Rejections(kept, snapshot, event, context, t)
           i == snapshot.instrument
           outcome == Evaluate(e, snapshot, previous, context, t)
           set == With(kept.cooldown, i, t + Cooldown)
<1>1. kept.cooldown = Live(e.cooldown, t)
  BY DEF Prune
<1>2. /\ DOMAIN kept.cooldown = {k \in DOMAIN e.cooldown : t < e.cooldown[k]}
      /\ \A k \in DOMAIN kept.cooldown : kept.cooldown[k] = e.cooldown[k]
  BY <1>1 DEF Live, Without
<1>3. /\ DOMAIN set = DOMAIN kept.cooldown \cup {i} /\ set[i] = t + Cooldown
      /\ \A k \in DOMAIN kept.cooldown \ {i} : set[k] = kept.cooldown[k]
  BY DEF With
<1>4. \/ outcome.engine = kept /\ outcome.verdict # "event"
      \/ /\ outcome.engine.cooldown = set /\ outcome.verdict = "event" /\ reasons = {}
  BY DEF Evaluate
<1>5. reasons = {} => i \notin DOMAIN kept.cooldown
  <2> SUFFICES ASSUME i \in DOMAIN kept.cooldown PROVE "CooldownActive" \in reasons
    OBVIOUS
  <2> QED
    BY DEF Rejections
<1> HIDE DEF kept, event, reasons, i, outcome, set
<1>6. t + Cooldown \in Nat
  BY PolicyNumbers
<1>7. CASE outcome.engine = kept /\ outcome.verdict # "event"
  BY <1>2, <1>7 DEF i, outcome
<1>8. CASE outcome.engine.cooldown = set /\ outcome.verdict = "event" /\ reasons = {}
  <2>1. DOMAIN set = DOMAIN kept.cooldown \cup {i} /\ i \notin DOMAIN kept.cooldown
    BY <1>3, <1>5, <1>8
  <2>2. \A k \in DOMAIN kept.cooldown : k # i /\ set[k] = e.cooldown[k]
    BY <1>2, <1>3, <2>1
  <2>3. \A k \in DOMAIN set : set[k] \in Nat
    BY <1>2, <1>3, <1>6, <2>1, <2>2
  <2>4. \A k \in DOMAIN e.cooldown : t < e.cooldown[k] => /\ k \in DOMAIN set /\ k # i
                                                         /\ set[k] = e.cooldown[k]
    BY <1>2, <2>1, <2>2
  <2> QED
    BY <1>3, <1>8, <2>1, <2>3, <2>4 DEF i, outcome
<1> QED
  BY <1>4, <1>7, <1>8

LEMMA StepSpaced == SpacedInv /\ [ReplayNext]_replayVars => SpacedInv'
<1> SUFFICES ASSUME SpacedInv, [ReplayNext]_replayVars PROVE SpacedInv'
  OBVIOUS
<1>0. Cooldown \in Nat \ {0}
  BY PolicyNumbers
<1>1. CASE UNCHANGED live
  BY <1>1 DEF live, SpacedInv, CooldownKept, EventsAreSpaced
<1>2. CASE Tick
  BY <1>0, <1>2 DEF Tick, SpacedInv, CooldownKept, EventsAreSpaced
<1>3. ASSUME NEW s \in LiveSnapshots, NEW c \in Contexts, EvaluateLive(s, c)
      PROVE  SpacedInv'
  <2> DEFINE i == s.instrument
             outcome == Evaluate(engine, s, lastGiven[i], c, now)
             after == outcome.engine.cooldown
             new == [nr |-> Cardinality(events) + 1, instrument |-> i, at |-> now]
  <2>1. /\ engine' = outcome.engine /\ now' = now
        /\ events' = IF outcome.verdict = "event" THEN events \cup {new} ELSE events
    BY <1>3 DEF EvaluateLive
  <2>2. /\ now \in Nat /\ \A k \in DOMAIN engine.cooldown : engine.cooldown[k] \in Nat
        /\ \A e \in events : /\ e.at \in Nat /\ e.at <= now /\ CooldownKept(e)
                             /\ e.nr \in Nat /\ e.nr <= Cardinality(events)
        /\ EventsAreSpaced /\ IsFiniteSet(events) /\ Cardinality(events) \in Nat
    BY FS_CardinalityType DEF SpacedInv
  <2>3. /\ \A k \in DOMAIN after : after[k] \in Nat
        /\ \A k \in DOMAIN engine.cooldown :
              now < engine.cooldown[k] => /\ k \in DOMAIN after /\ after[k] = engine.cooldown[k]
                                          /\ outcome.verdict = "event" => k # i
        /\ outcome.verdict = "event" => i \in DOMAIN after /\ after[i] = now + Cooldown
    BY <2>2, CooldownsAfter
  <2> HIDE DEF outcome
  <2>4. ASSUME NEW e \in events
        PROVE  /\ e.at \in Nat /\ e.at <= now' /\ CooldownKept(e)'
               /\ outcome.verdict = "event" /\ e.instrument = i => now >= e.at + Cooldown
    <3>1. CASE now >= e.at + Cooldown
      BY <2>1, <2>2, <3>1 DEF CooldownKept
    <3>2. CASE ~(now >= e.at + Cooldown)
      <4>1. /\ e.instrument \in DOMAIN engine.cooldown
            /\ engine.cooldown[e.instrument] >= e.at + Cooldown
            /\ e.at \in Nat /\ e.at <= now
        BY <2>2, <3>2 DEF CooldownKept
      <4>2. now < engine.cooldown[e.instrument]
        BY <1>0, <2>2, <3>2, <4>1
      <4> QED
        BY <2>1, <2>3, <4>1, <4>2 DEF CooldownKept
    <3> QED
      BY <3>1, <3>2
  <2>5. CASE outcome.verdict = "event"
    <3>0. PICK last : last = new /\ events' = events \cup {last}
      BY <2>1, <2>5
    <3>1. /\ last.at = now /\ last.instrument = i /\ CooldownKept(last)'
          /\ last.nr = Cardinality(events) + 1 /\ last \notin events
      BY <1>0, <2>1, <2>2, <2>3, <2>5, <3>0 DEF CooldownKept
    <3> HIDE DEF new
    <3>2. EventsAreSpaced'
      <4> SUFFICES ASSUME NEW e \in events', NEW f \in events',
                          e.instrument = f.instrument, e.nr < f.nr
                   PROVE  f.at - e.at >= Cooldown
        BY DEF EventsAreSpaced
      <4>1. CASE e \in events /\ f \in events
        BY <2>2, <4>1 DEF EventsAreSpaced
      <4>2. CASE f = last
        <5>1. e # last
          BY <2>2, <3>1, <4>2
        <5>2. e \in events
          BY <3>0, <5>1
        <5> QED
          BY <1>0, <2>2, <2>4, <2>5, <3>1, <4>2, <5>2
      <4>3. CASE e = last /\ f \in events
        BY <2>2, <3>1, <4>3
      <4> QED
        BY <3>0, <4>1, <4>2, <4>3
    <3>3. IsFiniteSet(events') /\ Cardinality(events') = Cardinality(events) + 1
      BY <2>2, <3>0, <3>1, FS_AddElement
    <3>4. \A e \in events' : e.nr \in Nat /\ e.nr <= Cardinality(events')
      BY <2>2, <3>0, <3>1, <3>3
    <3>5. ASSUME NEW e \in events' PROVE e.at \in Nat /\ e.at <= now' /\ CooldownKept(e)'
      <4>1. CASE e \in events
        BY <2>4, <4>1
      <4>2. CASE e = last
        BY <2>1, <2>2, <3>1, <4>2
      <4> QED
        BY <3>0, <4>1, <4>2
    <3> QED
      BY <2>1, <2>2, <2>3, <3>2, <3>3, <3>4, <3>5 DEF SpacedInv
  <2>6. CASE outcome.verdict # "event"
    <3>1. EventsAreSpaced'
      BY <2>1, <2>2, <2>6 DEF EventsAreSpaced
    <3> QED
      BY <2>1, <2>2, <2>3, <2>4, <2>6, <3>1 DEF SpacedInv
  <2> QED
    BY <2>5, <2>6
<1> QED
  BY <1>1, <1>2, <1>3 DEF ReplayNext, ReplayStep, replayVars, live

\* For any snapshots, contexts, policy and bounds of the two maps, two events of an instrument are
\* at least the cooldown apart: pruning and the evaluations of other instruments never let an
\* entry of EligibilityEventEngine go before its time.
THEOREM CooldownIsKept == ReplaySpec => []EventsAreSpaced
<1>1. SpacedInv => EventsAreSpaced
  BY DEF SpacedInv
<1> QED
  BY <1>1, InitSpaced, StepSpaced, PTL DEF ReplaySpec

(***************************************************************************)
(* No look-ahead.  Series are sorted, so what is available at an instant   *)
(* is a prefix of the series, and of what is available at a later one.     *)
(***************************************************************************)
LEMMA Intervals == \A n \in Nat : IsFiniteSet(1..n) /\ Cardinality(1..n) = n
BY FS_Interval

LEMMA Segment ==
    ASSUME NEW n \in Nat, NEW S, S \subseteq 1..n, \A i \in S : i > 1 => i - 1 \in S
    PROVE  \E k \in 0..n : S = 1..k /\ Cardinality(S) = k
<1>1. SUFFICES \E k \in 0..n : S = 1..k
  <2>1. \A k \in 0..n : Cardinality(1..k) = k
    BY FS_Interval
  <2> QED
    BY <2>1
<1>2. CASE S = 1..n
  BY <1>2
<1>3. CASE S # 1..n
  <2> DEFINE R == (1..n) \ S
  <2>1. R \subseteq 1..n /\ R # {}
    BY <1>3
  <2> HIDE DEF R
  <2>2. PICK m \in R : \A j \in R : m <= j
    BY <2>1, LeastOf
  <2>3. m \in 1..n /\ m \notin S /\ \A i \in 1..n : i < m => i \in S
    BY <2>2 DEF R
  <2> DEFINE B == {i \in S : i > m}
  <2>4. ASSUME B # {} PROVE FALSE
    <3>1. B \subseteq 1..n
      OBVIOUS
    <3> HIDE DEF B
    <3>2. PICK b \in B : \A j \in B : b <= j
      BY <2>4, <3>1, LeastOf
    <3>3. b \in S /\ b > m /\ b \in 1..n
      BY <3>1, <3>2 DEF B
    <3>4. b - 1 \in S
      BY <2>3, <3>3
    <3>5. b - 1 # m
      BY <2>3, <3>4
    <3>6. b - 1 \in B
      BY <2>3, <3>3, <3>4, <3>5 DEF B
    <3> QED
      BY <3>2, <3>3, <3>6
  <2>6. \A i \in S : ~(i > m)
    BY <2>4
  <2>7. ASSUME NEW i \in S PROVE i \in 1..(m - 1)
    <3>1. i \in 1..n /\ i # m /\ ~(i > m) /\ m \in 1..n
      BY <2>3, <2>6
    <3> QED
      BY <3>1
  <2>8. ASSUME NEW i \in 1..(m - 1) PROVE i \in S
    <3>1. i \in 1..n /\ i < m
      BY <2>3
    <3> QED
      BY <2>3, <3>1
  <2>5. S = 1..(m - 1)
    BY <2>7, <2>8
  <2> QED
    BY <2>3, <2>5
<1> QED
  BY <1>2, <1>3

\* S is an initial part of the sequence s.
Starts(S, s) == S \subseteq DOMAIN s /\ \A i \in S : i > 1 => i - 1 \in S

LEMMA PrefixIs ==
    ASSUME NEW X, NEW s \in Seq(X), NEW S, Starts(S, s)
    PROVE  /\ Prefix(s, S) \in Seq(X) /\ DOMAIN Prefix(s, S) = S
           /\ \A i \in S : Prefix(s, S)[i] = s[i]
           /\ \E k \in 0..Len(s) : S = 1..k /\ Prefix(s, S) = SubSeq(s, 1, k)
<1>1. DOMAIN s = 1..Len(s) /\ Len(s) \in Nat
  OBVIOUS
<1>2. PICK k \in 0..Len(s) : S = 1..k /\ Cardinality(S) = k
  BY <1>1, Segment DEF Starts
<1>3. Prefix(s, S) = SubSeq(s, 1, k)
  BY <1>2 DEF Prefix
<1>4. /\ SubSeq(s, 1, k) \in Seq(X) /\ Len(SubSeq(s, 1, k)) = k
      /\ \A i \in 1..k : SubSeq(s, 1, k)[i] = s[i]
  BY <1>1
<1> DEFINE d == SubSeq(s, 1, k)
<1>5. d \in Seq(X) /\ Len(d) = k /\ k \in Nat
  BY <1>1, <1>4
<1> HIDE DEF d
<1>6. DOMAIN d = 1..k
  BY <1>5
<1> QED
  BY <1>2, <1>3, <1>4, <1>6 DEF d

LEMMA PrefixAgain ==
    ASSUME NEW X, NEW s \in Seq(X), NEW S, Starts(S, s), NEW T, Starts(T, s), S \subseteq T
    PROVE  Prefix(Prefix(s, T), S) = Prefix(s, S)
<1>1. PICK k \in 0..Len(s) : S = 1..k /\ Prefix(s, S) = SubSeq(s, 1, k)
  BY PrefixIs
<1>2. PICK m \in 0..Len(s) : T = 1..m /\ Prefix(s, T) = SubSeq(s, 1, m)
  BY PrefixIs
<1>3. Cardinality(S) = k /\ k \in Nat
  BY <1>1, FS_Interval
<1>4. k <= m
  BY <1>1, <1>2
<1>5. SubSeq(SubSeq(s, 1, m), 1, k) = SubSeq(s, 1, k)
  BY <1>2, <1>4
<1> QED
  BY <1>1, <1>2, <1>3, <1>5 DEF Prefix

\* The two kinds of series of an instrument.
LEMMA SeriesTypes ==
    /\ \A c \in Seq(ReplayCandles) : \A i \in DOMAIN c : c[i].at \in Nat
    /\ \A b \in Seq(ReplayBooks) : \A i \in DOMAIN b : b[i].observed \in Nat
<1>1. ASSUME NEW c \in Seq(ReplayCandles), NEW i \in DOMAIN c
      PROVE  c[i].at \in Nat
  <2>1. c[i] \in ReplayCandles
    OBVIOUS
  <2> QED
    BY <2>1 DEF ReplayCandles
<1>2. ASSUME NEW b \in Seq(ReplayBooks), NEW i \in DOMAIN b
      PROVE  b[i].observed \in Nat
  <2>1. b[i] \in ReplayBooks
    OBVIOUS
  <2> QED
    BY <2>1 DEF ReplayBooks
<1> QED
  BY <1>1, <1>2

LEMMA CandlesReady ==
    ASSUME NEW c \in Seq(ReplayCandles), NEW frame \in Nat \ {0}, Contiguous(c, frame),
           NEW x \in Nat
    PROVE  Starts({i \in DOMAIN c : CloseOf(c[i], frame) <= x}, c)
<1> SUFFICES ASSUME NEW i \in DOMAIN c, CloseOf(c[i], frame) <= x, i > 1
             PROVE  i - 1 \in DOMAIN c /\ CloseOf(c[i - 1], frame) <= x
  BY DEF Starts
<1>1. DOMAIN c = 1..Len(c) /\ Len(c) \in Nat
  OBVIOUS
<1>2. i - 1 \in 1..(Len(c) - 1) /\ i - 1 + 1 = i
  BY <1>1
<1>3. c[i].at = CloseOf(c[i - 1], frame)
  BY <1>2 DEF Contiguous
<1>4. c[i].at \in Nat
  BY SeriesTypes
<1> QED
  BY <1>1, <1>2, <1>3, <1>4 DEF CloseOf

LEMMA BooksReady ==
    ASSUME NEW b \in Seq(ReplayBooks), NEW x \in Nat,
           \A i \in 1..(Len(b) - 1) : b[i].observed < b[i + 1].observed
    PROVE  Starts({i \in DOMAIN b : b[i].observed <= x}, b)
<1> SUFFICES ASSUME NEW i \in DOMAIN b, b[i].observed <= x, i > 1
             PROVE  i - 1 \in DOMAIN b /\ b[i - 1].observed <= x
  BY DEF Starts
<1>1. DOMAIN b = 1..Len(b) /\ Len(b) \in Nat
  OBVIOUS
<1>2. i - 1 \in 1..(Len(b) - 1) /\ i - 1 + 1 = i /\ i - 1 \in DOMAIN b
  BY <1>1
<1>3. b[i - 1].observed < b[i].observed
  BY <1>2
<1>4. b[i].observed \in Nat /\ b[i - 1].observed \in Nat
  BY <1>2, SeriesTypes
<1> QED
  BY <1>2, <1>3, <1>4

\* What was available earlier is determined by what is available now.
LEMMA CandlesEarlier ==
    ASSUME NEW c \in Seq(ReplayCandles), NEW frame \in Nat \ {0}, Contiguous(c, frame),
           NEW x \in Nat, NEW y \in Nat, x <= y
    PROVE  AvailableCandles(c, frame, x) = AvailableCandles(AvailableCandles(c, frame, y), frame, x)
<1> DEFINE S == {i \in DOMAIN c : CloseOf(c[i], frame) <= x}
           T == {i \in DOMAIN c : CloseOf(c[i], frame) <= y}
           d == Prefix(c, T)
<1>1. Starts(S, c) /\ Starts(T, c)
  BY CandlesReady
<1>2. \A i \in DOMAIN c : CloseOf(c[i], frame) \in Nat
  BY SeriesTypes DEF CloseOf
<1>3. S \subseteq T
  BY <1>2
<1>7. \A i \in DOMAIN c : (i \in S <=> CloseOf(c[i], frame) <= x) /\ (i \in S => i \in T)
  BY <1>3
<1>8. T \subseteq DOMAIN c /\ S \subseteq DOMAIN c
  OBVIOUS
<1> HIDE DEF S, T
<1>4. DOMAIN d = T /\ \A i \in T : d[i] = c[i]
  BY <1>1, PrefixIs
<1>6. Prefix(d, S) = Prefix(c, S)
  BY <1>1, <1>3, PrefixAgain
<1> HIDE DEF d
<1>5. {i \in DOMAIN d : CloseOf(d[i], frame) <= x} = S
  BY <1>4, <1>7, <1>8
<1> QED
  BY <1>5, <1>6 DEF S, T, d, AvailableCandles

LEMMA BooksEarlier ==
    ASSUME NEW b \in Seq(ReplayBooks), NEW x \in Nat, NEW y \in Nat, x <= y,
           \A i \in 1..(Len(b) - 1) : b[i].observed < b[i + 1].observed
    PROVE  AvailableBooks(b, x) = AvailableBooks(AvailableBooks(b, y), x)
<1> DEFINE S == {i \in DOMAIN b : b[i].observed <= x}
           T == {i \in DOMAIN b : b[i].observed <= y}
           d == Prefix(b, T)
<1>1. Starts(S, b) /\ Starts(T, b)
  BY BooksReady
<1>2. \A i \in DOMAIN b : b[i].observed \in Nat
  BY SeriesTypes
<1>3. S \subseteq T
  BY <1>2
<1>7. \A i \in DOMAIN b : (i \in S <=> b[i].observed <= x) /\ (i \in S => i \in T)
  BY <1>3
<1>8. T \subseteq DOMAIN b /\ S \subseteq DOMAIN b
  OBVIOUS
<1> HIDE DEF S, T
<1>4. DOMAIN d = T /\ \A i \in T : d[i] = b[i]
  BY <1>1, PrefixIs
<1>6. Prefix(d, S) = Prefix(b, S)
  BY <1>1, <1>3, PrefixAgain
<1> HIDE DEF d
<1>5. {i \in DOMAIN d : d[i].observed <= x} = S
  BY <1>4, <1>7, <1>8
<1> QED
  BY <1>5, <1>6 DEF S, T, d, AvailableBooks

(***************************************************************************)
(* A run and its steps.                                                    *)
(***************************************************************************)
Run(status, data, start, at, end, turn, records, engines, previous) ==
    [status |-> status, data |-> data, start |-> start, at |-> at, end |-> end, turn |-> turn,
     records |-> records, engines |-> engines, previous |-> previous]

RunOf(q, a) ==
    /\ a = Run(a.status, q.data, q.manifest.start, a.at, q.manifest.end, a.turn, a.records,
               a.engines, a.previous)
    /\ a.at \in Nat /\ a.start <= a.at /\ a.turn \in 1..Len(q.data)
    /\ a.records \in Seq(Range(a.records))
    /\ \A k \in DOMAIN a.records : a.records[k].at \in Nat /\ a.start <= a.records[k].at
    /\ a.status \in {"refused", "failed"} => a.records = <<>>

SnapshotsOf(a) ==
    LET d == a.data[a.turn]
        books == AvailableBooks(d.books, a.at)
    IN IF books = <<>> THEN {}
       ELSE Snapshots(d.instrument, AvailableCandles(d.primary, Primary, a.at),
                      AvailableCandles(d.confirmation, Hour, a.at), Last(books), a.at)
Failing(a) == [a EXCEPT !.status = "failed", !.records = <<>>]
Moved(a, b) ==
    /\ a.status = "running"
    /\ \/ SnapshotsOf(a) = {} /\ b = Failing(a)
       \/ \E s \in SnapshotsOf(a) : b = Evaluated(a, s)

Evaluation(a, s) == Evaluate(a.engines[a.turn], s, a.previous[a.turn], Unlimited, a.at)
RecordOf(a, s) ==
    [at |-> a.at, instrument |-> a.data[a.turn].instrument, snapshot |-> s,
     verdict |-> Evaluation(a, s).verdict, reasons |-> Evaluation(a, s).reasons,
     kinds |-> EventKinds(s, a.previous[a.turn], Unlimited)]

LEMMA RunFields ==
    ASSUME NEW st, NEW d, NEW b, NEW x, NEW e, NEW u, NEW rs, NEW es, NEW ps, NEW v
    PROVE  LET r == Run(st, d, b, x, e, u, rs, es, ps)
           IN  /\ r.status = st /\ r.data = d /\ r.start = b /\ r.at = x /\ r.end = e /\ r.turn = u
               /\ r.records = rs /\ r.engines = es /\ r.previous = ps
               /\ [r EXCEPT !.status = v] = Run(v, d, b, x, e, u, rs, es, ps)
               /\ [r EXCEPT !.at = v] = Run(st, d, b, v, e, u, rs, es, ps)
               /\ [r EXCEPT !.turn = v] = Run(st, d, b, x, e, v, rs, es, ps)
               /\ [r EXCEPT !.records = v] = Run(st, d, b, x, e, u, v, es, ps)
               /\ [r EXCEPT !.engines = v] = Run(st, d, b, x, e, u, rs, v, ps)
               /\ [r EXCEPT !.previous = v] = Run(st, d, b, x, e, u, rs, es, v)
BY DEF Run

LEMMA FailingIs ==
    ASSUME NEW q, NEW a, RunOf(q, a)
    PROVE  Failing(a) = Run("failed", q.data, q.manifest.start, a.at, q.manifest.end, a.turn, <<>>,
                            a.engines, a.previous)
<1>1. a = Run(a.status, q.data, q.manifest.start, a.at, q.manifest.end, a.turn, a.records,
              a.engines, a.previous)
  BY DEF RunOf
<1>2. Failing(a) = [[a EXCEPT !.status = "failed"] EXCEPT !.records = <<>>]
  BY DEF Failing
<1>3. [a EXCEPT !.status = "failed"] =
          Run("failed", q.data, q.manifest.start, a.at, q.manifest.end, a.turn, a.records,
              a.engines, a.previous)
  BY <1>1, RunFields
<1>4. [Run("failed", q.data, q.manifest.start, a.at, q.manifest.end, a.turn, a.records,
           a.engines, a.previous) EXCEPT !.records = <<>>] =
          Run("failed", q.data, q.manifest.start, a.at, q.manifest.end, a.turn, <<>>,
              a.engines, a.previous)
  BY DEF Run
<1> QED
  BY <1>2, <1>3, <1>4

LEMMA EvaluatedIs ==
    ASSUME NEW q, NEW a, RunOf(q, a), NEW s
    PROVE  Evaluated(a, s) =
             LET engines == [a.engines EXCEPT ![a.turn] = Evaluation(a, s).engine]
                 previous == [a.previous EXCEPT ![a.turn] = {s}]
                 records == Append(a.records, RecordOf(a, s))
                 After(status, at, turn) ==
                     Run(status, q.data, q.manifest.start, at, q.manifest.end, turn, records,
                         engines, previous)
             IN IF a.turn < Len(q.data) THEN After(a.status, a.at, a.turn + 1)
                ELSE IF a.at = q.manifest.end THEN After("done", a.at, a.turn)
                ELSE After(a.status, a.at + Primary, 1)
<1> DEFINE R(status, at, turn, records, engines, previous) ==
               Run(status, q.data, q.manifest.start, at, q.manifest.end, turn, records, engines,
                   previous)
<1>1. a = R(a.status, a.at, a.turn, a.records, a.engines, a.previous)
  BY DEF RunOf
<1>2. ASSUME NEW st, NEW x, NEW u, NEW rs, NEW es, NEW ps, NEW v
      PROVE  LET r == R(st, x, u, rs, es, ps)
             IN  /\ r.status = st /\ r.data = q.data /\ r.at = x /\ r.turn = u /\ r.records = rs
                 /\ r.end = q.manifest.end /\ r.engines = es /\ r.previous = ps
                 /\ [r EXCEPT !.status = v] = R(v, x, u, rs, es, ps)
                 /\ [r EXCEPT !.at = v] = R(st, v, u, rs, es, ps)
                 /\ [r EXCEPT !.turn = v] = R(st, x, v, rs, es, ps)
                 /\ [r EXCEPT !.records = v] = R(st, x, u, v, es, ps)
                 /\ [r EXCEPT !.engines = v] = R(st, x, u, rs, v, ps)
                 /\ [r EXCEPT !.previous = v] = R(st, x, u, rs, es, v)
  BY DEF Run
<1> DEFINE en == Evaluation(a, s).engine
           rc == RecordOf(a, s)
           es == [a.engines EXCEPT ![a.turn] = en]
           ps == [a.previous EXCEPT ![a.turn] = {s}]
           rs == Append(a.records, rc)
           b == R(a.status, a.at, a.turn, rs, es, ps)
           c == [a EXCEPT !.engines[a.turn] = en, !.previous[a.turn] = {s},
                          !.records = Append(@, rc)]
<1>3. Evaluated(a, s) = Advanced(c)
  BY DEF Evaluated, Evaluation, RecordOf
<1>4. c = b
  <2> DEFINE b1 == [a EXCEPT !.engines = es]
             b2 == [b1 EXCEPT !.previous = ps]
  <2> HIDE DEF R, en, rc
  <2>1. c = [[[a EXCEPT !.engines[a.turn] = en] EXCEPT !.previous[a.turn] = {s}]
                EXCEPT !.records = Append(@, rc)]
    OBVIOUS
  <2>2. [a EXCEPT !.engines[a.turn] = en] = b1
    OBVIOUS
  <2> HIDE DEF es
  <2>3. b1 = R(a.status, a.at, a.turn, a.records, es, a.previous)
    BY <1>1, <1>2
  <2>4. b1.previous = a.previous
    BY <1>2, <2>3
  <2> HIDE DEF b1
  <2>5. [b1 EXCEPT !.previous[a.turn] = {s}] = [b1 EXCEPT !.previous = [@ EXCEPT ![a.turn] = {s}]]
    OBVIOUS
  <2>6. [b1 EXCEPT !.previous[a.turn] = {s}] = b2
    BY <2>4, <2>5
  <2> HIDE DEF ps
  <2>7. b2 = R(a.status, a.at, a.turn, a.records, es, ps)
    BY <1>2, <2>3
  <2>11. R(a.status, a.at, a.turn, a.records, es, ps).records = a.records
    BY <1>2
  <2>8. b2.records = a.records
    BY <2>7, <2>11
  <2> HIDE DEF b2, c, rs, b
  <2>9. c = [b2 EXCEPT !.records = Append(b2.records, rc)]
    BY <2>1, <2>2, <2>6
  <2>10. c = [b2 EXCEPT !.records = rs]
    BY <2>8, <2>9 DEF rs
  <2> QED
    BY <1>2, <2>7, <2>10 DEF b
<1> HIDE DEF R, es, ps, rs, en, rc, c
<1>5. /\ b.turn = a.turn /\ b.data = q.data /\ b.at = a.at /\ b.end = q.manifest.end
      /\ [b EXCEPT !.turn = a.turn + 1] = R(a.status, a.at, a.turn + 1, rs, es, ps)
      /\ [b EXCEPT !.status = "done"] = R("done", a.at, a.turn, rs, es, ps)
      /\ [b EXCEPT !.turn = 1] = R(a.status, a.at, 1, rs, es, ps)
  BY DEF R, Run
<1>10. [R(a.status, a.at, 1, rs, es, ps) EXCEPT !.at = a.at + Primary]
          = R(a.status, a.at + Primary, 1, rs, es, ps)
  BY DEF R, Run
<1>6. [[b EXCEPT !.turn = 1] EXCEPT !.at = a.at + Primary]
          = R(a.status, a.at + Primary, 1, rs, es, ps)
  BY <1>5, <1>10
<1>7. [b EXCEPT !.turn = 1].at = a.at
  BY <1>2, <1>5
<1> HIDE DEF b
<1>8. /\ [b EXCEPT !.turn = @ + 1] = [b EXCEPT !.turn = b.turn + 1]
      /\ [b EXCEPT !.turn = 1, !.at = @ + Primary]
             = [[b EXCEPT !.turn = 1] EXCEPT !.at = [b EXCEPT !.turn = 1].at + Primary]
  OBVIOUS
<1>9. Advanced(b) =
        IF a.turn < Len(q.data) THEN R(a.status, a.at, a.turn + 1, rs, es, ps)
        ELSE IF a.at = q.manifest.end THEN R("done", a.at, a.turn, rs, es, ps)
        ELSE R(a.status, a.at + Primary, 1, rs, es, ps)
  BY <1>5, <1>6, <1>7, <1>8 DEF Advanced
<1> QED
  BY <1>3, <1>4, <1>9 DEF es, ps, rs, en, rc, R

LEMMA Appended ==
    ASSUME NEW s, s \in Seq(Range(s)), NEW x
    PROVE  /\ Append(s, x) \in Seq(Range(Append(s, x)))
           /\ Len(s) \in Nat /\ DOMAIN s = 1..Len(s)
           /\ DOMAIN Append(s, x) = 1..(Len(s) + 1)
           /\ Append(s, x)[Len(s) + 1] = x
           /\ \A i \in 1..Len(s) : Append(s, x)[i] = s[i]
<1> DEFINE t == Append(s, x)
           S == Range(s) \cup {x}
<1>1. s \in Seq(S)
  <2> DEFINE Q == Range(s)
  <2> HIDE DEF Q
  <2>1. s \in Seq(Q) /\ Q \subseteq Q \cup {x}
    BY DEF Q
  <2>2. s \in Seq(Q \cup {x})
    BY <2>1
  <2> QED
    BY <2>2 DEF Q
<1>2. x \in S
  OBVIOUS
<1> HIDE DEF S
<1>3. /\ t \in Seq(S) /\ Len(t) = Len(s) + 1 /\ Len(s) \in Nat /\ DOMAIN s = 1..Len(s)
      /\ DOMAIN t = 1..(Len(s) + 1) /\ t[Len(s) + 1] = x /\ \A i \in 1..Len(s) : t[i] = s[i]
  BY <1>1, <1>2
<1>4. t \in Seq(Range(t))
  <2> HIDE DEF t
  <2>1. t = [i \in 1..Len(t) |-> t[i]] /\ Len(t) \in Nat /\ DOMAIN t = 1..Len(t)
    BY <1>3
  <2>2. \A i \in 1..Len(t) : t[i] \in Range(t)
    BY <2>1 DEF Range
  <2>3. t \in [1..Len(t) -> Range(t)]
    BY <2>1, <2>2
  <2> QED
    BY <2>1, <2>3
<1> QED
  BY <1>3, <1>4

\* A later record changes nothing of what was said up to an instant.
LEMMA AppendedUntil ==
    ASSUME NEW a, NEW b, NEW x, NEW y, a.records \in Seq(Range(a.records)),
           b.records = Append(a.records, x), y \in Nat, x.at \in Nat, x.at > y
    PROVE  Until(b, y) = Until(a, y)
<1> SUFFICES ASSUME NEW s, s = a.records, s \in Seq(Range(s)), b.records = Append(s, x)
             PROVE  Until(b, y) = Until(a, y)
  OBVIOUS
<1> DEFINE t == Append(s, x)
           n == Len(s)
           T == {i \in DOMAIN s : s[i].at <= y}
           U == {i \in DOMAIN t : t[i].at <= y}
<1>1. /\ n \in Nat /\ DOMAIN s = 1..n /\ DOMAIN t = 1..(n + 1)
      /\ t[n + 1] = x /\ \A i \in 1..n : t[i] = s[i]
  BY Appended
<1>2. n + 1 \notin U
  BY <1>1
<1>3. ASSUME NEW i \in 1..(n + 1), i # n + 1 PROVE i \in 1..n
  BY <1>1, <1>3
<1>4. U = T
  BY <1>1, <1>2, <1>3
<1>5. T \subseteq 1..n
  BY <1>1
<1>6. IsFiniteSet(1..n) /\ Cardinality(1..n) = n
  BY <1>1, Intervals
<1> DEFINE N == 1..n
<1> HIDE DEF N, T, U
<1>7. Cardinality(T) <= Cardinality(N) /\ IsFiniteSet(T)
  BY <1>5, <1>6, FS_Subset DEF N
<1>8. Cardinality(T) \in 0..n
  BY <1>1, <1>6, <1>7, FS_CardinalityType DEF N
<1>9. \A k \in 0..n : SubSeq(t, 1, k) = SubSeq(s, 1, k)
  <2> DEFINE S == Range(s) \cup Range(t)
  <2>1. t \in Seq(Range(t)) /\ s \in Seq(Range(s)) /\ Len(t) = n + 1
    BY <1>1, Appended
  <2> HIDE DEF t, n
  <2> TAKE k \in 0..n
  <2>2. /\ SubSeq(t, 1, k) \in Seq(Range(t)) /\ SubSeq(s, 1, k) \in Seq(Range(s))
        /\ Len(SubSeq(t, 1, k)) = k /\ Len(SubSeq(s, 1, k)) = k
        /\ \A i \in 1..k : SubSeq(t, 1, k)[i] = t[i] /\ SubSeq(s, 1, k)[i] = s[i]
    BY <1>1, <2>1 DEF n
  <2>3. \A i \in 1..k : t[i] = s[i]
    BY <1>1
  <2>4. /\ SubSeq(t, 1, k) = [i \in 1..k |-> SubSeq(t, 1, k)[i]]
        /\ SubSeq(s, 1, k) = [i \in 1..k |-> SubSeq(s, 1, k)[i]]
    BY <2>2
  <2> QED
    BY <2>2, <2>3, <2>4
<1> QED
  BY <1>4, <1>8, <1>9 DEF Until, Prefix, T, U

\* What a run said before an instant that it has passed stands.
Grows(a, b) ==
    /\ a.at <= b.at
    /\ b.status # "failed" => \A x \in Nat : x < a.at => Until(b, x) = Until(a, x)

GoodRequest(q) ==
    /\ ReplayDataset(q.data)
    /\ q.manifest.start \in Nat /\ q.manifest.end \in Nat
    /\ q.data \in Seq(Range(q.data))
    /\ \A i \in DOMAIN q.data :
          /\ q.data[i].primary \in Seq(ReplayCandles)
          /\ q.data[i].confirmation \in Seq(ReplayCandles)
          /\ q.data[i].books \in Seq(ReplayBooks)

LEMMA Periods == Primary \in Nat \ {0} /\ Hour \in Nat \ {0}
BY PeriodAssumption DEF PeriodAssumption

LEMMA StartedRun ==
    ASSUME NEW q, GoodRequest(q)
    PROVE  RunOf(q, Started(q))
<1> DEFINE st == IF q.manifest.data = q.data THEN "running" ELSE "refused"
           es == [i \in DOMAIN q.data |-> NewEngine]
           ps == [i \in DOMAIN q.data |-> {}]
           a == Run(st, q.data, q.manifest.start, q.manifest.start, q.manifest.end, 1, <<>>, es, ps)
<1>1. Started(q) = a
  BY DEF Started, Run
<1>2. Len(q.data) \in Nat /\ 1 \in 1..Len(q.data)
  BY DEF GoodRequest, ReplayDataset
<1> HIDE DEF st, es, ps
<1>3. /\ a.status = st /\ a.at = q.manifest.start /\ a.turn = 1 /\ a.records = <<>>
      /\ a.engines = es /\ a.previous = ps /\ a.start = q.manifest.start
  BY DEF Run
<1> HIDE DEF a
<1>4. a = Run(a.status, q.data, q.manifest.start, a.at, q.manifest.end, a.turn, a.records,
              a.engines, a.previous)
  BY <1>3 DEF a
<1>5. <<>> \in Seq(Range(<<>>)) /\ DOMAIN <<>> = {}
  OBVIOUS
<1> QED
  BY <1>1, <1>2, <1>3, <1>4, <1>5 DEF RunOf, GoodRequest

LEMMA MovedRun ==
    ASSUME NEW q, GoodRequest(q), NEW a, RunOf(q, a), NEW b, Moved(a, b)
    PROVE  RunOf(q, b) /\ Grows(a, b)
<1>1. /\ a.at \in Nat /\ a.start <= a.at /\ a.turn \in 1..Len(q.data)
      /\ a.records \in Seq(Range(a.records)) /\ a.start = q.manifest.start
      /\ \A k \in DOMAIN a.records : a.records[k].at \in Nat /\ a.start <= a.records[k].at
  BY RunFields DEF RunOf
<1>2. q.manifest.start \in Nat /\ Len(q.data) \in Nat /\ a.status = "running"
  BY DEF GoodRequest, Moved
<1>3. CASE b = Failing(a)
  <2>1. b = Run("failed", q.data, q.manifest.start, a.at, q.manifest.end, a.turn, <<>>,
                a.engines, a.previous)
    BY <1>3, FailingIs
  <2>2. /\ b.status = "failed" /\ b.at = a.at /\ b.start = q.manifest.start /\ b.turn = a.turn
        /\ b.records = <<>> /\ b.engines = a.engines /\ b.previous = a.previous
    BY <2>1, RunFields
  <2>3. <<>> \in Seq(Range(<<>>)) /\ DOMAIN <<>> = {}
    OBVIOUS
  <2>4. b = Run(b.status, q.data, q.manifest.start, b.at, q.manifest.end, b.turn, b.records,
                b.engines, b.previous)
    BY <2>1, <2>2
  <2>5. RunOf(q, b)
    BY <1>1, <2>2, <2>3, <2>4 DEF RunOf
  <2>6. Grows(a, b)
    BY <1>1, <2>2 DEF Grows
  <2> QED
    BY <2>5, <2>6
<1>4. ASSUME NEW s, b = Evaluated(a, s)
      PROVE  RunOf(q, b) /\ Grows(a, b)
  <2> DEFINE es == [a.engines EXCEPT ![a.turn] = Evaluation(a, s).engine]
             ps == [a.previous EXCEPT ![a.turn] = {s}]
             rc == RecordOf(a, s)
             rs == Append(a.records, rc)
  <2>1. PICK st, x, u :
           /\ b = Run(st, q.data, q.manifest.start, x, q.manifest.end, u, rs, es, ps)
           /\ st \in {"running", "done"} /\ x \in {a.at, a.at + Primary}
           /\ u \in {a.turn, 1} \/ (u = a.turn + 1 /\ a.turn < Len(q.data))
    BY <1>2, <1>4, EvaluatedIs
  <2>2. rc.at = a.at
    BY DEF RecordOf
  <2> HIDE DEF es, ps, rc
  <2>3. /\ rs \in Seq(Range(rs)) /\ Len(a.records) \in Nat
        /\ DOMAIN a.records = 1..Len(a.records) /\ DOMAIN rs = 1..(Len(a.records) + 1)
        /\ rs[Len(a.records) + 1] = rc
        /\ \A i \in 1..Len(a.records) : rs[i] = a.records[i]
    BY <1>1, Appended
  <2> HIDE DEF rs
  <2>5. /\ b.status = st /\ b.at = x /\ b.turn = u /\ b.records = rs /\ b.engines = es
        /\ b.previous = ps /\ b.start = q.manifest.start
    BY <2>1, RunFields
  <2>6. x \in Nat /\ a.at <= x /\ u \in 1..Len(q.data)
    BY <1>1, <1>2, <2>1, Periods
  <2>7. \A k \in DOMAIN rs : rs[k].at \in Nat /\ b.start <= rs[k].at
    <3> SUFFICES ASSUME NEW k \in DOMAIN rs PROVE rs[k].at \in Nat /\ b.start <= rs[k].at
      OBVIOUS
    <3>1. k \in 1..Len(a.records) \/ k = Len(a.records) + 1
      BY <2>3
    <3> QED
      BY <1>1, <2>2, <2>3, <2>5, <3>1
  <2>8. RunOf(q, b)
    BY <1>1, <1>2, <2>1, <2>3, <2>5, <2>6, <2>7 DEF RunOf
  <2>9. Grows(a, b)
    <3> SUFFICES ASSUME NEW y \in Nat, y < a.at PROVE Until(b, y) = Until(a, y)
      BY <2>5, <2>6 DEF Grows
    <3>1. rc.at \in Nat /\ rc.at > y
      BY <1>1, <2>2
    <3>2. b.records = Append(a.records, rc)
      BY <2>5 DEF rs
    <3>3. a.records \in Seq(Range(a.records))
      BY <1>1
    <3> QED
      BY <3>1, <3>2, <3>3, AppendedUntil, ZenonT(90)
  <2> QED
    BY <2>8, <2>9
<1> QED
  BY <1>3, <1>4 DEF Moved

(***************************************************************************)
(* Two runs over data that is the same up to an instant stay in step until *)
(* they have passed it.                                                    *)
(***************************************************************************)
LEMMA OneSnapshot ==
    ASSUME NEW a, NEW s \in SnapshotsOf(a), NEW t \in SnapshotsOf(a)
    PROVE  s = t
<1>1. \A w : \A x, y \in TimeframeFeatures(w) : x = y
  BY DEF TimeframeFeatures
<1>2. \A i, p, c, b, x : \A u, v \in Snapshots(i, p, c, b, x) : u = v
  BY <1>1, SMTT(30) DEF Snapshots
<1> QED
  BY <1>2 DEF SnapshotsOf

LEMMA SameSnapshots ==
    ASSUME NEW q, GoodRequest(q), NEW r, GoodRequest(r), NEW a, RunOf(q, a), NEW b, RunOf(r, b),
           NEW x \in Nat, SameUpto(a, b, x), a.at = b.at, a.turn = b.turn, a.at <= x
    PROVE  /\ SnapshotsOf(a) = SnapshotsOf(b)
           /\ a.data[a.turn].instrument = b.data[b.turn].instrument
<1> DEFINE d == a.data[a.turn]
           e == b.data[b.turn]
<1>1. /\ a.at \in Nat /\ a.turn \in 1..Len(q.data) /\ a.data = q.data /\ b.data = r.data
      /\ b.turn \in 1..Len(r.data)
  BY RunFields DEF RunOf
<1>2. a.turn \in DOMAIN q.data /\ b.turn \in DOMAIN r.data
  BY <1>1 DEF GoodRequest
<1>3. /\ d.primary \in Seq(ReplayCandles) /\ e.primary \in Seq(ReplayCandles)
      /\ d.confirmation \in Seq(ReplayCandles) /\ e.confirmation \in Seq(ReplayCandles)
      /\ d.books \in Seq(ReplayBooks) /\ e.books \in Seq(ReplayBooks)
  BY <1>1, <1>2 DEF GoodRequest
<1>4. ReplayInstrumentData(d) /\ ReplayInstrumentData(e)
  BY <1>1, <1>2 DEF GoodRequest, ReplayDataset
<1>5. d.instrument = e.instrument /\ Seen(d, x) = Seen(e, x)
  BY <1>1, <1>2 DEF SameUpto
<1> HIDE DEF d, e
<1>6. /\ AvailableCandles(d.primary, Primary, x) = AvailableCandles(e.primary, Primary, x)
      /\ AvailableCandles(d.confirmation, Hour, x) = AvailableCandles(e.confirmation, Hour, x)
      /\ AvailableBooks(d.books, x) = AvailableBooks(e.books, x)
  BY <1>5 DEF Seen, AvailableCandles, AvailableBooks
<1>7. /\ Contiguous(d.primary, Primary) /\ Contiguous(e.primary, Primary)
      /\ Contiguous(d.confirmation, Hour) /\ Contiguous(e.confirmation, Hour)
      /\ \A i \in 1..(Len(d.books) - 1) : d.books[i].observed < d.books[i + 1].observed
      /\ \A i \in 1..(Len(e.books) - 1) : e.books[i].observed < e.books[i + 1].observed
  BY <1>4 DEF ReplayInstrumentData
<1>8. AvailableCandles(d.primary, Primary, a.at) = AvailableCandles(e.primary, Primary, a.at)
  <2>1. \A c \in Seq(ReplayCandles) : Contiguous(c, Primary) =>
            AvailableCandles(c, Primary, a.at)
                = AvailableCandles(AvailableCandles(c, Primary, x), Primary, a.at)
    BY <1>1, Periods, CandlesEarlier
  <2> QED
    BY <1>3, <1>6, <1>7, <2>1
<1>9. AvailableCandles(d.confirmation, Hour, a.at) = AvailableCandles(e.confirmation, Hour, a.at)
  <2>1. \A c \in Seq(ReplayCandles) : Contiguous(c, Hour) =>
            AvailableCandles(c, Hour, a.at)
                = AvailableCandles(AvailableCandles(c, Hour, x), Hour, a.at)
    BY <1>1, Periods, CandlesEarlier
  <2> QED
    BY <1>3, <1>6, <1>7, <2>1
<1>10. AvailableBooks(d.books, a.at) = AvailableBooks(e.books, a.at)
  <2>1. \A s \in Seq(ReplayBooks) :
            (\A i \in 1..(Len(s) - 1) : s[i].observed < s[i + 1].observed)
                => AvailableBooks(s, a.at) = AvailableBooks(AvailableBooks(s, x), a.at)
    BY <1>1, BooksEarlier
  <2>2. AvailableBooks(d.books, a.at) = AvailableBooks(AvailableBooks(d.books, x), a.at)
    BY <1>3, <1>7, <2>1
  <2>3. AvailableBooks(e.books, a.at) = AvailableBooks(AvailableBooks(e.books, x), a.at)
    BY <1>3, <1>7, <2>1
  <2> QED
    BY <1>6, <2>2, <2>3
<1> QED
  BY <1>5, <1>8, <1>9, <1>10 DEF SnapshotsOf, d, e

InStep(a, b, x) ==
    /\ a.status = "running" /\ b.status = "running"
    /\ a.at = b.at /\ a.at <= x /\ a.turn = b.turn
    /\ a.records = b.records /\ a.engines = b.engines /\ a.previous = b.previous
BothFailed(a, b, x) ==
    a.status = "failed" /\ b.status = "failed" /\ a.at = b.at /\ a.at <= x
BothPassed(a, b, x) ==
    /\ Passed(a, x) /\ Passed(b, x)
    /\ "failed" \notin {a.status, b.status} => Until(a, x) = Until(b, x)
Agree(a, b, x) == InStep(a, b, x) \/ BothFailed(a, b, x) \/ BothPassed(a, b, x)

LEMMA PassedStep ==
    ASSUME NEW a, NEW b, NEW x \in Nat, a.at \in Nat, b.at \in Nat, Passed(a, x),
           a.status = "running", Grows(a, b)
    PROVE  Passed(b, x) /\ (b.status # "failed" => Until(b, x) = Until(a, x))
<1>1. x < a.at /\ a.at <= b.at
  BY DEF Passed, Grows
<1>2. b.at > x
  BY <1>1
<1> QED
  BY <1>1, <1>2 DEF Passed, Grows

LEMMA AgreeStep ==
    ASSUME NEW q, GoodRequest(q), NEW r, GoodRequest(r), NEW a, RunOf(q, a), NEW b, RunOf(r, b),
           NEW x \in Nat, SameUpto(a, b, x), Agree(a, b, x),
           NEW a2, Moved(a, a2), NEW b2, Moved(b, b2)
    PROVE  Agree(a2, b2, x)
<1>1. a.status = "running" /\ b.status = "running"
  BY DEF Moved
<1>2. RunOf(q, a2) /\ Grows(a, a2) /\ RunOf(r, b2) /\ Grows(b, b2)
  BY MovedRun
<1>3. a.at \in Nat /\ b.at \in Nat /\ a2.at \in Nat /\ b2.at \in Nat
  BY <1>2 DEF RunOf
<1>4. CASE BothPassed(a, b, x)
  <2>1. /\ Passed(a2, x) /\ (a2.status # "failed" => Until(a2, x) = Until(a, x))
        /\ Passed(b2, x) /\ (b2.status # "failed" => Until(b2, x) = Until(b, x))
    BY <1>1, <1>2, <1>3, <1>4, PassedStep DEF BothPassed
  <2>2. Until(a, x) = Until(b, x)
    BY <1>1, <1>4 DEF BothPassed
  <2> QED
    BY <2>1, <2>2 DEF Agree, BothPassed
<1>5. CASE InStep(a, b, x)
  <2>1. /\ a.at = b.at /\ a.at <= x /\ a.turn = b.turn /\ a.records = b.records
        /\ a.engines = b.engines /\ a.previous = b.previous
    BY <1>5 DEF InStep
  <2>2. /\ SnapshotsOf(a) = SnapshotsOf(b)
        /\ a.data[a.turn].instrument = b.data[b.turn].instrument
    BY <2>1, SameSnapshots
  <2>3. CASE SnapshotsOf(a) = {}
    <3>1. a2 = Failing(a) /\ b2 = Failing(b)
      BY <2>2, <2>3 DEF Moved
    <3>2. a2.status = "failed" /\ a2.at = a.at /\ b2.status = "failed" /\ b2.at = b.at
      BY <3>1, FailingIs, RunFields
    <3> QED
      BY <2>1, <3>2 DEF Agree, BothFailed
  <2>4. CASE SnapshotsOf(a) # {}
    <3>1. PICK s \in SnapshotsOf(a) : a2 = Evaluated(a, s)
      BY <2>4 DEF Moved
    <3>2. PICK t \in SnapshotsOf(b) : b2 = Evaluated(b, t)
      BY <2>2, <2>4 DEF Moved
    <3>3. s = t
      BY <2>2, OneSnapshot
    <3>4. Evaluation(a, s) = Evaluation(b, s) /\ RecordOf(a, s) = RecordOf(b, s)
      BY <2>1, <2>2 DEF Evaluation, RecordOf
    <3> DEFINE es == [a.engines EXCEPT ![a.turn] = Evaluation(a, s).engine]
               ps == [a.previous EXCEPT ![a.turn] = {s}]
               rs == Append(a.records, RecordOf(a, s))
               A(st, at, u) == Run(st, q.data, q.manifest.start, at, q.manifest.end, u, rs, es, ps)
               B(st, at, u) == Run(st, r.data, r.manifest.start, at, r.manifest.end, u, rs, es, ps)
    <3>5. a2 = IF a.turn < Len(q.data) THEN A(a.status, a.at, a.turn + 1)
               ELSE IF a.at = q.manifest.end THEN A("done", a.at, a.turn)
               ELSE A(a.status, a.at + Primary, 1)
      BY <3>1, EvaluatedIs
    <3>6. b2 = IF a.turn < Len(r.data) THEN B(a.status, a.at, a.turn + 1)
               ELSE IF a.at = r.manifest.end THEN B("done", a.at, a.turn)
               ELSE B(a.status, a.at + Primary, 1)
      BY <1>1, <2>1, <3>2, <3>3, <3>4, EvaluatedIs
    <3> HIDE DEF es, ps, rs
    <3>7. Len(q.data) = Len(r.data) /\ x <= q.manifest.end /\ x <= r.manifest.end
      <4>1. a.data = q.data /\ b.data = r.data /\ a.end = q.manifest.end /\ b.end = r.manifest.end
        BY RunFields DEF RunOf
      <4> QED
        BY <4>1 DEF SameUpto
    <3>8. q.manifest.end \in Nat /\ r.manifest.end \in Nat /\ Primary \in Nat \ {0}
      BY Periods DEF GoodRequest
    <3>9. ASSUME NEW st, NEW at, NEW u
          PROVE  /\ A(st, at, u).status = st /\ A(st, at, u).at = at /\ A(st, at, u).turn = u
                 /\ A(st, at, u).records = rs /\ A(st, at, u).engines = es
                 /\ A(st, at, u).previous = ps
                 /\ B(st, at, u).status = st /\ B(st, at, u).at = at /\ B(st, at, u).turn = u
                 /\ B(st, at, u).records = rs /\ B(st, at, u).engines = es
                 /\ B(st, at, u).previous = ps
      BY DEF Run
    <3> HIDE DEF A, B
    <3>10. a2.records = rs /\ b2.records = rs
      BY <3>5, <3>6, <3>9
    <3>11. Until(a2, x) = Until(b2, x)
      BY <3>10 DEF Until
    <3>12. CASE a.turn < Len(q.data)
      <4>1. a2 = A("running", a.at, a.turn + 1) /\ b2 = B("running", a.at, a.turn + 1)
        BY <1>1, <3>5, <3>6, <3>7, <3>12
      <4>2. InStep(a2, b2, x)
        BY <2>1, <3>9, <4>1 DEF InStep
      <4> QED
        BY <4>2 DEF Agree
    <3>13. CASE ~(a.turn < Len(q.data)) /\ a.at + Primary <= x
      <4>1. a.at # q.manifest.end /\ a.at # r.manifest.end
        BY <1>3, <3>7, <3>8, <3>13
      <4>2. a2 = A("running", a.at + Primary, 1) /\ b2 = B("running", a.at + Primary, 1)
        BY <1>1, <3>5, <3>6, <3>7, <3>13, <4>1
      <4>3. InStep(a2, b2, x)
        BY <3>9, <3>13, <4>2 DEF InStep
      <4> QED
        BY <4>3 DEF Agree
    <3>14. CASE ~(a.turn < Len(q.data)) /\ ~(a.at + Primary <= x)
      <4>1. a.at + Primary > x
        BY <1>3, <3>8, <3>14
      <4>2. a2 = A("done", a.at, a.turn) \/ a2 = A("running", a.at + Primary, 1)
        BY <1>1, <3>5, <3>14
      <4>3. b2 = B("done", a.at, a.turn) \/ b2 = B("running", a.at + Primary, 1)
        BY <1>1, <3>6, <3>7, <3>14
      <4>4. Passed(a2, x)
        BY <3>9, <4>1, <4>2 DEF Passed
      <4>5. Passed(b2, x)
        BY <3>9, <4>1, <4>3 DEF Passed
      <4> QED
        BY <3>11, <4>4, <4>5 DEF Agree, BothPassed
    <3> QED
      BY <3>12, <3>13, <3>14
  <2> QED
    BY <2>3, <2>4
<1>6. ~BothFailed(a, b, x)
  BY <1>1 DEF BothFailed
<1> QED
  BY <1>4, <1>5, <1>6 DEF Agree

(***************************************************************************)
(* How a run came to be where it is: the states since its start.           *)
(***************************************************************************)
IsTrace(q, n, tr) ==
    /\ tr[1] = Started(q)
    /\ \A k \in 1..n : RunOf(q, tr[k])
    /\ \A k \in 1..(n - 1) : Moved(tr[k], tr[k + 1])
    /\ \A j, k \in 1..n : j <= k => Grows(tr[j], tr[k])
HasTrace(q, a) == \E n \in Nat \ {0} : \E tr : IsTrace(q, n, tr) /\ tr[n] = a

LEMMA TraceStarts ==
    ASSUME NEW q, GoodRequest(q)
    PROVE  HasTrace(q, Started(q))
<1> DEFINE tr == [k \in 1..1 |-> Started(q)]
<1>1. RunOf(q, Started(q))
  BY StartedRun
<1>2. tr[1] = Started(q) /\ \A k \in 1..1 : k = 1 /\ tr[k] = Started(q)
  OBVIOUS
<1>3. Started(q).at \in Nat
  BY <1>1 DEF RunOf
<1>4. Grows(Started(q), Started(q))
  BY <1>3 DEF Grows
<1> HIDE DEF tr
<1>5. IsTrace(q, 1, tr)
  <2>1. 1..(1 - 1) = {}
    OBVIOUS
  <2> QED
    BY <1>1, <1>2, <1>4, <2>1 DEF IsTrace
<1> QED
  BY <1>2, <1>5 DEF HasTrace

LEMMA GrowsOn ==
    ASSUME NEW a, NEW b, NEW c, a.at \in Nat, b.at \in Nat, c.at \in Nat, b.status = "running",
           Grows(a, b), Grows(b, c)
    PROVE  Grows(a, c)
<1>1. a.at <= b.at /\ b.at <= c.at
  BY DEF Grows
<1>2. a.at <= c.at
  BY <1>1
<1>3. ASSUME c.status # "failed", NEW x \in Nat, x < a.at PROVE Until(c, x) = Until(a, x)
  <2>1. x < b.at
    BY <1>1, <1>3
  <2>2. Until(b, x) = Until(a, x) /\ Until(c, x) = Until(b, x)
    BY <1>3, <2>1 DEF Grows
  <2> QED
    BY <2>2
<1> QED
  BY <1>2, <1>3 DEF Grows

LEMMA TraceGrows ==
    ASSUME NEW q, GoodRequest(q), NEW a, HasTrace(q, a), NEW b, Moved(a, b)
    PROVE  HasTrace(q, b)
<1>1a. PICK n \in Nat \ {0} : \E tr : IsTrace(q, n, tr) /\ tr[n] = a
  BY DEF HasTrace
<1>1. PICK tr : IsTrace(q, n, tr) /\ tr[n] = a
  BY <1>1a
<1> DEFINE m == n + 1
           ts == [k \in 1..m |-> IF k = m THEN b ELSE tr[k]]
<1>2. RunOf(q, a)
  BY <1>1 DEF IsTrace
<1>3. RunOf(q, b) /\ Grows(a, b)
  BY <1>2, MovedRun
<1>4. /\ m \in Nat \ {0} /\ ts[m] = b /\ \A k \in 1..n : ts[k] = tr[k] /\ k \in 1..m
      /\ \A k \in 1..m : k \in 1..n \/ k = m
  OBVIOUS
<1> HIDE DEF ts
<1>5. \A k \in 1..m : RunOf(q, ts[k])
  BY <1>1, <1>3, <1>4 DEF IsTrace
<1>6. \A k \in 1..(m - 1) : Moved(ts[k], ts[k + 1])
  <2> SUFFICES ASSUME NEW k \in 1..n PROVE Moved(ts[k], ts[k + 1])
    OBVIOUS
  <2>1. CASE k = n
    BY <1>1, <1>4, <2>1
  <2>2. CASE k # n
    <3>1. k \in 1..(n - 1) /\ k + 1 \in 1..n
      BY <2>2
    <3> QED
      BY <1>1, <1>4, <3>1 DEF IsTrace
  <2> QED
    BY <2>1, <2>2
<1>7. Grows(b, b)
  BY <1>3 DEF Grows, RunOf
<1>8. \A k \in 1..n : Grows(tr[k], b)
  <2> TAKE k \in 1..n
  <2>1. k <= n /\ n \in 1..n
    OBVIOUS
  <2>2. Grows(tr[k], a) /\ RunOf(q, tr[k])
    BY <1>1, <2>1 DEF IsTrace
  <2>3. tr[k].at \in Nat /\ a.at \in Nat /\ b.at \in Nat
    BY <1>2, <1>3, <2>2 DEF RunOf
  <2>4. a.status = "running"
    BY DEF Moved
  <2> QED
    BY <1>3, <2>2, <2>3, <2>4, GrowsOn
<1>9. \A j, k \in 1..m : j <= k => Grows(ts[j], ts[k])
  <2> SUFFICES ASSUME NEW j \in 1..m, NEW k \in 1..m, j <= k PROVE Grows(ts[j], ts[k])
    OBVIOUS
  <2>1. CASE k = m
    BY <1>4, <1>7, <1>8, <2>1
  <2>2. CASE k # m
    <3>1. j \in 1..n /\ k \in 1..n
      BY <2>2
    <3>2. Grows(tr[j], tr[k])
      BY <1>1, <3>1 DEF IsTrace
    <3> QED
      BY <1>4, <3>1, <3>2
  <2> QED
    BY <2>1, <2>2
<1>10. ts[1] = Started(q)
  BY <1>1, <1>4 DEF IsTrace
<1>11. IsTrace(q, m, ts)
  BY <1>5, <1>6, <1>9, <1>10 DEF IsTrace
<1> QED
  BY <1>4, <1>11 DEF HasTrace

\* Two runs of the same beginning, step by step.
LEMMA StartTogether ==
    ASSUME NEW q, GoodRequest(q), NEW r, GoodRequest(r), NEW x \in Nat,
           SameUpto(Started(q), Started(r), x), Started(q).at <= x,
           Started(q).status = "running", Started(r).status = "running"
    PROVE  InStep(Started(q), Started(r), x)
<1>1. /\ Started(q).start = Started(q).at /\ Started(r).start = Started(r).at
      /\ Started(q).data = q.data /\ Started(r).data = r.data
      /\ Started(q).turn = 1 /\ Started(r).turn = 1
      /\ Started(q).records = <<>> /\ Started(r).records = <<>>
      /\ Started(q).engines = [i \in DOMAIN q.data |-> NewEngine]
      /\ Started(r).engines = [i \in DOMAIN r.data |-> NewEngine]
      /\ Started(q).previous = [i \in DOMAIN q.data |-> {}]
      /\ Started(r).previous = [i \in DOMAIN r.data |-> {}]
  BY DEF Started
<1>2. Len(q.data) = Len(r.data) /\ Started(q).at = Started(r).at
  BY <1>1 DEF SameUpto
<1>3. DOMAIN q.data = DOMAIN r.data
  BY <1>2 DEF GoodRequest
<1> QED
  BY <1>1, <1>2, <1>3 DEF InStep

LEMMA SameAlong ==
    ASSUME NEW q, NEW r, NEW a, RunOf(q, a), NEW b, RunOf(r, b), NEW c, RunOf(q, c), NEW d,
           RunOf(r, d), NEW x, SameUpto(a, b, x)
    PROVE  SameUpto(c, d, x)
<1>1. /\ a.start = c.start /\ a.end = c.end /\ a.data = c.data
      /\ b.start = d.start /\ b.end = d.end /\ b.data = d.data
  <2>1. \A u, z : RunOf(u, z) =>
            /\ z.start = u.manifest.start /\ z.end = u.manifest.end /\ z.data = u.data
    <3> SUFFICES ASSUME NEW u, NEW z, RunOf(u, z)
                 PROVE  z.start = u.manifest.start /\ z.end = u.manifest.end /\ z.data = u.data
      OBVIOUS
    <3>1. PICK st, y, w, rs, es, ps : z = Run(st, u.data, u.manifest.start, y, u.manifest.end, w,
                                              rs, es, ps)
      BY DEF RunOf
    <3> QED
      BY <3>1, RunFields
  <2> QED
    BY <2>1
<1> QED
  BY <1>1 DEF SameUpto

LEMMA Together ==
    ASSUME NEW q, GoodRequest(q), NEW r, GoodRequest(r), NEW n \in Nat \ {0}, NEW m \in Nat \ {0},
           NEW s, IsTrace(q, n, s), NEW t, IsTrace(r, m, t),
           NEW x \in Nat, SameUpto(s[1], t[1], x), s[1].at <= x,
           s[1].status = "running", t[1].status = "running"
    PROVE  \A k \in 1..n : k <= m => Agree(s[k], t[k], x)
<1> DEFINE B == {k \in 1..n : k <= m /\ ~Agree(s[k], t[k], x)}
<1>1. B \subseteq 1..n
  OBVIOUS
<1>2. SUFFICES ASSUME B # {} PROVE FALSE
  OBVIOUS
<1> HIDE DEF B
<1>3. PICK k \in B : \A j \in B : k <= j
  BY <1>1, <1>2, LeastOf
<1>4. k \in 1..n /\ k <= m /\ ~Agree(s[k], t[k], x)
  BY DEF B
<1>5. s[1] = Started(q) /\ t[1] = Started(r)
  BY DEF IsTrace
<1>6. Agree(s[1], t[1], x)
  BY <1>5, StartTogether DEF Agree
<1>7. k # 1
  BY <1>4, <1>6
<1> DEFINE j == k - 1
<1>8. j \in 1..n /\ j \in 1..m /\ j \in 1..(n - 1) /\ j \in 1..(m - 1) /\ j < k /\ j + 1 = k
      /\ j <= m /\ 1 \in 1..n /\ 1 \in 1..m /\ k \in 1..m
  BY <1>4, <1>7
<1> HIDE DEF j
<1>9. Agree(s[j], t[j], x)
  BY <1>3, <1>4, <1>8 DEF B
<1>10. /\ RunOf(q, s[j]) /\ RunOf(r, t[j]) /\ RunOf(q, s[1]) /\ RunOf(r, t[1])
       /\ Moved(s[j], s[k]) /\ Moved(t[j], t[k])
  BY <1>8 DEF IsTrace
<1>11. SameUpto(s[j], t[j], x)
  BY <1>10, SameAlong
<1> QED
  BY <1>4, <1>9, <1>10, <1>11, AgreeStep

\* What two runs that both reach an instant say up to it.
SayTheSame(a, b, x) ==
    /\ ~FailedBy(b, x)
    /\ Passed(b, x) /\ "failed" \notin {a.status, b.status} => Until(a, x) = Until(b, x)

\* A run that made a record was not refused, and started no later than the record.
LEMMA RecordedRun ==
    ASSUME NEW q, GoodRequest(q), NEW n \in Nat \ {0}, NEW s, IsTrace(q, n, s),
           NEW k \in DOMAIN s[n].records
    PROVE  /\ s[1].status = "running" /\ s[1].at <= s[n].records[k].at
           /\ s[n].records[k].at \in Nat /\ s[n].status \notin {"failed", "refused"}
<1>1. 1 \in 1..n /\ n \in 1..n
  OBVIOUS
<1>2. RunOf(q, s[1]) /\ RunOf(q, s[n]) /\ s[1] = Started(q)
  BY <1>1 DEF IsTrace
<1>3. s[1].at = q.manifest.start /\ s[n].start = q.manifest.start
  <2>1. s[1].at = q.manifest.start
    BY <1>2 DEF Started
  <2>2. s[n].start = q.manifest.start
    BY <1>2, RunFields DEF RunOf
  <2> QED
    BY <2>1, <2>2
<1>4. s[n].records[k].at \in Nat /\ s[1].at <= s[n].records[k].at
  BY <1>2, <1>3 DEF RunOf
<1>5. s[n].status \notin {"failed", "refused"}
  <2>1. s[n].records # <<>>
    OBVIOUS
  <2> QED
    BY <1>2, <2>1 DEF RunOf
<1>6. s[1].status \in {"running", "refused"}
  BY <1>2 DEF Started
<1>7. s[1].status = "running"
  <2>1. CASE n = 1
    BY <1>5, <1>6, <2>1
  <2>2. CASE n # 1
    <3>1. 1 \in 1..(n - 1)
      BY <2>2
    <3> QED
      BY <3>1 DEF IsTrace, Moved
  <2> QED
    BY <2>1, <2>2
<1> QED
  BY <1>4, <1>5, <1>7

LEMMA BothReach ==
    ASSUME NEW q, GoodRequest(q), NEW r, GoodRequest(r), NEW n \in Nat \ {0}, NEW m \in Nat \ {0},
           NEW s, IsTrace(q, n, s), NEW t, IsTrace(r, m, t),
           NEW x \in Nat, SameUpto(s[n], t[m], x), Passed(s[n], x), s[1].at <= x,
           s[1].status = "running", s[n].status # "failed"
    PROVE  SayTheSame(s[n], t[m], x)
<1>1. 1 \in 1..n /\ n \in 1..n /\ 1 \in 1..m /\ m \in 1..m
  OBVIOUS
<1>2. /\ RunOf(q, s[1]) /\ RunOf(q, s[n]) /\ RunOf(r, t[1]) /\ RunOf(r, t[m])
      /\ s[1] = Started(q) /\ t[1] = Started(r)
  BY <1>1 DEF IsTrace
<1>3. SameUpto(s[1], t[1], x)
  BY <1>2, SameAlong
<1>4. t[1].at = s[1].at
  BY <1>2, <1>3 DEF Started, SameUpto
<1>5. s[n].at \in Nat /\ t[m].at \in Nat
  BY <1>2 DEF RunOf
<1>6. t[1].status \in {"running", "refused"}
  BY <1>2 DEF Started
<1>7. CASE t[1].status = "refused"
  <2>1. m = 1
    <3>1. m # 1 => 1 \in 1..(m - 1)
      OBVIOUS
    <3> QED
      BY <1>7, <3>1 DEF IsTrace, Moved
  <2>2. ~(t[m].at > x)
    BY <1>4, <1>5, <2>1
  <2> QED
    BY <1>7, <2>1, <2>2 DEF SayTheSame, FailedBy, Passed
<1>8. CASE t[1].status = "running"
  <2>1. \A k \in 1..n : k <= m => Agree(s[k], t[k], x)
    BY <1>3, <1>8, Together
  <2>2. CASE n <= m
    <3>1. Agree(s[n], t[n], x) /\ n \in 1..m /\ m \in 1..m /\ n <= m
      BY <1>1, <2>1, <2>2
    <3>2. BothPassed(s[n], t[n], x)
      <4>1. ~InStep(s[n], t[n], x)
        BY <1>5 DEF InStep, Passed
      <4>2. ~BothFailed(s[n], t[n], x)
        BY DEF BothFailed
      <4> QED
        BY <3>1, <4>1, <4>2 DEF Agree
    <3>3. CASE n = m
      <4>1. ~FailedBy(t[m], x)
        BY <1>5, <3>2, <3>3 DEF FailedBy, BothPassed, Passed
      <4> QED
        BY <3>2, <3>3, <4>1 DEF SayTheSame, BothPassed
    <3>4. CASE n # m
      <4>1. n \in 1..(m - 1)
        BY <2>2, <3>4
      <4>2. t[n].status = "running" /\ RunOf(r, t[n]) /\ Grows(t[n], t[m])
        BY <3>1, <4>1 DEF IsTrace, Moved
      <4>3. t[n].at \in Nat /\ Passed(t[n], x)
        BY <3>2, <4>2 DEF RunOf, BothPassed
      <4>4. t[n].at > x /\ t[n].at <= t[m].at
        BY <4>2, <4>3 DEF Passed, Grows
      <4>5. ~(t[m].at <= x)
        BY <1>5, <4>3, <4>4
      <4>6. Until(s[n], x) = Until(t[n], x)
        BY <3>2, <4>2 DEF BothPassed
      <4>7. t[m].status # "failed" => Until(t[m], x) = Until(t[n], x)
        BY <1>5, <4>2, <4>3, PassedStep
      <4> QED
        BY <4>5, <4>6, <4>7 DEF SayTheSame, FailedBy
    <3> QED
      BY <3>3, <3>4
  <2>3. CASE m < n
    <3>1. m \in 1..n /\ m \in 1..(n - 1) /\ m <= n
      BY <2>3
    <3>2. Agree(s[m], t[m], x)
      BY <2>1, <3>1
    <3>3. s[m].status = "running" /\ RunOf(q, s[m]) /\ Grows(s[m], s[n])
      BY <1>1, <3>1 DEF IsTrace, Moved
    <3>4. CASE InStep(s[m], t[m], x)
      <4>1. t[m].status = "running" /\ t[m].at <= x
        BY <3>4 DEF InStep
      <4>2. ~Passed(t[m], x)
        BY <1>5, <4>1 DEF Passed
      <4> QED
        BY <4>1, <4>2 DEF SayTheSame, FailedBy
    <3>5. CASE BothPassed(s[m], t[m], x)
      <4>1. s[m].at \in Nat
        BY <3>3 DEF RunOf
      <4>2. Until(s[n], x) = Until(s[m], x)
        BY <1>5, <3>3, <3>5, <4>1, PassedStep DEF BothPassed
      <4>3. ~FailedBy(t[m], x)
        BY <1>5, <3>5 DEF FailedBy, BothPassed, Passed
      <4>4. t[m].status # "failed" => Until(s[m], x) = Until(t[m], x)
        BY <3>3, <3>5 DEF BothPassed
      <4> QED
        BY <4>2, <4>3, <4>4 DEF SayTheSame
    <3>6. ~BothFailed(s[m], t[m], x)
      BY <3>3 DEF BothFailed
    <3> QED
      BY <3>2, <3>4, <3>5, <3>6 DEF Agree
  <2> QED
    BY <2>2, <2>3
<1> QED
  BY <1>6, <1>7, <1>8

TraceInv == \A id \in DOMAIN runs : GoodRequest(id) /\ HasTrace(id, runs[id])

LEMMA TracesStart == ReplayInit => TraceInv
<1> SUFFICES ASSUME ReplayInit, NEW id \in DOMAIN runs
             PROVE  GoodRequest(id) /\ HasTrace(id, runs[id])
  BY DEF TraceInv
<1>1. PICK requests \in Requests :
         /\ \A q \in requests : ReplayManifest(q.manifest) /\ ReplayDataset(q.data)
         /\ runs = [q \in requests |-> Started(q)]
  BY DEF ReplayInit
<1>2. id \in requests /\ runs[id] = Started(id) /\ ReplayDataset(id.data)
  BY <1>1
<1>3. GoodRequest(id)
  BY <1>2, RequestAssumption DEF RequestAssumption, GoodRequest
<1> QED
  BY <1>2, <1>3, TraceStarts

\* A step moves one run or none.
LEMMA ReplaySteps ==
    ASSUME [ReplayNext]_replayVars, runs' # runs
    PROVE  \E id \in DOMAIN runs : \E b : Moved(runs[id], b) /\ runs' = [runs EXCEPT ![id] = b]
<1>1. PICK id \in DOMAIN runs : ReplayStep(id)
  BY SMTT(30) DEF ReplayNext, Tick, EvaluateLive, replayVars
<1>2. /\ runs[id].status = "running"
      /\ \/ /\ SnapshotsOf(runs[id]) = {}
            /\ runs' = [runs EXCEPT ![id].status = "failed", ![id].records = <<>>]
         \/ \E s \in SnapshotsOf(runs[id]) : runs' = [runs EXCEPT ![id] = Evaluated(runs[id], s)]
  BY <1>1 DEF ReplayStep, SnapshotsOf
<1>3. CASE \E s \in SnapshotsOf(runs[id]) : runs' = [runs EXCEPT ![id] = Evaluated(runs[id], s)]
  BY <1>2, <1>3 DEF Moved
<1>4. CASE /\ SnapshotsOf(runs[id]) = {}
           /\ runs' = [runs EXCEPT ![id].status = "failed", ![id].records = <<>>]
  <2>1. [runs EXCEPT ![id].status = "failed", ![id].records = <<>>]
           = [runs EXCEPT ![id] = Failing(runs[id])]
    BY DEF Failing
  <2> QED
    BY <1>2, <1>4, <2>1 DEF Moved
<1> QED
  BY <1>2, <1>3, <1>4

LEMMA TracesGrow == TraceInv /\ [ReplayNext]_replayVars => TraceInv'
<1> SUFFICES ASSUME TraceInv, [ReplayNext]_replayVars PROVE TraceInv'
  OBVIOUS
<1>1. CASE runs' = runs
  BY <1>1 DEF TraceInv
<1>2. CASE runs' # runs
  <2>1. PICK id \in DOMAIN runs : \E b : Moved(runs[id], b) /\ runs' = [runs EXCEPT ![id] = b]
    BY <1>2, ReplaySteps
  <2>2. PICK b : Moved(runs[id], b) /\ runs' = [runs EXCEPT ![id] = b]
    BY <2>1
  <2>3. GoodRequest(id) /\ HasTrace(id, runs[id])
    BY DEF TraceInv
  <2>4. /\ DOMAIN runs' = DOMAIN runs /\ runs'[id] = b
        /\ \A j \in DOMAIN runs : j # id => runs'[j] = runs[j]
    BY <2>2
  <2>5. HasTrace(id, b)
    BY <2>2, <2>3, TraceGrows
  <2> QED
    BY <2>4, <2>5 DEF TraceInv
<1> QED
  BY <1>1, <1>2

LEMMA TracesTell == TraceInv => NoLookAhead
<1> SUFFICES ASSUME TraceInv, NEW p \in DOMAIN runs, NEW q \in DOMAIN runs,
                    NEW k \in DOMAIN runs[p].records,
                    SameUpto(runs[p], runs[q], runs[p].records[k].at),
                    Passed(runs[p], runs[p].records[k].at)
             PROVE  SayTheSame(runs[p], runs[q], runs[p].records[k].at)
  BY DEF NoLookAhead, SayTheSame, Range
<1>1. GoodRequest(p) /\ GoodRequest(q) /\ HasTrace(p, runs[p]) /\ HasTrace(q, runs[q])
  BY DEF TraceInv
<1>2a. PICK n \in Nat \ {0} : \E s : IsTrace(p, n, s) /\ s[n] = runs[p]
  BY <1>1 DEF HasTrace
<1>2. PICK s : IsTrace(p, n, s) /\ s[n] = runs[p]
  BY <1>2a
<1>3a. PICK m \in Nat \ {0} : \E t : IsTrace(q, m, t) /\ t[m] = runs[q]
  BY <1>1 DEF HasTrace
<1>3. PICK t : IsTrace(q, m, t) /\ t[m] = runs[q]
  BY <1>3a
<1>4. k \in DOMAIN s[n].records
  BY <1>2
<1>5. /\ s[1].status = "running" /\ s[1].at <= s[n].records[k].at
      /\ s[n].records[k].at \in Nat /\ s[n].status \notin {"failed", "refused"}
  BY <1>1, <1>2, <1>4, RecordedRun
<1> DEFINE x == s[n].records[k].at
<1>6. SameUpto(s[n], t[m], x) /\ Passed(s[n], x)
  BY <1>2, <1>3
<1>7. x \in Nat /\ s[1].at <= x /\ s[n].status # "failed"
  BY <1>5
<1> HIDE DEF x
<1>8. SayTheSame(s[n], t[m], x)
  BY <1>1, <1>2, <1>3, <1>5, <1>6, <1>7, BothReach
<1> QED
  BY <1>2, <1>3, <1>8 DEF x

\* Two replays of the same beginning say the same of it, for every dataset and length
\* (ReplayRunner::run, available_candles, available_book).
THEOREM NothingComesEarly == ReplaySpec => []NoLookAhead
<1>1. ReplaySpec => []TraceInv
  BY TracesStart, TracesGrow, PTL DEF ReplaySpec
<1> QED
  BY <1>1, TracesTell, PTL

(***************************************************************************)
(* A smoothed average is a chain of averages, each the blend of the one    *)
(* before it with the next value.                                          *)
(***************************************************************************)
\* The equation of the fold: what a function g of the sets of positions returns for U.
Blended(db, s, k, w, o, g, U) ==
    IF U = {} THEN db ELSE Blend(g[U \ {Max(U)}], s[Max(U)], k, w, o)
Blends(db, s, k, w, o, T, g) == g = [U \in SUBSET T |-> Blended(db, s, k, w, o, g, U)]

LEMMA BlendIsChosen ==
    ASSUME NEW k, NEW w, NEW o, NEW db, NEW s
    PROVE  Smoothed(db, s, k, w, o)
              = (CHOOSE g : Blends(db, s, k, w, o, DOMAIN s, g))[DOMAIN s]
BY DEF Smoothed, FoldLeft, MapThenFoldSet, Blends, Blended

LEMMA BlendsUnique ==
    ASSUME NEW n \in Nat, NEW k, NEW w, NEW o, NEW db, NEW s, NEW S, NEW T, NEW g, NEW h,
           Blends(db, s, k, w, o, S, g), Blends(db, s, k, w, o, T, h),
           NEW U, U \subseteq S, U \subseteq T, U \subseteq 1..n
    PROVE  g[U] = h[U]
<1> DEFINE W == {V \in SUBSET U : g[V] # h[V]}
<1>1. SUFFICES ASSUME W # {} PROVE FALSE
  OBVIOUS
<1>2. PICK V \in W : \A X \in W : ~(X \subseteq V /\ X # V)
  <2> DEFINE N == 1..n
  <2>1. IsFiniteSet(N)
    BY FS_Interval
  <2>2. W \subseteq SUBSET N
    <3> HIDE DEF N
    <3>1. U \subseteq N
      BY DEF N
    <3> QED
      BY <3>1
  <2> HIDE DEF W, N
  <2> QED
    BY <1>1, <2>1, <2>2, Smallest
<1>3. V \in SUBSET U /\ V \in SUBSET S /\ V \in SUBSET T /\ g[V] # h[V]
  OBVIOUS
<1>4. g[V] = Blended(db, s, k, w, o, g, V) /\ h[V] = Blended(db, s, k, w, o, h, V)
  BY <1>3 DEF Blends
<1>5. CASE V = {}
  BY <1>3, <1>4, <1>5 DEF Blended
<1>6. CASE V # {}
  <2> DEFINE x == Max(V)
  <2>1. x \in V
    BY <1>3, <1>6, Greatest
  <2>2. V \ {x} \subseteq V /\ V \ {x} # V /\ V \ {x} \in SUBSET U
    BY <2>1, <1>3
  <2>3. g[V \ {x}] = h[V \ {x}]
    BY <2>2, <1>2
  <2> QED
    BY <2>3, <1>3, <1>4, <1>6 DEF Blended
<1> QED
  BY <1>5, <1>6

LEMMA BlendsExist ==
    ASSUME NEW n \in Nat, NEW k, NEW w, NEW o, NEW db, NEW s
    PROVE  \E g : Blends(db, s, k, w, o, 1..n, g)
<1> DEFINE N == 1..n
           W == {V \in SUBSET N : ~ \E g : Blends(db, s, k, w, o, V, g)}
<1>0. IsFiniteSet(N)
  BY FS_Interval
<1>1. SUFFICES ASSUME W # {} PROVE FALSE
  OBVIOUS
<1>2. PICK V \in W : \A X \in W : ~(X \subseteq V /\ X # V)
  <2> HIDE DEF W
  <2>1. W \subseteq SUBSET N
    BY DEF W
  <2> HIDE DEF N
  <2> QED
    BY <1>0, <1>1, <2>1, Smallest
<1>3. V \in SUBSET N /\ ~ \E g : Blends(db, s, k, w, o, V, g)
  OBVIOUS
<1> DEFINE H(U) == CHOOSE g : Blends(db, s, k, w, o, U, g)
           c(U) == U \ {Max(U)}
           G == [U \in SUBSET V |-> IF U = {} THEN db ELSE Blend(H(c(U))[c(U)], s[Max(U)], k, w, o)]
<1>4. ASSUME NEW U \in SUBSET V, U # V
      PROVE  Blends(db, s, k, w, o, U, H(U))
  <2>1. U \in SUBSET N /\ U \notin W
    BY <1>2, <1>3, <1>4
  <2>2. \E g : Blends(db, s, k, w, o, U, g)
    BY <2>1
  <2> QED
    BY <2>2
<1>5. ASSUME NEW U \in SUBSET V, U # {}
      PROVE  c(U) \in SUBSET U /\ c(U) \in SUBSET V /\ c(U) # V
  <2>1. Max(U) \in U
    <3>1. U \subseteq 1..n
      BY <1>3
    <3> QED
      BY <1>5, <3>1, Greatest
  <2> QED
    BY <2>1
<1> HIDE DEF N, W
<1>6. ASSUME NEW U \in SUBSET V, U # V
      PROVE  H(U)[U] = G[U]
  <2>1. H(U)[U] = Blended(db, s, k, w, o, H(U), U)
    <3>1. Blends(db, s, k, w, o, U, H(U))
      BY <1>4, <1>6
    <3> HIDE DEF H
    <3>2. H(U) = [X \in SUBSET U |-> Blended(db, s, k, w, o, H(U), X)]
      BY <3>1 DEF Blends
    <3>3. U \in SUBSET U
      OBVIOUS
    <3> QED
      BY <3>2, <3>3
  <2>2. CASE U = {}
    BY <2>1, <2>2 DEF Blended
  <2>3. CASE U # {}
    <3>1. c(U) \in SUBSET U /\ c(U) \in SUBSET V /\ c(U) # V
      BY <1>5, <2>3
    <3>2. Blends(db, s, k, w, o, U, H(U)) /\ Blends(db, s, k, w, o, c(U), H(c(U)))
      <4> HIDE DEF H, c
      <4>1. \A X \in SUBSET V : X # V => Blends(db, s, k, w, o, X, H(X))
        BY <1>4
      <4> QED
        BY <3>1, <4>1, <1>6
    <3>3. H(U)[c(U)] = H(c(U))[c(U)]
      <4> HIDE DEF H, c
      <4>1. c(U) \subseteq U /\ c(U) \subseteq c(U) /\ c(U) \subseteq 1..n
        BY <1>3, <3>1 DEF N
      <4> QED
        BY <3>2, <4>1, BlendsUnique
    <3>5. H(U)[U] = Blend(H(U)[c(U)], s[Max(U)], k, w, o)
      <4> HIDE DEF H
      <4> QED
        BY <2>1, <2>3 DEF Blended
    <3>6. G[U] = Blend(H(c(U))[c(U)], s[Max(U)], k, w, o)
      <4> HIDE DEF H, c
      <4> QED
        BY <2>3
    <3> QED
      <4> HIDE DEF H, c, G
      <4> QED
        BY <3>3, <3>5, <3>6
  <2> QED
    BY <2>2, <2>3
<1>7. ASSUME NEW U \in SUBSET V
      PROVE  G[U] = Blended(db, s, k, w, o, G, U)
  <2>1. CASE U = {}
    <3> HIDE DEF H, c
    <3> QED
      BY <2>1 DEF Blended
  <2>2. CASE U # {}
    <3>1. c(U) \in SUBSET V /\ c(U) # V
      BY <1>5, <2>2
    <3>2. H(c(U))[c(U)] = G[c(U)]
      <4> HIDE DEF H, c, G
      <4>1. \A X \in SUBSET V : X # V => H(X)[X] = G[X]
        BY <1>6
      <4> QED
        BY <3>1, <4>1
    <3>3. G[U] = Blend(H(c(U))[c(U)], s[Max(U)], k, w, o)
      <4> HIDE DEF H, c
      <4> QED
        BY <2>2
    <3>4. Blended(db, s, k, w, o, G, U) = Blend(G[c(U)], s[Max(U)], k, w, o)
      <4> HIDE DEF G
      <4> QED
        BY <2>2 DEF Blended
    <3> QED
      <4> HIDE DEF H, c, G
      <4> QED
        BY <3>2, <3>3, <3>4
  <2> QED
    BY <2>1, <2>2
<1>8. Blends(db, s, k, w, o, V, G)
  <2>1. G = [U \in SUBSET V |-> G[U]]
    <3> HIDE DEF H, c
    <3> QED
      OBVIOUS
  <2> HIDE DEF G
  <2> QED
    BY <2>1, <1>7 DEF Blends
<1> QED
  BY <1>3, <1>8

\* The averages between the values.
LEMMA BlendSteps ==
    ASSUME NEW X, NEW s \in Seq(X), NEW k, NEW w, NEW o, NEW db
    PROVE  \E d : /\ d[0] = db
                  /\ \A n \in 1..Len(s) : d[n] = Blend(d[n - 1], s[n], k, w, o)
                  /\ Smoothed(db, s, k, w, o) = d[Len(s)]
<1> DEFINE N == 1..Len(s)
           g == CHOOSE h : Blends(db, s, k, w, o, N, h)
           d == [n \in 0..Len(s) |-> g[1..n]]
<1>1. Len(s) \in Nat /\ DOMAIN s = N
  OBVIOUS
<1>2. Blends(db, s, k, w, o, N, g)
  BY <1>1, BlendsExist
<1>3. Smoothed(db, s, k, w, o) = g[N]
  BY <1>1, BlendIsChosen
<1> HIDE DEF g
<1>4. \A U \in SUBSET N : g[U] = Blended(db, s, k, w, o, g, U)
  BY <1>2 DEF Blends
<1>5. d[0] = db
  <2>1. 1..0 = {} /\ 0 \in 0..Len(s)
    BY <1>1
  <2>2. g[{}] = db
    BY <1>4 DEF Blended
  <2> QED
    BY <2>1, <2>2
<1>6. ASSUME NEW n \in 1..Len(s) PROVE d[n] = Blend(d[n - 1], s[n], k, w, o)
  <2>1. /\ 1..n \in SUBSET N /\ 1..n # {} /\ n \in 1..n /\ n \in Nat
        /\ n - 1 \in 0..Len(s) /\ n \in 0..Len(s)
    <3>1. Len(s) \in Nat /\ n \in 1..Len(s)
      BY <1>1
    <3> HIDE DEF d
    <3>2. n \in 1..n /\ n \in Nat /\ n - 1 \in 0..Len(s) /\ n \in 0..Len(s)
      BY <3>1
    <3>3. \A i \in 1..n : i \in 1..Len(s)
      BY <3>1
    <3> QED
      BY <3>2, <3>3
  <2>2. Max(1..n) \in 1..n /\ n <= Max(1..n)
    BY <2>1, Greatest
  <2>3. Max(1..n) = n
    BY <2>1, <2>2
  <2>4. (1..n) \ {n} = 1..(n - 1)
    BY <2>1
  <2>5. g[1..n] = Blend(g[1..(n - 1)], s[n], k, w, o)
    BY <1>4, <2>1, <2>3, <2>4 DEF Blended
  <2> QED
    BY <2>1, <2>5
<1>7. d[Len(s)] = g[N]
  BY <1>1
<1> HIDE DEF d
<1> QED
  BY <1>3, <1>5, <1>6, <1>7

(***************************************************************************)
(* Averages of whole numbers, and what they are for the reflected values.  *)
(***************************************************************************)
Fractions == [n : Int, d : Nat \ {0}]
Opposite(a, x) == [n |-> x * a.d - a.n, d |-> a.d]

LEMMA BlendIs ==
    ASSUME NEW a \in Fractions, NEW v \in Int, NEW k \in Int, NEW w \in Int, NEW o \in Nat \ {0}
    PROVE  Blend(a, v, k, w, o) = [n |-> a.n * k + v * w * a.d, d |-> a.d * o]
<1>1. a.n \in Int /\ a.d \in Nat \ {0}
  BY DEF Fractions
<1> DEFINE an == a.n
           ad == a.d
<1>2. Blend(a, v, k, w, o)
        = IF ad = 1 THEN [n |-> an * k + v * w, d |-> ad * o]
          ELSE [n |-> an * k * 1 + v * w * ad, d |-> ad * 1 * o]
  BY DEF Blend, Over, Plus, Times, Frac
<1>3. an \in Int /\ ad \in Int
  BY <1>1
<1> HIDE DEF an, ad
<1>4. an * k \in Int /\ v * w \in Int
  BY <1>3
<1>5. an * k * 1 = an * k /\ ad * 1 = ad
  BY <1>3, <1>4
<1>6. ad = 1 => v * w * ad = v * w
  BY <1>4
<1> QED
  BY <1>2, <1>5, <1>6 DEF an, ad

LEMMA BlendType ==
    ASSUME NEW a \in Fractions, NEW v \in Int, NEW k \in Int, NEW w \in Int, NEW o \in Nat \ {0}
    PROVE  /\ Blend(a, v, k, w, o) \in Fractions
           /\ a.n \in Nat /\ v \in Nat /\ k \in Nat /\ w \in Nat
                => Blend(a, v, k, w, o).n \in Nat
<1>1. a.n \in Int /\ a.d \in Nat \ {0}
  BY DEF Fractions
<1>2. Blend(a, v, k, w, o) = [n |-> a.n * k + v * w * a.d, d |-> a.d * o]
  BY BlendIs
<1>3. ASSUME NEW x \in Nat, NEW y \in Nat PROVE x * y \in Nat
  BY <1>3
<1>4. ASSUME NEW x \in Nat \ {0}, NEW y \in Nat \ {0} PROVE x * y \in Nat \ {0}
  BY <1>4
<1>5. a.d * o \in Nat \ {0}
  BY <1>1, <1>4
<1>6. a.n * k + v * w * a.d \in Int
  BY <1>1
<1>7. ASSUME a.n \in Nat, v \in Nat, k \in Nat, w \in Nat
      PROVE  a.n * k + v * w * a.d \in Nat
  <2>1. a.n * k \in Nat /\ v * w \in Nat /\ a.d \in Nat
    BY <1>1, <1>3, <1>7
  <2>2. (v * w) * a.d \in Nat
    BY <2>1, <1>3
  <2> HIDE DEF Fractions
  <2> QED
    BY <2>1, <2>2
<1> QED
  BY <1>2, <1>5, <1>6, <1>7 DEF Fractions

\* The weights of the two values of a blend make one.
Weights(k, w, o) == k + w = o

LEMMA BlendOpposite ==
    ASSUME NEW a \in Fractions, NEW v \in Int, NEW k \in Int, NEW w \in Int, NEW o \in Nat \ {0},
           Weights(k, w, o), NEW x \in Int
    PROVE  Blend(Opposite(a, x), x - v, k, w, o) = Opposite(Blend(a, v, k, w, o), x)
<1> DEFINE an == a.n
           ad == a.d
<1>1. an \in Int /\ ad \in Nat \ {0}
  BY DEF Fractions
<1>2. Opposite(a, x) = [n |-> x * ad - an, d |-> ad]
  BY DEF Opposite
<1>3. Opposite(a, x) \in Fractions /\ Opposite(a, x).n = x * ad - an /\ Opposite(a, x).d = ad
  BY <1>1, <1>2 DEF Fractions
<1>4. Blend(a, v, k, w, o) = [n |-> an * k + v * w * ad, d |-> ad * o]
  BY BlendIs
<1>5. x - v \in Int
  OBVIOUS
<1>6. Blend(Opposite(a, x), x - v, k, w, o)
        = [n |-> (x * ad - an) * k + (x - v) * w * ad, d |-> ad * o]
  <2> HIDE DEF an, ad
  <2> QED
    BY <1>3, <1>5, BlendIs
<1>7. Opposite(Blend(a, v, k, w, o), x)
        = [n |-> x * (ad * o) - (an * k + v * w * ad), d |-> ad * o]
  <2> HIDE DEF an, ad
  <2> QED
    BY <1>4 DEF Opposite
<1> HIDE DEF an, ad
<1>8. (x * ad - an) * k + (x - v) * w * ad = x * (ad * o) - (an * k + v * w * ad)
  <2>1. x * (ad * o) = x * (ad * (k + w))
    BY DEF Weights
  <2>2. (x * ad - an) * k + (x - v) * w * ad = x * (ad * (k + w)) - (an * k + v * w * ad)
    BY <1>1
  <2> QED
    BY <2>1, <2>2
<1> QED
  BY <1>6, <1>7, <1>8

IsChain(d, a, s, k, w, o) ==
    /\ d[0] = a
    /\ \A n \in 1..Len(s) : d[n] = Blend(d[n - 1], s[n], k, w, o)
    /\ Smoothed(a, s, k, w, o) = d[Len(s)]

LEMMA Chain ==
    ASSUME NEW s \in Seq(Int), NEW k, NEW w, NEW o, NEW a
    PROVE  \E d : IsChain(d, a, s, k, w, o)
BY BlendSteps DEF IsChain

\* An average of whole numbers is a fraction, of naturals one that is not negative.
LEMMA SmoothedType ==
    ASSUME NEW a \in Fractions, NEW s \in Seq(Int), NEW k \in Int, NEW w \in Int,
           NEW o \in Nat \ {0}
    PROVE  /\ Smoothed(a, s, k, w, o) \in Fractions
           /\ a.n \in Nat /\ s \in Seq(Nat) /\ k \in Nat /\ w \in Nat
                => Smoothed(a, s, k, w, o).n \in Nat
<1>0. PICK d : IsChain(d, a, s, k, w, o)
  BY Chain
<1>1. /\ d[0] = a
      /\ \A n \in 1..Len(s) : d[n] = Blend(d[n - 1], s[n], k, w, o)
      /\ Smoothed(a, s, k, w, o) = d[Len(s)]
  BY <1>0 DEF IsChain
<1> DEFINE Whole == a.n \in Nat /\ s \in Seq(Nat) /\ k \in Nat /\ w \in Nat
           Good(n) == d[n] \in Fractions /\ (Whole => d[n].n \in Nat)
           Bad == {n \in 1..Len(s) : ~Good(n)}
<1>2. Len(s) \in Nat /\ \A n \in 1..Len(s) : s[n] \in Int /\ (Whole => s[n] \in Nat)
  OBVIOUS
<1>3. Good(0)
  BY <1>1
<1>4. Bad = {}
  <2> SUFFICES ASSUME Bad # {} PROVE FALSE
    OBVIOUS
  <2>1. PICK n \in Bad : \A j \in Bad : n <= j
    <3>1. Bad \subseteq 1..Len(s)
      OBVIOUS
    <3> HIDE DEF Bad
    <3> QED
      BY <1>2, <3>1, LeastOf
  <2>2. n \in 1..Len(s) /\ n \in Int /\ ~Good(n)
    OBVIOUS
  <2>3. Good(n - 1)
    <3>1. CASE n = 1
      BY <3>1, <1>3
    <3>2. CASE n # 1
      <4>1. n - 1 \in 1..Len(s) /\ ~(n <= n - 1)
        BY <1>2, <2>2, <3>2
      <4> HIDE DEF Good
      <4> QED
        BY <2>1, <4>1
    <3> QED
      BY <3>1, <3>2
  <2>4. d[n] = Blend(d[n - 1], s[n], k, w, o) /\ s[n] \in Int /\ (Whole => s[n] \in Nat)
    BY <1>1, <1>2, <2>2
  <2>5. d[n - 1] \in Fractions /\ (Whole => d[n - 1].n \in Nat)
    BY <2>3
  <2>6. Whole => k \in Nat /\ w \in Nat
    OBVIOUS
  <2> HIDE DEF Whole, Bad
  <2>7. d[n] \in Fractions /\ (Whole => d[n].n \in Nat)
    BY <2>4, <2>5, <2>6, BlendType
  <2> QED
    BY <2>2, <2>7
<1>5. Good(Len(s))
  <2>1. CASE Len(s) = 0
    BY <1>3, <2>1
  <2>2. CASE Len(s) # 0
    <3>1. Len(s) \in 1..Len(s)
      BY <1>2, <2>2
    <3> HIDE DEF Good
    <3> QED
      BY <1>4, <3>1
  <2> QED
    BY <2>1, <2>2
<1> QED
  BY <1>1, <1>5

\* The series t is the series s turned upside down at x.
Mirrors(t, s, x) == Len(t) = Len(s) /\ \A i \in 1..Len(s) : t[i] = x - s[i]

\* The average of the mirrored values is the mirrored average.
LEMMA SmoothedOpposite ==
    ASSUME NEW a \in Fractions, NEW s \in Seq(Int), NEW k \in Int, NEW w \in Int,
           NEW o \in Nat \ {0}, Weights(k, w, o), NEW x \in Int, NEW t \in Seq(Int),
           Mirrors(t, s, x)
    PROVE  Smoothed(Opposite(a, x), t, k, w, o) = Opposite(Smoothed(a, s, k, w, o), x)
<1>0. PICK d : IsChain(d, a, s, k, w, o)
  BY Chain
<1>1. /\ d[0] = a
      /\ \A n \in 1..Len(s) : d[n] = Blend(d[n - 1], s[n], k, w, o)
      /\ Smoothed(a, s, k, w, o) = d[Len(s)]
  BY <1>0 DEF IsChain
<1>9. PICK e : IsChain(e, Opposite(a, x), t, k, w, o)
  BY Chain
<1>2. /\ e[0] = Opposite(a, x)
      /\ \A n \in 1..Len(t) : e[n] = Blend(e[n - 1], t[n], k, w, o)
      /\ Smoothed(Opposite(a, x), t, k, w, o) = e[Len(t)]
  BY <1>9 DEF IsChain
<1>a. ASSUME NEW f \in Fractions, NEW v \in Int
      PROVE  /\ Blend(f, v, k, w, o) \in Fractions
             /\ Blend(Opposite(f, x), x - v, k, w, o) = Opposite(Blend(f, v, k, w, o), x)
  <2>1. Blend(f, v, k, w, o) \in Fractions
    BY BlendType
  <2>2. Blend(Opposite(f, x), x - v, k, w, o) = Opposite(Blend(f, v, k, w, o), x)
    BY BlendOpposite
  <2> QED
    BY <2>1, <2>2
<1> DEFINE Good(n) == d[n] \in Fractions /\ e[n] = Opposite(d[n], x)
           Bad == {n \in 1..Len(s) : ~Good(n)}
<1>3. Len(s) \in Nat /\ \A n \in 1..Len(s) : s[n] \in Int
  OBVIOUS
<1>4. Good(0)
  BY <1>1, <1>2
<1>5. Bad = {}
  <2> SUFFICES ASSUME Bad # {} PROVE FALSE
    OBVIOUS
  <2>1. PICK n \in Bad : \A j \in Bad : n <= j
    <3>1. Bad \subseteq 1..Len(s)
      OBVIOUS
    <3> HIDE DEF Bad
    <3> QED
      BY <1>3, <3>1, LeastOf
  <2>2. n \in 1..Len(s) /\ n \in Int /\ ~Good(n)
    OBVIOUS
  <2>3. Good(n - 1)
    <3>1. CASE n = 1
      BY <3>1, <1>4
    <3>2. CASE n # 1
      <4>1. n - 1 \in 1..Len(s) /\ ~(n <= n - 1)
        BY <1>3, <2>2, <3>2
      <4> HIDE DEF Good
      <4> QED
        BY <2>1, <4>1
    <3> QED
      BY <3>1, <3>2
  <2>4. d[n] = Blend(d[n - 1], s[n], k, w, o) /\ e[n] = Blend(e[n - 1], x - s[n], k, w, o)
    BY <1>1, <1>2, <2>2 DEF Mirrors
  <2>5. d[n - 1] \in Fractions /\ e[n - 1] = Opposite(d[n - 1], x) /\ s[n] \in Int
    BY <1>3, <2>2, <2>3
  <2>6. d[n] \in Fractions
    BY <2>4, <2>5, <1>a
  <2>7. Blend(Opposite(d[n - 1], x), x - s[n], k, w, o)
           = Opposite(Blend(d[n - 1], s[n], k, w, o), x)
    BY <2>5, <1>a
  <2>8. e[n] = Opposite(d[n], x)
    BY <2>4, <2>5, <2>7
  <2> QED
    BY <2>2, <2>6, <2>8
<1>6. Good(Len(s))
  <2>1. CASE Len(s) = 0
    BY <1>4, <2>1
  <2>2. CASE Len(s) # 0
    <3>1. Len(s) \in 1..Len(s)
      BY <1>3, <2>2
    <3> HIDE DEF Good
    <3> QED
      BY <1>5, <3>1
  <2> QED
    BY <2>1, <2>2
<1> QED
  BY <1>1, <1>2, <1>6 DEF Mirrors

(***************************************************************************)
(* Rounding to the nearest step, half to even.                             *)
(***************************************************************************)
LEMMA Quotient ==
    ASSUME NEW a \in Int, NEW b \in Nat \ {0}
    PROVE  /\ a \div b \in Int
           /\ b * (a \div b) <= a /\ a < b * (a \div b) + b
OBVIOUS

\* A quotient is the only number that leaves a rest below the divisor.
LEMMA QuotientIs ==
    ASSUME NEW a \in Int, NEW b \in Nat \ {0}, NEW q \in Int, b * q <= a, a < b * q + b
    PROVE  a \div b = q
<1> DEFINE p == a \div b
<1>1. p \in Int /\ b * p <= a /\ a < b * p + b
  BY Quotient
<1> HIDE DEF p
<1>2. ASSUME NEW x \in Int, NEW y \in Int, x < y PROVE b * x + b <= b * y
  <2>1. x + 1 <= y
    BY <1>2
  <2>2. PICK z \in Nat : y = x + 1 + z
    <3>1. y - (x + 1) \in Nat /\ y = x + 1 + (y - (x + 1))
      BY <2>1
    <3> QED
      BY <3>1
  <2>3. b * z \in Nat
    OBVIOUS
  <2>4. b * y = b * x + b + b * z
    BY <2>2
  <2>5. b * x \in Int /\ b * y \in Int
    OBVIOUS
  <2> QED
    BY <2>3, <2>4, <2>5
<1>3. b * p \in Int /\ b * q \in Int
  BY <1>1
<1>4. ~(p < q)
  <2> SUFFICES ASSUME p < q PROVE FALSE
    OBVIOUS
  <2>1. b * p + b <= b * q
    BY <1>1, <1>2
  <2> QED
    BY <1>1, <1>3, <2>1
<1>5. ~(q < p)
  <2> SUFFICES ASSUME q < p PROVE FALSE
    OBVIOUS
  <2>1. b * q + b <= b * p
    BY <1>1, <1>2
  <2> QED
    BY <1>1, <1>3, <2>1
<1>6. p = q
  BY <1>1, <1>4, <1>5
<1> QED
  BY <1>6 DEF p

Nearest(low, rest, d) ==
    IF 2 * rest < d \/ (2 * rest = d /\ (low % 2) = 0) THEN low ELSE low + 1

\* A fraction times Scale is a whole number of denominators and a rest.
LEMMA RoundedIs ==
    ASSUME NEW a \in Fractions, NEW low \in Int, NEW rest \in Int,
           a.n * Scale = a.d * low + rest, 0 <= rest, rest < a.d
    PROVE  Rounded(a) = Nearest(low, rest, a.d)
<1>1. a.n \in Int /\ a.d \in Nat \ {0} /\ Scale \in Nat \ {0}
  BY PeriodAssumption DEF Fractions, PeriodAssumption
<1> DEFINE x == a.n * Scale
           d == a.d
<1>2. x \in Int /\ d \in Nat \ {0} /\ x = d * low + rest
  BY <1>1
<1>3. x \div d = low
  <2> HIDE DEF x, d
  <2>1. d * low \in Int
    BY <1>2
  <2>2. d * low <= x /\ x < d * low + d
    BY <1>2, <2>1 DEF d
  <2> QED
    BY <1>2, <2>2, QuotientIs
<1>4. Rounded(a) = LET twice == 2 * (x - low * d)
                   IN IF twice < d \/ (twice = d /\ (low % 2) = 0) THEN low ELSE low + 1
  BY <1>3 DEF Rounded
<1>5. x - low * d = rest
  <2> HIDE DEF x, d
  <2>1. d * low \in Int /\ low * d = d * low
    BY <1>2
  <2> QED
    BY <1>2, <2>1
<1> HIDE DEF x
<1> QED
  BY <1>4, <1>5 DEF Nearest

LEMMA Rest ==
    ASSUME NEW a \in Fractions
    PROVE  \E low \in Int, rest \in Int :
              /\ a.n * Scale = a.d * low + rest /\ 0 <= rest /\ rest < a.d
              /\ a.n \in Nat => low \in Nat
<1>1. a.n \in Int /\ a.d \in Nat \ {0} /\ Scale \in Nat \ {0}
  BY PeriodAssumption DEF Fractions, PeriodAssumption
<1> DEFINE x == a.n * Scale
           d == a.d
           low == x \div d
<1>2. x \in Int /\ d \in Nat \ {0}
  BY <1>1
<1>3. low \in Int /\ d * low <= x /\ x < d * low + d
  <2> HIDE DEF x, d
  <2> QED
    BY <1>2, Quotient
<1>4. a.n \in Nat => x \in Nat
  BY <1>1
<1>5. d * low \in Int /\ x - d * low \in Int
  BY <1>2, <1>3
<1>6. x = d * low + (x - d * low) /\ 0 <= x - d * low /\ x - d * low < d
  <2> HIDE DEF x, d, low
  <2> QED
    BY <1>2, <1>3, <1>5
<1>7. x \in Nat => low \in Nat
  <2> SUFFICES ASSUME x \in Nat, low < 0 PROVE FALSE
    BY <1>3
  <2> HIDE DEF x, d, low
  <2>1. PICK z \in Nat : low = -1 - z
    <3>1. -1 - low \in Nat /\ low = -1 - (-1 - low)
      BY <1>3
    <3> QED
      BY <3>1
  <2>2. d * z \in Nat /\ d * low = 0 - d - d * z
    BY <1>2, <2>1
  <2> QED
    BY <1>2, <1>3, <2>2
<1> QED
  BY <1>3, <1>4, <1>5, <1>6, <1>7

LEMMA RoundedType ==
    ASSUME NEW a \in Fractions
    PROVE  Rounded(a) \in Int /\ (a.n \in Nat => Rounded(a) \in Nat)
<1>1. PICK low \in Int, rest \in Int :
         /\ a.n * Scale = a.d * low + rest /\ 0 <= rest /\ rest < a.d
         /\ a.n \in Nat => low \in Nat
  BY Rest
<1>2. Rounded(a) = Nearest(low, rest, a.d)
  BY <1>1, RoundedIs
<1>3. Nearest(low, rest, a.d) \in {low, low + 1}
  BY DEF Nearest
<1> QED
  BY <1>1, <1>2, <1>3

LEMMA Parity ==
    ASSUME NEW x \in Int, NEW y \in Int, x % 2 = 0
    PROVE  (x - y - 1) % 2 = 0 <=> y % 2 # 0
OBVIOUS

\* An even mirror turns a rounded fraction into the rounded mirrored one.
LEMMA RoundedOpposite ==
    ASSUME NEW a \in Fractions, NEW x \in Int, (x * Scale) % 2 = 0
    PROVE  Rounded(Opposite(a, x)) = x * Scale - Rounded(a)
<1>0. Scale \in Nat \ {0}
  BY PeriodAssumption DEF PeriodAssumption
<1>1. PICK low \in Int, rest \in Int :
         /\ a.n * Scale = a.d * low + rest /\ 0 <= rest /\ rest < a.d
  BY Rest
<1>2. Rounded(a) = Nearest(low, rest, a.d)
  BY <1>1, RoundedIs
<1>3. a.n \in Int /\ a.d \in Nat \ {0} /\ a.d \in Int
  BY DEF Fractions
<1> DEFINE b == Opposite(a, x)
           K == x * Scale
<1>4. b \in Fractions /\ b.d = a.d /\ b.n = x * a.d - a.n
  BY <1>3 DEF Opposite, Fractions
<1>5. b.n * Scale = a.d * K - (a.d * low + rest)
  <2>2. PICK n \in Int, d \in Int, r \in Int : n = a.n /\ d = a.d /\ r = Scale
    BY <1>0, <1>3
  <2>3. (x * d - n) * r = d * (x * r) - n * r
    OBVIOUS
  <2>1. (x * a.d - a.n) * Scale = a.d * (x * Scale) - a.n * Scale
    BY <2>2, <2>3
  <2> QED
    BY <1>1, <1>4, <2>1
<1>6. K \in Int /\ K % 2 = 0
  BY <1>0
<1> HIDE DEF b, K
<1>7. a.d * low \in Int /\ a.d * K \in Int
  BY <1>3, <1>6
<1>8. CASE rest = 0
  <2>1. a.d * (K - low) = a.d * K - a.d * low
    BY <1>3, <1>6
  <2>2. b.n * Scale = b.d * (K - low) + 0
    BY <1>4, <1>5, <1>7, <1>8, <2>1
  <2>3. K - low \in Int /\ 0 \in Int /\ 0 < b.d
    BY <1>3, <1>4, <1>6
  <2> DEFINE q == K - low
             z == 0
  <2>8. q \in Int /\ z \in Int /\ b.n * Scale = b.d * q + z /\ 0 <= z /\ z < b.d
    BY <2>2, <2>3
  <2>4. Rounded(b) = Nearest(K - low, 0, b.d)
    <3> HIDE DEF q, z
    <3>1. Rounded(b) = Nearest(q, z, b.d)
      BY <1>4, <2>8, RoundedIs
    <3> QED
      BY <3>1 DEF q, z
  <2>5. 2 * rest < a.d
    BY <1>3, <1>8
  <2>6. Nearest(low, rest, a.d) = low
    BY <2>5 DEF Nearest
  <2>7. Nearest(K - low, 0, b.d) = K - low
    BY <2>3 DEF Nearest
  <2> QED
    BY <1>2, <2>4, <2>6, <2>7 DEF b, K
<1>9. CASE rest # 0
  <2> DEFINE left == a.d - rest
             under == K - low - 1
  <2>0. ASSUME NEW d \in Int, NEW k \in Int, NEW l \in Int
        PROVE  d * (k - l - 1) = d * k - d * l - d
    OBVIOUS
  <2>1. a.d * (K - low - 1) = a.d * K - a.d * low - a.d
    BY <1>3, <1>6, <2>0
  <2>2. b.n * Scale = b.d * under + left
    BY <1>3, <1>4, <1>5, <1>7, <2>1
  <2>3. under \in Int /\ left \in Int /\ 0 <= left /\ left < b.d
    BY <1>1, <1>3, <1>4, <1>6, <1>9
  <2>4. Rounded(b) = Nearest(under, left, b.d)
    <3> HIDE DEF under, left
    <3> QED
      BY <1>4, <2>2, <2>3, RoundedIs
  <2>5. under % 2 = 0 <=> low % 2 # 0
    BY <1>6, Parity
  <2>6. Nearest(under, left, b.d) = K - Nearest(low, rest, a.d)
    <3>0. ASSUME NEW d \in Int, NEW r \in Int
          PROVE  /\ 2 * (d - r) < d <=> d < 2 * r
                 /\ 2 * (d - r) = d <=> 2 * r = d
      OBVIOUS
    <3>1. 2 * left < a.d <=> a.d < 2 * rest
      BY <1>1, <1>3, <3>0
    <3>2. 2 * left = a.d <=> 2 * rest = a.d
      BY <1>1, <1>3, <3>0
    <3>3. a.d < 2 * rest \/ 2 * rest = a.d \/ 2 * rest < a.d
      BY <1>1, <1>3
    <3>4. ~(2 * rest < a.d /\ a.d < 2 * rest)
      BY <1>1, <1>3
    <3>5. ~(2 * rest = a.d /\ a.d < 2 * rest) /\ ~(2 * rest = a.d /\ 2 * rest < a.d)
      BY <1>1, <1>3
    <3>6. under + 1 = K - low /\ under = K - (low + 1)
      BY <1>6
    <3> HIDE DEF under, left
    <3> QED
      BY <1>4, <2>5, <3>1, <3>2, <3>3, <3>4, <3>5, <3>6 DEF Nearest
  <2> QED
    BY <1>2, <2>4, <2>6 DEF b, K
<1> QED
  BY <1>8, <1>9

(***************************************************************************)
(* A whole window of closed candles, and the one turned upside down.       *)
(***************************************************************************)
Full(w) ==
    /\ w \in Seq(ReplayCandles) /\ Len(w) = Window
    /\ \A i \in 1..Window : Closed(w[i], Primary)
Turned(w) == [i \in DOMAIN w |-> Reflected(w[i])]
Prices(c) == c.open \in Int /\ c.close \in Int /\ c.high \in Int /\ c.low \in Int

LEMMA SequenceOf ==
    ASSUME NEW n \in Nat, NEW X, NEW s \in [1..n -> X]
    PROVE  s \in Seq(X) /\ Len(s) = n /\ DOMAIN s = 1..n
OBVIOUS

LEMMA Bounds ==
    /\ Window \in Nat /\ Wilder \in 1..(Window - 1) /\ AtrPeriod \in 1..Window
    /\ EmaFast \in 1..(Window - 1) /\ EmaSlow \in 1..(Window - 1) /\ 2 <= Window
    /\ DonchianUpper \in 1..(Window - 1) /\ DonchianLower \in 1..(Window - 1)
    /\ VolumePeriod \in 1..(Window - 1)
    /\ Scale \in Nat \ {0} /\ Ceiling \in Nat /\ (Ceiling * Scale) % 2 = 0
<1>1. /\ \A p \in {DonchianUpper, DonchianLower, EmaFast, EmaSlow, VolumePeriod, Wilder} :
             p \in 1..(Window - 1)
      /\ Window \in Nat /\ AtrPeriod \in 1..Window /\ 2 * Wilder <= Window
      /\ Scale \in Nat \ {0}
  BY PeriodAssumption DEF PeriodAssumption
<1>2. /\ Wilder \in 1..(Window - 1) /\ EmaFast \in 1..(Window - 1) /\ EmaSlow \in 1..(Window - 1)
      /\ DonchianUpper \in 1..(Window - 1) /\ DonchianLower \in 1..(Window - 1)
      /\ VolumePeriod \in 1..(Window - 1)
  BY <1>1
<1>3. Window \in Nat /\ 2 <= Window
  BY <1>1, <1>2
<1> QED
  BY <1>1, <1>2, <1>3, CeilingAssumption DEF CeilingAssumption

\* The prices of a closed candle, and of the reflected one.
LEMMA CandleIs ==
    ASSUME NEW c \in ReplayCandles, Closed(c, Primary)
    PROVE  /\ Prices(c) /\ c.low <= c.high
           /\ Prices(Reflected(c))
           /\ Reflected(c).open = Ceiling - c.open /\ Reflected(c).close = Ceiling - c.close
           /\ Reflected(c).high = Ceiling - c.low /\ Reflected(c).low = Ceiling - c.high
<1>1. c.open \in Nat /\ c.close \in Nat /\ c.high \in Nat /\ c.low \in Nat
  BY DEF ReplayCandles
<1>2. c.open <= c.high /\ c.low <= c.open
  BY DEF Closed
<1>3. Ceiling \in Nat
  BY Bounds
<1>4. /\ Reflected(c).open = Ceiling - c.open /\ Reflected(c).close = Ceiling - c.close
      /\ Reflected(c).high = Ceiling - c.low /\ Reflected(c).low = Ceiling - c.high
  BY DEF Reflected, ReplayCandles
<1> QED
  BY <1>1, <1>2, <1>3, <1>4 DEF Prices

LEMMA TurnedIs ==
    ASSUME NEW w, Full(w)
    PROVE  /\ DOMAIN w = 1..Window /\ DOMAIN Turned(w) = 1..Window /\ Len(Turned(w)) = Window
           /\ \A i \in 1..Window :
                 /\ w[i] \in ReplayCandles /\ Closed(w[i], Primary)
                 /\ Turned(w)[i] = Reflected(w[i])
<1>1. DOMAIN w = 1..Window /\ \A i \in 1..Window : w[i] \in ReplayCandles
  BY DEF Full
<1>2. DOMAIN Turned(w) = 1..Window /\ \A i \in 1..Window : Turned(w)[i] = Reflected(w[i])
  BY <1>1 DEF Turned
<1>3. Len(Turned(w)) = Window
  <2> DEFINE m == Turned(w)
  <2>1. m = [i \in 1..Window |-> Reflected(w[i])] /\ Window \in Nat
    BY <1>1, Bounds DEF Turned
  <2> QED
    BY <2>1
<1> QED
  BY <1>1, <1>2, <1>3 DEF Full

\* The closes of a window and of the one turned upside down.
LEMMA Closes ==
    ASSUME NEW w, Full(w)
    PROVE  /\ Values(w, "close") \in Seq(Int) /\ Values(Turned(w), "close") \in Seq(Int)
           /\ Len(Values(w, "close")) = Window /\ Len(Values(Turned(w), "close")) = Window
           /\ Mirrors(Values(Turned(w), "close"), Values(w, "close"), Ceiling)
<1> DEFINE s == Values(w, "close")
           t == Values(Turned(w), "close")
<1>1. s = [i \in 1..Window |-> w[i].close] /\ t = [i \in 1..Window |-> Turned(w)[i].close]
  BY TurnedIs DEF Values
<1>2. \A i \in 1..Window : /\ w[i].close \in Int
                           /\ Turned(w)[i].close = Ceiling - w[i].close
                           /\ Ceiling - w[i].close \in Int
  <2> TAKE i \in 1..Window
  <2>1. w[i] \in ReplayCandles /\ Closed(w[i], Primary) /\ Turned(w)[i] = Reflected(w[i])
    BY TurnedIs
  <2>2. Prices(w[i]) /\ Reflected(w[i]).close = Ceiling - w[i].close
    BY <2>1, CandleIs
  <2> QED
    BY <2>1, <2>2, Bounds DEF Prices
<1> HIDE DEF s, t
<1>3. Window \in Nat
  BY Bounds
<1>4. s \in Seq(Int) /\ t \in Seq(Int) /\ Len(s) = Window /\ Len(t) = Window
  <2>1. s \in [1..Window -> Int] /\ t \in [1..Window -> Int]
    BY <1>1, <1>2
  <2> QED
    BY <1>3, <2>1, SequenceOf
<1>5. Mirrors(t, s, Ceiling)
  BY <1>1, <1>2, <1>4 DEF Mirrors
<1> QED
  BY <1>4, <1>5 DEF s, t

\* The first values of a series.
LEMMA Firsts ==
    ASSUME NEW X, NEW s \in Seq(X), NEW p \in 1..Len(s)
    PROVE  /\ First(s, p) \in Seq(X) /\ DOMAIN First(s, p) = 1..p /\ Len(First(s, p)) = p
           /\ \A i \in 1..p : First(s, p)[i] = s[i]
BY DEF First

\* The values of a series after the first p of them.
LEMMA Rests ==
    ASSUME NEW X, NEW s \in Seq(X), NEW p \in 0..Len(s), NEW n \in p..Len(s)
    PROVE  LET r == SubSeq(s, p + 1, n)
           IN  /\ r \in Seq(X) /\ Len(r) = n - p
               /\ \A i \in 1..(n - p) : r[i] = s[i + p] /\ i + p \in 1..Len(s)
<1> DEFINE r == SubSeq(s, p + 1, n)
<1>1. r = [i \in 1..(n - p) |-> s[i + (p + 1) - 1]]
  OBVIOUS
<1>2. \A i \in 1..(n - p) : i + p \in 1..Len(s) /\ i + (p + 1) - 1 = i + p
  OBVIOUS
<1>3. n - p \in Nat
  OBVIOUS
<1>4. \A i \in 1..Len(s) : s[i] \in X
  OBVIOUS
<1> HIDE DEF r
<1>5. r = [i \in 1..(n - p) |-> s[i + p]]
  BY <1>1, <1>2
<1>6. r \in Seq(X) /\ Len(r) = n - p
  BY <1>2, <1>3, <1>4, <1>5
<1> QED
  BY <1>2, <1>5, <1>6 DEF r

\* A sum of equal numbers.
LEMMA Steady ==
    ASSUME NEW n \in Nat, NEW f, NEW x \in Int, \A i \in 1..n : f[i] = x
    PROVE  SumFunctionOnSet(f, 1..n) = n * x
<1> DEFINE Good(k) == SumFunctionOnSet(f, 1..k) = k * x
           Bad == {k \in 1..n : ~Good(k)}
<1>0. Good(0)
  BY SumEmpty
<1>1. Bad = {}
  <2> SUFFICES ASSUME Bad # {} PROVE FALSE
    OBVIOUS
  <2>1. PICK k \in Bad : \A j \in Bad : k <= j
    <3>1. Bad \subseteq 1..n
      OBVIOUS
    <3> HIDE DEF Bad
    <3> QED
      BY <3>1, LeastOf
  <2>2. k \in 1..n /\ k \in Int /\ ~Good(k)
    OBVIOUS
  <2>3. Good(k - 1)
    <3>1. CASE k = 1
      BY <3>1, <1>0
    <3>2. CASE k # 1
      <4>1. k - 1 \in 1..n /\ ~(k <= k - 1)
        BY <2>2, <3>2
      <4> HIDE DEF Good
      <4> QED
        BY <2>1, <4>1
    <3> QED
      BY <3>1, <3>2
  <2>4. 1..k = (1..(k - 1)) \cup {k} /\ k \notin 1..(k - 1) /\ IsFiniteSet(1..(k - 1))
    <3>1. 1..k = (1..(k - 1)) \cup {k} /\ k \notin 1..(k - 1)
      BY <2>2
    <3>2. k - 1 \in Nat
      BY <2>2
    <3> QED
      BY <3>1, <3>2, Intervals
  <2>5. \A i \in (1..(k - 1)) \cup {k} : f[i] \in Int /\ f[k] = x
    BY <2>2, <2>4
  <2>6. SumFunctionOnSet(f, 1..k) = SumFunctionOnSet(f, 1..(k - 1)) + f[k]
    <3> DEFINE S == 1..(k - 1)
    <3>1. IsFiniteSet(S) /\ k \notin S /\ \A i \in S \cup {k} : f[i] \in Int
      BY <2>4, <2>5
    <3> HIDE DEF S
    <3>2. SumFunctionOnSet(f, S \cup {k}) = SumFunctionOnSet(f, S) + f[k]
      BY <3>1, SumAdd
    <3> QED
      BY <2>4, <3>2 DEF S
  <2>7. SumFunctionOnSet(f, 1..k) = (k - 1) * x + x
    BY <2>2, <2>3, <2>5, <2>6
  <2>8. (k - 1) * x + x = k * x
    BY <2>2
  <2> QED
    BY <2>2, <2>7, <2>8
<1>2. CASE n = 0
  BY <1>0, <1>2
<1>3. CASE n # 0
  <2>1. n \in 1..n
    BY <1>3
  <2> QED
    BY <1>1, <2>1
<1> QED
  BY <1>2, <1>3

\* The mean of the first values, and of the reflected ones.
LEMMA MeanType ==
    ASSUME NEW s \in Seq(Int), NEW p \in 1..Len(s)
    PROVE  /\ Mean(First(s, p)) \in Fractions
           /\ s \in Seq(Nat) => Mean(First(s, p)).n \in Nat
<1> DEFINE f == First(s, p)
<1>1. f \in Seq(Int) /\ DOMAIN f = 1..p /\ Len(f) = p /\ \A i \in 1..p : f[i] = s[i]
  BY Firsts
<1>2. IsFiniteSet(1..p) /\ \A i \in 1..p : f[i] \in Int /\ (s \in Seq(Nat) => f[i] \in Nat)
  <2>1. p \in Nat /\ (s \in Seq(Nat) => \A i \in 1..Len(s) : s[i] \in Nat)
    OBVIOUS
  <2>2. IsFiniteSet(1..p)
    BY <2>1, Intervals
  <2>3. \A i \in 1..p : f[i] \in Int /\ i \in 1..Len(s)
    BY <1>1
  <2> HIDE DEF f
  <2> QED
    BY <1>1, <2>1, <2>2, <2>3
<1> HIDE DEF f
<1>3. Total(f) \in Int
  BY <1>1, <1>2, SumType DEF Total
<1>4. s \in Seq(Nat) => Total(f) \in Nat
  BY <1>1, <1>2, SumNat DEF Total
<1> QED
  BY <1>1, <1>3, <1>4 DEF Mean, Fractions, f

LEMMA MeanOpposite ==
    ASSUME NEW s \in Seq(Int), NEW t \in Seq(Int), NEW p \in 1..Len(s),
           NEW x \in Int, Mirrors(t, s, x)
    PROVE  Mean(First(t, p)) = Opposite(Mean(First(s, p)), x)
<1> DEFINE f == First(s, p)
           g == First(t, p)
           h == [i \in 1..p |-> x]
<1>1. f \in Seq(Int) /\ DOMAIN f = 1..p /\ Len(f) = p /\ \A i \in 1..p : f[i] = s[i]
  BY Firsts
<1>2. g \in Seq(Int) /\ DOMAIN g = 1..p /\ Len(g) = p /\ \A i \in 1..p : g[i] = t[i]
  <2>1. p \in 1..Len(t)
    BY DEF Mirrors
  <2> QED
    BY <2>1, Firsts
<1>3. IsFiniteSet(1..p) /\ p \in Nat
  BY Intervals
<1>4. \A i \in 1..p : f[i] \in Int /\ g[i] \in Int /\ h[i] = f[i] + g[i] /\ h[i] = x
  <2> SUFFICES ASSUME NEW i \in 1..p
               PROVE  f[i] \in Int /\ g[i] \in Int /\ h[i] = f[i] + g[i] /\ h[i] = x
    OBVIOUS
  <2>1. i \in 1..Len(s) /\ f[i] = s[i] /\ g[i] = t[i] /\ t[i] = x - s[i]
    <3> HIDE DEF f, g
    <3> QED
      BY <1>1, <1>2 DEF Mirrors
  <2>2. s[i] \in Int
    BY <2>1
  <2>3. h[i] = x
    OBVIOUS
  <2> HIDE DEF f, g, h
  <2> QED
    BY <2>1, <2>2, <2>3
<1> HIDE DEF f, g, h
<1>5. SumFunctionOnSet(h, 1..p) = SumFunctionOnSet(f, 1..p) + SumFunctionOnSet(g, 1..p)
  <2> DEFINE S == 1..p
  <2>1. IsFiniteSet(S) /\ \A i \in S : f[i] \in Int /\ g[i] \in Int /\ h[i] = f[i] + g[i]
    BY <1>3, <1>4
  <2> HIDE DEF S
  <2>2. SumFunctionOnSet(h, S) = SumFunctionOnSet(f, S) + SumFunctionOnSet(g, S)
    BY <2>1, SumPlus
  <2> QED
    BY <2>2 DEF S
<1>6. SumFunctionOnSet(h, 1..p) = p * x
  BY <1>3, <1>4, Steady
<1>7. Total(f) \in Int /\ Total(g) \in Int
  BY <1>1, <1>2, <1>3, <1>4, SumType DEF Total
<1>8. Total(g) = x * p - Total(f)
  <2>1. p * x = x * p /\ p * x \in Int
    BY <1>3
  <2> QED
    BY <1>1, <1>2, <1>5, <1>6, <1>7, <2>1 DEF Total
<1> QED
  BY <1>1, <1>2, <1>8 DEF Mean, Opposite, f, g

(***************************************************************************)
(* The indicators over a window and over the one turned upside down.       *)
(***************************************************************************)
LEMMA EmaType ==
    ASSUME NEW s \in Seq(Int), NEW p \in Nat \ {0}, p <= Len(s)
    PROVE  Ema(s, p) \in Fractions
<1>1. p \in 1..Len(s)
  OBVIOUS
<1>2. Mean(First(s, p)) \in Fractions
  BY <1>1, MeanType
<1>3. From(s, p + 1) \in Seq(Int)
  <2>1. Len(s) \in p..Len(s)
    OBVIOUS
  <2> QED
    BY <1>1, <2>1, Rests DEF From
<1>4. p - 1 \in Int /\ 2 \in Int /\ p + 1 \in Nat \ {0}
  OBVIOUS
<1> QED
  BY <1>2, <1>3, <1>4, SmoothedType DEF Ema

\* The exponential average is turned upside down.
LEMMA EmaOpposite ==
    ASSUME NEW s \in Seq(Int), NEW t \in Seq(Int), NEW p \in 1..Len(s),
           NEW x \in Int, Mirrors(t, s, x)
    PROVE  Ema(t, p) = Opposite(Ema(s, p), x)
<1> DEFINE a == Mean(First(s, p))
           r == From(s, p + 1)
           u == From(t, p + 1)
           k == p - 1
           w == 2
           o == p + 1
<1>1. a \in Fractions
  BY MeanType
<1>2. Mean(First(t, p)) = Opposite(a, x)
  BY MeanOpposite
<1>3. /\ r \in Seq(Int) /\ Len(r) = Len(s) - p
      /\ \A i \in 1..(Len(s) - p) : r[i] = s[i + p] /\ i + p \in 1..Len(s)
  <2>1. Len(s) \in p..Len(s)
    OBVIOUS
  <2> QED
    BY <2>1, Rests DEF From
<1>4. /\ u \in Seq(Int) /\ Len(u) = Len(s) - p
      /\ \A i \in 1..(Len(s) - p) : u[i] = t[i + p]
  <2>1. Len(t) = Len(s) /\ Len(t) \in p..Len(t) /\ p \in 1..Len(t)
    BY DEF Mirrors
  <2> QED
    BY <2>1, Rests DEF From
<1>5. k \in Int /\ w \in Int /\ o \in Nat \ {0} /\ Weights(k, w, o)
  BY DEF Weights
<1> HIDE DEF a, r, u, k, w, o
<1>6. Mirrors(u, r, x)
  BY <1>3, <1>4 DEF Mirrors
<1>7. Smoothed(Opposite(a, x), u, k, w, o) = Opposite(Smoothed(a, r, k, w, o), x)
  BY <1>1, <1>3, <1>4, <1>5, <1>6, SmoothedOpposite
<1> QED
  BY <1>2, <1>7 DEF Ema, a, r, u, k, w, o

LEMMA WilderMeanType ==
    ASSUME NEW s \in Seq(Nat), NEW p \in 1..Len(s)
    PROVE  WilderMean(s, p) \in Fractions /\ WilderMean(s, p).n \in Nat
<1>0. s \in Seq(Int)
  OBVIOUS
<1>1. Mean(First(s, p)) \in Fractions /\ Mean(First(s, p)).n \in Nat
  BY <1>0, MeanType
<1>2. From(s, p + 1) \in Seq(Nat) /\ From(s, p + 1) \in Seq(Int)
  <2>1. Len(s) \in p..Len(s)
    OBVIOUS
  <2>2. From(s, p + 1) \in Seq(Nat)
    BY <2>1, Rests DEF From
  <2> QED
    BY <2>2
<1>3. p - 1 \in Nat /\ 1 \in Nat /\ p \in Nat \ {0} /\ p - 1 \in Int /\ 1 \in Int
  OBVIOUS
<1> DEFINE a == Mean(First(s, p))
           r == From(s, p + 1)
           k == p - 1
           w == 1
<1>4. /\ a \in Fractions /\ a.n \in Nat /\ r \in Seq(Nat) /\ r \in Seq(Int)
      /\ k \in Nat /\ w \in Nat /\ k \in Int /\ w \in Int /\ p \in Nat \ {0}
  BY <1>1, <1>2, <1>3
<1> HIDE DEF a, r, k, w
<1>5. Smoothed(a, r, k, w, p) \in Fractions /\ Smoothed(a, r, k, w, p).n \in Nat
  BY <1>4, SmoothedType
<1> QED
  BY <1>5 DEF WilderMean, a, r, k, w

\* The rises of a series are the falls of the one turned upside down.
Gains(s) == [i \in 1..(Len(s) - 1) |-> Larger(s[i + 1] - s[i], 0)]
Losses(s) == [i \in 1..(Len(s) - 1) |-> Larger(s[i] - s[i + 1], 0)]
Strength(gain, loss) ==
    IF gain.n = 0 /\ loss.n = 0 THEN Unavailable
    ELSE Rounded([n |-> 100 * gain.n, d |-> gain.n + loss.n])

LEMMA RsiIs ==
    ASSUME NEW s, NEW p
    PROVE  Rsi(s, p) = Strength(WilderMean(Gains(s), p), WilderMean(Losses(s), p))
BY DEF Rsi, Strength, Pairs, Gains, Losses

LEMMA StrengthOpposite ==
    ASSUME NEW gain \in Fractions, NEW loss \in Fractions, gain.n \in Nat, loss.n \in Nat
    PROVE  Strength(loss, gain) = IF Strength(gain, loss) = Unavailable THEN Unavailable
                                  ELSE 100 * Scale - Strength(gain, loss)
<1> DEFINE x == gain.n
           y == loss.n
           a == [n |-> 100 * x, d |-> x + y]
           b == [n |-> 100 * y, d |-> y + x]
<1>1. x \in Nat /\ y \in Nat
  OBVIOUS
<1>2. CASE x = 0 /\ y = 0
  BY <1>2 DEF Strength
<1>3. CASE ~(x = 0 /\ y = 0)
  <2>1. Strength(gain, loss) = Rounded(a) /\ Strength(loss, gain) = Rounded(b)
    BY <1>3 DEF Strength
  <2>2. a \in Fractions /\ a.n \in Nat
    <3> HIDE DEF x, y
    <3> QED
      BY <1>1, <1>3 DEF Fractions
  <2>3. b = Opposite(a, 100)
    <3>1. Opposite(a, 100) = [n |-> 100 * (x + y) - 100 * x, d |-> x + y]
      BY DEF Opposite
    <3>2. 100 * (x + y) - 100 * x = 100 * y /\ x + y = y + x
      <4> HIDE DEF x, y
      <4> QED
        BY <1>1
    <3> QED
      BY <3>1, <3>2
  <2>4. (100 * Scale) % 2 = 0
    <3>1. Scale \in Nat
      BY Bounds
    <3>2. PICK r \in Int : r = Scale
      BY <3>1
    <3>3. 100 * r = 2 * (50 * r)
      OBVIOUS
    <3>4. (2 * (50 * r)) % 2 = 0
      <4> DEFINE h == 50 * r
      <4>1. h \in Int
        OBVIOUS
      <4> HIDE DEF h
      <4>2. (2 * h) % 2 = 0
        BY <4>1
      <4> QED
        BY <4>2 DEF h
    <3> QED
      BY <3>2, <3>3, <3>4
  <2> HIDE DEF a, b
  <2>5. Rounded(b) = 100 * Scale - Rounded(a)
    <3> DEFINE c == 100
    <3>1. c \in Int /\ (c * Scale) % 2 = 0 /\ b = Opposite(a, c)
      BY <2>3, <2>4
    <3> HIDE DEF c
    <3>2. Rounded(Opposite(a, c)) = c * Scale - Rounded(a)
      BY <2>2, <3>1, RoundedOpposite
    <3> QED
      BY <3>1, <3>2 DEF c
  <2>6. Rounded(a) \in Nat
    BY <2>2, RoundedType
  <2>7. Rounded(a) # Unavailable
    BY <2>6 DEF Unavailable
  <2> QED
    BY <2>1, <2>5, <2>7
<1> QED
  BY <1>2, <1>3

\* The strength of the rises becomes the strength of the falls.
LEMMA RsiOpposite ==
    ASSUME NEW s \in Seq(Int), NEW t \in Seq(Int), NEW p \in 1..(Len(s) - 1),
           NEW x \in Int, Mirrors(t, s, x)
    PROVE  Rsi(t, p) = IF Rsi(s, p) = Unavailable THEN Unavailable ELSE 100 * Scale - Rsi(s, p)
<1> DEFINE n == Len(s) - 1
<1>1. n \in Nat /\ p \in 1..n /\ \A i \in 1..n : i \in 1..Len(s) /\ i + 1 \in 1..Len(s)
  OBVIOUS
<1>2. \A i \in 1..n : s[i] \in Int /\ s[i + 1] \in Int
  BY <1>1
<1>3. Gains(t) = Losses(s) /\ Losses(t) = Gains(s)
  <2>1. \A i \in 1..n : t[i + 1] - t[i] = s[i] - s[i + 1] /\ t[i] - t[i + 1] = s[i + 1] - s[i]
    BY <1>1, <1>2, SMTT(30) DEF Mirrors
  <2>2. /\ Gains(t) = [i \in 1..n |-> Larger(t[i + 1] - t[i], 0)]
        /\ Losses(t) = [i \in 1..n |-> Larger(t[i] - t[i + 1], 0)]
        /\ Gains(s) = [i \in 1..n |-> Larger(s[i + 1] - s[i], 0)]
        /\ Losses(s) = [i \in 1..n |-> Larger(s[i] - s[i + 1], 0)]
    BY DEF Gains, Losses, Mirrors
  <2> HIDE DEF n
  <2> QED
    BY <2>1, <2>2
<1>4. Gains(s) \in Seq(Nat) /\ Losses(s) \in Seq(Nat) /\ Len(Gains(s)) = n /\ Len(Losses(s)) = n
  <2>1. \A i \in 1..n : Larger(s[i + 1] - s[i], 0) \in Nat /\ Larger(s[i] - s[i + 1], 0) \in Nat
    BY <1>2, SMTT(30) DEF Larger
  <2>2. Gains(s) \in [1..n -> Nat] /\ Losses(s) \in [1..n -> Nat]
    BY <2>1 DEF Gains, Losses
  <2> HIDE DEF n
  <2> QED
    BY <1>1, <2>2, SequenceOf
<1> DEFINE gain == WilderMean(Gains(s), p)
           loss == WilderMean(Losses(s), p)
<1>5. gain \in Fractions /\ loss \in Fractions /\ gain.n \in Nat /\ loss.n \in Nat
  <2> HIDE DEF n
  <2> QED
    BY <1>1, <1>4, WilderMeanType
<1>6. Rsi(s, p) = Strength(gain, loss) /\ Rsi(t, p) = Strength(loss, gain)
  BY <1>3, RsiIs
<1> HIDE DEF gain, loss
<1> QED
  BY <1>5, <1>6, StrengthOpposite

Ranges(w) == [i \in 1..(Len(w) - 1) |-> TrueRange(w[i], w[i + 1])]
Pluses(w) == [i \in 1..(Len(w) - 1) |-> PlusDm(w[i], w[i + 1])]
Minuses(w) == [i \in 1..(Len(w) - 1) |-> MinusDm(w[i], w[i + 1])]

\* Rises of the highs are falls of the lows, and ranges stay what they are.
LEMMA RangeOpposite ==
    ASSUME NEW b \in ReplayCandles, Closed(b, Primary), NEW c \in ReplayCandles, Closed(c, Primary)
    PROVE  /\ TrueRange(Reflected(b), Reflected(c)) = TrueRange(b, c)
           /\ PlusDm(Reflected(b), Reflected(c)) = MinusDm(b, c)
           /\ MinusDm(Reflected(b), Reflected(c)) = PlusDm(b, c)
           /\ TrueRange(b, c) \in Nat /\ PlusDm(b, c) \in Nat /\ MinusDm(b, c) \in Nat
           /\ Reflected(c).high - Reflected(c).low = c.high - c.low /\ c.high - c.low \in Nat
<1> DEFINE b1 == Reflected(b)
           c1 == Reflected(c)
<1>1. /\ b1.close = Ceiling - b.close /\ b1.high = Ceiling - b.low /\ b1.low = Ceiling - b.high
      /\ b.close \in Int /\ b.high \in Int /\ b.low \in Int
  BY CandleIs DEF Prices
<1>2. /\ c1.close = Ceiling - c.close /\ c1.high = Ceiling - c.low /\ c1.low = Ceiling - c.high
      /\ c.close \in Int /\ c.high \in Int /\ c.low \in Int /\ c.low <= c.high
  BY CandleIs DEF Prices
<1>3. Ceiling \in Int
  BY Bounds
<1> HIDE DEF b1, c1
<1>4. c1.high - c1.low = c.high - c.low /\ c.high - c.low \in Nat
  BY <1>2, <1>3
<1>5. /\ Abs(c1.high - b1.close) = Abs(c.low - b.close)
      /\ Abs(c1.low - b1.close) = Abs(c.high - b.close)
  BY <1>1, <1>2, <1>3 DEF Abs
<1>6. Abs(c.low - b.close) \in Nat /\ Abs(c.high - b.close) \in Nat
  BY <1>1, <1>2 DEF Abs
<1>7. \A x, y \in Nat : Larger(x, y) = Larger(y, x) /\ Larger(x, y) \in Nat
  BY DEF Larger
<1>8. TrueRange(b1, c1) = TrueRange(b, c) /\ TrueRange(b, c) \in Nat
  BY <1>4, <1>5, <1>6, <1>7 DEF TrueRange
<1>9. PlusDm(b1, c1) = MinusDm(b, c) /\ MinusDm(b1, c1) = PlusDm(b, c)
  BY <1>1, <1>2, <1>3 DEF PlusDm, MinusDm
<1>10. PlusDm(b, c) \in Nat /\ MinusDm(b, c) \in Nat
  BY <1>1, <1>2 DEF PlusDm, MinusDm
<1> QED
  BY <1>4, <1>8, <1>9, <1>10 DEF b1, c1

LEMMA SeriesOpposite ==
    ASSUME NEW w, Full(w)
    PROVE  LET n == Window - 1
               m == Turned(w)
           IN  /\ Ranges(m) = Ranges(w) /\ Pluses(m) = Minuses(w) /\ Minuses(m) = Pluses(w)
               /\ \A s \in {Ranges(w), Pluses(w), Minuses(w)} :
                     s \in Seq(Nat) /\ Len(s) = n
<1> DEFINE n == Window - 1
           m == Turned(w)
<1>1. n \in Nat /\ Len(w) = Window /\ Len(m) = Window
  <2>1. Len(m) = Len(w)
    BY TurnedIs
  <2> QED
    BY <2>1, Bounds DEF Full
<1>2. \A i \in 1..n : i \in 1..Window /\ i + 1 \in 1..Window
  <2>1. Window \in Nat /\ n = Window - 1
    BY Bounds
  <2> HIDE DEF n
  <2> QED
    BY <2>1
<1>3. ASSUME NEW i \in 1..n
      PROVE  LET b == w[i]
                 c == w[i + 1]
             IN  /\ TrueRange(m[i], m[i + 1]) = TrueRange(b, c)
                 /\ PlusDm(m[i], m[i + 1]) = MinusDm(b, c)
                 /\ MinusDm(m[i], m[i + 1]) = PlusDm(b, c)
                 /\ TrueRange(b, c) \in Nat /\ PlusDm(b, c) \in Nat /\ MinusDm(b, c) \in Nat
  <2> HIDE DEF n, m
  <2>1. i \in 1..Window /\ i + 1 \in 1..Window
    BY <1>2
  <2>2. /\ w[i] \in ReplayCandles /\ Closed(w[i], Primary) /\ m[i] = Reflected(w[i])
        /\ w[i + 1] \in ReplayCandles /\ Closed(w[i + 1], Primary)
        /\ m[i + 1] = Reflected(w[i + 1])
    BY <2>1, TurnedIs DEF m
  <2> QED
    BY <2>2, RangeOpposite
<1>4. /\ Ranges(m) = [i \in 1..n |-> TrueRange(m[i], m[i + 1])]
      /\ Pluses(m) = [i \in 1..n |-> PlusDm(m[i], m[i + 1])]
      /\ Minuses(m) = [i \in 1..n |-> MinusDm(m[i], m[i + 1])]
      /\ Ranges(w) = [i \in 1..n |-> TrueRange(w[i], w[i + 1])]
      /\ Pluses(w) = [i \in 1..n |-> PlusDm(w[i], w[i + 1])]
      /\ Minuses(w) = [i \in 1..n |-> MinusDm(w[i], w[i + 1])]
  BY <1>1 DEF Ranges, Pluses, Minuses
<1> HIDE DEF n, m
<1>5. Ranges(m) = Ranges(w) /\ Pluses(m) = Minuses(w) /\ Minuses(m) = Pluses(w)
  BY <1>3, <1>4
<1>6. ASSUME NEW s \in {Ranges(w), Pluses(w), Minuses(w)} PROVE s \in Seq(Nat) /\ Len(s) = n
  <2>1. s \in [1..n -> Nat]
    BY <1>3, <1>4
  <2> QED
    BY <1>1, <2>1, SequenceOf
<1> QED
  BY <1>5, <1>6 DEF n, m

\* The ATR stays what it is.
LEMMA AtrOpposite ==
    ASSUME NEW w, Full(w)
    PROVE  /\ Atr(Turned(w)) = Atr(w)
           /\ Atr(w) # Unavailable => Atr(w) \in Nat
<1> DEFINE m == Turned(w)
<1>1. Ranges(m) = Ranges(w) /\ Ranges(w) \in Seq(Nat) /\ Len(Ranges(w)) = Window - 1
  BY SeriesOpposite
<1>2. /\ AtrTrueRanges(m) = <<m[1].high - m[1].low>> \o Ranges(m)
      /\ AtrTrueRanges(w) = <<w[1].high - w[1].low>> \o Ranges(w)
  BY DEF AtrTrueRanges, Pairs, Ranges
<1>3. m[1].high - m[1].low = w[1].high - w[1].low /\ w[1].high - w[1].low \in Nat
  <2>1. 1 \in 1..Window
    BY Bounds
  <2>2. w[1] \in ReplayCandles /\ Closed(w[1], Primary) /\ m[1] = Reflected(w[1])
    BY <2>1, TurnedIs
  <2> QED
    BY <2>2, RangeOpposite
<1> HIDE DEF m
<1>4. AtrTrueRanges(m) = AtrTrueRanges(w)
  BY <1>1, <1>2, <1>3
<1>5. AtrTrueRanges(w) \in Seq(Nat) /\ Len(AtrTrueRanges(w)) = Window
  <2> DEFINE x == w[1].high - w[1].low
             r == Ranges(w)
  <2>1. x \in Nat /\ r \in Seq(Nat) /\ Len(r) = Window - 1 /\ Window \in Nat
    BY <1>1, <1>3, Bounds
  <2> HIDE DEF x, r
  <2>2. <<x>> \o r \in Seq(Nat) /\ Len(<<x>> \o r) = 1 + (Window - 1)
    BY <2>1
  <2>3. 1 + (Window - 1) = Window
    BY <2>1
  <2> QED
    BY <1>2, <2>2, <2>3 DEF x, r
<1>6. AtrPeriod \in 1..Len(AtrTrueRanges(w))
  BY <1>5, Bounds
<1>7. LET a == WilderMean(AtrTrueRanges(w), AtrPeriod) IN a \in Fractions /\ a.n \in Nat
  BY <1>5, <1>6, WilderMeanType
<1>8. Atr(w) # Unavailable => Atr(w) \in Nat
  BY <1>7, RoundedType DEF Atr
<1> QED
  BY <1>4, <1>8 DEF Atr, m

\* The smoothed sums of a series are fractions.
LEMMA SumsType ==
    ASSUME NEW s \in Seq(Nat), Wilder \in 1..Len(s), NEW k \in DOMAIN SmoothedSums(s)
    PROVE  SmoothedSums(s)[k].n \in Int
<1>1. k \in 1..(Len(s) - Wilder + 1) /\ Len(s) \in Nat /\ Wilder \in Nat \ {0}
  BY Bounds DEF SmoothedSums
<1>2. s \in Seq(Int)
  OBVIOUS
<1> DEFINE f == First(s, Wilder)
           a == Frac(Total(f))
           r == SubSeq(s, Wilder + 1, Wilder + k - 1)
<1>3. a \in Fractions
  <2>1. /\ f \in Seq(Int) /\ DOMAIN f = 1..Wilder /\ Len(f) = Wilder
        /\ \A i \in 1..Wilder : f[i] = s[i]
    BY <1>2, Firsts
  <2>2. IsFiniteSet(1..Wilder)
    BY <1>1, Intervals
  <2> HIDE DEF f
  <2>3. \A i \in 1..Wilder : f[i] \in Int
    BY <2>1
  <2>4. Total(f) \in Int
    BY <2>1, <2>2, <2>3, SumType DEF Total
  <2> QED
    BY <2>4 DEF Frac, Fractions
<1>4. r \in Seq(Int)
  <2> DEFINE n == Wilder + k - 1
  <2>1. n \in Wilder..Len(s)
    BY <1>1
  <2> HIDE DEF n
  <2>2. SubSeq(s, Wilder + 1, n) \in Seq(Int)
    BY <1>2, <2>1, Rests
  <2> QED
    BY <2>2 DEF n
<1> HIDE DEF a, r
<1>5. Wilder - 1 \in Int /\ Wilder \in Int
  BY <1>1
<1> DEFINE p == Wilder - 1
<1>6. Smoothed(a, r, p, Wilder, Wilder) \in Fractions
  <2>1. p \in Int
    BY <1>5
  <2> HIDE DEF p
  <2> QED
    BY <1>1, <1>3, <1>4, <1>5, <2>1, SmoothedType
<1>7. SmoothedSums(s)[k] = Smoothed(a, r, p, Wilder, Wilder)
  BY <1>1 DEF SmoothedSums, a, r
<1> QED
  BY <1>6, <1>7 DEF Fractions

Indices(plus, minus) == [k \in DOMAIN plus |-> DirectionIndex(plus[k], minus[k])]
AdxFrom(dx, ranges) ==
    IF \E k \in DOMAIN ranges : ranges[k].n = 0 THEN Unavailable
    ELSE Rounded(FoldLeft(LAMBDA a, x : WilderAverage(a, x, Wilder),
                          Over(FoldLeft(Plus, Frac(0), First(dx, Wilder)), Wilder),
                          From(dx, Wilder + 1)))

LEMMA AdxIs ==
    ASSUME NEW w
    PROVE  Adx(w) = AdxFrom(Indices(SmoothedSums(Pluses(w)), SmoothedSums(Minuses(w))),
                            SmoothedSums(Ranges(w)))
BY DEF Adx, AdxFrom, Indices, Pluses, Minuses, Ranges, Pairs

\* The two direction indicators change places, and their distance stays what it is.
LEMMA AdxOpposite ==
    ASSUME NEW w, Full(w)
    PROVE  Adx(Turned(w)) = Adx(w)
<1> DEFINE m == Turned(w)
           n == Window - 1
           plus == SmoothedSums(Pluses(w))
           minus == SmoothedSums(Minuses(w))
<1>1. /\ Ranges(m) = Ranges(w) /\ Pluses(m) = Minuses(w) /\ Minuses(m) = Pluses(w)
      /\ Pluses(w) \in Seq(Nat) /\ Len(Pluses(w)) = n
      /\ Minuses(w) \in Seq(Nat) /\ Len(Minuses(w)) = n
  BY SeriesOpposite
<1>2. Wilder \in 1..n
  BY Bounds
<1>3. DOMAIN plus = DOMAIN minus
  BY <1>1 DEF SmoothedSums
<1>4. ASSUME NEW k \in DOMAIN plus PROVE plus[k].n \in Int /\ minus[k].n \in Int
  <2> HIDE DEF n
  <2> QED
    BY <1>1, <1>2, <1>3, SumsType
<1> HIDE DEF plus, minus, m, n
<1>5. ASSUME NEW k \in DOMAIN plus
      PROVE  DirectionIndex(minus[k], plus[k]) = DirectionIndex(plus[k], minus[k])
  <2> DEFINE x == plus[k].n
             y == minus[k].n
  <2>1. x \in Int /\ y \in Int
    BY <1>4
  <2> HIDE DEF x, y
  <2>2. x + y = y + x /\ Abs(x - y) = Abs(y - x)
    BY <2>1 DEF Abs
  <2> QED
    BY <2>2 DEF DirectionIndex, x, y
<1>6. Indices(minus, plus) = Indices(plus, minus)
  BY <1>3, <1>5 DEF Indices
<1>7. Adx(m) = AdxFrom(Indices(minus, plus), SmoothedSums(Ranges(w)))
  BY <1>1, AdxIs DEF plus, minus
<1>8. Adx(w) = AdxFrom(Indices(plus, minus), SmoothedSums(Ranges(w)))
  BY AdxIs DEF plus, minus
<1> QED
  BY <1>6, <1>7, <1>8 DEF m

\* The indicators of a window turned upside down; one that is available stays so.
IndicatorsMirror(w, m) ==
    LET closes == Values(w, "close")
        mirrored == Values(m, "close")
    IN /\ Rsi(mirrored, Wilder) = (IF Rsi(closes, Wilder) = Unavailable THEN Unavailable
                                   ELSE 100 * Scale - Rsi(closes, Wilder))
       /\ Rsi(closes, Wilder) # Unavailable => Rsi(mirrored, Wilder) # Unavailable
       /\ Atr(m) = Atr(w) /\ Adx(m) = Adx(w)
       /\ \A p \in {EmaFast, EmaSlow} :
              Rounded(Ema(mirrored, p)) = Ceiling * Scale - Rounded(Ema(closes, p))

LEMMA IndicatorsTurn ==
    ASSUME NEW w, Full(w)
    PROVE  IndicatorsMirror(w, Turned(w))
<1> DEFINE s == Values(w, "close")
           t == Values(Turned(w), "close")
<1>1. /\ s \in Seq(Int) /\ t \in Seq(Int) /\ Len(s) = Window /\ Mirrors(t, s, Ceiling)
      /\ Ceiling \in Int
  BY Closes, Bounds
<1>2. Rsi(t, Wilder) = IF Rsi(s, Wilder) = Unavailable THEN Unavailable
                       ELSE 100 * Scale - Rsi(s, Wilder)
  <2>1. Wilder \in 1..(Len(s) - 1)
    BY <1>1, Bounds
  <2> HIDE DEF s, t
  <2> QED
    BY <1>1, <2>1, RsiOpposite
<1>4. Rsi(s, Wilder) # Unavailable => Rsi(t, Wilder) # Unavailable
  <2>1. /\ Wilder \in 1..(Len(s) - 1) /\ Wilder \in 1..(Len(t) - 1)
        /\ Len(t) = Len(s)
    BY <1>1, Bounds, Closes
  <2> HIDE DEF s, t
  <2>2. Mirrors(s, t, Ceiling)
    <3>1. \A i \in 1..Len(s) : s[i] \in Int /\ t[i] = Ceiling - s[i]
      BY <1>1 DEF Mirrors
    <3>2. \A i \in 1..Len(s) : s[i] = Ceiling - t[i]
      BY <1>1, <3>1
    <3> QED
      BY <1>1, <2>1, <3>2 DEF Mirrors
  <2>3. Rsi(s, Wilder) = IF Rsi(t, Wilder) = Unavailable THEN Unavailable
                         ELSE 100 * Scale - Rsi(t, Wilder)
    BY <1>1, <2>1, <2>2, RsiOpposite, SMTT(30)
  <2> QED
    BY <2>3
<1>3. ASSUME NEW p \in {EmaFast, EmaSlow}
      PROVE  Rounded(Ema(t, p)) = Ceiling * Scale - Rounded(Ema(s, p))
  <2>1. p \in 1..Len(s) /\ p \in Nat \ {0} /\ p <= Len(s)
    BY <1>1, Bounds
  <2> HIDE DEF s, t
  <2>2. Ema(s, p) \in Fractions
    BY <1>1, <2>1, EmaType
  <2>3. Ema(t, p) = Opposite(Ema(s, p), Ceiling)
    BY <1>1, <2>1, EmaOpposite
  <2> QED
    BY <1>1, <2>2, <2>3, Bounds, RoundedOpposite
<1> QED
  BY <1>2, <1>3, <1>4, AtrOpposite, AdxOpposite DEF IndicatorsMirror

(***************************************************************************)
(* The shapes of a candle and of the reflected one, at any levels.         *)
(***************************************************************************)
LEMMA Scaled == \A x \in Int : (Ceiling - x) * Scale = Ceiling * Scale - x * Scale
                               /\ x * Scale \in Int
<1> TAKE x \in Int
<1>1. PICK c \in Int, r \in Int : c = Ceiling /\ r = Scale
  BY Bounds
<1>2. (c - x) * r = c * r - x * r /\ x * r \in Int
  OBVIOUS
<1> QED
  BY <1>1, <1>2

LEMMA AlignmentOpposite ==
    ASSUME NEW close \in Int, NEW fast \in Int, NEW slow \in Int, NEW atr
    PROVE  EmaAlignment(Ceiling - close, Ceiling * Scale - fast, Ceiling * Scale - slow, atr)
              = Mirror(EmaAlignment(close, fast, slow, atr))
<1> DEFINE K == Ceiling * Scale
           price == close * Scale
           strong == 2 * Abs(fast - slow) >= atr
<1>1. K \in Int /\ price \in Int /\ (Ceiling - close) * Scale = K - price
  BY Scaled, Bounds
<1> HIDE DEF K, price
<1>2. Abs((K - fast) - (K - slow)) = Abs(fast - slow)
  BY <1>1 DEF Abs
<1>3. /\ K - price > K - fast <=> price < fast
      /\ K - price < K - fast <=> price > fast
      /\ K - fast > K - slow <=> fast < slow
      /\ K - fast < K - slow <=> fast > slow
  BY <1>1
<1>4. ~(price > fast /\ price < fast)
  BY <1>1
<1> HIDE DEF strong
<1>5. EmaAlignment(close, fast, slow, atr)
        = CASE price > fast /\ fast > slow -> IF strong THEN "StrongBullish" ELSE "Bullish"
            [] price < fast /\ fast < slow -> IF strong THEN "StrongBearish" ELSE "Bearish"
            [] OTHER -> "Mixed"
  BY DEF EmaAlignment, price, strong
<1>6. EmaAlignment(Ceiling - close, K - fast, K - slow, atr)
        = CASE K - price > K - fast /\ K - fast > K - slow
                 -> IF strong THEN "StrongBullish" ELSE "Bullish"
            [] K - price < K - fast /\ K - fast < K - slow
                 -> IF strong THEN "StrongBearish" ELSE "Bearish"
            [] OTHER -> "Mixed"
  BY <1>1, <1>2 DEF EmaAlignment, strong
<1>7. CASE price > fast /\ fast > slow
  <2>1. /\ EmaAlignment(close, fast, slow, atr) = IF strong THEN "StrongBullish" ELSE "Bullish"
        /\ EmaAlignment(Ceiling - close, K - fast, K - slow, atr)
              = IF strong THEN "StrongBearish" ELSE "Bearish"
    BY <1>3, <1>4, <1>5, <1>6, <1>7
  <2> QED
    BY <2>1 DEF Mirror, K
<1>8. CASE price < fast /\ fast < slow
  <2>1. /\ EmaAlignment(close, fast, slow, atr) = IF strong THEN "StrongBearish" ELSE "Bearish"
        /\ EmaAlignment(Ceiling - close, K - fast, K - slow, atr)
              = IF strong THEN "StrongBullish" ELSE "Bullish"
    BY <1>3, <1>4, <1>5, <1>6, <1>8
  <2> QED
    BY <2>1 DEF Mirror, K
<1>9. CASE ~(price > fast /\ fast > slow) /\ ~(price < fast /\ fast < slow)
  <2>1. /\ EmaAlignment(close, fast, slow, atr) = "Mixed"
        /\ EmaAlignment(Ceiling - close, K - fast, K - slow, atr) = "Mixed"
    BY <1>3, <1>5, <1>6, <1>9
  <2> QED
    BY <2>1 DEF Mirror, K
<1> QED
  BY <1>7, <1>8, <1>9

LEMMA DistanceOpposite ==
    ASSUME NEW close \in Int, NEW extreme \in Int, NEW level \in Int
    PROVE  /\ LevelDistance(Ceiling - close, Ceiling - extreme, Ceiling * Scale - level)
                = LevelDistance(close, extreme, level)
           /\ LevelDistance(close, extreme, level) \in Nat
<1> DEFINE K == Ceiling * Scale
           a == close * Scale
           b == extreme * Scale
<1>1. /\ K \in Int /\ a \in Int /\ b \in Int
      /\ (Ceiling - close) * Scale = K - a /\ (Ceiling - extreme) * Scale = K - b
  BY Scaled, Bounds
<1>2. LevelDistance(Ceiling - close, Ceiling - extreme, K - level)
        = Smaller(Abs((K - a) - (K - level)), Abs((K - b) - (K - level)))
  BY <1>1 DEF LevelDistance
<1>3. LevelDistance(close, extreme, level) = Smaller(Abs(a - level), Abs(b - level))
  BY DEF LevelDistance
<1> HIDE DEF a, b, K
<1>4. /\ Abs((K - a) - (K - level)) = Abs(a - level)
      /\ Abs((K - b) - (K - level)) = Abs(b - level)
      /\ Abs(a - level) \in Nat /\ Abs(b - level) \in Nat
  BY <1>1 DEF Abs
<1> QED
  BY <1>2, <1>3, <1>4 DEF K, Smaller

\* The distance to the support becomes the distance to the resistance.
LEMMA SidesOpposite ==
    ASSUME NEW c, Prices(c), NEW m, Prices(m), m.close = Ceiling - c.close,
           m.high = Ceiling - c.low, m.low = Ceiling - c.high,
           NEW upper \in Int, NEW lower \in Int, NEW slow \in Int
    PROVE  /\ SupportDistance(m, Ceiling - upper, Ceiling * Scale - slow)
                 = ResistanceDistance(c, upper, slow)
           /\ ResistanceDistance(m, Ceiling - lower, Ceiling * Scale - slow)
                 = SupportDistance(c, lower, slow)
           /\ SupportDistance(c, lower, slow) \in Nat
           /\ ResistanceDistance(c, upper, slow) \in Nat
<1> DEFINE K == Ceiling * Scale
           a == c.close * Scale
<1>1. c.close \in Int /\ c.high \in Int /\ c.low \in Int
  BY DEF Prices
<1>2. /\ K \in Int /\ a \in Int /\ upper * Scale \in Int /\ lower * Scale \in Int
      /\ m.close * Scale = K - a /\ (Ceiling - upper) * Scale = K - upper * Scale
      /\ (Ceiling - lower) * Scale = K - lower * Scale
  BY <1>1, Scaled, Bounds
<1>3. \A x, y \in Nat : Smaller(x, y) \in Nat
  BY DEF Smaller
<1>10. ASSUME NEW x \in Int, NEW l \in Int
       PROVE  /\ LevelDistance(m.close, Ceiling - x, K - l) = LevelDistance(c.close, x, l)
              /\ LevelDistance(c.close, x, l) \in Nat
  <2> DEFINE x0 == c.close
  <2>1. x0 \in Int /\ m.close = Ceiling - x0
    BY <1>1
  <2> HIDE DEF x0, K
  <2>2. LevelDistance(Ceiling - x0, Ceiling - x, Ceiling * Scale - l) = LevelDistance(x0, x, l)
    BY <2>1, DistanceOpposite
  <2>3. LevelDistance(x0, x, l) \in Nat
    BY <2>1, DistanceOpposite
  <2> QED
    BY <2>1, <2>2, <2>3 DEF x0, K
<1>11. m.low = Ceiling - c.high /\ m.high = Ceiling - c.low
  OBVIOUS
<1> HIDE DEF K
<1>12. \A l \in Int : /\ LevelDistance(m.close, m.low, K - l) = LevelDistance(c.close, c.high, l)
                       /\ LevelDistance(c.close, c.high, l) \in Nat
  BY <1>1, <1>10, <1>11, ZenonT(30)
<1>13. \A l \in Int : /\ LevelDistance(m.close, m.high, K - l) = LevelDistance(c.close, c.low, l)
                       /\ LevelDistance(c.close, c.low, l) \in Nat
  BY <1>1, <1>10, <1>11, ZenonT(30)
<1>4. /\ LevelDistance(m.close, m.low, K - upper * Scale)
            = LevelDistance(c.close, c.high, upper * Scale)
      /\ LevelDistance(c.close, c.high, upper * Scale) \in Nat
      /\ LevelDistance(m.close, m.low, K - slow) = LevelDistance(c.close, c.high, slow)
      /\ LevelDistance(c.close, c.high, slow) \in Nat
  BY <1>2, <1>12, Zenon
<1>5. /\ LevelDistance(m.close, m.high, K - lower * Scale)
            = LevelDistance(c.close, c.low, lower * Scale)
      /\ LevelDistance(c.close, c.low, lower * Scale) \in Nat
      /\ LevelDistance(m.close, m.high, K - slow) = LevelDistance(c.close, c.low, slow)
      /\ LevelDistance(c.close, c.low, slow) \in Nat
  BY <1>2, <1>13, Zenon
<1>6. (m.close * Scale > K - slow <=> a < slow) /\ (m.close * Scale < K - slow <=> a > slow)
  <2> HIDE DEF a
  <2> QED
    BY <1>2
<1>7. SupportDistance(m, Ceiling - upper, K - slow) = ResistanceDistance(c, upper, slow)
  BY <1>2, <1>4, <1>6 DEF SupportDistance, ResistanceDistance
<1>8. ResistanceDistance(m, Ceiling - lower, K - slow) = SupportDistance(c, lower, slow)
  BY <1>2, <1>5, <1>6 DEF SupportDistance, ResistanceDistance
<1>9. SupportDistance(c, lower, slow) \in Nat /\ ResistanceDistance(c, upper, slow) \in Nat
  BY <1>3, <1>4, <1>5 DEF SupportDistance, ResistanceDistance
<1> QED
  BY <1>7, <1>8, <1>9 DEF K

LEMMA LocationOpposite ==
    ASSUME NEW c, Prices(c), NEW m, Prices(m), m.close = Ceiling - c.close,
           m.high = Ceiling - c.low, m.low = Ceiling - c.high,
           NEW upper \in Int, NEW lower \in Int, NEW slow \in Int, NEW atr \in Int
    PROVE  /\ KeyLocation(m, Ceiling - lower, Ceiling - upper, Ceiling * Scale - slow, atr)
                 = Mirror(KeyLocation(c, upper, lower, slow, atr))
           /\ KeyLocation(c, upper, lower, slow, atr) \in {"Support", "Resistance", "None"}
<1> DEFINE K == Ceiling * Scale
           s == SupportDistance(c, lower, slow)
           r == ResistanceDistance(c, upper, slow)
           here == KeyLocation(c, upper, lower, slow, atr)
           there == KeyLocation(m, Ceiling - lower, Ceiling - upper, K - slow, atr)
<1>1. /\ SupportDistance(m, Ceiling - upper, K - slow) = r
      /\ ResistanceDistance(m, Ceiling - lower, K - slow) = s
  BY SidesOpposite
<1>8. s \in Nat /\ r \in Nat
  BY SidesOpposite
<1>2. here = CASE 4 * s <= atr /\ s < r -> "Support"
               [] 4 * r <= atr /\ r < s -> "Resistance"
               [] OTHER -> "None"
  BY DEF KeyLocation
<1>3. there = CASE 4 * r <= atr /\ r < s -> "Support"
                [] 4 * s <= atr /\ s < r -> "Resistance"
                [] OTHER -> "None"
  <2> HIDE DEF s, r, K
  <2> QED
    BY <1>1 DEF KeyLocation
<1>4. ~(s < r /\ r < s)
  <2> HIDE DEF s, r
  <2> QED
    BY <1>8
<1> HIDE DEF s, r, here, there
<1>5. CASE 4 * s <= atr /\ s < r
  <2>1. here = "Support" /\ there = "Resistance"
    BY <1>2, <1>3, <1>4, <1>5
  <2> QED
    BY <2>1 DEF Mirror, here, there
<1>6. CASE 4 * r <= atr /\ r < s
  <2>1. here = "Resistance" /\ there = "Support"
    BY <1>2, <1>3, <1>4, <1>6
  <2> QED
    BY <2>1 DEF Mirror, here, there
<1>7. CASE ~(4 * s <= atr /\ s < r) /\ ~(4 * r <= atr /\ r < s)
  <2>1. here = "None" /\ there = "None"
    BY <1>2, <1>3, <1>7
  <2> QED
    BY <2>1 DEF Mirror, here, there
<1> QED
  BY <1>5, <1>6, <1>7

\* The two candles of a pattern, their bodies and their shadows.
LEMMA BodiesOpposite ==
    ASSUME NEW c, Prices(c), NEW m, Prices(m), m.open = Ceiling - c.open,
           m.close = Ceiling - c.close, m.high = Ceiling - c.low, m.low = Ceiling - c.high
    PROVE  /\ Bull(m) <=> Bear(c)
           /\ Bear(m) <=> Bull(c)
           /\ BodyLow(m) = Ceiling - BodyHigh(c) /\ BodyHigh(m) = Ceiling - BodyLow(c)
           /\ BodyLow(c) \in Int /\ BodyHigh(c) \in Int
           /\ Body(m) = Body(c) /\ Body(c) \in Nat
           /\ Body(c) = 0 <=> ~Bull(c) /\ ~Bear(c)
           /\ LowerShadow(m) = UpperShadow(c) /\ UpperShadow(m) = LowerShadow(c)
           /\ LowerShadow(c) \in Int /\ UpperShadow(c) \in Int
           /\ m.high - m.low = c.high - c.low /\ (m.high > m.low <=> c.high > c.low)
<1>1. c.open \in Int /\ c.close \in Int /\ c.high \in Int /\ c.low \in Int /\ Ceiling \in Int
  BY Bounds DEF Prices
<1>2. /\ Bull(m) <=> Bear(c)
      /\ Bear(m) <=> Bull(c)
  BY <1>1 DEF Bull, Bear
<1>3. /\ BodyLow(m) = Ceiling - BodyHigh(c) /\ BodyHigh(m) = Ceiling - BodyLow(c)
      /\ BodyLow(c) \in Int /\ BodyHigh(c) \in Int /\ BodyLow(c) <= BodyHigh(c)
      /\ BodyHigh(c) - BodyLow(c) = 0 <=> ~Bull(c) /\ ~Bear(c)
  BY <1>1 DEF BodyLow, BodyHigh, Smaller, Larger, Bull, Bear
<1>4. /\ Body(m) = Body(c) /\ Body(c) \in Nat
      /\ Body(c) = 0 <=> ~Bull(c) /\ ~Bear(c)
  BY <1>1, <1>3 DEF Body
<1>5. /\ LowerShadow(m) = UpperShadow(c) /\ UpperShadow(m) = LowerShadow(c)
      /\ LowerShadow(c) \in Int /\ UpperShadow(c) \in Int
  BY <1>1, <1>3 DEF LowerShadow, UpperShadow
<1>6. m.high - m.low = c.high - c.low /\ (m.high > m.low <=> c.high > c.low)
  BY <1>1
<1> QED
  BY <1>2, <1>3, <1>4, <1>5, <1>6

\* What the shapes of two candles look at.
LEMMA ShapesOpposite ==
    ASSUME NEW b, Prices(b), NEW a, Prices(a), a.open = Ceiling - b.open,
           a.close = Ceiling - b.close, a.high = Ceiling - b.low, a.low = Ceiling - b.high,
           NEW c, Prices(c), NEW m, Prices(m), m.open = Ceiling - c.open,
           m.close = Ceiling - c.close, m.high = Ceiling - c.low, m.low = Ceiling - c.high,
           NEW atr \in Nat
    PROVE  /\ Engulfing(a, m) <=> Engulfing(b, c)
           /\ Harami(a, m, atr) <=> Harami(b, c, atr)
           /\ Big(m, atr) <=> Big(c, atr)
           /\ Big(c, atr) => Bull(c) \/ Bear(c)
           /\ LongLower(m) <=> LongUpper(c)
           /\ LongUpper(m) <=> LongLower(c)
           /\ ~(LongLower(c) /\ LongUpper(c))
           /\ SmallBody(m) <=> SmallBody(c)
<1>0. Ceiling \in Int /\ Scale \in Nat
  BY Bounds
<1>1. /\ BodyLow(m) = Ceiling - BodyHigh(c) /\ BodyHigh(m) = Ceiling - BodyLow(c)
      /\ BodyLow(c) \in Int /\ BodyHigh(c) \in Int
      /\ Body(m) = Body(c) /\ Body(c) \in Nat
      /\ Body(c) = 0 <=> ~Bull(c) /\ ~Bear(c)
      /\ LowerShadow(m) = UpperShadow(c) /\ UpperShadow(m) = LowerShadow(c)
      /\ LowerShadow(c) \in Int /\ UpperShadow(c) \in Int
      /\ m.high - m.low = c.high - c.low /\ (m.high > m.low <=> c.high > c.low)
  BY BodiesOpposite
<1>2. /\ BodyLow(a) = Ceiling - BodyHigh(b) /\ BodyHigh(a) = Ceiling - BodyLow(b)
      /\ BodyLow(b) \in Int /\ BodyHigh(b) \in Int
      /\ Body(a) = Body(b) /\ Body(b) \in Nat
  BY BodiesOpposite
<1>3. Engulfing(a, m) <=> Engulfing(b, c)
  BY <1>0, <1>1, <1>2 DEF Engulfing
<1>4. BodyLow(m) >= BodyLow(a) /\ BodyHigh(m) <= BodyHigh(a)
        <=> BodyLow(c) >= BodyLow(b) /\ BodyHigh(c) <= BodyHigh(b)
  BY <1>0, <1>1, <1>2
<1>5. Harami(a, m, atr) <=> Harami(b, c, atr)
  BY <1>1, <1>2, <1>4 DEF Harami
<1>6. Big(m, atr) <=> Big(c, atr)
  BY <1>1 DEF Big
<1>7. Big(c, atr) => Bull(c) \/ Bear(c)
  <2> SUFFICES ASSUME Big(c, atr), Body(c) = 0 PROVE FALSE
    BY <1>1
  <2>1. Body(c) * Scale = 0
    BY <1>0
  <2> QED
    BY <2>1 DEF Big
<1>8. LongLower(m) <=> LongUpper(c)
  BY <1>1 DEF LongLower, LongUpper
<1>9. LongUpper(m) <=> LongLower(c)
  BY <1>1 DEF LongLower, LongUpper
<1>10. ~(LongLower(c) /\ LongUpper(c))
  BY <1>1 DEF LongLower, LongUpper
<1>11. SmallBody(m) <=> SmallBody(c)
  BY <1>1 DEF SmallBody
<1> QED
  BY <1>3, <1>5, <1>6, <1>7, <1>8, <1>9, <1>10, <1>11

LEMMA PatternOpposite ==
    ASSUME NEW b, Prices(b), NEW a, Prices(a), a.open = Ceiling - b.open,
           a.close = Ceiling - b.close, a.high = Ceiling - b.low, a.low = Ceiling - b.high,
           NEW c, Prices(c), NEW m, Prices(m), m.open = Ceiling - c.open,
           m.close = Ceiling - c.close, m.high = Ceiling - c.low, m.low = Ceiling - c.high,
           NEW atr \in Nat, NEW here \in {"Support", "Resistance", "None"}
    PROVE  Pattern(a, m, Mirror(here), atr) = Mirror(Pattern(b, c, here, atr))
<1>1. /\ Bull(m) <=> Bear(c)
      /\ Bear(m) <=> Bull(c)
      /\ Bull(a) <=> Bear(b)
      /\ Bear(a) <=> Bull(b)
  BY BodiesOpposite
<1>2. ~(Bull(c) /\ Bear(c))
  BY DEF Bull, Bear, Prices
<1>3. /\ Engulfing(a, m) <=> Engulfing(b, c)
      /\ Harami(a, m, atr) <=> Harami(b, c, atr)
      /\ Big(m, atr) <=> Big(c, atr)
      /\ Big(c, atr) => Bull(c) \/ Bear(c)
      /\ LongLower(m) <=> LongUpper(c)
      /\ LongUpper(m) <=> LongLower(c)
      /\ ~(LongLower(c) /\ LongUpper(c))
      /\ SmallBody(m) <=> SmallBody(c)
  BY ShapesOpposite
<1>4. CASE here = "None"
  BY <1>4 DEF Pattern, Mirror
<1>5. CASE here # "None"
  <2>1. here \in {"Support", "Resistance"} /\ Mirror(here) # "None"
    BY <1>5 DEF Mirror
  <2>2. Mirror(here) = "Support" <=> here # "Support"
    BY <2>1 DEF Mirror
  <2>3. /\ Pattern(a, m, Mirror(here), atr) = PatternAt(a, m, Mirror(here), atr)
        /\ Pattern(b, c, here, atr) = PatternAt(b, c, here, atr)
    BY <1>5, <2>1 DEF Pattern
  <2>4. PatternAt(a, m, Mirror(here), atr) = Mirror(PatternAt(b, c, here, atr))
    BY <1>1, <1>2, <1>3, <2>2 DEF PatternAt, Mirror
  <2> QED
    BY <2>3, <2>4
<1> QED
  BY <1>4, <1>5

(***************************************************************************)
(* The features of a window and of its reflection: the two ends of the     *)
(* channel are prices of candles, and the volumes stay what they are.      *)
(***************************************************************************)
LEMMA Extremes ==
    ASSUME NEW n \in Nat \ {0}, NEW f, \A i \in 1..n : f[i] \in Int
    PROVE  /\ \E i \in 1..n : \A k \in 1..n : f[k] <= f[i]
           /\ \E i \in 1..n : \A k \in 1..n : f[i] <= f[k]
<1> DEFINE Good(m) == /\ \E i \in 1..m : \A k \in 1..m : f[k] <= f[i]
                      /\ \E i \in 1..m : \A k \in 1..m : f[i] <= f[k]
           Bad == {m \in 1..n : ~Good(m)}
<1>1. Bad = {}
  <2> SUFFICES ASSUME Bad # {} PROVE FALSE
    OBVIOUS
  <2>1. PICK m \in Bad : \A j \in Bad : m <= j
    <3>1. Bad \subseteq 1..n
      OBVIOUS
    <3> HIDE DEF Bad
    <3> QED
      BY <3>1, LeastOf
  <2>2. m \in 1..n /\ m \in Int /\ ~Good(m)
    OBVIOUS
  <2>3. CASE m = 1
    <3>1. 1 \in 1..m /\ f[1] <= f[1] /\ \A k \in 1..m : k = 1
      BY <2>2, <2>3
    <3> QED
      BY <2>2, <3>1
  <2>4. CASE m # 1
    <3>1. m - 1 \in 1..n /\ ~(m <= m - 1)
      BY <2>2, <2>4
    <3>2. Good(m - 1)
      <4> HIDE DEF Good
      <4> QED
        BY <2>1, <3>1
    <3>3. PICK i \in 1..(m - 1) : \A k \in 1..(m - 1) : f[k] <= f[i]
      BY <3>2
    <3>4. PICK j \in 1..(m - 1) : \A k \in 1..(m - 1) : f[j] <= f[k]
      BY <3>2
    <3>5. /\ i \in 1..n /\ j \in 1..n /\ i \in 1..m /\ j \in 1..m /\ m \in 1..m
          /\ \A k \in 1..m : k \in 1..n /\ (k = m \/ k \in 1..(m - 1))
      BY <2>2
    <3>6. \E x \in 1..m : \A k \in 1..m : f[k] <= f[x]
      <4>1. CASE f[m] <= f[i]
        BY <3>3, <3>5, <4>1
      <4>2. CASE ~(f[m] <= f[i])
        <5>0. f[m] \in Int /\ f[i] \in Int /\ \A k \in 1..m : f[k] \in Int
          BY <2>2, <3>5
        <5>1. ASSUME NEW k \in 1..m PROVE f[k] <= f[m]
          <6>1. f[k] \in Int /\ (k = m \/ f[k] <= f[i])
            BY <3>3, <3>5, <5>0
          <6> QED
            BY <4>2, <5>0, <6>1
        <5> QED
          BY <3>5, <5>1
      <4> QED
        BY <4>1, <4>2
    <3>7. \E x \in 1..m : \A k \in 1..m : f[x] <= f[k]
      <4>1. CASE f[j] <= f[m]
        BY <3>4, <3>5, <4>1
      <4>2. CASE ~(f[j] <= f[m])
        <5>0. f[m] \in Int /\ f[j] \in Int /\ \A k \in 1..m : f[k] \in Int
          BY <2>2, <3>5
        <5>1. ASSUME NEW k \in 1..m PROVE f[m] <= f[k]
          <6>1. f[k] \in Int /\ (k = m \/ f[j] <= f[k])
            BY <3>4, <3>5, <5>0
          <6> QED
            BY <4>2, <5>0, <6>1
        <5> QED
          BY <3>5, <5>1
      <4> QED
        BY <4>1, <4>2
    <3> QED
      BY <2>2, <3>6, <3>7
  <2> QED
    BY <2>3, <2>4
<1>2. n \in 1..n
  OBVIOUS
<1> QED
  BY <1>1, <1>2

\* The last candles before the latest one.
LEMMA RecentIs ==
    ASSUME NEW X, NEW w \in Seq(X), Len(w) = Window, NEW p \in 1..(Window - 1)
    PROVE  LET r == Recent(First(w, Len(w) - 1), p)
           IN  /\ DOMAIN r = 1..p
               /\ \A i \in 1..p : /\ r[i] = w[i + (Window - 1 - p)]
                                  /\ i + (Window - 1 - p) \in 1..Window
<1> DEFINE h == First(w, Len(w) - 1)
           q == Window - 1 - p
           n == Window - 1
<1>1. Window \in Nat /\ n \in 1..Len(w) /\ n \in Nat /\ q \in 0..n /\ n - q = p /\ p \in Nat
  BY Bounds
<1>2. h \in Seq(X) /\ Len(h) = n /\ \A i \in 1..n : h[i] = w[i]
  <2>1. h = First(w, n)
    OBVIOUS
  <2> HIDE DEF h, n
  <2> QED
    BY <1>1, <2>1, Firsts
<1>3. Recent(h, p) = SubSeq(h, q + 1, n)
  <2>1. Len(h) - p + 1 = q + 1
    BY <1>1, <1>2
  <2> HIDE DEF h, q
  <2> QED
    BY <1>2, <2>1 DEF Recent
<1> HIDE DEF h, q
<1>4. LET r == SubSeq(h, q + 1, n)
      IN  /\ r \in Seq(X) /\ Len(r) = n - q
          /\ \A i \in 1..(n - q) : r[i] = h[i + q] /\ i + q \in 1..n
  <2> HIDE DEF n
  <2>1. h \in Seq(X) /\ Len(h) = n
    BY <1>2
  <2>2. q \in 0..Len(h) /\ n \in q..Len(h)
    BY <1>1, <2>1
  <2> QED
    BY <2>1, <2>2, Rests
<1> DEFINE r == Recent(h, p)
<1>5. r \in Seq(X) /\ Len(r) = p /\ \A i \in 1..p : r[i] = h[i + q] /\ i + q \in 1..n
  BY <1>1, <1>3, <1>4
<1> HIDE DEF r
<1>6. DOMAIN r = 1..p
  BY <1>5
<1>7. \A i \in 1..p : r[i] = w[i + q] /\ i + q \in 1..Window
  BY <1>1, <1>2, <1>5
<1> QED
  BY <1>6, <1>7 DEF r, h, q

Upper(w) == Max({k.high : k \in Range(Recent(First(w, Window - 1), DonchianUpper))})
Lower(w) == Min({k.low : k \in Range(Recent(First(w, Window - 1), DonchianLower))})

LEMMA ChannelIs ==
    ASSUME NEW w, Full(w)
    PROVE  Upper(w) \in Int /\ Lower(w) \in Int
<1>1. w \in Seq(ReplayCandles) /\ Len(w) = Window
  BY DEF Full
<1>2. \A i \in 1..Window : w[i].high \in Int /\ w[i].low \in Int
  BY <1>1, TurnedIs, CandleIs DEF Prices
<1>3. Upper(w) \in Int
  <2> DEFINE p == DonchianUpper
             r == Recent(First(w, Window - 1), p)
             f == [i \in 1..p |-> r[i].high]
             S == {k.high : k \in Range(r)}
  <2>1. p \in 1..(Window - 1) /\ p \in Nat \ {0}
    BY Bounds
  <2>2. /\ DOMAIN r = 1..p
        /\ \A i \in 1..p : /\ r[i] = w[i + (Window - 1 - p)]
                           /\ i + (Window - 1 - p) \in 1..Window
    <3>1. r = Recent(First(w, Len(w) - 1), p)
      BY <1>1
    <3> HIDE DEF p, r
    <3>2. LET t == Recent(First(w, Len(w) - 1), p)
          IN  /\ DOMAIN t = 1..p
              /\ \A i \in 1..p : /\ t[i] = w[i + (Window - 1 - p)]
                                 /\ i + (Window - 1 - p) \in 1..Window
      BY <1>1, <2>1, RecentIs
    <3> QED
      BY <3>1, <3>2
  <2>3. \A i \in 1..p : f[i] \in Int /\ f[i] = r[i].high
    BY <1>2, <2>2
  <2>4. S = {f[i] : i \in 1..p}
    BY <2>2 DEF Range
  <2> HIDE DEF p, r, f, S
  <2>5. \E i \in 1..p : \A k \in 1..p : f[k] <= f[i]
    BY <2>1, <2>3, Extremes
  <2>6. \E x \in S : \A y \in S : x >= y
    BY <2>3, <2>4, <2>5
  <2>7. Max(S) \in S
    BY <2>6 DEF Max
  <2>8. Max(S) \in Int
    BY <2>3, <2>4, <2>7
  <2> QED
    BY <2>8 DEF Upper, S, r, p
<1>4. Lower(w) \in Int
  <2> DEFINE p == DonchianLower
             r == Recent(First(w, Window - 1), p)
             f == [i \in 1..p |-> r[i].low]
             S == {k.low : k \in Range(r)}
  <2>1. p \in 1..(Window - 1) /\ p \in Nat \ {0}
    BY Bounds
  <2>2. /\ DOMAIN r = 1..p
        /\ \A i \in 1..p : /\ r[i] = w[i + (Window - 1 - p)]
                           /\ i + (Window - 1 - p) \in 1..Window
    <3>1. r = Recent(First(w, Len(w) - 1), p)
      BY <1>1
    <3> HIDE DEF p, r
    <3>2. LET t == Recent(First(w, Len(w) - 1), p)
          IN  /\ DOMAIN t = 1..p
              /\ \A i \in 1..p : /\ t[i] = w[i + (Window - 1 - p)]
                                 /\ i + (Window - 1 - p) \in 1..Window
      BY <1>1, <2>1, RecentIs
    <3> QED
      BY <3>1, <3>2
  <2>3. \A i \in 1..p : f[i] \in Int /\ f[i] = r[i].low
    BY <1>2, <2>2
  <2>4. S = {f[i] : i \in 1..p}
    BY <2>2 DEF Range
  <2> HIDE DEF p, r, f, S
  <2>5. \E i \in 1..p : \A k \in 1..p : f[i] <= f[k]
    BY <2>1, <2>3, Extremes
  <2>6. \E x \in S : \A y \in S : x =< y
    BY <2>3, <2>4, <2>5
  <2>7. Min(S) \in S
    BY <2>6 DEF Min
  <2>8. Min(S) \in Int
    BY <2>3, <2>4, <2>7
  <2> QED
    BY <2>8 DEF Lower, S, r, p
<1> QED
  BY <1>3, <1>4

\* The candles of a window turned upside down.
LEMMA TurnedCandles ==
    ASSUME NEW w, Full(w)
    PROVE  /\ Turned(w) \in Seq(Range(Turned(w))) /\ Len(Turned(w)) = Window
           /\ \A i \in 1..Window :
                 /\ Prices(w[i]) /\ Prices(Turned(w)[i])
                 /\ Turned(w)[i].open = Ceiling - w[i].open
                 /\ Turned(w)[i].close = Ceiling - w[i].close
                 /\ Turned(w)[i].high = Ceiling - w[i].low
                 /\ Turned(w)[i].low = Ceiling - w[i].high
                 /\ Turned(w)[i].volume = w[i].volume
<1> DEFINE m == Turned(w)
<1>1. /\ DOMAIN m = 1..Window /\ Len(m) = Window
      /\ \A i \in 1..Window :
            w[i] \in ReplayCandles /\ Closed(w[i], Primary) /\ m[i] = Reflected(w[i])
  BY TurnedIs
<1>2. m \in [1..Window -> Range(m)]
  <2>1. m = [i \in 1..Window |-> m[i]]
    BY <1>1 DEF Turned
  <2>2. \A i \in 1..Window : m[i] \in Range(m)
    BY <1>1 DEF Range
  <2> HIDE DEF m
  <2> QED
    BY <2>1, <2>2
<1>3. \A c \in ReplayCandles : Reflected(c).volume = c.volume
  BY DEF Reflected, ReplayCandles
<1>4. m \in Seq(Range(m))
  <2> DEFINE X == Range(m)
  <2>1. m \in [1..Window -> X] /\ Window \in Nat
    BY <1>2, Bounds
  <2> HIDE DEF m, X
  <2>2. m \in Seq(X)
    BY <2>1, SequenceOf
  <2> QED
    BY <2>2 DEF X
<1> HIDE DEF m
<1>5. ASSUME NEW i \in 1..Window
      PROVE  /\ Prices(w[i]) /\ Prices(m[i])
             /\ m[i].open = Ceiling - w[i].open /\ m[i].close = Ceiling - w[i].close
             /\ m[i].high = Ceiling - w[i].low /\ m[i].low = Ceiling - w[i].high
             /\ m[i].volume = w[i].volume
  BY <1>1, <1>3, CandleIs
<1> QED
  BY <1>1, <1>4, <1>5 DEF m

LEMMA VolumeOpposite ==
    ASSUME NEW w, Full(w)
    PROVE  VolumeRatio(Turned(w)) = VolumeRatio(w)
<1> DEFINE m == Turned(w)
           p == VolumePeriod
           q == Window - 1 - p
           r == Recent(First(w, Len(w) - 1), p)
           t == Recent(First(m, Len(m) - 1), p)
<1>1. /\ w \in Seq(ReplayCandles) /\ Len(w) = Window
      /\ m \in Seq(Range(m)) /\ Len(m) = Window
      /\ \A i \in 1..Window : m[i].volume = w[i].volume
  BY TurnedCandles DEF Full
<1>2. p \in 1..(Window - 1) /\ Window \in 1..Window
  BY Bounds
<1> HIDE DEF m, p
<1>3. /\ DOMAIN r = 1..p
      /\ \A i \in 1..p : r[i] = w[i + q] /\ i + q \in 1..Window
  BY <1>1, <1>2, RecentIs
<1>4. /\ DOMAIN t = 1..p
      /\ \A i \in 1..p : t[i] = m[i + q] /\ i + q \in 1..Window
  <2> DEFINE X == Range(m)
  <2>1. m \in Seq(X)
    BY <1>1
  <2> HIDE DEF X
  <2> QED
    BY <1>1, <1>2, <2>1, RecentIs
<1> HIDE DEF r, t, q
<1>5. Values(t, "volume") = Values(r, "volume")
  BY <1>1, <1>3, <1>4 DEF Values
<1>6. Last(m).volume = Last(w).volume
  BY <1>1, <1>2 DEF Last
<1> QED
  BY <1>5, <1>6 DEF VolumeRatio, r, t, m, p

\* What compute_timeframe_features says of a window.
FeaturesAt(w, c, p, upper, lower, fast, slow, rsi, atr, adx, volume) ==
    LET location == KeyLocation(c, upper, lower, slow, atr)
    IN [candle |-> c, upper |-> upper, lower |-> lower, fast |-> fast, slow |-> slow,
        rsi |-> rsi, atr |-> atr, adx |-> adx, volume |-> volume,
        alignment |-> EmaAlignment(c.close, fast, slow, atr), location |-> location,
        pattern |-> Pattern(p, c, location, atr)]
FeaturesOf(w) ==
    LET closes == Values(w, "close")
    IN FeaturesAt(w, w[Window], w[Window - 1], Upper(w), Lower(w), Rounded(Ema(closes, EmaFast)),
                  Rounded(Ema(closes, EmaSlow)), Rsi(closes, Wilder), Atr(w), Adx(w),
                  VolumeRatio(w))
Featured(w) ==
    Unavailable \notin {Rsi(Values(w, "close"), Wilder), Atr(w), Adx(w), VolumeRatio(w)}
    /\ Atr(w) # 0

LEMMA FeaturesAre ==
    ASSUME NEW X, NEW w \in Seq(X), Len(w) = Window
    PROVE  TimeframeFeatures(w) = IF Featured(w) THEN {FeaturesOf(w)} ELSE {}
<1>1. Window \in Nat /\ Window - 1 \in 1..Len(w) /\ Window - 1 \in 1..(Window - 1)
  BY Bounds
<1>2. Last(w) = w[Window]
  BY DEF Last
<1>3. Last(First(w, Window - 1)) = w[Window - 1]
  <2> DEFINE n == Window - 1
  <2>1. n \in 1..Len(w) /\ n \in 1..n
    BY <1>1
  <2> HIDE DEF n
  <2>2. Len(First(w, n)) = n /\ First(w, n)[n] = w[n]
    BY <2>1, Firsts
  <2> QED
    BY <2>2 DEF Last, n
<1> QED
  BY <1>2, <1>3, ZenonT(40) DEF TimeframeFeatures, FeaturesOf, FeaturesAt, Featured, Upper, Lower

LEMMA FeaturesTurn ==
    ASSUME NEW w, Full(w), NEW f \in TimeframeFeatures(w)
    PROVE  \E g \in TimeframeFeatures(Turned(w)) : FeaturesMirror(f, g)
<1> DEFINE m == Turned(w)
           g == FeaturesOf(m)
           b == w[Window - 1]
           c == w[Window]
           a == m[Window - 1]
           e == m[Window]
           atr == Atr(w)
           s == Values(w, "close")
           t == Values(m, "close")
           slow == Rounded(Ema(s, EmaSlow))
           fast == Rounded(Ema(s, EmaFast))
           K == Ceiling * Scale
<1>1. /\ w \in Seq(ReplayCandles) /\ Len(w) = Window
      /\ m \in Seq(Range(m)) /\ Len(m) = Window
  BY TurnedCandles DEF Full
<1>2. Featured(w) /\ f = FeaturesOf(w)
  BY <1>1, FeaturesAre
<1>3. /\ Rsi(t, Wilder) = 100 * Scale - Rsi(s, Wilder) /\ Rsi(t, Wilder) # Unavailable
      /\ Atr(m) = atr /\ Adx(m) = Adx(w)
      /\ Rounded(Ema(t, EmaFast)) = K - fast /\ Rounded(Ema(t, EmaSlow)) = K - slow
  BY <1>2, IndicatorsTurn DEF IndicatorsMirror, Featured
<1>4. VolumeRatio(m) = VolumeRatio(w)
  BY VolumeOpposite
<1>5. g \in TimeframeFeatures(m)
  <2>1. Featured(m)
    BY <1>2, <1>3, <1>4 DEF Featured
  <2> DEFINE X == Range(m)
  <2>2. m \in Seq(X)
    BY <1>1
  <2> HIDE DEF m, X
  <2>3. TimeframeFeatures(m) = {FeaturesOf(m)}
    BY <1>1, <2>1, <2>2, FeaturesAre
  <2> QED
    BY <2>3
<1>6. atr \in Nat /\ atr \in Int
  BY <1>2, AtrOpposite DEF Featured
<1>7. slow \in Int /\ fast \in Int
  <2>1. s \in Seq(Int) /\ Len(s) = Window
    BY Closes
  <2>2. /\ EmaSlow \in Nat \ {0} /\ EmaSlow <= Len(s)
        /\ EmaFast \in Nat \ {0} /\ EmaFast <= Len(s)
    BY <2>1, Bounds
  <2> HIDE DEF s
  <2>3. Ema(s, EmaSlow) \in Fractions /\ Ema(s, EmaFast) \in Fractions
    BY <2>1, <2>2, EmaType
  <2> QED
    BY <2>3, RoundedType
<1>8. Window \in 1..Window /\ Window - 1 \in 1..Window
  BY Bounds
<1>9. /\ Prices(c) /\ Prices(e) /\ e.open = Ceiling - c.open /\ e.close = Ceiling - c.close
      /\ e.high = Ceiling - c.low /\ e.low = Ceiling - c.high
  BY <1>8, TurnedCandles
<1>10. /\ Prices(b) /\ Prices(a) /\ a.open = Ceiling - b.open /\ a.close = Ceiling - b.close
       /\ a.high = Ceiling - b.low /\ a.low = Ceiling - b.high
  BY <1>8, TurnedCandles
<1>11. Upper(w) \in Int /\ Lower(w) \in Int
  BY ChannelIs
<1>12. /\ f = FeaturesAt(w, c, b, Upper(w), Lower(w), fast, slow, Rsi(s, Wilder), atr, Adx(w),
                         VolumeRatio(w))
       /\ g = FeaturesAt(m, e, a, Upper(m), Lower(m), K - fast, K - slow,
                         100 * Scale - Rsi(s, Wilder), atr, Adx(w), VolumeRatio(w))
  <2> HIDE DEF m
  <2> QED
    BY <1>2, <1>3, <1>4 DEF FeaturesOf
<1> HIDE DEF m, g, a, b, c, e, atr, slow, fast, s, t
<1>13. EmaAlignment(e.close, K - fast, K - slow, atr) = Mirror(EmaAlignment(c.close, fast, slow, atr))
  <2> DEFINE x == c.close
  <2>1. x \in Int
    BY <1>9 DEF Prices
  <2> HIDE DEF x
  <2>2. EmaAlignment(Ceiling - x, Ceiling * Scale - fast, Ceiling * Scale - slow, atr)
           = Mirror(EmaAlignment(x, fast, slow, atr))
    BY <1>6, <1>7, <2>1, AlignmentOpposite
  <2> QED
    BY <1>9, <2>2 DEF x
<1>14. ASSUME NEW upper \in Int, NEW lower \in Int
       PROVE  LET here == KeyLocation(c, upper, lower, slow, atr)
                  there == KeyLocation(e, Ceiling - lower, Ceiling - upper, K - slow, atr)
              IN  /\ there = Mirror(here)
                  /\ Pattern(a, e, there, atr) = Mirror(Pattern(b, c, here, atr))
  <2> DEFINE here == KeyLocation(c, upper, lower, slow, atr)
             there == KeyLocation(e, Ceiling - lower, Ceiling - upper, K - slow, atr)
  <2>1. there = Mirror(here)
    BY <1>6, <1>7, <1>9, LocationOpposite
  <2>2. here \in {"Support", "Resistance", "None"}
    BY <1>6, <1>7, <1>9, LocationOpposite
  <2> HIDE DEF here, there
  <2>3. Pattern(a, e, Mirror(here), atr) = Mirror(Pattern(b, c, here, atr))
    BY <1>6, <1>9, <1>10, <2>2, PatternOpposite
  <2> QED
    BY <2>1, <2>3 DEF here, there
<1> DEFINE u == Upper(w)
           l == Lower(w)
<1>15. /\ f.rsi = Rsi(s, Wilder) /\ f.atr = atr /\ f.adx = Adx(w) /\ f.volume = VolumeRatio(w)
       /\ f.fast = fast /\ f.slow = slow /\ f.upper = u /\ f.lower = l
       /\ f.alignment = EmaAlignment(c.close, fast, slow, atr)
       /\ f.location = KeyLocation(c, u, l, slow, atr)
       /\ f.pattern = Pattern(b, c, f.location, atr)
  BY <1>12 DEF FeaturesAt
<1>16. /\ g.rsi = 100 * Scale - Rsi(s, Wilder) /\ g.atr = atr /\ g.adx = Adx(w)
       /\ g.volume = VolumeRatio(w) /\ g.fast = K - fast /\ g.slow = K - slow
       /\ g.alignment = EmaAlignment(e.close, K - fast, K - slow, atr)
       /\ g.location = KeyLocation(e, g.upper, g.lower, K - slow, atr)
       /\ g.pattern = Pattern(a, e, g.location, atr)
  BY <1>12 DEF FeaturesAt
<1> HIDE DEF u, l, K
<1>17. ChannelTurns(f, g) => g.location = Mirror(f.location) /\ g.pattern = Mirror(f.pattern)
  <2> SUFFICES ASSUME ChannelTurns(f, g)
               PROVE  g.location = Mirror(f.location) /\ g.pattern = Mirror(f.pattern)
    OBVIOUS
  <2>1. g.upper = Ceiling - l /\ g.lower = Ceiling - u
    BY <1>15 DEF ChannelTurns
  <2>2. u \in Int /\ l \in Int
    BY <1>11 DEF u, l
  <2> QED
    BY <1>14, <1>15, <1>16, <2>1, <2>2
<1>18. FeaturesMirror(f, g)
  BY <1>13, <1>15, <1>16, <1>17 DEF FeaturesMirror, K
<1> QED
  BY <1>5, <1>18 DEF m

(***************************************************************************)
(* Every record was made of a whole window of closed candles with an ATR.  *)
(***************************************************************************)
Turnable(w) == Full(w) /\ TimeframeFeatures(w) # {}
WindowInv ==
    \A id \in DOMAIN runs : \A i \in DOMAIN runs[id].records :
        Turnable(runs[id].records[i].snapshot.input[1])

\* The last candles of a series that is long enough.
LEMMA ActiveIs ==
    ASSUME NEW c \in Seq(ReplayCandles), Window <= Len(c), \A i \in DOMAIN c : Closed(c[i], Primary)
    PROVE  Full(Active(c))
<1> DEFINE p == Len(c) - Window
           n == Len(c)
<1>1. n \in Nat /\ Window \in Nat /\ p \in 0..n /\ n \in p..n /\ n - p = Window
  BY Bounds
<1> HIDE DEF p
<1>2. LET r == SubSeq(c, p + 1, n)
      IN  /\ r \in Seq(ReplayCandles) /\ Len(r) = Window
          /\ \A i \in 1..Window : r[i] = c[i + p] /\ i + p \in 1..n
  BY <1>1, Rests
<1>3. Active(c) = SubSeq(c, p + 1, n)
  BY DEF Active, p
<1> QED
  BY <1>2, <1>3 DEF Full

\* A snapshot of a replay was made of a whole window.
LEMMA SnapshotIs ==
    ASSUME NEW q, GoodRequest(q), NEW a, RunOf(q, a), NEW s \in SnapshotsOf(a)
    PROVE  Turnable(s.input[1])
<1> DEFINE d == a.data[a.turn]
           S == {i \in DOMAIN d.primary : CloseOf(d.primary[i], Primary) <= a.at}
           c == AvailableCandles(d.primary, Primary, a.at)
<1>1. a.data = q.data /\ a.turn \in 1..Len(q.data) /\ a.at \in Nat
  BY RunFields DEF RunOf
<1>2. d.primary \in Seq(ReplayCandles) /\ Contiguous(d.primary, Primary)
  <2>1. a.turn \in DOMAIN q.data
    BY <1>1 DEF GoodRequest
  <2> QED
    BY <1>1, <2>1 DEF GoodRequest, ReplayDataset, ReplayInstrumentData
<1>3. Starts(S, d.primary)
  <2> HIDE DEF d
  <2> QED
    BY <1>1, <1>2, CandlesReady, Periods
<1>4. c = Prefix(d.primary, S)
  BY DEF AvailableCandles
<1>5. /\ c \in Seq(ReplayCandles) /\ DOMAIN c = S
      /\ \A i \in S : c[i] = d.primary[i]
  <2> HIDE DEF d, S, c
  <2> QED
    BY <1>2, <1>3, <1>4, PrefixIs
<1>6. \A i \in DOMAIN c : Closed(c[i], Primary)
  <2>1. \A i \in DOMAIN d.primary : Closed(d.primary[i], Primary)
    BY <1>2 DEF Contiguous
  <2> HIDE DEF c, d
  <2> QED
    BY <1>5, <2>1
<1>7. /\ WindowUsable(c, Primary, a.at) /\ s.input[1] = Active(c)
      /\ TimeframeFeatures(Active(c)) # {}
  <2> HIDE DEF c
  <2> DEFINE e == AvailableCandles(d.confirmation, Hour, a.at)
             books == AvailableBooks(d.books, a.at)
  <2>1. s \in Snapshots(d.instrument, c, e, Last(books), a.at)
    BY DEF SnapshotsOf, c
  <2> HIDE DEF e, books
  <2>2. WindowUsable(c, Primary, a.at)
    BY <2>1 DEF Snapshots
  <2>3. \E p \in TimeframeFeatures(Active(c)) : s.input[1] = Active(c)
    BY <2>1 DEF Snapshots
  <2> QED
    BY <2>2, <2>3
<1>8. Window <= Len(c)
  <2> HIDE DEF c
  <2>1. Window <= Len(c) <=> Len(c) >= Window
    OBVIOUS
  <2> QED
    BY <1>7, <2>1 DEF WindowUsable
<1> HIDE DEF c
<1>9. Full(Active(c))
  BY <1>5, <1>6, <1>8, ActiveIs
<1> QED
  BY <1>7, <1>9 DEF Turnable

LEMMA WindowsStart == ReplayInit => WindowInv
<1> SUFFICES ASSUME ReplayInit, NEW id \in DOMAIN runs PROVE runs[id].records = <<>>
  BY DEF WindowInv
<1> QED
  BY DEF ReplayInit, Started

LEMMA WindowsGrow == TraceInv /\ WindowInv /\ [ReplayNext]_replayVars => WindowInv'
<1> SUFFICES ASSUME TraceInv, WindowInv, [ReplayNext]_replayVars PROVE WindowInv'
  OBVIOUS
<1>1. CASE runs' = runs
  BY <1>1 DEF WindowInv
<1>2. CASE runs' # runs
  <2>1. PICK id \in DOMAIN runs : \E b : Moved(runs[id], b) /\ runs' = [runs EXCEPT ![id] = b]
    BY <1>2, ReplaySteps
  <2>2. PICK b : Moved(runs[id], b) /\ runs' = [runs EXCEPT ![id] = b]
    BY <2>1
  <2> DEFINE a == runs[id]
  <2>3. GoodRequest(id) /\ RunOf(id, a)
    <3>1. GoodRequest(id) /\ HasTrace(id, a)
      BY DEF TraceInv
    <3>2. PICK n \in Nat \ {0} : \E tr : IsTrace(id, n, tr) /\ tr[n] = a
      BY <3>1 DEF HasTrace
    <3>3. PICK tr : IsTrace(id, n, tr) /\ tr[n] = a
      BY <3>2
    <3>4. n \in 1..n
      OBVIOUS
    <3> QED
      BY <3>1, <3>3, <3>4 DEF IsTrace
  <2>4. /\ DOMAIN runs' = DOMAIN runs /\ runs'[id] = b
        /\ \A j \in DOMAIN runs : j # id => runs'[j] = runs[j]
    BY <2>2
  <2>5. \A i \in DOMAIN a.records : Turnable(a.records[i].snapshot.input[1])
    BY DEF WindowInv
  <2>6. \A i \in DOMAIN b.records : Turnable(b.records[i].snapshot.input[1])
    <3> HIDE DEF a
    <3>1. CASE SnapshotsOf(a) = {} /\ b = Failing(a)
      <4>1. b.records = <<>>
        BY <2>3, <3>1, FailingIs, RunFields
      <4> QED
        BY <4>1
    <3>2. CASE \E s \in SnapshotsOf(a) : b = Evaluated(a, s)
      <4>1. PICK s \in SnapshotsOf(a) : b = Evaluated(a, s)
        BY <3>2
      <4>2. b.records = Append(a.records, RecordOf(a, s))
        <5> DEFINE es == [a.engines EXCEPT ![a.turn] = Evaluation(a, s).engine]
                   ps == [a.previous EXCEPT ![a.turn] = {s}]
                   rs == Append(a.records, RecordOf(a, s))
        <5>1. PICK st, x, u :
                b = Run(st, id.data, id.manifest.start, x, id.manifest.end, u, rs, es, ps)
          BY <2>3, <4>1, EvaluatedIs
        <5> HIDE DEF es, ps, rs
        <5>2. b.records = rs
          BY <5>1, RunFields
        <5> QED
          BY <5>2 DEF rs
      <4>3. Turnable(RecordOf(a, s).snapshot.input[1])
        BY <2>3, <4>1, SnapshotIs DEF RecordOf
      <4>4. a.records \in Seq(Range(a.records))
        BY <2>3 DEF RunOf
      <4>5. /\ Len(a.records) \in Nat /\ DOMAIN a.records = 1..Len(a.records)
            /\ DOMAIN b.records = 1..(Len(a.records) + 1)
            /\ b.records[Len(a.records) + 1] = RecordOf(a, s)
            /\ \A i \in 1..Len(a.records) : b.records[i] = a.records[i]
        BY <4>2, <4>4, Appended
      <4>6. \A i \in DOMAIN b.records : i \in DOMAIN a.records \/ i = Len(a.records) + 1
        BY <4>5
      <4> QED
        BY <2>5, <4>3, <4>5, <4>6
    <3> QED
      BY <2>2, <3>1, <3>2 DEF Moved, a
  <2> QED
    BY <2>4, <2>5, <2>6 DEF WindowInv
<1> QED
  BY <1>1, <1>2

LEMMA WindowsMirror == TraceInv /\ WindowInv => MirrorImage
<1> SUFFICES ASSUME TraceInv, WindowInv, NEW q \in DOMAIN runs, runs[q].records # <<>>
             PROVE  LET w == Last(runs[q].records).snapshot.input[1]
                        m == [i \in DOMAIN w |-> Reflected(w[i])]
                    IN \A f \in TimeframeFeatures(w) :
                           \E g \in TimeframeFeatures(m) : FeaturesMirror(f, g)
  BY DEF MirrorImage
<1> DEFINE rs == runs[q].records
           w == Last(rs).snapshot.input[1]
<1>1. rs \in Seq(Range(rs))
  <2>1. PICK n \in Nat \ {0} : \E tr : IsTrace(q, n, tr) /\ tr[n] = runs[q]
    BY DEF TraceInv, HasTrace
  <2>2. PICK tr : IsTrace(q, n, tr) /\ tr[n] = runs[q]
    BY <2>1
  <2>3. n \in 1..n
    OBVIOUS
  <2>4. RunOf(q, runs[q])
    BY <2>2, <2>3 DEF IsTrace
  <2> QED
    BY <2>4 DEF RunOf
<1>2. Len(rs) \in DOMAIN rs
  <2> DEFINE X == Range(rs)
  <2>1. rs \in Seq(X) /\ rs # <<>>
    BY <1>1
  <2> HIDE DEF rs, X
  <2> QED
    BY <2>1
<1>3. Turnable(w)
  BY <1>2 DEF WindowInv, Last
<1> HIDE DEF w
<1>4. \A f \in TimeframeFeatures(w) : \E g \in TimeframeFeatures(Turned(w)) : FeaturesMirror(f, g)
  BY <1>3, FeaturesTurn DEF Turnable
<1> QED
  BY <1>4 DEF Turned, w

\* Whatever the dataset, the periods and the step of rounding, a market turned upside down has its
\* indicators and alignment turned upside down, and its key location and pattern too whenever the
\* channel of the reflected window is the reflected channel. It need not be: its two ends have
\* periods of their own (market_features.rs: compute_timeframe_features and what it calls).
THEOREM UpsideDownIsMirrored == ReplaySpec => []MirrorImage
<1>1. TraceInv /\ [ReplayNext]_replayVars => TraceInv'
  BY TracesGrow
<1>2. ReplayInit => TraceInv /\ WindowInv
  BY TracesStart, WindowsStart
<1>3. ReplaySpec => [](TraceInv /\ WindowInv)
  BY <1>1, <1>2, WindowsGrow, PTL DEF ReplaySpec
<1> QED
  BY <1>3, WindowsMirror, PTL
=============================================================================
