------------------------------- MODULE Replay -------------------------------
(* The market replay: a dataset is replayed instant by instant, each with    *)
(* what was available then, through the features and one eligibility engine  *)
(* per instrument. Beside it one engine that serves several instruments, in  *)
(* every context, as its interface allows.                                   *)
EXTENDS Prefilter

CONSTANTS
    Requests,         \* sets of replays, each [manifest |-> [start, end, data], data]
    Ceiling,          \* prices of candles are below it: x and Ceiling - x mirror each other
    LiveSnapshots,    \* the snapshots the shared engine may be given
    Contexts,         \* PrefilterContext without its clock
    LiveTimes         \* bound: the instants of the shared engine

\* Instants are whole, and so are prices: those of the features are in steps of the tick.
ReplayCandles == [at : Nat, open : Nat, high : Nat, low : Nat, close : Nat,
                  volume : Nat, turnover : Nat]
ReplayBooks == [bid : Nat, ask : Nat, source : Nat, observed : Nat]
ASSUME RequestAssumption ==
    \A requests \in Requests : \A q \in requests :
        /\ q.manifest.start \in Nat /\ q.manifest.end \in Nat
        /\ q.data \in Seq(Range(q.data))
        /\ \A i \in DOMAIN q.data :
              /\ q.data[i].primary \in Seq(ReplayCandles)
              /\ q.data[i].confirmation \in Seq(ReplayCandles)
              /\ q.data[i].books \in Seq(ReplayBooks)
ASSUME LiveAssumption == LiveTimes \subseteq Nat
\* Half a step is rounded to the even one: to the same one on both sides of an even mirror.
ASSUME CeilingAssumption == Ceiling \in Nat /\ (Ceiling * Scale) % 2 = 0

VARIABLES
    runs,             \* request -> the state of ReplayRunner::run
    now,              \* the clock of the shared engine
    engine,           \* its state
    lastGiven,        \* instrument -> the snapshot evaluated before, a set of at most one
    events            \* the events it emitted, numbered, each with its instant

replayVars == <<runs, now, engine, lastGiven, events>>
live == <<now, engine, lastGiven, events>>

-----------------------------------------------------------------------------
(* Datasets: instruments in the order of their ids, each with its series     *)

Contiguous(candles, frame) ==
    /\ candles /= <<>>
    /\ \A i \in DOMAIN candles : Closed(candles[i], frame)
    /\ \A i \in 1..(Len(candles) - 1) : candles[i + 1].at = CloseOf(candles[i], frame)

ReplayInstrumentData(d) ==
    /\ Contiguous(d.primary, Primary) /\ Contiguous(d.confirmation, Hour)
    /\ d.books /= <<>>
    /\ \A i \in DOMAIN d.books : TopOfBook(d.books[i])
    /\ \A i \in 1..(Len(d.books) - 1) : d.books[i].observed < d.books[i + 1].observed

ReplayDataset(data) ==
    /\ Len(data) \in 1..MaxTracked
    /\ \A i \in DOMAIN data : ReplayInstrumentData(data[i])
    /\ \A i, j \in DOMAIN data : data[i].instrument = data[j].instrument => i = j

ReplayClock(start, end) == start <= end /\ start % Primary = 0 /\ end % Primary = 0
ReplayManifest(m) == ReplayDataset(m.data) /\ ReplayClock(m.start, m.end)

-----------------------------------------------------------------------------
(* What is available at an instant: series are sorted, so this is a prefix   *)

Prefix(s, ready) == SubSeq(s, 1, Cardinality(ready))

MutantAvailableCandles(candles, frame, at) ==
    Prefix(candles, {i \in DOMAIN candles : candles[i].at <= at})
AvailableCandles(candles, frame, at) ==
    Prefix(candles, {i \in DOMAIN candles : CloseOf(candles[i], frame) <= at})
MutantAvailableBooks(books, at) == books
AvailableBooks(books, at) == Prefix(books, {i \in DOMAIN books : books[i].observed <= at})

-----------------------------------------------------------------------------
(* ReplayRunner::run                                                         *)

\* The context of every evaluation of a replay: nothing is limited.
Unlimited == [allowsNewAi |-> TRUE, enabled |-> TRUE, activePlan |-> FALSE, reviewDue |-> FALSE,
              usage |-> [calls |-> 0, tokens |-> 0, cost |-> 0, inFlight |-> 0]]

\* validate_manifest: the manifest is the one of this dataset.
Started(request) ==
    [status |-> IF request.manifest.data = request.data THEN "running" ELSE "refused",
     data |-> request.data, start |-> request.manifest.start,
     at |-> request.manifest.start, end |-> request.manifest.end,
     turn |-> 1, records |-> <<>>,
     engines |-> [i \in DOMAIN request.data |-> NewEngine],
     previous |-> [i \in DOMAIN request.data |-> {}]]

\* After the last instrument of an instant the clock moves, or the report is done.
Advanced(r) ==
    IF r.turn < Len(r.data) THEN [r EXCEPT !.turn = @ + 1]
    ELSE IF r.at = r.end THEN [r EXCEPT !.status = "done"]
    ELSE [r EXCEPT !.turn = 1, !.at = @ + Primary]

Evaluated(r, snapshot) ==
    LET i == r.turn
        evaluation == Evaluate(r.engines[i], snapshot, r.previous[i], Unlimited, r.at)
        record == [at |-> r.at, instrument |-> r.data[i].instrument, snapshot |-> snapshot,
                   verdict |-> evaluation.verdict, reasons |-> evaluation.reasons,
                   kinds |-> EventKinds(snapshot, r.previous[i], Unlimited)]
    IN Advanced([r EXCEPT !.engines[i] = evaluation.engine, !.previous[i] = {snapshot},
                          !.records = Append(@, record)])

\* Any failure ends the whole run without a report.
ReplayStep(id) ==
    LET r == runs[id]
        d == r.data[r.turn]
        primary == AvailableCandles(d.primary, Primary, r.at)
        confirmation == AvailableCandles(d.confirmation, Hour, r.at)
        books == AvailableBooks(d.books, r.at)
        snapshots == IF books = <<>> THEN {}
                     ELSE Snapshots(d.instrument, primary, confirmation, Last(books), r.at)
    IN /\ r.status = "running"
       /\ \/ /\ snapshots = {}
             /\ runs' = [runs EXCEPT ![id].status = "failed", ![id].records = <<>>]
          \/ \E snapshot \in snapshots : runs' = [runs EXCEPT ![id] = Evaluated(r, snapshot)]
       /\ UNCHANGED live

-----------------------------------------------------------------------------
(* The shared engine                                                         *)

EvaluateLive(snapshot, context) ==
    LET i == snapshot.instrument
        evaluation == Evaluate(engine, snapshot, lastGiven[i], context, now)
    IN /\ engine' = evaluation.engine
       /\ events' = IF evaluation.verdict = "event"
                    THEN events \union {[nr |-> Cardinality(events) + 1,
                                           instrument |-> i, at |-> now]}
                    ELSE events
       /\ lastGiven' = [lastGiven EXCEPT ![i] = {snapshot}]
       /\ UNCHANGED <<runs, now>>

Tick ==
    /\ now + 1 \in LiveTimes
    /\ now' = now + 1
    /\ UNCHANGED <<runs, engine, lastGiven, events>>

-----------------------------------------------------------------------------
ReplayInit ==
    /\ \E requests \in Requests :
           /\ \A q \in requests : ReplayManifest(q.manifest) /\ ReplayDataset(q.data)
           /\ runs = [q \in requests |-> Started(q)]
    /\ now \in LiveTimes
    /\ runs = <<>> => now = Min(LiveTimes)
    /\ runs /= <<>> => now = Max(LiveTimes)
    /\ engine = NewEngine
    /\ lastGiven = [i \in {s.instrument : s \in LiveSnapshots} |-> {}]
    /\ events = {}

ReplayNext ==
    \/ \E id \in DOMAIN runs : ReplayStep(id)
    \/ /\ runs = <<>>                 \* the two are checked one at a time
       /\ \/ Tick
          \/ \E s \in LiveSnapshots, c \in Contexts : EvaluateLive(s, c)

ReplaySpec == ReplayInit /\ [][ReplayNext]_replayVars

-----------------------------------------------------------------------------
Seen(d, at) == <<Prefix(d.primary, {i \in DOMAIN d.primary : CloseOf(d.primary[i], Primary) <= at}),
                 Prefix(d.confirmation,
                        {i \in DOMAIN d.confirmation : CloseOf(d.confirmation[i], Hour) <= at}),
                 Prefix(d.books, {i \in DOMAIN d.books : d.books[i].observed <= at})>>
SameUpto(r, q, at) ==
    /\ r.start = q.start /\ at <= r.end /\ at <= q.end
    /\ Len(r.data) = Len(q.data)
    /\ \A i \in DOMAIN r.data : /\ r.data[i].instrument = q.data[i].instrument
                                /\ Seen(r.data[i], at) = Seen(q.data[i], at)
Passed(r, at) == r.at > at \/ r.status = "done"
FailedBy(r, at) == r.status = "failed" /\ r.at <= at
Until(r, at) == Prefix(r.records, {i \in DOMAIN r.records : r.records[i].at <= at})

\* Two replays that reach an instant and whose data is the same up to it say the same of it:
\* nothing that closes or is observed later makes one fail or changes a record (run,
\* available_candles, available_book, the future checks of compute).
NoLookAhead ==
    \A p, q \in DOMAIN runs : \A at \in {x.at : x \in Range(runs[p].records)} :
        SameUpto(runs[p], runs[q], at) /\ Passed(runs[p], at)
            => /\ ~FailedBy(runs[q], at)
               /\ Passed(runs[q], at) /\ "failed" \notin {runs[p].status, runs[q].status}
                      => Until(runs[p], at) = Until(runs[q], at)

-----------------------------------------------------------------------------
Reflected(c) == [c EXCEPT !.open = Ceiling - @, !.close = Ceiling - @,
                          !.high = Ceiling - c.low, !.low = Ceiling - c.high]
Mirror(name) ==
    CASE name = "Support" -> "Resistance" [] name = "Resistance" -> "Support"
      [] name = "Bullish" -> "Bearish" [] name = "Bearish" -> "Bullish"
      [] name = "StrongBullish" -> "StrongBearish" [] name = "StrongBearish" -> "StrongBullish"
      [] name = "BullishEngulfing" -> "BearishEngulfing"
      [] name = "BearishEngulfing" -> "BullishEngulfing"
      [] name = "BullishHarami" -> "BearishHarami" [] name = "BearishHarami" -> "BullishHarami"
      [] name = "BigBullish" -> "BigBearish" [] name = "BigBearish" -> "BigBullish"
      [] name = "Hammer" -> "ShootingStar" [] name = "ShootingStar" -> "Hammer"
      [] name = "HangingMan" -> "InvertedHammer" [] name = "InvertedHammer" -> "HangingMan"
      [] OTHER -> name

\* Features of a window and of its reflection. The channel looks further back for its upper end
\* than for its lower one: it is reflected only when the extremes of both are among the candles
\* that either end looks at.
ChannelTurns(f, g) == g.upper = Ceiling - f.lower /\ g.lower = Ceiling - f.upper
FeaturesMirror(f, g) ==
    /\ g.rsi = 100 * Scale - f.rsi /\ g.atr = f.atr /\ g.adx = f.adx /\ g.volume = f.volume
    /\ g.fast = Ceiling * Scale - f.fast /\ g.slow = Ceiling * Scale - f.slow
    /\ g.alignment = Mirror(f.alignment)
    /\ ChannelTurns(f, g) => g.location = Mirror(f.location) /\ g.pattern = Mirror(f.pattern)

\* But for its channel, the features of a market turned upside down are turned upside down: the
\* indicators and the alignment always, the location and the pattern whenever the channel is too
\* (compute_timeframe_features, ema, wilder_*, ema_alignment, key_location, detect_pattern).
MirrorImage ==
    \A q \in DOMAIN runs : runs[q].records /= <<>> =>
        LET w == Last(runs[q].records).snapshot.input[1]
            m == [i \in DOMAIN w |-> Reflected(w[i])]
        IN \A f \in TimeframeFeatures(w) : \E g \in TimeframeFeatures(m) : FeaturesMirror(f, g)

-----------------------------------------------------------------------------
\* Two events of one instrument are at least the cooldown apart, whatever the order of the
\* instruments, the contexts and the pruning of both maps (EligibilityEventEngine).
EventsAreSpaced ==
    \A e, f \in events : e.instrument = f.instrument /\ e.nr < f.nr => f.at - e.at >= Cooldown
=============================================================================
