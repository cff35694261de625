----------------------------- MODULE MCReplay ------------------------------
(* Windows of four candles: the replays start with the first full window.    *)
EXTENDS Replay

Candle(o, h, l, c, v) == [open |-> o, high |-> h, low |-> l, close |-> c, volume |-> v]
At(c, at) == c @@ [at |-> at, turnover |-> c.volume * 100]

\* A rise, a fall that engulfs it, a hammer, a doji, a small body inside the fall.
Shapes == {Candle(401, 404, 400, 403, 2), Candle(404, 405, 399, 400, 1),
           Candle(403, 404, 398, 404, 2), Candle(401, 404, 398, 401, 1)}
Warmup == <<Candle(400, 403, 398, 401, 1), Candle(401, 402, 399, 400, 1),
            Candle(400, 401, 397, 398, 2)>>

Series(shapes, start, frame) == [i \in DOMAIN shapes |-> At(shapes[i], start + (i - 1) * frame)]
Hours == Series(<<Warmup[1], Warmup[3], Warmup[2], Warmup[1], Warmup[3]>>, 0, Hour)

Start == 16
End == Start + 2 * Primary
Book(at, ask) == [bid |-> 400, ask |-> ask, source |-> at, observed |-> at]
\* The last book is there, is too wide, or comes a tick late.
Books == {<<Book(Start, 401), Book(Start + Primary, 401), last>> :
              last \in {Book(End, 401), Book(End, 410), Book(End + 1, 401)}}

Data(shapes, books, name) ==
    [instrument |-> name, primary |-> Series(Warmup \o shapes, Start - 4 * Primary, Primary),
     confirmation |-> Hours, books |-> books]
Datasets ==
    {<<Data(shapes, books, 1)>> : shapes \in [1..3 -> Shapes], books \in Books}
    \union {<<Data(shapes, books, 1), Data(Reverse(shapes), books, 2)>> :
                shapes \in [1..3 -> Shapes], books \in {<<Book(Start, 401), Book(Start + Primary, 401), Book(End, 401)>>}}

\* What was there at an instant, and nothing later.
Cut(data, at) == [i \in DOMAIN data |->
    [data[i] EXCEPT !.primary = Seen(data[i], at)[1], !.confirmation = Seen(data[i], at)[2],
                    !.books = Seen(data[i], at)[3]]]
ManifestOf(data) == [start |-> Start, end |-> End, data |-> data]
Ask(data, used) == [manifest |-> ManifestOf(data), data |-> used]

MCRequests ==
    {{}} \union {{Ask(d, d), Ask(Cut(d, at), Cut(d, at)), Ask(d, Cut(d, at))} :
                     d \in Datasets, at \in {Start, Start + Primary}}

\* Snapshots for the shared engine: quiet, then at support, then breaking out with volume.
Features(location, atr, volume, close) ==
    [candle |-> [close |-> close, turnover |-> 100], upper |-> 403, lower |-> 398,
     alignment |-> "Mixed", location |-> location, atr |-> atr, volume |-> volume]
LiveSnapshot(i, n, features, spread) ==
    [instrument |-> i, input |-> n, validUntil |-> 7, primary |-> features, spread |-> spread]
MCLiveSnapshots ==
    {LiveSnapshot(i, 1, Features("None", 20, 10, 400), 200) : i \in {1, 2, 3}}
    \union {LiveSnapshot(1, 2, Features("Support", 30, 30, 399), 200),
            LiveSnapshot(2, 3, Features("Resistance", 20, 10, 404), 600)}

Usage(calls, tokens, cost, inFlight) ==
    [calls |-> calls, tokens |-> tokens, cost |-> cost, inFlight |-> inFlight]
Context(allows, active, due, usage) ==
    [allowsNewAi |-> allows, enabled |-> TRUE, activePlan |-> active, reviewDue |-> due,
     usage |-> usage]
MCContexts ==
    {Context(TRUE, FALSE, FALSE, Usage(0, 0, 0, 0)), Context(TRUE, TRUE, TRUE, Usage(0, 0, 0, 0)),
     Context(TRUE, TRUE, FALSE, Usage(0, 0, 0, 0)), Context(TRUE, FALSE, FALSE, Usage(0, 9, 0, 1))}
=============================================================================
