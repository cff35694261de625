--------------------------- MODULE MarketFeatures ---------------------------
(* The features of a market: what windows of closed candles and a best book  *)
(* are usable, the indicators over them, the alignment, key location and     *)
(* candle pattern they show. Prices are whole numbers; derived values are    *)
(* fractions that are rounded to 1/Scale, half to even.                      *)
EXTENDS Integers, Sequences, SequencesExt, FiniteSetsExt

CONSTANTS
    Window,                       \* FEATURE_CANDLE_WINDOW
    DonchianUpper, DonchianLower, AtrPeriod, EmaFast, EmaSlow, Wilder, VolumePeriod,
    Primary, Hour,                \* the lengths of the two timeframes
    StalenessIntervals, BookMaxAge,
    Scale                         \* derived values are multiples of 1/Scale

PeriodAssumption ==
    /\ \A p \in {DonchianUpper, DonchianLower, EmaFast, EmaSlow, VolumePeriod, Wilder} :
           p \in 1..(Window - 1)
    /\ Window \in Nat /\ AtrPeriod \in 1..Window /\ 2 * Wilder <= Window
    /\ Primary \in Nat \ {0} /\ Hour \in Nat \ {0} /\ Scale \in Nat \ {0}
ASSUME PeriodAssumption

-----------------------------------------------------------------------------
(* Exact arithmetic *)

Abs(x) == IF x < 0 THEN -x ELSE x
Larger(x, y) == IF x > y THEN x ELSE y
Smaller(x, y) == IF x < y THEN x ELSE y
Frac(n) == [n |-> n, d |-> 1]
Plus(a, b) == IF a.d = b.d THEN [n |-> a.n + b.n, d |-> a.d]
                           ELSE [n |-> a.n * b.d + b.n * a.d, d |-> a.d * b.d]
Times(a, k) == [n |-> a.n * k, d |-> a.d]
Over(a, k) == [n |-> a.n, d |-> a.d * k]
Total(s) == SumFunctionOnSet(s, DOMAIN s)
Mean(s) == [n |-> Total(s), d |-> Len(s)]

\* rounded: to the nearest multiple of 1/Scale, a tie to the even one.
Rounded(a) ==
    LET low == (a.n * Scale) \div a.d
        twice == 2 * (a.n * Scale - low * a.d)
    IN IF twice < a.d \/ (twice = a.d /\ (low % 2) = 0) THEN low ELSE low + 1

-----------------------------------------------------------------------------
(* Candles, windows and books *)

\* ClosedCandle::new on values that are positive: the candle is closed and starts on its grid.
Closed(c, frame) ==
    /\ c.at % frame = 0
    /\ \A x \in {c.open, c.close, c.high} : x <= c.high
    /\ \A x \in {c.open, c.close} : x >= c.low
CloseOf(c, frame) == c.at + frame

TopOfBook(b) == b.bid < b.ask /\ b.source <= b.observed

Active(candles) == SubSeq(candles, Len(candles) - Window + 1, Len(candles))

\* validate_candle_window: enough candles, none of the future, no gap, and the last one is young.
WindowUsable(candles, frame, now) ==
    /\ Len(candles) >= Window
    /\ LET w == Active(candles)
       IN /\ \A i \in 1..Window : CloseOf(w[i], frame) <= now
          /\ \A i \in 1..(Window - 1) : w[i + 1].at = CloseOf(w[i], frame)
          /\ now < CloseOf(w[Window], frame) + StalenessIntervals * frame

\* The part of compute that is about the hour candles and the book.
Aligned(primary, confirmation) ==
    LET close == CloseOf(Last(primary), Primary)
    IN CloseOf(Last(confirmation), Hour) = close - (close % Hour)

BookUsable(book, primary, now) ==
    /\ book.observed <= now /\ book.source <= now
    /\ book.observed >= CloseOf(Last(primary), Primary)
    /\ book.source >= CloseOf(Last(primary), Primary)
    /\ now < book.observed + BookMaxAge

-----------------------------------------------------------------------------
(* Indicators, none of which is negative *)

Unavailable == -1           \* an indicator that fails the snapshot

First(s, n) == SubSeq(s, 1, n)
From(s, n) == SubSeq(s, n, Len(s))
Recent(s, n) == SubSeq(s, Len(s) - n + 1, Len(s))
Pairs(s, Op(_, _)) == [i \in 1..(Len(s) - 1) |-> Op(s[i], s[i + 1])]
Values(candles, field) == [i \in DOMAIN candles |-> candles[i][field]]

\* Every value makes (average * keep + value * weigh) / over of an average.
Blend(average, value, keep, weigh, over) ==
    Over(Plus(Times(average, keep), Frac(value * weigh)), over)
Smoothed(start, values, keep, weigh, over) ==
    FoldLeft(LAMBDA a, v : Blend(a, v, keep, weigh, over), start, values)

\* Every later value enters with the weight 2 / (period + 1).
Ema(values, period) ==
    Smoothed(Mean(First(values, period)), From(values, period + 1), period - 1, 2, period + 1)

\* A Wilder average starts as the mean of the first values.
WilderMean(values, period) ==
    Smoothed(Mean(First(values, period)), From(values, period + 1), period - 1, 1, period)

Rsi(closes, period) ==
    LET gain == WilderMean(Pairs(closes, LAMBDA x, y : Larger(y - x, 0)), period)
        loss == WilderMean(Pairs(closes, LAMBDA x, y : Larger(x - y, 0)), period)
    IN IF gain.n = 0 /\ loss.n = 0 THEN Unavailable
       ELSE \* both have the same denominator: 100 - 100 / (1 + gain / loss), or 100 without loss
            Rounded([n |-> 100 * gain.n, d |-> gain.n + loss.n])

TrueRange(previous, c) ==
    Larger(c.high - c.low, Larger(Abs(c.high - previous.close), Abs(c.low - previous.close)))
AtrTrueRanges(candles) == <<candles[1].high - candles[1].low>> \o Pairs(candles, TrueRange)

Atr(candles) ==
    LET atr == WilderMean(AtrTrueRanges(candles), AtrPeriod)
    IN IF atr.n = 0 THEN Unavailable ELSE Rounded(atr)

PlusDm(x, y) ==
    LET up == y.high - x.high
        down == x.low - y.low
    IN IF up > down /\ up > 0 THEN up ELSE 0
MinusDm(x, y) ==
    LET up == y.high - x.high
        down == x.low - y.low
    IN IF down > up /\ down > 0 THEN down ELSE 0

\* The smoothed sums after the first Wilder values and after each later one, which makes
\* sum - sum / Wilder + value of a sum.
SmoothedSums(values) ==
    [k \in 1..(Len(values) - Wilder + 1) |->
        Smoothed(Frac(Total(First(values, Wilder))),
                 SubSeq(values, Wilder + 1, Wilder + k - 1), Wilder - 1, Wilder, Wilder)]

WilderAverage(previous, current, period) ==
    Over(Plus(Times(previous, period - 1), current), period)

\* The true range cancels out of the quotient of the two direction indicators.
DirectionIndex(plus, minus) ==
    IF plus.n + minus.n = 0 THEN Frac(0)
    ELSE [n |-> 100 * Abs(plus.n - minus.n), d |-> plus.n + minus.n]

Adx(candles) ==
    LET plus == SmoothedSums(Pairs(candles, PlusDm))
        minus == SmoothedSums(Pairs(candles, MinusDm))
        ranges == SmoothedSums(Pairs(candles, TrueRange))
        dx == [k \in DOMAIN plus |-> DirectionIndex(plus[k], minus[k])]
        start == Over(FoldLeft(Plus, Frac(0), First(dx, Wilder)), Wilder)
    IN IF \E k \in DOMAIN ranges : ranges[k].n = 0 THEN Unavailable
       ELSE Rounded(FoldLeft(LAMBDA a, x : WilderAverage(a, x, Wilder), start,
                             From(dx, Wilder + 1)))

VolumeRatio(candles) ==
    LET earlier == Recent(First(candles, Len(candles) - 1), VolumePeriod)
        latest == Last(candles).volume
    IN IF Total(Values(earlier, "volume")) = 0 \/ latest = 0 THEN Unavailable
       ELSE Rounded([n |-> latest * VolumePeriod, d |-> Total(Values(earlier, "volume"))])

-----------------------------------------------------------------------------
(* What the indicators say. Averages and the ATR come in multiples of 1/Scale. *)

EmaAlignment(close, fast, slow, atr) ==
    LET strong == 2 * Abs(fast - slow) >= atr
        price == close * Scale
    IN CASE price > fast /\ fast > slow -> IF strong THEN "StrongBullish" ELSE "Bullish"
         [] price < fast /\ fast < slow -> IF strong THEN "StrongBearish" ELSE "Bearish"
         [] OTHER -> "Mixed"

LevelDistance(close, extreme, level) ==
    Smaller(Abs(close * Scale - level), Abs(extreme * Scale - level))

SupportDistance(c, lower, slow) ==
    LET channel == LevelDistance(c.close, c.low, lower * Scale)
    IN IF c.close * Scale > slow THEN Smaller(channel, LevelDistance(c.close, c.low, slow))
                                 ELSE channel
ResistanceDistance(c, upper, slow) ==
    LET channel == LevelDistance(c.close, c.high, upper * Scale)
    IN IF c.close * Scale < slow THEN Smaller(channel, LevelDistance(c.close, c.high, slow))
                                 ELSE channel

\* Levels within a quarter of the ATR count; the nearer of two wins and a tie gives none.
MutantKeyLocation(c, upper, lower, slow, atr) ==
    LET support == SupportDistance(c, lower, slow)
        resistance == ResistanceDistance(c, upper, slow)
    IN CASE 4 * support <= atr /\ support <= resistance -> "Support"
         [] 4 * resistance <= atr /\ resistance < support -> "Resistance"
         [] OTHER -> "None"
KeyLocation(c, upper, lower, slow, atr) ==
    LET support == SupportDistance(c, lower, slow)
        resistance == ResistanceDistance(c, upper, slow)
    IN CASE 4 * support <= atr /\ support < resistance -> "Support"
         [] 4 * resistance <= atr /\ resistance < support -> "Resistance"
         [] OTHER -> "None"

Bull(c) == c.close > c.open
Bear(c) == c.close < c.open
BodyLow(c) == Smaller(c.open, c.close)
BodyHigh(c) == Larger(c.open, c.close)
Body(c) == BodyHigh(c) - BodyLow(c)
LowerShadow(c) == BodyLow(c) - c.low
UpperShadow(c) == c.high - BodyHigh(c)

\* Shapes of the last two candles; the ATR is in multiples of 1/Scale.
Engulfing(p, c) == BodyLow(c) <= BodyLow(p) /\ BodyHigh(c) >= BodyHigh(p)
Harami(p, c, atr) ==
    /\ Body(p) * Scale >= atr /\ 2 * Body(c) <= Body(p)
    /\ BodyLow(c) >= BodyLow(p) /\ BodyHigh(c) <= BodyHigh(p)
Big(c, atr) == Body(c) * Scale > 2 * atr
LongLower(c) == Body(c) > 0 /\ LowerShadow(c) > 2 * Body(c) /\ 10 * UpperShadow(c) < Body(c)
LongUpper(c) == Body(c) > 0 /\ UpperShadow(c) > 2 * Body(c) /\ 10 * LowerShadow(c) < Body(c)
SmallBody(c) == c.high > c.low /\ 10 * Body(c) < c.high - c.low

\* detect_pattern: the first shape of this order that fits.
PatternAt(p, c, location, atr) ==
    LET engulfs == Engulfing(p, c)
        inside == Harami(p, c, atr)
    IN IF Bear(p) /\ Bull(c) /\ engulfs THEN "BullishEngulfing"
       ELSE IF Bull(p) /\ Bear(c) /\ engulfs THEN "BearishEngulfing"
       ELSE IF Bear(p) /\ Bull(c) /\ inside THEN "BullishHarami"
       ELSE IF Bull(p) /\ Bear(c) /\ inside THEN "BearishHarami"
       ELSE IF Big(c, atr) THEN (IF Bull(c) THEN "BigBullish" ELSE "BigBearish")
       ELSE IF LongLower(c) THEN (IF location = "Support" THEN "Hammer" ELSE "HangingMan")
       ELSE IF LongUpper(c) THEN (IF location = "Support" THEN "InvertedHammer"
                                                          ELSE "ShootingStar")
       ELSE IF SmallBody(c) THEN "Doji" ELSE "NoPattern"
Pattern(p, c, location, atr) ==
    IF location = "None" THEN "NoPattern" ELSE PatternAt(p, c, location, atr)

-----------------------------------------------------------------------------
(* The snapshot *)

SpreadBps(book) ==
    Rounded([n |-> (book.ask - book.bid) * 20000, d |-> book.ask + book.bid])

\* compute_timeframe_features over a whole window: none when an indicator is unavailable.
TimeframeFeatures(w) ==
    LET c == Last(w)
        history == First(w, Window - 1)
        upper == Max({k.high : k \in Range(Recent(history, DonchianUpper))})
        lower == Min({k.low : k \in Range(Recent(history, DonchianLower))})
        fast == Rounded(Ema(Values(w, "close"), EmaFast))
        slow == Rounded(Ema(Values(w, "close"), EmaSlow))
        rsi == Rsi(Values(w, "close"), Wilder)
        atr == Atr(w)
        adx == Adx(w)
        volume == VolumeRatio(w)
        location == KeyLocation(c, upper, lower, slow, atr)
    IN IF Unavailable \in {rsi, atr, adx, volume} \/ atr = 0 THEN {}
       ELSE {[candle |-> c, upper |-> upper, lower |-> lower, fast |-> fast, slow |-> slow,
             rsi |-> rsi, atr |-> atr, adx |-> adx, volume |-> volume,
             alignment |-> EmaAlignment(c.close, fast, slow, atr),
             location |-> location,
             pattern |-> Pattern(Last(history), c, location, atr)]}

\* compute: no snapshot unless the windows and the book are usable and every indicator exists.
Snapshots(instrument, primary, confirmation, book, now) ==
    IF ~WindowUsable(primary, Primary, now) \/ ~WindowUsable(confirmation, Hour, now) THEN {}
    ELSE IF ~Aligned(primary, confirmation) \/ ~BookUsable(book, primary, now) THEN {}
    ELSE {[instrument |-> instrument,
           input |-> <<Active(primary), Active(confirmation), book.bid, book.ask>>,
           generated |-> CloseOf(Last(primary), Primary),
           validUntil |-> Min({CloseOf(Last(primary), Primary) + StalenessIntervals * Primary,
                               CloseOf(Last(confirmation), Hour) + StalenessIntervals * Hour,
                               book.observed + BookMaxAge}),
           primary |-> p, confirmation |-> c, spread |-> SpreadBps(book)] :
              p \in TimeframeFeatures(Active(primary)),
              c \in TimeframeFeatures(Active(confirmation))}
=============================================================================
