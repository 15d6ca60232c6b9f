----------------------------- MODULE Indicators -----------------------------
(***************************************************************************)
(* The indicators and the regime of a candle, as the two collectors        *)
(* compute them: IndicatorCollector walks over the candles and hands every *)
(* prefix to functions that return its last value, BatchIndicatorCollector *)
(* computes each series once and picks the value of the candle.            *)
(*                                                                         *)
(* Prices are integers and values exact fractions <<n, d>> with d > 0, so  *)
(* the rounding of Decimal is left out.  The volatility is kept as the     *)
(* returns it is a function of.                                            *)
(***************************************************************************)
EXTENDS Integers, SequencesExt

CONSTANTS
    EmaShort, EmaMedium, EmaLong,   \* 20, 50, 200
    WilderPeriod,                   \* of RSI and ATR, 14
    VolatilityPeriod,               \* 20
    Lookback,                       \* of the slope of the long average, 10
    SlopeThreshold,                 \* a fraction, 0.001
    HighVolatility(_),              \* whether the deviation of returns exceeds the threshold
    SampleCandles, MaxSample        \* the candles and the length of the samples compared

ASSUME IndicatorAssumption ==
    /\ {EmaShort, EmaMedium, EmaLong, WilderPeriod, VolatilityPeriod, Lookback} \subseteq Nat \ {0}
    /\ MaxSample \in Nat

None == <<>>
Nones(n) == [i \in 1 .. n |-> None]

Less(x, y) == x[1] * y[2] < y[1] * x[2]
Same(x, y) == IF None \in {x, y} THEN x = y ELSE x[1] * y[2] = y[1] * x[2]
Total(s) == FoldLeft(+, 0, s)

From(s, i) == SubSeq(s, i, Len(s))
Upto(s, i) == SubSeq(s, 1, i)

ClosePrices(candles) == [i \in DOMAIN candles |-> candles[i].close]

-----------------------------------------------------------------------------
(* Averages: the mean of the first n values, then one step a value.        *)

Mean(s, n) == <<Total(Upto(s, n)), n>>

\* The last value, or the series of all of them.
Folded(s, n, step(_, _)) == FoldLeft(step, Mean(s, n), From(s, n + 1))
FoldedSeries(s, n, step(_, _)) ==
    FoldLeft(LAMBDA acc, x : Append(acc, step(Last(acc), x)), <<Mean(s, n)>>, From(s, n + 1))

\* (price - ema) * 2 / (n + 1) + ema
EmaStep(n, ema, price) == <<2 * price * ema[2] + (n - 1) * ema[1], (n + 1) * ema[2]>>

\* (average * (n - 1) + value) / n
WilderStep(n, average, value) == <<average[1] * (n - 1) + value * average[2], n * average[2]>>

\* calculate_ema_series
EmaSeries(prices, n) ==
    IF Len(prices) < n THEN Nones(Len(prices))
    ELSE Nones(n - 1) \o FoldedSeries(prices, n, LAMBDA e, p : EmaStep(n, e, p))

\* calculate_ema_slope: the known values, the current one against the Lookback-th
\* from the end.
SlopeOf(series) ==
    LET known == SelectSeq(series, LAMBDA e : e # None)
        past  == known[Len(known) - Lookback + 1]
    IN  IF Len(known) < Lookback \/ past[1] = 0 THEN None
        ELSE LET last == Last(known)
             IN  <<last[1] * past[2] - past[1] * last[2], last[2] * past[1]>>

\* Mutant: one candle further back.
SlopeAtFurther(series, i) ==
    LET at == i - Lookback
    IN  IF series[i] = None \/ at < 1 THEN None
        ELSE IF series[at] = None \/ series[at][1] = 0 THEN None
        ELSE <<series[i][1] * series[at][2] - series[at][1] * series[i][2], series[i][2] * series[at][1]>>

\* _ema_slope_at
SlopeAt(series, i) ==
    LET at == i - Lookback + 1
    IN  IF series[i] = None \/ at < 1 THEN None
        ELSE IF series[at] = None \/ series[at][1] = 0 THEN None
        ELSE <<series[i][1] * series[at][2] - series[at][1] * series[i][2], series[i][2] * series[at][1]>>

-----------------------------------------------------------------------------
(* RSI, ATR and volatility.                                                *)

Abs(x) == IF x < 0 THEN -x ELSE x

Changes(prices) == [i \in 1 .. Len(prices) - 1 |-> prices[i + 1] - prices[i]]
Gains(prices)   == [i \in DOMAIN Changes(prices) |-> Max({Changes(prices)[i], 0})]
Losses(prices)  == [i \in DOMAIN Changes(prices) |-> Abs(Min({Changes(prices)[i], 0}))]

\* 100 - 100 / (1 + gain / loss)
RsiFromAverages(gain, loss) ==
    CASE gain[1] = 0 /\ loss[1] = 0 -> <<50, 1>>
      [] gain[1] # 0 /\ loss[1] = 0 -> <<100, 1>>
      [] OTHER -> <<100 * gain[1] * loss[2], gain[1] * loss[2] + loss[1] * gain[2]>>

Wilder(s) == Folded(s, WilderPeriod, LAMBDA a, x : WilderStep(WilderPeriod, a, x))
WilderSeries(s) == FoldedSeries(s, WilderPeriod, LAMBDA a, x : WilderStep(WilderPeriod, a, x))

Rsi(prices) ==
    IF Len(prices) < WilderPeriod + 1 THEN None
    ELSE RsiFromAverages(Wilder(Gains(prices)), Wilder(Losses(prices)))

RsiSeries(prices) ==
    IF Len(prices) < WilderPeriod + 1 THEN Nones(Len(prices))
    ELSE LET gains == WilderSeries(Gains(prices))
             losses == WilderSeries(Losses(prices))
         IN  Nones(WilderPeriod) \o [i \in DOMAIN gains |-> RsiFromAverages(gains[i], losses[i])]

TrueRanges(candles) ==
    [i \in 1 .. Len(candles) - 1 |->
        LET c == candles[i + 1]
            previous == candles[i].close
        IN  Max({c.high - c.low, Abs(c.high - previous), Abs(c.low - previous)})]

Atr(candles) ==
    IF Len(candles) < WilderPeriod + 1 THEN None ELSE Wilder(TrueRanges(candles))

AtrSeries(candles) ==
    IF Len(candles) < WilderPeriod + 1 THEN Nones(Len(candles))
    ELSE Nones(WilderPeriod) \o WilderSeries(TrueRanges(candles))

\* The returns between prices above 0; calculate_historical_volatility leaves the
\* others out, its series has None for them.
Return(prices, i) ==
    IF prices[i] > 0 /\ prices[i + 1] > 0 THEN <<prices[i + 1], prices[i]>> ELSE None
Returns(prices) == [i \in 1 .. Len(prices) - 1 |-> Return(prices, i)]

Volatility(prices) ==
    LET known == SelectSeq(Returns(prices), LAMBDA r : r # None)
    IN  IF Len(prices) < VolatilityPeriod + 1 \/ Len(known) < VolatilityPeriod THEN None
        ELSE From(known, Len(known) - VolatilityPeriod + 1)

VolatilityAt(prices, i) ==
    LET window == SubSeq(Returns(prices), i - VolatilityPeriod, i - 1)
    IN  IF i < VolatilityPeriod + 1 THEN None
        ELSE IF \E k \in DOMAIN window : window[k] = None THEN None
        ELSE window

-----------------------------------------------------------------------------
(* The regime, and what each collector stores for a candle.                *)

\* classify_regime, and the same rules in MarketRegimeDetector.detect.
Regime(price, medium, long, slope, volatility) ==
    IF volatility # None /\ HighVolatility(volatility) THEN "HIGH_VOLATILITY"
    ELSE IF long = None \/ slope = None THEN "UNKNOWN"
    ELSE IF medium # None /\ Less(long, <<price, 1>>) /\ Less(long, medium) /\ Less(SlopeThreshold, slope)
    THEN "TREND_UP"
    ELSE IF medium # None /\ Less(<<price, 1>>, long) /\ Less(medium, long)
            /\ Less(slope, <<-SlopeThreshold[1], SlopeThreshold[2]>>)
    THEN "TREND_DOWN"
    ELSE "RANGE"

\* MarketRegimeDetector.detect
Detect(candles) ==
    LET prices == ClosePrices(candles)
        long == EmaSeries(prices, EmaLong)
    IN  Regime(Last(prices), Last(EmaSeries(prices, EmaMedium)), Last(long), SlopeOf(long), Volatility(prices))

\* IndicatorCollector: of candle i.
CollectorValues(candles, i) ==
    LET past == Upto(candles, i)
        ema(n) == EmaSeries(ClosePrices(candles), n)[i]
    IN  [ema |-> <<ema(EmaShort), ema(EmaMedium), ema(EmaLong)>>,
         rsi |-> Rsi(ClosePrices(past)), atr |-> Atr(past), volatility |-> Volatility(ClosePrices(past)),
         regime |-> IF i >= EmaLong THEN Detect(past) ELSE "none"]

\* BatchIndicatorCollector: _calculate_series and _store_derived_at.
BatchValues(candles, i) ==
    LET prices == ClosePrices(candles)
        long == EmaSeries(prices, EmaLong)
        medium == EmaSeries(prices, EmaMedium)
    IN  [ema |-> <<EmaSeries(prices, EmaShort)[i], medium[i], long[i]>>,
         rsi |-> RsiSeries(prices)[i], atr |-> AtrSeries(candles)[i], volatility |-> VolatilityAt(prices, i),
         regime |-> IF i >= EmaLong
                    THEN Regime(prices[i], medium[i], long[i], SlopeAt(long, i), VolatilityAt(prices, i))
                    ELSE "none"]

SameValues(v, w) ==
    /\ \A k \in 1 .. 3 : Same(v.ema[k], w.ema[k])
    /\ Same(v.rsi, w.rsi) /\ Same(v.atr, w.atr)
    /\ v.volatility = w.volatility /\ v.regime = w.regime

-----------------------------------------------------------------------------
\* For every series of the sample both collectors give the same indicators and the
\* same regime, from the candle and its past alone.
SamplesAgree ==
    \A candles \in BoundedSeq(SampleCandles, MaxSample) :
        \A i \in DOMAIN candles :
            /\ SameValues(BatchValues(candles, i), CollectorValues(candles, i))
            /\ SameValues(BatchValues(candles, i), BatchValues(Upto(candles, i), i))
=============================================================================
