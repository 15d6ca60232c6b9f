--------------------------- MODULE SetupStrategies ---------------------------
(***************************************************************************)
(* The strategies that wait for a setup before they enter, each a state    *)
(* machine over completed candles:                                         *)
(*                                                                         *)
(*   breakout     a close above the highest of the last Lookback highs     *)
(*                arms, a later candle that dips to that level and closes  *)
(*                above it enters (BreakoutRetestStrategy);                *)
(*   breakout_v2  the same entry, and a position that has fallen below its *)
(*                structure is watched once, for WatchMax candles          *)
(*                (BreakoutRetestV2Strategy);                              *)
(*   pullback     a low RSI in an uptrend arms, its cross back above the   *)
(*                threshold enters (TrendPullbackConfirmationStrategy);    *)
(*   baseline     TrendDCAStrategy, which enters on the low RSI itself;    *)
(*   slope        the baseline behind a gate on the slope of the EMA200    *)
(*                (TrendDCAEMA200SlopeP75Strategy).                        *)
(*                                                                         *)
(* The exits and safety orders are TrendDCA's.  A decision is a record of  *)
(* the strategy's next state and the signal it returns.                    *)
(***************************************************************************)
EXTENDS TrendDCA, SequencesExt

CONSTANTS
    Lookback, RetestTimeout,        \* breakout
    DetectionAge, WatchMax,         \* breakout_v2
    SetupTimeout, RsiEntry,         \* pullback, baseline
    SlopeThreshold,                 \* slope
    MaxHolding

ASSUME SetupAssumption ==
    /\ {Lookback, RetestTimeout, DetectionAge, WatchMax, SetupTimeout, MaxHolding} \subseteq Nat \ {0}
    /\ RsiEntry \in Nat /\ SlopeThreshold \in Int

Breakouts  == {"breakout", "breakout_v2"}
Strategies == Breakouts \cup {"pullback", "baseline", "slope"}

Fresh ==
    [phase |-> "IDLE", armedAt |-> 0, bars |-> 0,
     level |-> Absent, highs |-> <<>>, seen |-> 0, prior |-> Absent,
     rsi |-> Absent,
     mode |-> "NONE", heldLevel |-> Absent, age |-> 0, used |-> FALSE, watchBars |-> 0,
     events |-> <<>>,
     dca |-> 0, trailing |-> Absent]

NoSignal == [action |-> "none"]

\* An entry remembers the setup that led to it: when it was armed, the level
\* and the candles it waited.
Buy(c, s, dca) ==
    [action |-> "open_long", at |-> c.at, dca |-> dca, regime |-> c.regime,
     stop |-> IF dca = 0 THEN StopLoss(c.close) ELSE Absent,
     take |-> IF dca = 0 THEN TakeProfit(c.close) ELSE Absent,
     armedAt |-> s.armedAt, level |-> s.level, bars |-> s.bars,
     reason |-> IF dca = 0 THEN "entry" ELSE "dca"]

Sell(c, reason) == [action |-> "close", at |-> c.at, reason |-> reason]

Decision(s, signal) == [state |-> s, signal |-> signal]
Wait(s) == Decision(s, NoSignal)

Idle(s) == [s EXCEPT !.phase = "IDLE", !.armedAt = 0, !.bars = 0, !.level = Absent]
Older(s) == [s EXCEPT !.bars = @ + 1]

\* The comparisons every entry makes.
Trending(c) == c.close > c.ema200 /\ c.ema50 > c.ema200
Known(c, fields) == c.regime # "NONE" /\ \A f \in fields : c[f] # Absent

-----------------------------------------------------------------------------
(* Breakout and retest.                                                    *)

\* _observe_candle: once per candle, the level from the highs before it.
Observe(s, c) ==
    IF s.seen = c.at THEN s
    ELSE LET highs == Append(s.highs, c.high)
         IN  [s EXCEPT !.seen = c.at,
                       !.prior = IF Len(s.highs) >= Lookback THEN Max(ToSet(s.highs)) ELSE Absent,
                       !.highs = IF Len(highs) > Lookback THEN Tail(highs) ELSE highs]

BreakoutKnown(c) == Known(c, {"ema50", "ema200"})

BreakoutLost(s, c) ==
    \/ c.regime = "TREND_DOWN"
    \/ s.bars >= RetestTimeout
    \/ BreakoutKnown(c) /\ ~Trending(c)

RetestHeld(s, c) ==
    BreakoutKnown(c) /\ c.calm /\ c.low <= s.level /\ c.close >= s.level

BreaksOut(s, c) ==
    /\ s.prior # Absent /\ BreakoutKnown(c)
    /\ Trending(c) /\ c.regime # "TREND_DOWN" /\ c.calm
    /\ c.close > s.prior

\* Mutant: a setup that timed out is kept.
BreakoutEnterKeeps(before, c) ==
    LET s == Observe(before, c)
        older == Older(s)
    IN  IF s.phase = "ARMED"
        THEN IF RetestHeld(older, c) THEN Decision(Idle(s), Buy(c, older, 0)) ELSE Wait(older)
        ELSE IF BreaksOut(s, c)
             THEN Wait([s EXCEPT !.phase = "ARMED", !.armedAt = c.at, !.level = s.prior, !.bars = 0])
             ELSE Wait(s)

BreakoutEnter(before, c) ==
    LET s == Observe(before, c)
        older == Older(s)
    IN  IF s.phase = "ARMED"
        THEN IF BreakoutLost(older, c) THEN Wait(Idle(s))
             ELSE IF RetestHeld(older, c) THEN Decision(Idle(s), Buy(c, older, 0))
             ELSE Wait(older)
        ELSE IF BreaksOut(s, c)
             THEN Wait([s EXCEPT !.phase = "ARMED", !.armedAt = c.at, !.level = s.prior, !.bars = 0])
             ELSE Wait(s)

-----------------------------------------------------------------------------
(* Pullback and confirmation.                                              *)

PullbackKnown(c) == Known(c, {"ema20", "ema50", "ema200", "rsi"})

PullbackLost(s, c) ==
    c.regime # "TREND_UP" \/ ~Trending(c) \/ s.bars >= SetupTimeout

Crossed(s, c) == s.rsi # Absent /\ s.rsi <= RsiEntry /\ c.rsi > RsiEntry

Confirmed(s, c) == Crossed(s, c) /\ c.close > c.ema20 /\ c.calm

\* The condition TrendDCA enters on, and the pullback is armed on.
LowInUptrend(c) == c.regime = "TREND_UP" /\ Trending(c) /\ c.rsi <= RsiEntry /\ c.calm

\* The RSI is remembered before an incomplete candle is left aside.
PullbackEnter(s, c) ==
    LET seen == [s EXCEPT !.rsi = IF c.rsi # Absent THEN c.rsi ELSE @]
        older == Older(seen)
    IN  IF ~PullbackKnown(c) THEN Wait(seen)
        ELSE IF s.phase = "ARMED"
        THEN IF PullbackLost(older, c) THEN Wait(Idle(seen))
             ELSE IF Confirmed(s, c) THEN Decision(Idle(seen), Buy(c, older, 0))
             ELSE Wait(older)
        ELSE IF LowInUptrend(c)
             THEN Wait([seen EXCEPT !.phase = "ARMED", !.armedAt = c.at, !.bars = 0])
             ELSE Wait(seen)

BaselineEnter(s, c) ==
    IF Known(c, {"ema50", "ema200", "rsi"}) /\ LowInUptrend(c)
    THEN Decision(s, Buy(c, s, 0)) ELSE Wait(s)

\* c.slope holds the slope, or nothing while it is not known.
SlopeEnter(s, c) ==
    IF \E slope \in c.slope : slope >= SlopeThreshold THEN BaselineEnter(s, c) ELSE Wait(s)

-----------------------------------------------------------------------------
(* Exits.                                                                  *)

\* Mutant: the TREND_DOWN exit is left to the trailing stop.
BaseExitRides(s, p, c) ==
    LET moved == [s EXCEPT !.trailing =
                     IF TrailingActive(p, c, s.trailing) THEN TrailingHigh(c, s.trailing) ELSE @]
    IN  IF HoldingExpired(p, MaxHolding) THEN Decision(s, Sell(c, "MAX_HOLDING"))
        ELSE IF moved.trailing # Absent /\ TrailingHit(c, moved.trailing)
             THEN Decision([s EXCEPT !.trailing = Absent], Sell(c, "TRAILING"))
        ELSE IF ProfitReached(p, c) THEN Decision(moved, Sell(c, "TAKE_PROFIT"))
        ELSE Wait(moved)

\* TrendDCAStrategy.should_exit, with the state it leaves behind.
BaseExit(s, p, c) ==
    LET moved == [s EXCEPT !.trailing =
                     IF TrailingActive(p, c, s.trailing) THEN TrailingHigh(c, s.trailing) ELSE @]
    IN  IF HoldingExpired(p, MaxHolding) THEN Decision(s, Sell(c, "MAX_HOLDING"))
        ELSE IF c.regime = "TREND_DOWN" THEN Decision(s, Sell(c, "TREND_DOWN"))
        ELSE IF moved.trailing # Absent /\ TrailingHit(c, moved.trailing)
             THEN Decision([s EXCEPT !.trailing = Absent], Sell(c, "TRAILING"))
        ELSE IF ProfitReached(p, c) THEN Decision(moved, Sell(c, "TAKE_PROFIT"))
        ELSE Wait(moved)

SafetyOrder(s, p, c) ==
    IF SafetyOrderDue(p, c, c.regime, s.dca) THEN Decision(s, Buy(c, s, s.dca + 1)) ELSE Wait(s)

Event(s, name, c) == [s EXCEPT !.events = Append(@, [event |-> name, at |-> c.at])]

StructureKnown(c) == c.ema20 # Absent /\ c.ema50 # Absent
BelowStructure(c, level) == c.close < c.ema20 /\ c.close < c.ema50 /\ c.close < level
Recovered(s, c) ==
    StructureKnown(c) /\ c.close >= c.ema20 /\ c.close >= c.ema50 /\ c.close >= s.heldLevel

\* Mutant: a recovered position can be watched again.
WatchStartsAgain(s, c) ==
    s.age >= DetectionAge /\ StructureKnown(c) /\ BelowStructure(c, s.heldLevel)

WatchStarts(s, c) ==
    /\ ~s.used
    /\ s.age >= DetectionAge
    /\ StructureKnown(c) /\ BelowStructure(c, s.heldLevel)

\* What follows the hard exits on a candle of the position.
Manage(s, c) ==
    LET aged == [s EXCEPT !.age = @ + 1]
        watched == [aged EXCEPT !.watchBars = @ + 1]
    IN  IF s.mode = "NORMAL_POSITION"
        THEN IF WatchStarts(aged, c)
             THEN Wait(Event([aged EXCEPT !.mode = "FAILURE_WATCH", !.used = TRUE, !.watchBars = 0],
                             "WATCH_STARTED", c))
             ELSE Wait(aged)
        ELSE IF Recovered(watched, c)
             THEN Wait(Event([watched EXCEPT !.mode = "NORMAL_POSITION", !.watchBars = 0],
                             "WATCH_RECOVERED", c))
             ELSE IF watched.watchBars >= WatchMax
                  THEN Decision(Event(watched, "WATCH_TIMEOUT", c), Sell(c, "WATCH_TIMEOUT"))
                  ELSE Wait(watched)

BreakoutV2Exit(before, p, c) ==
    LET hard == BaseExit(Observe(before, c), p, c)
    IN  IF hard.signal = NoSignal THEN Manage(hard.state, c)
        ELSE IF before.mode = "FAILURE_WATCH"
             THEN Decision(Event(hard.state, "WATCH_HARD_EXIT", c), hard.signal)
             ELSE hard

-----------------------------------------------------------------------------
(* What the engine calls.                                                  *)

Unmanaged(s) ==
    [s EXCEPT !.mode = "NONE", !.heldLevel = Absent, !.age = 0, !.used = FALSE, !.watchBars = 0]

\* Flat: should_enter.  V2 first forgets a position it was not told the end of.
ShouldEnter(k, s, c) ==
    CASE k = "breakout"    -> BreakoutEnter(s, c)
      [] k = "breakout_v2" -> BreakoutEnter(Unmanaged(s), c)
      [] k = "pullback"    -> PullbackEnter(s, c)
      [] k = "baseline"    -> BaselineEnter(s, c)
      [] k = "slope"       -> SlopeEnter(s, c)

\* In a position: should_exit, then should_add_dca, which a breakout only
\* uses to observe the candle.
ShouldExit(k, s, p, c) ==
    LET exit == CASE k = "breakout_v2" -> BreakoutV2Exit(s, p, c)
                  [] k = "breakout"    -> BaseExit(Observe(s, c), p, c)
                  [] OTHER             -> BaseExit(s, p, c)
    IN  IF exit.signal # NoSignal \/ k \in Breakouts THEN exit ELSE SafetyOrder(exit.state, p, c)

\* on_fill.
FilledBuy(k, s, signal, c) ==
    LET clear == [s EXCEPT !.trailing = IF signal.dca = 0 THEN Absent ELSE @]
    IN  CASE k = "breakout"    -> clear
          [] k = "breakout_v2" ->
                Event([Unmanaged(clear) EXCEPT !.mode = "NORMAL_POSITION", !.heldLevel = signal.level],
                      "STARTED", c)
          [] OTHER -> [clear EXCEPT !.dca = signal.dca]

FilledSell(k, s, c) ==
    IF k = "breakout_v2" THEN Unmanaged(Event(s, "CLOSED", c)) ELSE s
=============================================================================
