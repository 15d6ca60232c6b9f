--------------------------- MODULE ResearchProofs ---------------------------
(***************************************************************************)
(* For every set of strategies, every length of the windows and every      *)
(* course of the candles: what the research backtests enter, watch and     *)
(* report.                                                                 *)
(***************************************************************************)
EXTENDS ResearchReports, FiniteSetTheorems, SequenceTheorems, WellFoundedInduction, TLAPS

-----------------------------------------------------------------------------
(* The largest and the smallest element.                                   *)

\* A finite set of numbers has a largest one: one with the fewest above it.
LEMMA MaxExists ==
    ASSUME NEW S \in SUBSET Int, IsFiniteSet(S), S # {}
    PROVE  Max(S) \in S /\ \A x \in S : x <= Max(S)
<1> DEFINE above(x) == {y \in S : y > x}
           N == {n \in Nat : \E x \in S : Cardinality(above(x)) = n}
<1>1. \A x \in S : IsFiniteSet(above(x)) /\ Cardinality(above(x)) \in Nat
  BY FS_Subset, FS_CardinalityType
<1>2. N # {}
  BY <1>1
<1>3. PICK n \in N : \A k \in N : ~(<<k, n>> \in OpToRel(<, Nat))
  <2> HIDE DEF N
  <2>1. N \subseteq Nat
    BY DEF N
  <2> QED
    BY <1>2, <2>1, NatLessThanWellFounded, WFMin, Zenon
<1>4. PICK x \in S : Cardinality(above(x)) = n
  OBVIOUS
<1>5. ASSUME NEW y \in S, y > x PROVE FALSE
  <2>1. above(y) \subseteq above(x) /\ y \in above(x) /\ y \notin above(y)
    <3>1. y \in Int /\ x \in Int /\ \A z \in S : z \in Int /\ (z > y => z > x)
      BY <1>5
    <3>2. ~(y > y)
      BY <3>1
    <3> QED
      BY <1>5, <3>1, <3>2
  <2>2. Cardinality(above(y)) # n /\ Cardinality(above(y)) <= n
    <3> HIDE DEF above
    <3>1. IsFiniteSet(above(x)) /\ above(y) \in SUBSET above(x) /\ above(y) # above(x)
      BY <1>1, <2>1
    <3> QED
      BY <1>4, <3>1, FS_Subset
  <2>3. Cardinality(above(y)) \in N /\ n \in Nat
    BY <1>1
  <2>4. <<Cardinality(above(y)), n>> \in OpToRel(<, Nat)
    BY <2>2, <2>3 DEF OpToRel
  <2> QED
    BY <1>3, <2>3, <2>4
<1>6. x \in S /\ \A y \in S : y <= x
  BY <1>5
<1> QED
  BY <1>6 DEF Max

-----------------------------------------------------------------------------
(* Types.                                                                  *)

Candles ==
    [at : Nat, open : Nat, high : Nat, low : Nat, close : Nat, ema20 : Nat, ema50 : Nat,
     ema200 : Nat, regime : STRING, rsi : Nat, calm : BOOLEAN, slope : SUBSET Int]

EventNames ==
    {"STARTED", "WATCH_STARTED", "WATCH_RECOVERED", "WATCH_TIMEOUT", "WATCH_HARD_EXIT", "CLOSED"}

Events == [event : EventNames, at : Nat]

States ==
    [phase : {"IDLE", "ARMED"}, armedAt : Nat, bars : Nat,
     level : Nat, highs : Seq(Nat), seen : Nat, prior : Nat, rsi : Nat,
     mode : {"NONE", "NORMAL_POSITION", "FAILURE_WATCH"}, heldLevel : Nat, age : Nat,
     used : BOOLEAN, watchBars : Nat, events : Seq(Events), dca : Nat, trailing : Nat]

Buys ==
    [action : {"open_long"}, at : Nat, dca : Nat, regime : STRING, stop : Int, take : Int,
     armedAt : Nat, level : Nat, bars : Nat, reason : {"entry", "dca"}]

Reasons ==
    {"MAX_HOLDING", "TREND_DOWN", "TRAILING", "TAKE_PROFIT", "WATCH_TIMEOUT"} \cup EngineReasons

Sells == [action : {"close"}, at : Nat, reason : Reasons]

Positions ==
    [quantity : Nat \ {0}, cost : Int, fees : Int, stop : Int, take : Int, holding : Nat]

BuyFills == [side : {"buy"}, signal : Buys, at : Nat, price : Int, quantity : {1}, fee : {Fee}]
SellFills ==
    [side : {"sell"}, signal : Sells, at : Nat, price : Int, quantity : Nat \ {0}, fee : {Fee}]

BookType ==
    [position : {Flat} \cup Positions, pending : {NoSignal} \cup Buys \cup Sells,
     state : States, fills : Seq(BuyFills \cup SellFills), trades : Nat, pnl : Int]

\* A shape with its number is a candle.
LEMMA NumberedType ==
    ASSUME NEW shape \in CandleShape, NEW n \in Nat
    PROVE  Numbered(shape, n) \in Candles /\ Numbered(shape, n).at = n
<1> DEFINE c == Numbered(shape, n)
<1>1. DOMAIN shape = {"open", "high", "low", "close", "ema20", "ema50", "ema200", "regime",
                      "rsi", "calm", "slope"}
  BY DEF CandleShape
<1>2. c.at = n
  BY DEF Numbered
<1>3. c = [at |-> n, open |-> shape.open, high |-> shape.high, low |-> shape.low,
           close |-> shape.close, ema20 |-> shape.ema20, ema50 |-> shape.ema50,
           ema200 |-> shape.ema200, regime |-> shape.regime, rsi |-> shape.rsi,
           calm |-> shape.calm, slope |-> shape.slope]
  BY <1>1 DEF Numbered
<1> HIDE DEF c
<1>4. c \in Candles
  BY <1>3 DEF CandleShape, Candles
<1> QED
  BY <1>2, <1>4 DEF c

-----------------------------------------------------------------------------
(* What the operators of the strategies change, and what they return.      *)

\* The configured lengths and thresholds.
LEMMA Limits ==
    /\ Lookback \in Nat \ {0} /\ RetestTimeout \in Nat \ {0} /\ DetectionAge \in Nat \ {0}
    /\ WatchMax \in Nat \ {0} /\ SetupTimeout \in Nat \ {0} /\ MaxHolding \in Nat \ {0}
    /\ RsiEntry \in Nat /\ SlopeThreshold \in Int
  BY SetupAssumption

Setup(s) == <<s.phase, s.armedAt, s.bars, s.level>>
Watch(s) == <<s.mode, s.heldLevel, s.age, s.used, s.watchBars, s.events>>

\* The rolling high of a breakout is a price.
LEMMA MaxOfHighs ==
    ASSUME NEW highs \in Seq(Nat), highs # <<>>
    PROVE  Max(ToSet(highs)) \in Nat
<1>1. IsFiniteSet(1 .. Len(highs))
  BY FS_Interval
<1>2. ToSet(highs) = {highs[i] : i \in 1 .. Len(highs)}
  BY DEF ToSet
<1>3. IsFiniteSet(ToSet(highs))
  <2>1. [i \in 1 .. Len(highs) |-> highs[i]] \in Surjection(1 .. Len(highs), ToSet(highs))
    BY <1>2 DEF Surjection
  <2> QED
    BY <1>1, <2>1, FS_Surjection
<1>4. ToSet(highs) \in SUBSET Int /\ ToSet(highs) \in SUBSET Nat /\ ToSet(highs) # {}
  BY <1>2
<1> QED
  BY <1>3, <1>4, MaxExists

\* observe() moves the rolling highs only, and those once a candle.
LEMMA ObserveFacts ==
    ASSUME NEW s \in States, NEW c \in Candles
    PROVE  /\ Observe(s, c) \in States
           /\ Setup(Observe(s, c)) = Setup(s) /\ Watch(Observe(s, c)) = Watch(s)
           /\ Observe(s, c).rsi = s.rsi
           /\ Observe(s, c).dca = s.dca /\ Observe(s, c).trailing = s.trailing
<1> DEFINE highs == Append(s.highs, c.high)
           prior == IF Len(s.highs) >= Lookback THEN Max(ToSet(s.highs)) ELSE Absent
           kept == IF Len(highs) > Lookback THEN Tail(highs) ELSE highs
<1>1. s.highs \in Seq(Nat) /\ c.high \in Nat /\ c.at \in Nat
  BY DEF States, Candles
<1>2. highs \in Seq(Nat) /\ highs # <<>>
  <2> HIDE DEF States
  <2> QED
    BY <1>1, AppendProperties
<1>3. kept \in Seq(Nat)
  <2> HIDE DEF highs
  <2> QED
    BY <1>2
<1>4. prior \in Nat
  BY <1>1, MaxOfHighs, SetupAssumption DEF Absent
<1>5. CASE s.seen = c.at
  BY <1>5 DEF Observe
<1>6. CASE s.seen # c.at
  <2>1. Observe(s, c) = [s EXCEPT !.seen = c.at, !.prior = prior, !.highs = kept]
    BY <1>6 DEF Observe
  <2> HIDE DEF prior, kept
  <2> QED
    BY <1>1, <1>3, <1>4, <2>1 DEF States, Setup, Watch
<1> QED
  BY <1>5, <1>6

\* A setup that is dropped leaves the rest of the strategy as it is.
LEMMA IdleFacts ==
    ASSUME NEW s \in States
    PROVE  /\ Idle(s) \in States /\ Idle(s).phase = "IDLE" /\ Watch(Idle(s)) = Watch(s)
           /\ Idle(s).rsi = s.rsi /\ Idle(s).dca = s.dca /\ Idle(s).trailing = s.trailing
  BY DEF States, Idle, Watch, Absent

\* A setup that waits gets a candle older.
LEMMA OlderFacts ==
    ASSUME NEW s \in States
    PROVE  /\ Older(s) \in States /\ Watch(Older(s)) = Watch(s)
           /\ Older(s).phase = s.phase /\ Older(s).armedAt = s.armedAt
           /\ Older(s).bars = s.bars + 1 /\ Older(s).level = s.level
           /\ Older(s).rsi = s.rsi /\ Older(s).dca = s.dca /\ Older(s).trailing = s.trailing
<1>1. s.bars + 1 \in Nat
  BY DEF States
<1> QED
  BY <1>1 DEF States, Older, Watch

\* The signal of an entry carries its candle and its setup.
LEMMA BuyFacts ==
    ASSUME NEW s \in States, NEW c \in Candles, NEW dca \in Nat
    PROVE  /\ Buy(c, s, dca) \in Buys
           /\ Buy(c, s, dca).at = c.at /\ Buy(c, s, dca).armedAt = s.armedAt
           /\ Buy(c, s, dca).level = s.level /\ Buy(c, s, dca).bars = s.bars
           /\ Buy(c, s, dca).dca = dca /\ Buy(c, s, dca).regime = c.regime
           /\ dca = 0 => Buy(c, s, dca).reason = "entry"
<1>1. StopLoss(c.close) \in Int /\ TakeProfit(c.close) \in Int
  BY ConfigAssumption DEF StopLoss, TakeProfit, Candles
<1> QED
  BY <1>1 DEF Buy, Buys, Candles, States, Absent

\* The signal of an exit carries its candle and its reason.
LEMMA SellFacts ==
    ASSUME NEW c \in Candles, NEW reason \in Reasons
    PROVE  Sell(c, reason) \in Sells /\ Sell(c, reason).at = c.at /\ Sell(c, reason).reason = reason
  BY DEF Sell, Sells, Candles

\* Signals differ in their action.
LEMMA SignalsDiffer ==
    /\ \A x \in Buys : x # NoSignal /\ x.action = "open_long"
    /\ \A x \in Sells : x # NoSignal /\ x.action = "close"
    /\ NoSignal.action = "none"
  BY DEF Buys, Sells, NoSignal

\* The four outcomes of should_enter of a breakout.
Stays(s, d) == d.signal = NoSignal /\ d.state.phase = "IDLE"

Waits(s, d, c) ==
    /\ s.phase = "ARMED" /\ d.signal = NoSignal
    /\ d.state.phase = "ARMED" /\ d.state.armedAt = s.armedAt
    /\ d.state.level = s.level /\ d.state.bars = s.bars + 1
    /\ s.bars + 1 < RetestTimeout /\ c.regime # "TREND_DOWN"

Enters(s, d, c) ==
    /\ s.phase = "ARMED" /\ d.state.phase = "IDLE"
    /\ d.signal \in Buys /\ d.signal.at = c.at /\ d.signal.dca = 0 /\ d.signal.reason = "entry"
    /\ d.signal.armedAt = s.armedAt /\ d.signal.level = s.level
    /\ s.bars + 1 < RetestTimeout /\ c.regime # "TREND_DOWN"
    /\ c.low <= s.level /\ s.level <= c.close

Arms(s, d, c) ==
    /\ s.phase = "IDLE" /\ d.signal = NoSignal
    /\ d.state.phase = "ARMED" /\ d.state.armedAt = c.at
    /\ d.state.bars = 0 /\ d.state.level > 0
    /\ c.close > d.state.level /\ c.regime # "TREND_DOWN"

\* BreakoutRetestStrategy.should_enter has one of the four outcomes, and does not
\* touch what V2 counts.
LEMMA BreakoutEnterFacts ==
    ASSUME NEW before \in States, NEW c \in Candles, NEW d, d = BreakoutEnter(before, c)
    PROVE  /\ d.state \in States /\ Watch(d.state) = Watch(before)
           /\ d.state.dca = before.dca /\ d.state.trailing = before.trailing
           /\ \/ Stays(before, d) \/ Waits(before, d, c)
              \/ Enters(before, d, c) \/ Arms(before, d, c)
<1> DEFINE s == Observe(before, c)
           older == Older(s)
           armed == [s EXCEPT !.phase = "ARMED", !.armedAt = c.at, !.level = s.prior, !.bars = 0]
<1>1. /\ s \in States /\ Setup(s) = Setup(before) /\ Watch(s) = Watch(before)
      /\ s.dca = before.dca /\ s.trailing = before.trailing
  BY ObserveFacts
<1>2. /\ older \in States /\ Watch(older) = Watch(s) /\ older.phase = s.phase
      /\ older.armedAt = s.armedAt /\ older.bars = s.bars + 1 /\ older.level = s.level
      /\ older.dca = s.dca /\ older.trailing = s.trailing
  BY <1>1, OlderFacts
<1>3. /\ Idle(s) \in States /\ Idle(s).phase = "IDLE" /\ Watch(Idle(s)) = Watch(s)
      /\ Idle(s).dca = s.dca /\ Idle(s).trailing = s.trailing
  BY <1>1, IdleFacts
<1>4. /\ armed \in States /\ armed.phase = "ARMED" /\ armed.armedAt = c.at
      /\ armed.level = s.prior /\ armed.bars = 0 /\ Watch(armed) = Watch(s)
      /\ armed.dca = s.dca /\ armed.trailing = s.trailing
  BY <1>1 DEF States, Candles, Watch
<1>5. /\ s.phase = before.phase /\ s.armedAt = before.armedAt
      /\ s.bars = before.bars /\ s.level = before.level
      /\ s.phase \in {"IDLE", "ARMED"} /\ s.prior \in Nat /\ s.bars \in Nat
  BY <1>1 DEF Setup, States
<1>6. d = IF s.phase = "ARMED"
          THEN IF BreakoutLost(older, c) THEN Wait(Idle(s))
               ELSE IF RetestHeld(older, c) THEN Decision(Idle(s), Buy(c, older, 0))
               ELSE Wait(older)
          ELSE IF BreaksOut(s, c) THEN Wait(armed) ELSE Wait(s)
  BY DEF BreakoutEnter
<1> HIDE DEF s, older, armed
<1>7. CASE s.phase = "ARMED" /\ BreakoutLost(older, c)
  <2>1. d = Decision(Idle(s), NoSignal)
    BY <1>6, <1>7 DEF Wait
  <2> QED
    BY <1>1, <1>3, <2>1 DEF Decision, Stays
<1>8. CASE s.phase = "ARMED" /\ ~BreakoutLost(older, c) /\ RetestHeld(older, c)
  <2>1. d = Decision(Idle(s), Buy(c, older, 0))
    BY <1>6, <1>8
  <2>2. /\ Buy(c, older, 0) \in Buys /\ Buy(c, older, 0).at = c.at
        /\ Buy(c, older, 0).armedAt = older.armedAt /\ Buy(c, older, 0).level = older.level
        /\ Buy(c, older, 0).dca = 0 /\ Buy(c, older, 0).reason = "entry"
    BY <1>2, BuyFacts
  <2>3. d.state = Idle(s) /\ d.signal = Buy(c, older, 0)
    BY <2>1 DEF Decision
  <2>4. older.bars < RetestTimeout /\ c.regime # "TREND_DOWN"
    BY <1>2, <1>5, <1>8, Limits DEF BreakoutLost
  <2>5. c.low <= older.level /\ older.level <= c.close
    BY <1>2, <1>8 DEF RetestHeld, States, Candles
  <2> QED
    BY <1>1, <1>2, <1>3, <1>5, <1>8, <2>2, <2>3, <2>4, <2>5 DEF Enters
<1>9. CASE s.phase = "ARMED" /\ ~BreakoutLost(older, c) /\ ~RetestHeld(older, c)
  <2>1. d.state = older /\ d.signal = NoSignal
    BY <1>6, <1>9 DEF Wait, Decision
  <2>2. older.bars < RetestTimeout /\ c.regime # "TREND_DOWN"
    BY <1>2, <1>5, <1>9, Limits DEF BreakoutLost
  <2> QED
    BY <1>1, <1>2, <1>5, <1>9, <2>1, <2>2 DEF Waits
<1>10. CASE s.phase # "ARMED" /\ BreaksOut(s, c)
  <2>1. d.state = armed /\ d.signal = NoSignal
    BY <1>6, <1>10 DEF Wait, Decision
  <2>2. s.prior > 0 /\ c.close > s.prior /\ c.regime # "TREND_DOWN"
    BY <1>5, <1>10 DEF BreaksOut, Absent
  <2> QED
    BY <1>1, <1>4, <1>5, <1>10, <2>1, <2>2 DEF Arms
<1>11. CASE s.phase # "ARMED" /\ ~BreaksOut(s, c)
  <2>1. d.state = s /\ d.signal = NoSignal
    BY <1>6, <1>11 DEF Wait, Decision
  <2> QED
    BY <1>1, <1>5, <1>11, <2>1 DEF Stays
<1> QED
  BY <1>7, <1>8, <1>9, <1>10, <1>11

\* The outcomes of should_enter of the pullback.
Skips(s, d, c)     == ~PullbackKnown(c) /\ Setup(d.state) = Setup(s) /\ d.signal = NoSignal
StaysIdle(s, d, c) == s.phase = "IDLE" /\ d.state.phase = "IDLE" /\ d.signal = NoSignal

Drops(s, d, c) ==
    /\ PullbackKnown(c) /\ s.phase = "ARMED"
    /\ d.state.phase = "IDLE" /\ d.signal = NoSignal
    /\ c.regime # "TREND_UP" \/ ~Trending(c) \/ s.bars + 1 >= SetupTimeout

Confirms(s, d, c) ==
    /\ PullbackKnown(c) /\ s.phase = "ARMED" /\ d.state.phase = "IDLE"
    /\ d.signal \in Buys /\ d.signal.at = c.at /\ d.signal.dca = 0 /\ d.signal.reason = "entry"
    /\ d.signal.armedAt = s.armedAt
    /\ s.bars + 1 < SetupTimeout /\ Confirmed(s, c)

Holds(s, d, c) ==
    /\ PullbackKnown(c) /\ s.phase = "ARMED" /\ d.signal = NoSignal
    /\ d.state.phase = "ARMED" /\ d.state.armedAt = s.armedAt
    /\ d.state.bars = s.bars + 1 /\ s.bars + 1 < SetupTimeout /\ ~Confirmed(s, c)

Begins(s, d, c) ==
    /\ PullbackKnown(c) /\ s.phase = "IDLE" /\ d.signal = NoSignal
    /\ d.state.phase = "ARMED" /\ d.state.armedAt = c.at /\ d.state.bars = 0

\* PullbackMomentumStrategy.should_enter has one of the six outcomes, and
\* remembers the last RSI there was.
LEMMA PullbackEnterFacts ==
    ASSUME NEW s \in States, NEW c \in Candles, NEW d, d = PullbackEnter(s, c)
    PROVE  /\ d.state \in States /\ Watch(d.state) = Watch(s)
           /\ d.state.dca = s.dca /\ d.state.trailing = s.trailing
           /\ d.state.rsi = IF c.rsi # Absent THEN c.rsi ELSE s.rsi
           /\ \/ Skips(s, d, c) \/ StaysIdle(s, d, c) \/ Drops(s, d, c)
              \/ Confirms(s, d, c) \/ Holds(s, d, c) \/ Begins(s, d, c)
<1> DEFINE rsi == IF c.rsi # Absent THEN c.rsi ELSE s.rsi
           seen == [s EXCEPT !.rsi = rsi]
           older == Older(seen)
           armed == [seen EXCEPT !.phase = "ARMED", !.armedAt = c.at, !.bars = 0]
<1>1. /\ seen \in States /\ Setup(seen) = Setup(s) /\ Watch(seen) = Watch(s)
      /\ seen.dca = s.dca /\ seen.trailing = s.trailing /\ seen.rsi = rsi
  BY DEF States, Candles, Setup, Watch
<1>2. /\ older \in States /\ Watch(older) = Watch(seen) /\ older.phase = seen.phase
      /\ older.armedAt = seen.armedAt /\ older.bars = seen.bars + 1 /\ older.level = seen.level
      /\ older.dca = seen.dca /\ older.trailing = seen.trailing /\ older.rsi = seen.rsi
  BY <1>1, OlderFacts
<1>3. /\ Idle(seen) \in States /\ Idle(seen).phase = "IDLE" /\ Watch(Idle(seen)) = Watch(seen)
      /\ Idle(seen).dca = seen.dca /\ Idle(seen).trailing = seen.trailing
      /\ Idle(seen).rsi = seen.rsi
  BY <1>1, IdleFacts
<1>4. /\ armed \in States /\ armed.phase = "ARMED" /\ armed.armedAt = c.at
      /\ armed.bars = 0 /\ Watch(armed) = Watch(seen)
      /\ armed.dca = seen.dca /\ armed.trailing = seen.trailing /\ armed.rsi = seen.rsi
  BY <1>1 DEF States, Candles, Watch
<1>5. /\ seen.phase = s.phase /\ seen.armedAt = s.armedAt
      /\ seen.bars = s.bars /\ seen.level = s.level
      /\ s.phase \in {"IDLE", "ARMED"} /\ s.bars \in Nat
  BY <1>1 DEF Setup, States
<1>6. d = IF ~PullbackKnown(c) THEN Wait(seen)
          ELSE IF s.phase = "ARMED"
          THEN IF PullbackLost(older, c) THEN Wait(Idle(seen))
               ELSE IF Confirmed(s, c) THEN Decision(Idle(seen), Buy(c, older, 0))
               ELSE Wait(older)
          ELSE IF LowInUptrend(c) THEN Wait(armed) ELSE Wait(seen)
  BY DEF PullbackEnter
<1>7. PullbackLost(older, c) <=> c.regime # "TREND_UP" \/ ~Trending(c) \/ s.bars + 1 >= SetupTimeout
  BY <1>2, <1>5 DEF PullbackLost
<1> HIDE DEF seen, older, armed, rsi
<1>8. CASE ~PullbackKnown(c)
  <2>1. d.state = seen /\ d.signal = NoSignal
    BY <1>6, <1>8 DEF Wait, Decision
  <2> QED
    BY <1>1, <1>8, <2>1 DEF Skips, rsi
<1>9. CASE PullbackKnown(c) /\ s.phase = "ARMED" /\ PullbackLost(older, c)
  <2>1. d.state = Idle(seen) /\ d.signal = NoSignal
    BY <1>6, <1>9 DEF Wait, Decision
  <2> QED
    BY <1>1, <1>3, <1>7, <1>9, <2>1 DEF Drops, rsi
<1>10. CASE PullbackKnown(c) /\ s.phase = "ARMED" /\ ~PullbackLost(older, c) /\ Confirmed(s, c)
  <2>1. d.state = Idle(seen) /\ d.signal = Buy(c, older, 0)
    BY <1>6, <1>10 DEF Decision
  <2>2. /\ Buy(c, older, 0) \in Buys /\ Buy(c, older, 0).at = c.at
        /\ Buy(c, older, 0).armedAt = older.armedAt
        /\ Buy(c, older, 0).dca = 0 /\ Buy(c, older, 0).reason = "entry"
    BY <1>2, BuyFacts
  <2>3. s.bars + 1 < SetupTimeout
    BY <1>5, <1>7, <1>10, Limits
  <2> QED
    BY <1>1, <1>2, <1>3, <1>5, <1>10, <2>1, <2>2, <2>3 DEF Confirms, rsi
<1>11. CASE PullbackKnown(c) /\ s.phase = "ARMED" /\ ~PullbackLost(older, c) /\ ~Confirmed(s, c)
  <2>1. d.state = older /\ d.signal = NoSignal
    BY <1>6, <1>11 DEF Wait, Decision
  <2>2. s.bars + 1 < SetupTimeout
    BY <1>5, <1>7, <1>11, Limits
  <2> QED
    BY <1>1, <1>2, <1>5, <1>11, <2>1, <2>2 DEF Holds, rsi
<1>12. CASE PullbackKnown(c) /\ s.phase # "ARMED" /\ LowInUptrend(c)
  <2>1. d.state = armed /\ d.signal = NoSignal
    BY <1>6, <1>12 DEF Wait, Decision
  <2> QED
    BY <1>1, <1>4, <1>5, <1>12, <2>1 DEF Begins, rsi
<1>13. CASE PullbackKnown(c) /\ s.phase # "ARMED" /\ ~LowInUptrend(c)
  <2>1. d.state = seen /\ d.signal = NoSignal
    BY <1>6, <1>13 DEF Wait, Decision
  <2> QED
    BY <1>1, <1>5, <1>13, <2>1 DEF StaysIdle, rsi
<1> QED
  BY <1>8, <1>9, <1>10, <1>11, <1>12, <1>13

\* The baseline, with or without its gate, keeps no setup.
LEMMA BaselineEnterFacts ==
    ASSUME NEW s \in States, NEW c \in Candles, NEW d,
           d = BaselineEnter(s, c) \/ d = SlopeEnter(s, c)
    PROVE  /\ d.state = s
           /\ \/ d.signal = NoSignal
              \/ /\ d.signal = Buy(c, s, 0) /\ d.signal \in Buys /\ d.signal.at = c.at
                 /\ d.signal.dca = 0 /\ d.signal.reason = "entry" /\ c.regime = "TREND_UP"
<1>1. /\ Buy(c, s, 0) \in Buys /\ Buy(c, s, 0).at = c.at
      /\ Buy(c, s, 0).dca = 0 /\ Buy(c, s, 0).reason = "entry"
  BY BuyFacts
<1>2. \/ d = Decision(s, NoSignal)
      \/ d = Decision(s, Buy(c, s, 0)) /\ c.regime = "TREND_UP"
  BY DEF BaselineEnter, SlopeEnter, LowInUptrend, Wait
<1> QED
  BY <1>1, <1>2 DEF Decision

-----------------------------------------------------------------------------
(* Exits.                                                                  *)

\* Two states that differ in the trailing stop only.
Trails(s, t) ==
    /\ t \in States /\ Setup(t) = Setup(s) /\ Watch(t) = Watch(s)
    /\ t.highs = s.highs /\ t.seen = s.seen /\ t.prior = s.prior /\ t.rsi = s.rsi /\ t.dca = s.dca

\* What should_exit returns: no sale, or one of this candle; always one on a
\* TREND_DOWN candle, and that reason on no other.
SellsHere(d, c) == d.signal \in Sells /\ d.signal.at = c.at

Leaves(d, c) ==
    /\ d.signal = NoSignal \/ SellsHere(d, c)
    /\ c.regime = "TREND_DOWN" => d.signal # NoSignal
    /\ d.signal # NoSignal /\ d.signal.reason = "TREND_DOWN" => c.regime = "TREND_DOWN"

\* The exit the strategies share moves the trailing price, or sells on this candle;
\* it knows nothing of a watch.
LEMMA BaseExitFacts ==
    ASSUME NEW s \in States, NEW p, NEW c \in Candles, NEW d, d = BaseExit(s, p, c)
    PROVE  /\ Trails(s, d.state) /\ Leaves(d, c)
           /\ d.signal # NoSignal => d.signal.reason # "WATCH_TIMEOUT"
<1> DEFINE trailing == IF TrailingActive(p, c, s.trailing) THEN TrailingHigh(c, s.trailing)
                       ELSE s.trailing
           moved == [s EXCEPT !.trailing = trailing]
           reset == [s EXCEPT !.trailing = Absent]
<1>1. trailing \in Nat
  BY DEF TrailingHigh, States, Candles
<1> HIDE DEF trailing
<1>2. Trails(s, s) /\ Trails(s, moved) /\ Trails(s, reset)
  BY <1>1 DEF States, Trails, Setup, Watch, Absent
<1>3. d = IF HoldingExpired(p, MaxHolding) THEN Decision(s, Sell(c, "MAX_HOLDING"))
          ELSE IF c.regime = "TREND_DOWN" THEN Decision(s, Sell(c, "TREND_DOWN"))
          ELSE IF moved.trailing # Absent /\ TrailingHit(c, moved.trailing)
               THEN Decision(reset, Sell(c, "TRAILING"))
          ELSE IF ProfitReached(p, c) THEN Decision(moved, Sell(c, "TAKE_PROFIT"))
          ELSE Wait(moved)
  BY DEF BaseExit, trailing
<1>4. \A reason \in Reasons :
         /\ Sell(c, reason) \in Sells /\ Sell(c, reason).at = c.at
         /\ Sell(c, reason).reason = reason /\ Sell(c, reason) # NoSignal
  BY SellFacts, SignalsDiffer
<1> HIDE DEF moved, reset
<1>5. CASE HoldingExpired(p, MaxHolding)
  <2>1. d.state = s /\ d.signal = Sell(c, "MAX_HOLDING")
    BY <1>3, <1>5 DEF Decision
  <2>0. /\ Sell(c, "MAX_HOLDING") \in Sells /\ Sell(c, "MAX_HOLDING").at = c.at
        /\ Sell(c, "MAX_HOLDING").reason = "MAX_HOLDING" /\ Sell(c, "MAX_HOLDING") # NoSignal
    BY <1>4 DEF Reasons
  <2> QED
    BY <1>2, <2>0, <2>1 DEF Leaves, SellsHere
<1>6. CASE ~HoldingExpired(p, MaxHolding) /\ c.regime = "TREND_DOWN"
  <2>1. d.state = s /\ d.signal = Sell(c, "TREND_DOWN")
    BY <1>3, <1>6 DEF Decision
  <2>0. /\ Sell(c, "TREND_DOWN") \in Sells /\ Sell(c, "TREND_DOWN").at = c.at
        /\ Sell(c, "TREND_DOWN").reason = "TREND_DOWN" /\ Sell(c, "TREND_DOWN") # NoSignal
    BY <1>4 DEF Reasons
  <2> QED
    BY <1>2, <1>6, <2>0, <2>1 DEF Leaves, SellsHere
<1>7. CASE ~HoldingExpired(p, MaxHolding) /\ c.regime # "TREND_DOWN"
  <2>1. \/ d = Decision(reset, Sell(c, "TRAILING"))
        \/ d = Decision(moved, Sell(c, "TAKE_PROFIT"))
        \/ d = Decision(moved, NoSignal)
    BY <1>3, <1>7 DEF Wait
  <2>2. \/ d.state = reset /\ d.signal = Sell(c, "TRAILING")
        \/ d.state = moved /\ d.signal = Sell(c, "TAKE_PROFIT")
        \/ d.state = moved /\ d.signal = NoSignal
    BY <2>1 DEF Decision
  <2>0. /\ Sell(c, "TRAILING") \in Sells /\ Sell(c, "TRAILING").at = c.at
        /\ Sell(c, "TRAILING").reason = "TRAILING" /\ Sell(c, "TRAILING") # NoSignal
    BY <1>4 DEF Reasons
  <2>3. /\ Sell(c, "TAKE_PROFIT") \in Sells /\ Sell(c, "TAKE_PROFIT").at = c.at
        /\ Sell(c, "TAKE_PROFIT").reason = "TAKE_PROFIT" /\ Sell(c, "TAKE_PROFIT") # NoSignal
    BY <1>4 DEF Reasons
  <2> QED
    BY <1>2, <1>7, <2>0, <2>2, <2>3 DEF Leaves, SellsHere
<1> QED
  BY <1>5, <1>6, <1>7

\* A safety order keeps the state and never opens a position.
LEMMA SafetyOrderFacts ==
    ASSUME NEW s \in States, NEW p, NEW c \in Candles, NEW d, d = SafetyOrder(s, p, c)
    PROVE  /\ d.state = s
           /\ \/ d.signal = NoSignal
              \/ /\ d.signal \in Buys /\ d.signal.at = c.at /\ d.signal.dca > 0
                 /\ c.regime = "TREND_UP"
<1>1. s.dca + 1 \in Nat /\ s.dca + 1 > 0
  BY DEF States
<1>2. /\ Buy(c, s, s.dca + 1) \in Buys /\ Buy(c, s, s.dca + 1).at = c.at
      /\ Buy(c, s, s.dca + 1).dca = s.dca + 1
  BY <1>1, BuyFacts
<1>3. \/ d = Decision(s, NoSignal)
      \/ d = Decision(s, Buy(c, s, s.dca + 1)) /\ c.regime = "TREND_UP"
  BY DEF SafetyOrder, SafetyOrderDue, Wait
<1> QED
  BY <1>1, <1>2, <1>3 DEF Decision

\* The watch of V2 on one candle of a position.
FailsNow(s, c) ==
    /\ ~s.used /\ s.age + 1 >= DetectionAge
    /\ StructureKnown(c) /\ BelowStructure(c, s.heldLevel)

WatchBegins(s, d, c) ==
    /\ s.mode = "NORMAL_POSITION" /\ FailsNow(s, c)
    /\ d.state.mode = "FAILURE_WATCH" /\ d.state.used /\ d.state.watchBars = 0
    /\ d.state.events = Append(s.events, [event |-> "WATCH_STARTED", at |-> c.at])
    /\ d.signal = NoSignal

WatchStays(s, d, c) ==
    /\ s.mode = "NORMAL_POSITION" /\ ~FailsNow(s, c)
    /\ d.state.mode = s.mode /\ d.state.used = s.used /\ d.state.watchBars = s.watchBars
    /\ d.state.events = s.events /\ d.signal = NoSignal

WatchEnds(s, d, c) ==
    /\ s.mode # "NORMAL_POSITION"
    /\ d.state.mode = "NORMAL_POSITION" /\ d.state.used = s.used /\ d.state.watchBars = 0
    /\ d.state.events = Append(s.events, [event |-> "WATCH_RECOVERED", at |-> c.at])
    /\ d.signal = NoSignal

WatchExpires(s, d, c) ==
    /\ s.mode # "NORMAL_POSITION" /\ s.watchBars + 1 >= WatchMax
    /\ d.state.mode = s.mode /\ d.state.used = s.used /\ d.state.watchBars = s.watchBars + 1
    /\ d.state.events = Append(s.events, [event |-> "WATCH_TIMEOUT", at |-> c.at])
    /\ d.signal = Sell(c, "WATCH_TIMEOUT")

WatchGoesOn(s, d, c) ==
    /\ s.mode # "NORMAL_POSITION" /\ s.watchBars + 1 < WatchMax
    /\ d.state.mode = s.mode /\ d.state.used = s.used /\ d.state.watchBars = s.watchBars + 1
    /\ d.state.events = s.events /\ d.signal = NoSignal

\* An audit event is one more element of the audit.
LEMMA EventFacts ==
    ASSUME NEW s \in States, NEW c \in Candles, NEW name \in EventNames
    PROVE  /\ Event(s, name, c) \in States /\ Setup(Event(s, name, c)) = Setup(s)
           /\ Event(s, name, c) = [s EXCEPT !.events = Append(s.events, [event |-> name, at |-> c.at])]
<1>1. [event |-> name, at |-> c.at] \in Events /\ s.events \in Seq(Events)
  BY DEF Events, Candles, States
<1>2. Append(s.events, [event |-> name, at |-> c.at]) \in Seq(Events)
  BY <1>1, AppendProperties
<1> QED
  BY <1>2 DEF Event, States, Setup

\* A candle on which V2 manages the position ages it by one, and begins, keeps,
\* ends or expires a watch, or none of these.
LEMMA ManageFacts ==
    ASSUME NEW s \in States, NEW c \in Candles, NEW d, d = Manage(s, c)
    PROVE  /\ d.state \in States /\ Setup(d.state) = Setup(s)
           /\ d.state.highs = s.highs /\ d.state.seen = s.seen /\ d.state.prior = s.prior
           /\ d.state.rsi = s.rsi /\ d.state.dca = s.dca /\ d.state.trailing = s.trailing
           /\ d.state.age = s.age + 1 /\ d.state.heldLevel = s.heldLevel
           /\ \/ WatchBegins(s, d, c) \/ WatchStays(s, d, c) \/ WatchEnds(s, d, c)
              \/ WatchExpires(s, d, c) \/ WatchGoesOn(s, d, c)
<1> DEFINE aged == [s EXCEPT !.age = @ + 1]
           watched == [aged EXCEPT !.watchBars = @ + 1]
           begun == [aged EXCEPT !.mode = "FAILURE_WATCH", !.used = TRUE, !.watchBars = 0]
           ended_ == [watched EXCEPT !.mode = "NORMAL_POSITION", !.watchBars = 0]
           Same(t) == /\ Setup(t) = Setup(s) /\ t.highs = s.highs /\ t.seen = s.seen
                      /\ t.prior = s.prior /\ t.rsi = s.rsi /\ t.dca = s.dca
                      /\ t.trailing = s.trailing /\ t.age = s.age + 1 /\ t.heldLevel = s.heldLevel
<1>0. s.age + 1 \in Nat /\ s.watchBars + 1 \in Nat
  BY DEF States
<1>1. /\ aged \in States /\ Same(aged) /\ aged.mode = s.mode /\ aged.used = s.used
      /\ aged.watchBars = s.watchBars /\ aged.events = s.events
  BY <1>0 DEF States, Setup
<1>2. /\ watched \in States /\ Same(watched) /\ watched.mode = s.mode /\ watched.used = s.used
      /\ watched.watchBars = s.watchBars + 1 /\ watched.events = s.events
  BY <1>0 DEF States, Setup
<1>3. /\ begun \in States /\ Same(begun) /\ begun.mode = "FAILURE_WATCH" /\ begun.used
      /\ begun.watchBars = 0 /\ begun.events = s.events
  BY <1>0 DEF States, Setup
<1>4. /\ ended_ \in States /\ Same(ended_) /\ ended_.mode = "NORMAL_POSITION"
      /\ ended_.used = s.used /\ ended_.watchBars = 0 /\ ended_.events = s.events
  BY <1>0 DEF States, Setup
<1>5. d = IF s.mode = "NORMAL_POSITION"
          THEN IF WatchStarts(aged, c) THEN Wait(Event(begun, "WATCH_STARTED", c)) ELSE Wait(aged)
          ELSE IF Recovered(watched, c) THEN Wait(Event(ended_, "WATCH_RECOVERED", c))
          ELSE IF watched.watchBars >= WatchMax
               THEN Decision(Event(watched, "WATCH_TIMEOUT", c), Sell(c, "WATCH_TIMEOUT"))
          ELSE Wait(watched)
  BY DEF Manage
<1>6. \A t \in States, name \in EventNames : Same(t) =>
         LET e == Event(t, name, c)
         IN  /\ e \in States /\ Same(e) /\ e.mode = t.mode /\ e.used = t.used
             /\ e.watchBars = t.watchBars
             /\ e.events = Append(t.events, [event |-> name, at |-> c.at])
  <2> TAKE t \in States, name \in EventNames
  <2> HAVE Same(t)
  <2> DEFINE e == Event(t, name, c)
  <2>1. /\ e \in States /\ Setup(e) = Setup(t)
        /\ e = [t EXCEPT !.events = Append(t.events, [event |-> name, at |-> c.at])]
    BY EventFacts
  <2> QED
    BY <2>1 DEF States
<1>7. WatchStarts(aged, c) <=> FailsNow(s, c)
  BY <1>1 DEF WatchStarts, FailsNow
<1> HIDE DEF aged, watched, begun, ended_
<1>9. CASE s.mode = "NORMAL_POSITION" /\ WatchStarts(aged, c)
  <2>1. d.state = Event(begun, "WATCH_STARTED", c) /\ d.signal = NoSignal
    BY <1>5, <1>9 DEF Wait, Decision
  <2> DEFINE e == Event(begun, "WATCH_STARTED", c)
  <2>2. /\ e \in States /\ Same(e) /\ e.mode = begun.mode /\ e.used = begun.used
        /\ e.watchBars = begun.watchBars
        /\ e.events = Append(begun.events, [event |-> "WATCH_STARTED", at |-> c.at])
    <3> HIDE DEF Same
    <3>1. begun \in States /\ Same(begun) /\ "WATCH_STARTED" \in EventNames
      BY <1>3 DEF Same, EventNames
    <3> QED
      BY <1>6, <3>1
  <2> QED
    BY <1>3, <1>7, <1>9, <2>1, <2>2 DEF WatchBegins
<1>10. CASE s.mode = "NORMAL_POSITION" /\ ~WatchStarts(aged, c)
  <2>1. d.state = aged /\ d.signal = NoSignal
    BY <1>5, <1>10 DEF Wait, Decision
  <2> QED
    BY <1>1, <1>7, <1>10, <2>1 DEF WatchStays
<1>11. CASE s.mode # "NORMAL_POSITION" /\ Recovered(watched, c)
  <2>1. d.state = Event(ended_, "WATCH_RECOVERED", c) /\ d.signal = NoSignal
    BY <1>5, <1>11 DEF Wait, Decision
  <2> DEFINE e == Event(ended_, "WATCH_RECOVERED", c)
  <2>2. /\ e \in States /\ Same(e) /\ e.mode = ended_.mode /\ e.used = ended_.used
        /\ e.watchBars = ended_.watchBars
        /\ e.events = Append(ended_.events, [event |-> "WATCH_RECOVERED", at |-> c.at])
    <3> HIDE DEF Same
    <3>1. ended_ \in States /\ Same(ended_) /\ "WATCH_RECOVERED" \in EventNames
      BY <1>4 DEF Same, EventNames
    <3> QED
      BY <1>6, <3>1
  <2> QED
    BY <1>4, <1>11, <2>1, <2>2 DEF WatchEnds
<1>12. CASE s.mode # "NORMAL_POSITION" /\ ~Recovered(watched, c) /\ watched.watchBars >= WatchMax
  <2>1. d.state = Event(watched, "WATCH_TIMEOUT", c) /\ d.signal = Sell(c, "WATCH_TIMEOUT")
    BY <1>5, <1>12 DEF Decision
  <2> DEFINE e == Event(watched, "WATCH_TIMEOUT", c)
  <2>2. /\ e \in States /\ Same(e) /\ e.mode = watched.mode /\ e.used = watched.used
        /\ e.watchBars = watched.watchBars
        /\ e.events = Append(watched.events, [event |-> "WATCH_TIMEOUT", at |-> c.at])
    <3> HIDE DEF Same
    <3>1. watched \in States /\ Same(watched) /\ "WATCH_TIMEOUT" \in EventNames
      BY <1>2 DEF Same, EventNames
    <3> QED
      BY <1>6, <3>1
  <2> QED
    BY <1>2, <1>12, <2>1, <2>2 DEF WatchExpires
<1>13. CASE s.mode # "NORMAL_POSITION" /\ ~Recovered(watched, c) /\ ~(watched.watchBars >= WatchMax)
  <2>1. d.state = watched /\ d.signal = NoSignal
    BY <1>5, <1>13 DEF Wait, Decision
  <2>2. s.watchBars + 1 < WatchMax
    BY <1>0, <1>2, <1>13, Limits
  <2> QED
    BY <1>2, <1>13, <2>1, <2>2 DEF WatchGoesOn
<1> QED
  BY <1>9, <1>10, <1>11, <1>12, <1>13

\* What V1 and V2 have in common.
Core(s) ==
    <<s.phase, s.armedAt, s.bars, s.level, s.highs, s.seen, s.prior, s.rsi, s.dca, s.trailing>>

\* A sale that should_exit makes without the watch.
HardExit(s, d) ==
    /\ d.signal # NoSignal /\ d.signal.reason # "WATCH_TIMEOUT"
    /\ d.state.mode = s.mode /\ d.state.heldLevel = s.heldLevel /\ d.state.age = s.age
    /\ d.state.used = s.used /\ d.state.watchBars = s.watchBars

EventsKept(s, d, c) ==
    \/ d.state.events = s.events
    \/ d.state.events = Append(s.events, [event |-> "WATCH_HARD_EXIT", at |-> c.at])

V2Stays(s, d, c) ==
    /\ d.state.age = s.age + 1 /\ d.state.heldLevel = s.heldLevel
    /\ \/ WatchBegins(s, d, c) \/ WatchStays(s, d, c) \/ WatchEnds(s, d, c)
       \/ WatchExpires(s, d, c) \/ WatchGoesOn(s, d, c)

\* should_exit of V2 is the hard exit of V1, or the watch where there is none.
LEMMA V2ExitFacts ==
    ASSUME NEW s \in States, NEW p, NEW c \in Candles,
           NEW hard, hard = BaseExit(Observe(s, c), p, c),
           NEW d, d = BreakoutV2Exit(s, p, c)
    PROVE  /\ d.state \in States /\ Core(d.state) = Core(hard.state)
           /\ Setup(d.state) = Setup(s) /\ Leaves(d, c)
           /\ \/ hard.signal # NoSignal /\ d.signal = hard.signal
                 /\ HardExit(s, d) /\ EventsKept(s, d, c)
              \/ hard.signal = NoSignal /\ V2Stays(s, d, c)
<1> DEFINE o == Observe(s, c)
<1>1. o \in States /\ Setup(o) = Setup(s) /\ Watch(o) = Watch(s)
  BY ObserveFacts
<1>2. /\ Trails(o, hard.state) /\ Leaves(hard, c)
      /\ hard.signal # NoSignal => hard.signal.reason # "WATCH_TIMEOUT"
  BY <1>1, BaseExitFacts
<1>3. d = IF hard.signal = NoSignal THEN Manage(hard.state, c)
          ELSE IF s.mode = "FAILURE_WATCH"
               THEN Decision(Event(hard.state, "WATCH_HARD_EXIT", c), hard.signal)
               ELSE hard
  BY DEF BreakoutV2Exit
<1>4. /\ hard.state \in States /\ Setup(hard.state) = Setup(s)
      /\ hard.state.mode = s.mode /\ hard.state.heldLevel = s.heldLevel
      /\ hard.state.age = s.age /\ hard.state.used = s.used
      /\ hard.state.watchBars = s.watchBars /\ hard.state.events = s.events
  BY <1>1, <1>2 DEF Trails, Watch
<1> HIDE DEF o
<1>5. CASE hard.signal # NoSignal /\ s.mode = "FAILURE_WATCH"
  <2> DEFINE e == Event(hard.state, "WATCH_HARD_EXIT", c)
  <2>1. d.state = e /\ d.signal = hard.signal
    BY <1>3, <1>5 DEF Decision
  <2>2. "WATCH_HARD_EXIT" \in EventNames
    BY DEF EventNames
  <2>3. /\ e \in States /\ Setup(e) = Setup(hard.state)
        /\ e = [hard.state EXCEPT !.events =
                   Append(hard.state.events, [event |-> "WATCH_HARD_EXIT", at |-> c.at])]
    <3>1. ASSUME NEW t \in States, NEW name \in EventNames
          PROVE  /\ Event(t, name, c) \in States /\ Setup(Event(t, name, c)) = Setup(t)
                 /\ Event(t, name, c) =
                       [t EXCEPT !.events = Append(t.events, [event |-> name, at |-> c.at])]
      BY EventFacts
    <3> QED
      BY <1>4, <2>2, <3>1
  <2> HIDE DEF e
  <2>4. Core(e) = Core(hard.state)
    BY <1>4, <2>3 DEF Core, States
  <2>5. HardExit(s, d) /\ EventsKept(s, d, c)
    <3>1. /\ e.mode = s.mode /\ e.heldLevel = s.heldLevel /\ e.age = s.age
          /\ e.used = s.used /\ e.watchBars = s.watchBars
          /\ e.events = Append(s.events, [event |-> "WATCH_HARD_EXIT", at |-> c.at])
      BY <1>4, <2>3 DEF States
    <3> QED
      BY <1>2, <1>5, <2>1, <3>1 DEF HardExit, EventsKept
  <2> QED
    BY <1>2, <1>4, <1>5, <2>1, <2>3, <2>4, <2>5 DEF Leaves, SellsHere
<1>6. CASE hard.signal # NoSignal /\ s.mode # "FAILURE_WATCH"
  <2>1. d = hard
    BY <1>3, <1>6
  <2> QED
    BY <1>2, <1>4, <1>6, <2>1 DEF HardExit, EventsKept
<1>7. CASE hard.signal = NoSignal
  <2>1. d = Manage(hard.state, c)
    BY <1>3, <1>7
  <2> DEFINE h == hard.state
  <2>2. /\ d.state \in States /\ Setup(d.state) = Setup(h)
        /\ d.state.highs = h.highs /\ d.state.seen = h.seen /\ d.state.prior = h.prior
        /\ d.state.rsi = h.rsi /\ d.state.dca = h.dca /\ d.state.trailing = h.trailing
        /\ d.state.age = h.age + 1 /\ d.state.heldLevel = h.heldLevel
        /\ \/ WatchBegins(h, d, c) \/ WatchStays(h, d, c) \/ WatchEnds(h, d, c)
           \/ WatchExpires(h, d, c) \/ WatchGoesOn(h, d, c)
    BY <1>4, <2>1, ManageFacts
  <2>3. Core(d.state) = Core(h)
    BY <2>2 DEF Core, Setup
  <2>4. FailsNow(h, c) <=> FailsNow(s, c)
    BY <1>4 DEF FailsNow
  <2>5. V2Stays(s, d, c)
    BY <1>4, <2>2, <2>4
    DEF V2Stays, WatchBegins, WatchStays, WatchEnds, WatchExpires, WatchGoesOn
  <2>6. d.signal = NoSignal \/ d.signal = Sell(c, "WATCH_TIMEOUT")
    BY <2>2 DEF WatchBegins, WatchStays, WatchEnds, WatchExpires, WatchGoesOn
  <2>7. Sell(c, "WATCH_TIMEOUT") \in Sells /\ Sell(c, "WATCH_TIMEOUT").at = c.at
        /\ Sell(c, "WATCH_TIMEOUT").reason = "WATCH_TIMEOUT"
    BY SellFacts DEF Reasons
  <2>8. Leaves(d, c)
    BY <1>2, <1>7, <2>6, <2>7 DEF Leaves, SellsHere
  <2> QED
    BY <1>4, <1>7, <2>2, <2>3, <2>5, <2>8
<1> QED
  BY <1>5, <1>6, <1>7

-----------------------------------------------------------------------------
(* What the engine calls.                                                  *)

Forgotten(s) ==
    s.mode = "NONE" /\ s.heldLevel = Absent /\ s.age = 0 /\ ~s.used /\ s.watchBars = 0

\* A position that V2 no longer finds is forgotten, with the audit kept.
LEMMA UnmanagedFacts ==
    ASSUME NEW s \in States
    PROVE  /\ Unmanaged(s) \in States /\ Setup(Unmanaged(s)) = Setup(s)
           /\ Core(Unmanaged(s)) = Core(s) /\ Forgotten(Unmanaged(s))
           /\ Unmanaged(s).events = s.events
  BY DEF Unmanaged, States, Setup, Core, Forgotten, Absent

\* The strategies one by one.
LEMMA StrategyNames ==
    ASSUME NEW k \in Strategies
    PROVE  /\ k = "breakout" \/ k = "breakout_v2" \/ k = "pullback" \/ k = "baseline" \/ k = "slope"
           /\ k \in Breakouts <=> k = "breakout" \/ k = "breakout_v2"
  BY DEF Strategies, Breakouts

\* should_enter of any strategy: no signal, or an entry signalled on this candle;
\* for a breakout one of its four outcomes.
LEMMA ShouldEnterFacts ==
    ASSUME NEW k \in Strategies, NEW s \in States, NEW c \in Candles,
           NEW d, d = ShouldEnter(k, s, c)
    PROVE  /\ d.state \in States
           /\ \/ d.signal = NoSignal
              \/ d.signal \in Buys /\ d.signal.at = c.at /\ d.signal.dca = 0
                 /\ d.signal.reason = "entry"
           /\ k \in Breakouts =>
                 Stays(s, d) \/ Waits(s, d, c) \/ Enters(s, d, c) \/ Arms(s, d, c)
           /\ k = "pullback" =>
                 /\ d.state.rsi = IF c.rsi # Absent THEN c.rsi ELSE s.rsi
                 /\ \/ Skips(s, d, c) \/ StaysIdle(s, d, c) \/ Drops(s, d, c)
                    \/ Confirms(s, d, c) \/ Holds(s, d, c) \/ Begins(s, d, c)
           /\ k \in {"baseline", "slope"} =>
                 d.state = s /\ (d.signal # NoSignal => c.regime = "TREND_UP")
           /\ k = "breakout_v2" => Forgotten(d.state) /\ d.state.events = s.events
<1>1. CASE k = "breakout"
  <2>1. d = BreakoutEnter(s, c)
    BY <1>1 DEF ShouldEnter
  <2>2. /\ d.state \in States
        /\ Stays(s, d) \/ Waits(s, d, c) \/ Enters(s, d, c) \/ Arms(s, d, c)
    BY <2>1, BreakoutEnterFacts
  <2> QED
    BY <1>1, <2>2 DEF Stays, Waits, Enters, Arms
<1>2. CASE k = "breakout_v2"
  <2> DEFINE u == Unmanaged(s)
  <2>1. d = BreakoutEnter(u, c)
    BY <1>2 DEF ShouldEnter
  <2>2. /\ u \in States /\ Setup(u) = Setup(s) /\ Forgotten(u) /\ u.events = s.events
    BY UnmanagedFacts
  <2> HIDE DEF u
  <2>3. /\ d.state \in States /\ Watch(d.state) = Watch(u)
        /\ Stays(u, d) \/ Waits(u, d, c) \/ Enters(u, d, c) \/ Arms(u, d, c)
    BY <2>1, <2>2, BreakoutEnterFacts
  <2>4. u.phase = s.phase /\ u.armedAt = s.armedAt /\ u.bars = s.bars /\ u.level = s.level
    BY <2>2 DEF Setup
  <2>5. Stays(s, d) \/ Waits(s, d, c) \/ Enters(s, d, c) \/ Arms(s, d, c)
    BY <2>3, <2>4 DEF Stays, Waits, Enters, Arms
  <2>6. Forgotten(d.state) /\ d.state.events = s.events
    BY <2>2, <2>3 DEF Watch, Forgotten
  <2> QED
    BY <1>2, <2>3, <2>5, <2>6 DEF Stays, Waits, Enters, Arms
<1>3. CASE k = "pullback"
  <2>1. d = PullbackEnter(s, c)
    BY <1>3 DEF ShouldEnter
  <2>2. /\ d.state \in States
        /\ d.state.rsi = IF c.rsi # Absent THEN c.rsi ELSE s.rsi
        /\ \/ Skips(s, d, c) \/ StaysIdle(s, d, c) \/ Drops(s, d, c)
           \/ Confirms(s, d, c) \/ Holds(s, d, c) \/ Begins(s, d, c)
    BY <2>1, PullbackEnterFacts
  <2>3. k \notin Breakouts
    BY <1>3 DEF Breakouts
  <2>4. \/ d.signal = NoSignal
        \/ d.signal \in Buys /\ d.signal.at = c.at /\ d.signal.dca = 0
           /\ d.signal.reason = "entry"
    BY <2>2 DEF Skips, StaysIdle, Drops, Confirms, Holds, Begins
  <2> QED
    BY <1>3, <2>2, <2>3, <2>4
<1>4. CASE k \in {"baseline", "slope"}
  <2>1. d = BaselineEnter(s, c) \/ d = SlopeEnter(s, c)
    BY <1>4 DEF ShouldEnter
  <2>2. /\ d.state = s
        /\ \/ d.signal = NoSignal
           \/ /\ d.signal = Buy(c, s, 0) /\ d.signal \in Buys /\ d.signal.at = c.at
              /\ d.signal.dca = 0 /\ d.signal.reason = "entry" /\ c.regime = "TREND_UP"
    BY <2>1, BaselineEnterFacts
  <2>3. k \notin Breakouts
    BY <1>4 DEF Breakouts
  <2> QED
    BY <1>4, <2>2, <2>3
<1> QED
  BY <1>1, <1>2, <1>3, <1>4, StrategyNames

\* In a position no setup moves; only a strategy that is not a breakout buys.
LEMMA ShouldExitFacts ==
    ASSUME NEW k \in Strategies, NEW s \in States, NEW p, NEW c \in Candles,
           NEW d, d = ShouldExit(k, s, p, c)
    PROVE  /\ d.state \in States /\ Setup(d.state) = Setup(s)
           /\ \/ d.signal = NoSignal \/ SellsHere(d, c)
              \/ /\ k \notin Breakouts /\ d.signal \in Buys
                 /\ d.signal.at = c.at /\ d.signal.dca > 0
           /\ c.regime = "TREND_DOWN" => SellsHere(d, c)
           /\ SellsHere(d, c) /\ d.signal.reason = "TREND_DOWN" => c.regime = "TREND_DOWN"
<1>1. \A x \in Sells : x # NoSignal
  BY SignalsDiffer
<1>2. CASE k = "breakout_v2"
  <2>1. d = BreakoutV2Exit(s, p, c)
    BY <1>2 DEF ShouldExit, Breakouts
  <2>2. d.state \in States /\ Setup(d.state) = Setup(s) /\ Leaves(d, c)
    BY <2>1, V2ExitFacts
  <2> QED
    BY <1>1, <2>2 DEF Leaves, SellsHere
<1>3. CASE k # "breakout_v2"
  <2> DEFINE o == IF k = "breakout" THEN Observe(s, c) ELSE s
             exit == BaseExit(o, p, c)
  <2>1. o \in States /\ Setup(o) = Setup(s)
    BY ObserveFacts
  <2>2. Trails(o, exit.state) /\ Leaves(exit, c)
    <3> HIDE DEF o
    <3> QED
      BY <2>1, BaseExitFacts
  <2>3. exit.state \in States /\ Setup(exit.state) = Setup(s)
    BY <2>1, <2>2 DEF Trails
  <2>4. d = IF exit.signal # NoSignal \/ k \in Breakouts THEN exit ELSE SafetyOrder(exit.state, p, c)
    BY <1>3, StrategyNames DEF ShouldExit
  <2> HIDE DEF exit
  <2>5. CASE exit.signal # NoSignal \/ k \in Breakouts
    BY <1>1, <2>2, <2>3, <2>4, <2>5 DEF Leaves, SellsHere
  <2>6. CASE exit.signal = NoSignal /\ k \notin Breakouts
    <3>1. d = SafetyOrder(exit.state, p, c)
      BY <2>4, <2>6
    <3>2. /\ d.state = exit.state
          /\ \/ d.signal = NoSignal
             \/ d.signal \in Buys /\ d.signal.at = c.at /\ d.signal.dca > 0
      BY <2>3, <3>1, SafetyOrderFacts
    <3>3. c.regime # "TREND_DOWN"
      BY <2>2, <2>6 DEF Leaves
    <3>4. ~SellsHere(d, c)
      BY <1>1, <3>2, SignalsDiffer DEF SellsHere
    <3> QED
      BY <2>3, <2>6, <3>2, <3>3, <3>4
  <2> QED
    BY <2>5, <2>6
<1> QED
  BY <1>2, <1>3

\* The audit of V2 with one more event.
Logged(s, name, c) == Append(s.events, [event |-> name, at |-> c.at])

\* Told of a purchase, V2 begins to manage the position.
LEMMA FilledBuyFacts ==
    ASSUME NEW k \in Strategies, NEW s \in States, NEW signal \in Buys, NEW c \in Candles,
           NEW t, t = FilledBuy(k, s, signal, c)
    PROVE  /\ t \in States /\ Setup(t) = Setup(s) /\ t.rsi = s.rsi
           /\ k = "breakout_v2" =>
                 /\ t.mode = "NORMAL_POSITION" /\ t.heldLevel = signal.level
                 /\ t.age = 0 /\ ~t.used /\ t.watchBars = 0
                 /\ t.events = Logged(s, "STARTED", c)
<1> DEFINE clear == [s EXCEPT !.trailing = IF signal.dca = 0 THEN Absent ELSE @]
<1>1. clear \in States /\ Setup(clear) = Setup(s) /\ clear.rsi = s.rsi /\ clear.events = s.events
  BY DEF States, Setup, Absent
<1>2. signal.level \in Nat /\ signal.dca \in Nat
  BY DEF Buys
<1> HIDE DEF clear
<1>3. CASE k = "breakout"
  <2>1. t = clear
    BY <1>3 DEF FilledBuy, clear
  <2> QED
    BY <1>1, <1>3, <2>1
<1>4. CASE k = "breakout_v2"
  <2> DEFINE u == [Unmanaged(clear) EXCEPT !.mode = "NORMAL_POSITION", !.heldLevel = signal.level]
  <2>1. t = Event(u, "STARTED", c)
    BY <1>4 DEF FilledBuy, clear
  <2>2. /\ Unmanaged(clear) \in States /\ Setup(Unmanaged(clear)) = Setup(clear)
        /\ Core(Unmanaged(clear)) = Core(clear)
        /\ Forgotten(Unmanaged(clear)) /\ Unmanaged(clear).events = clear.events
    BY <1>1, UnmanagedFacts
  <2>3. /\ u \in States /\ Setup(u) = Setup(s) /\ u.rsi = s.rsi /\ u.mode = "NORMAL_POSITION"
        /\ u.heldLevel = signal.level /\ u.age = 0 /\ ~u.used /\ u.watchBars = 0
        /\ u.events = s.events
    <3> DEFINE v == Unmanaged(clear)
    <3> HIDE DEF v
    <3>1. v.rsi = s.rsi
      BY <1>1, <2>2 DEF v, Core
    <3>2. v \in States /\ Setup(v) = Setup(s) /\ Forgotten(v) /\ v.events = s.events
      BY <1>1, <2>2 DEF v
    <3>3. u = [v EXCEPT !.mode = "NORMAL_POSITION", !.heldLevel = signal.level]
      BY DEF v
    <3> HIDE DEF u
    <3> QED
      BY <1>2, <3>1, <3>2, <3>3 DEF States, Setup, Forgotten
  <2> HIDE DEF u
  <2>4. "STARTED" \in EventNames
    BY DEF EventNames
  <2>5. /\ t \in States /\ Setup(t) = Setup(u)
        /\ t = [u EXCEPT !.events = Append(u.events, [event |-> "STARTED", at |-> c.at])]
    BY <2>1, <2>3, <2>4, EventFacts
  <2> QED
    BY <2>3, <2>5 DEF States, Logged
<1>5. CASE k # "breakout" /\ k # "breakout_v2"
  <2>1. t = [clear EXCEPT !.dca = signal.dca]
    BY <1>5 DEF FilledBuy, clear
  <2> QED
    BY <1>1, <1>2, <1>5, <2>1 DEF States, Setup
<1> QED
  BY <1>3, <1>4, <1>5

\* on_fill of a sale resets what V2 counts and nothing else.
LEMMA FilledSellFacts ==
    ASSUME NEW k \in Strategies, NEW s \in States, NEW c \in Candles,
           NEW t, t = FilledSell(k, s, c)
    PROVE  /\ t \in States /\ Setup(t) = Setup(s) /\ t.rsi = s.rsi
           /\ k = "breakout_v2" =>
                 /\ Forgotten(t) /\ Core(t) = Core(s)
                 /\ t.events = Logged(s, "CLOSED", c)
           /\ k # "breakout_v2" => t = s
<1>1. CASE k = "breakout_v2"
  <2> DEFINE e == Event(s, "CLOSED", c)
  <2>1. "CLOSED" \in EventNames
    BY DEF EventNames
  <2>2. /\ e \in States /\ Setup(e) = Setup(s)
        /\ e = [s EXCEPT !.events = Append(s.events, [event |-> "CLOSED", at |-> c.at])]
    BY <2>1, EventFacts
  <2>3. t = Unmanaged(e)
    BY <1>1 DEF FilledSell
  <2> HIDE DEF e
  <2>4. Core(e) = Core(s) /\ e.events = Append(s.events, [event |-> "CLOSED", at |-> c.at])
    BY <2>2 DEF Core, States
  <2>5. /\ t \in States /\ Setup(t) = Setup(e) /\ Core(t) = Core(e) /\ Forgotten(t)
        /\ t.events = e.events
    BY <2>2, <2>3, UnmanagedFacts
  <2>6. t.rsi = s.rsi
    BY <2>4, <2>5 DEF Core
  <2> QED
    BY <1>1, <2>2, <2>4, <2>5, <2>6 DEF Logged
<1>2. CASE k # "breakout_v2"
  BY <1>2 DEF FilledSell
<1> QED
  BY <1>1, <1>2

-----------------------------------------------------------------------------
(* One candle of one book.                                                 *)

\* The book is flat or has a position.
LEMMA HeldFacts ==
    ASSUME NEW b \in BookType
    PROVE  /\ Held(b) <=> b.position \in Positions
           /\ ~Held(b) <=> b.position = Flat
           /\ Held(b) \in BOOLEAN
  BY DEF Held, BookType, Positions, Flat

\* The pending signal is none, a purchase or a sale.
LEMMA PendingKinds ==
    ASSUME NEW b \in BookType
    PROVE  /\ b.pending \in Sells <=> b.pending.action = "close"
           /\ b.pending \in Buys <=> b.pending.action = "open_long"
           /\ b.pending = NoSignal \/ b.pending \in Sells \/ b.pending \in Buys
           /\ b.pending \in Sells => b.pending \notin Buys /\ b.pending # NoSignal
           /\ b.pending \in Buys => b.pending # NoSignal
  BY SignalsDiffer DEF BookType

\* A purchase opens the position or adds to it.
LEMMA BoughtFacts ==
    ASSUME NEW p \in {Flat} \cup Positions, NEW signal \in Buys, NEW price \in Int
    PROVE  /\ Bought(p, signal, price) \in Positions
           /\ p = Flat =>
                 /\ Bought(p, signal, price).quantity = 1
                 /\ Bought(p, signal, price).cost = price
                 /\ Bought(p, signal, price).fees = Fee
           /\ p # Flat =>
                 /\ Bought(p, signal, price).quantity = p.quantity + 1
                 /\ Bought(p, signal, price).cost = p.cost + price
                 /\ Bought(p, signal, price).fees = p.fees + Fee
<1>1. Fee \in Nat
  BY ResearchAssumption
<1>2. signal.stop \in Int /\ signal.take \in Int
  BY DEF Buys
<1>3. CASE p = Flat
  <2>1. Bought(p, signal, price) =
          [quantity |-> 1, cost |-> price, fees |-> Fee,
           stop |-> signal.stop, take |-> signal.take, holding |-> 0]
    BY <1>3 DEF Bought
  <2> QED
    BY <1>1, <1>2, <1>3, <2>1 DEF Positions
<1>4. CASE p # Flat
  <2>1. Bought(p, signal, price) =
          [quantity |-> p.quantity + 1, cost |-> p.cost + price, fees |-> p.fees + Fee,
           stop |-> Level(signal.stop, p.stop), take |-> Level(signal.take, p.take),
           holding |-> p.holding + 1]
    BY <1>4 DEF Bought
  <2>2. /\ p.quantity + 1 \in Nat \ {0} /\ p.cost + price \in Int /\ p.fees + Fee \in Int
        /\ p.holding + 1 \in Nat /\ p.stop \in Int /\ p.take \in Int
    BY <1>1, <1>4 DEF Positions
  <2>3. Level(signal.stop, p.stop) \in Int /\ Level(signal.take, p.take) \in Int
    BY <1>2, <2>2 DEF Level
  <2> QED
    BY <1>4, <2>1, <2>2, <2>3 DEF Positions
<1> QED
  BY <1>3, <1>4

\* Fills have their types.
LEMMA FillType ==
    ASSUME NEW at \in Nat, NEW price \in Int
    PROVE  /\ \A signal \in Buys : Fill("buy", signal, at, price, 1) \in BuyFills
           /\ \A signal \in Sells, q \in Nat \ {0} : Fill("sell", signal, at, price, q) \in SellFills
  BY DEF Fill, BuyFills, SellFills

\* A fill buys on an entry and sells on an exit.
LEMMA FillsDiffer ==
    /\ \A f \in BuyFills : f.side = "buy" /\ f.signal.action = "open_long"
    /\ \A f \in SellFills : f.side = "sell" /\ f.signal.action = "close"
  BY DEF BuyFills, SellFills, Buys, Sells

\* A sale of the whole position.
SoldFor(b, x, signal, at, price) ==
    /\ x.position = Flat
    /\ x.pnl = b.pnl + price * b.position.quantity - b.position.cost - b.position.fees - Fee
    /\ x.trades = b.trades + 1
    /\ x.fills = Append(b.fills, Fill("sell", signal, at, price, b.position.quantity))

\* Closing a position books one sale and one trade.
LEMMA ClosedFacts ==
    ASSUME NEW b \in BookType, Held(b), NEW signal \in Sells, NEW at \in Nat, NEW price \in Int,
           NEW x, x = Closed(b, signal, at, price)
    PROVE  /\ x \in BookType /\ SoldFor(b, x, signal, at, price)
           /\ x.pending = b.pending /\ x.state = b.state
<1>1. /\ b.position \in Positions /\ b.pnl \in Int /\ b.trades \in Nat
      /\ b.fills \in Seq(BuyFills \cup SellFills)
  BY HeldFacts DEF BookType
<1>2. /\ b.position.quantity \in Nat \ {0} /\ b.position.cost \in Int /\ b.position.fees \in Int
  BY <1>1 DEF Positions
<1>3. Fee \in Int
  BY ResearchAssumption
<1> DEFINE q == b.position.quantity
           pnl == b.pnl + price * q - b.position.cost - b.position.fees - Fee
           f == Fill("sell", signal, at, price, q)
<1>4. pnl \in Int
  <2> DEFINE m == price * q
  <2>1. m \in Int
    BY <1>2
  <2>2. pnl = b.pnl + m - b.position.cost - b.position.fees - Fee
    OBVIOUS
  <2> HIDE DEF m, pnl
  <2> QED
    BY <1>1, <1>2, <1>3, <2>1, <2>2
<1>5. f \in BuyFills \cup SellFills
  BY <1>2, FillType
<1>6. x = [b EXCEPT !.position = Flat, !.pnl = pnl, !.trades = b.trades + 1,
                    !.fills = Append(b.fills, f)]
  BY DEF Closed, BookType
<1> HIDE DEF pnl, f
<1>7. Append(b.fills, f) \in Seq(BuyFills \cup SellFills)
  BY <1>1, <1>5, AppendProperties
<1>8. /\ x.position = Flat /\ x.pnl = pnl /\ x.trades = b.trades + 1
      /\ x.fills = Append(b.fills, f) /\ x.pending = b.pending /\ x.state = b.state
  BY <1>6 DEF BookType
<1>9. x \in BookType
  <2>1. b.trades + 1 \in Nat
    BY <1>1
  <2> QED
    BY <1>4, <1>6, <1>7, <2>1 DEF BookType
<1> QED
  BY <1>8, <1>9 DEF SoldFor, pnl, f

\* A pending sale is filled at the open of the candle.
LEMMA OpenedSells ==
    ASSUME NEW k \in Strategies, NEW b \in BookType, NEW c \in Candles, NEW refuse \in BOOLEAN,
           Held(b), b.pending \in Sells, NEW o, o = Opened(k, b, c, refuse)
    PROVE  /\ o \in BookType /\ SoldFor(b, o, b.pending, c.at, c.open)
           /\ o.pending = NoSignal /\ o.state = FilledSell(k, b.state, c)
<1> DEFINE clear == [b EXCEPT !.pending = NoSignal]
           x == Closed(clear, b.pending, c.at, c.open)
<1>1. /\ clear \in BookType /\ clear.position = b.position /\ clear.pending = NoSignal
      /\ clear.state = b.state /\ clear.fills = b.fills /\ clear.trades = b.trades
      /\ clear.pnl = b.pnl
  BY DEF BookType
<1>2. c.at \in Nat /\ c.open \in Int
  BY DEF Candles
<1>3. o = [x EXCEPT !.state = FilledSell(k, @, c)]
  BY PendingKinds DEF Opened
<1> HIDE DEF clear
<1>4. Held(clear)
  BY <1>1 DEF Held
<1>5. /\ x \in BookType /\ SoldFor(clear, x, b.pending, c.at, c.open)
      /\ x.pending = clear.pending /\ x.state = clear.state
  BY <1>1, <1>2, <1>4, ClosedFacts
<1> HIDE DEF x
<1>6. b.state \in States
  BY DEF BookType
<1>7. FilledSell(k, b.state, c) \in States
  <2>1. ASSUME NEW s \in States PROVE FilledSell(k, s, c) \in States
    BY FilledSellFacts
  <2> QED
    BY <1>6, <2>1
<1>8. o = [x EXCEPT !.state = FilledSell(k, b.state, c)]
  BY <1>1, <1>3, <1>5 DEF BookType
<1>9. /\ o \in BookType /\ o.state = FilledSell(k, b.state, c) /\ o.pending = x.pending
      /\ o.position = x.position /\ o.fills = x.fills /\ o.trades = x.trades /\ o.pnl = x.pnl
  BY <1>5, <1>7, <1>8 DEF BookType
<1> QED
  BY <1>1, <1>5, <1>9 DEF SoldFor

\* A pending purchase that is not refused is filled at the open of the candle.
LEMMA OpenedBuys ==
    ASSUME NEW k \in Strategies, NEW b \in BookType, NEW c \in Candles, NEW refuse \in BOOLEAN,
           b.pending \in Buys, ~refuse, NEW o, o = Opened(k, b, c, refuse)
    PROVE  /\ o \in BookType /\ o.pending = NoSignal /\ o.state = FilledBuy(k, b.state, b.pending, c)
           /\ o.position = Bought(b.position, b.pending, c.open) /\ Held(o)
           /\ o.fills = Append(b.fills, Fill("buy", b.pending, c.at, c.open, 1))
           /\ o.trades = b.trades /\ o.pnl = b.pnl
<1> DEFINE p == Bought(b.position, b.pending, c.open)
           t == FilledBuy(k, b.state, b.pending, c)
           f == Fill("buy", b.pending, c.at, c.open, 1)
<1>1. /\ b.position \in {Flat} \cup Positions /\ b.state \in States
      /\ b.fills \in Seq(BuyFills \cup SellFills)
  BY DEF BookType
<1>2. c.at \in Nat /\ c.open \in Int
  BY DEF Candles
<1>3. p \in Positions /\ t \in States /\ f \in BuyFills \cup SellFills
  BY <1>1, <1>2, BoughtFacts, FilledBuyFacts, FillType
<1>4. o = [b EXCEPT !.pending = NoSignal, !.position = p, !.state = t, !.fills = Append(b.fills, f)]
  BY PendingKinds DEF Opened, BookType
<1> HIDE DEF p, t, f
<1>5. Append(b.fills, f) \in Seq(BuyFills \cup SellFills)
  BY <1>1, <1>3, AppendProperties
<1>6. /\ o \in BookType /\ o.pending = NoSignal /\ o.state = t /\ o.position = p
      /\ o.fills = Append(b.fills, f) /\ o.trades = b.trades /\ o.pnl = b.pnl
  BY <1>3, <1>4, <1>5 DEF BookType
<1>7. Held(o)
  BY <1>3, <1>6, HeldFacts
<1> QED
  BY <1>6, <1>7 DEF p, t, f

\* Without a pending signal, or with one that the engine refuses, the fills stay.
LEMMA OpenedKeeps ==
    ASSUME NEW k \in Strategies, NEW b \in BookType, NEW c \in Candles, NEW refuse \in BOOLEAN,
           b.pending = NoSignal \/ (b.pending \in Buys /\ refuse),
           NEW o, o = Opened(k, b, c, refuse)
    PROVE  /\ o \in BookType /\ o.pending = NoSignal /\ o.state = b.state
           /\ o.position = b.position /\ o.fills = b.fills /\ o.trades = b.trades /\ o.pnl = b.pnl
           /\ Held(o) <=> Held(b)
<1>1. o = [b EXCEPT !.pending = NoSignal]
  BY PendingKinds, SignalsDiffer DEF Opened
<1> QED
  BY <1>1 DEF BookType, Held

\* The stop loss or the take profit of a position sells it on this candle.
LEMMA LevelClosedFacts ==
    ASSUME NEW b \in BookType, NEW c \in Candles, Held(b), NEW x, x = LevelClosed(b, c)
    PROVE  /\ x \in BookType /\ x.pending = b.pending /\ x.state = b.state
           /\ \E signal \in Sells, price \in Int :
                 /\ signal.at = c.at /\ signal.reason \in EngineReasons
                 /\ SoldFor(b, x, signal, c.at, price)
<1> DEFINE p == b.position
           signal == Sell(c, LevelReason(p, c))
<1>1. p \in Positions
  BY HeldFacts
<1>2. p.stop \in Int /\ p.take \in Int /\ c.open \in Int /\ c.at \in Nat
  BY <1>1 DEF Positions, Candles
<1>3. LevelPrice(p, c) \in Int
  <2> HIDE DEF p
  <2> QED
    BY <1>2 DEF LevelPrice, Absent
<1>4. LevelReason(p, c) \in EngineReasons /\ EngineReasons \subseteq Reasons
  BY DEF LevelReason, EngineReasons, Reasons
<1>5. signal \in Sells /\ signal.at = c.at /\ signal.reason \in EngineReasons
  <2>1. LevelReason(p, c) \in Reasons
    BY <1>4
  <2> HIDE DEF p
  <2> QED
    BY <1>4, <2>1, SellFacts
<1>6. x = Closed(b, signal, c.at, LevelPrice(p, c))
  BY DEF LevelClosed
<1> HIDE DEF p, signal
<1>7. /\ x \in BookType /\ SoldFor(b, x, signal, c.at, LevelPrice(p, c))
      /\ x.pending = b.pending /\ x.state = b.state
  BY <1>2, <1>3, <1>5, <1>6, ClosedFacts
<1> QED
  BY <1>3, <1>5, <1>7

\* The position on which the strategy decides.
Aged(p) == [p EXCEPT !.holding = @ + 1]

Kept(b, x) ==
    /\ x.fills = b.fills /\ x.trades = b.trades /\ x.pnl = b.pnl
    /\ Held(x) <=> Held(b)
    /\ x.position.quantity = b.position.quantity
    /\ Held(b) => x.position.cost = b.position.cost /\ x.position.fees = b.position.fees

\* A strategy with a position is asked for an exit, one without it for an entry.
LEMMA EvaluatedFacts ==
    ASSUME NEW k \in Strategies, NEW b \in BookType, NEW c \in Candles,
           NEW x, x = Evaluated(k, b, c)
    PROVE  /\ x \in BookType /\ Kept(b, x)
           /\ Held(b) =>
                LET d == ShouldExit(k, b.state, Aged(b.position), c)
                IN  x.state = d.state /\ x.pending = d.signal
                    /\ x.position = Aged(b.position)
           /\ ~Held(b) =>
                LET d == ShouldEnter(k, b.state, c)
                IN  x.state = d.state /\ x.pending = d.signal /\ x.position = Flat
<1> DEFINE p == Aged(b.position)
           exit == ShouldExit(k, b.state, p, c)
           enter == ShouldEnter(k, b.state, c)
<1>0. b.state \in States
  BY DEF BookType
<1>1. exit.state \in States /\ exit.signal \in {NoSignal} \cup Buys \cup Sells
  <2>1. ASSUME NEW s \in States, NEW q, NEW d, d = ShouldExit(k, s, q, c)
        PROVE  d.state \in States /\ d.signal \in {NoSignal} \cup Buys \cup Sells
    BY <2>1, ShouldExitFacts DEF SellsHere
  <2> QED
    BY <1>0, <2>1
<1>2. enter.state \in States /\ enter.signal \in {NoSignal} \cup Buys \cup Sells
  <2>1. ASSUME NEW s \in States, NEW d, d = ShouldEnter(k, s, c)
        PROVE  d.state \in States /\ d.signal \in {NoSignal} \cup Buys \cup Sells
    BY <2>1, ShouldEnterFacts
  <2> QED
    BY <1>0, <2>1
<1>3. CASE Held(b)
  <2>1. b.position \in Positions
    BY <1>3, HeldFacts
  <2>2. /\ p \in Positions /\ p.quantity = b.position.quantity
        /\ p.cost = b.position.cost /\ p.fees = b.position.fees
    BY <2>1 DEF Positions, Aged
  <2> HIDE DEF exit
  <2>3. x = [b EXCEPT !.position = p, !.state = exit.state, !.pending = exit.signal]
    <3>1. [b EXCEPT !.position.holding = @ + 1] = [b EXCEPT !.position = p]
      BY <2>1 DEF Aged, BookType, Positions
    <3>2. [b EXCEPT !.position.holding = @ + 1].position = p
      BY <3>1 DEF BookType
    <3>3. x = [[b EXCEPT !.position.holding = @ + 1] EXCEPT !.state = exit.state,
                                                            !.pending = exit.signal]
      BY <1>3, <3>2 DEF Evaluated, exit
    <3> HIDE DEF p
    <3> QED
      BY <3>1, <3>3 DEF BookType
  <2> HIDE DEF p
  <2>4. /\ x \in BookType /\ x.position = p /\ x.state = exit.state /\ x.pending = exit.signal
        /\ x.fills = b.fills /\ x.trades = b.trades /\ x.pnl = b.pnl
    BY <1>1, <2>2, <2>3 DEF BookType
  <2>5. Held(x)
    BY <2>2, <2>4, HeldFacts
  <2> QED
    BY <1>3, <2>2, <2>4, <2>5 DEF Kept, p, exit
<1>4. CASE ~Held(b)
  <2>1. b.position = Flat
    BY <1>4, HeldFacts
  <2> HIDE DEF enter
  <2>2. x = [b EXCEPT !.state = enter.state, !.pending = enter.signal]
    BY <1>4 DEF Evaluated, enter
  <2>3. /\ x \in BookType /\ x.position = Flat /\ x.state = enter.state
        /\ x.pending = enter.signal
        /\ x.fills = b.fills /\ x.trades = b.trades /\ x.pnl = b.pnl
    BY <1>2, <2>1, <2>2 DEF BookType
  <2>4. ~Held(x)
    BY <2>3, HeldFacts
  <2> QED
    BY <1>4, <2>1, <2>3, <2>4 DEF Kept, enter
<1> QED
  BY <1>3, <1>4

\* What holds of a run before its end.  An order to buy without a position is
\* an entry, one in a position is a safety order, which a breakout never makes;
\* only a position is sold; and a setup is kept only by a strategy that is flat
\* and has not ordered.
Well(k, b) ==
    /\ b \in BookType
    /\ b.pending \in Sells => Held(b)
    /\ b.pending \in Buys /\ ~Held(b) => b.pending.dca = 0 /\ b.pending.reason = "entry"
    /\ b.pending \in Buys /\ Held(b) => b.pending.dca > 0 /\ k \notin Breakouts
    /\ b.state.phase = "ARMED" =>
          ~Held(b) /\ b.pending = NoSignal /\ k \notin {"baseline", "slope"}

\* The three ways a candle opens.
OpensSold(k, b, o, c) ==
    /\ b.pending \in Sells /\ Held(b) /\ ~Held(o)
    /\ SoldFor(b, o, b.pending, c.at, c.open) /\ o.state = FilledSell(k, b.state, c)

OpensBought(k, b, o, c) ==
    /\ b.pending \in Buys /\ Held(o)
    /\ o.state = FilledBuy(k, b.state, b.pending, c)
    /\ o.position = Bought(b.position, b.pending, c.open)
    /\ o.fills = Append(b.fills, Fill("buy", b.pending, c.at, c.open, 1))
    /\ o.trades = b.trades /\ o.pnl = b.pnl

OpensKept(b, o) ==
    /\ b.pending \notin Sells
    /\ o.state = b.state /\ o.position = b.position /\ o.fills = b.fills
    /\ o.trades = b.trades /\ o.pnl = b.pnl /\ (Held(o) <=> Held(b))

\* The three ways it ends.
EndsByLevel(o, x, c) ==
    /\ Held(o) /\ ~Held(x) /\ x.pending = NoSignal /\ x.state = o.state
    /\ \E signal \in Sells, price \in Int :
          /\ signal.at = c.at /\ signal.reason \in EngineReasons
          /\ SoldFor(o, x, signal, c.at, price)

EndsHeld(k, o, x, c) ==
    /\ Held(o) /\ Held(x) /\ Kept(o, x)
    /\ LET d == ShouldExit(k, o.state, Aged(o.position), c)
       IN  x.state = d.state /\ x.pending = d.signal
    /\ x.position = Aged(o.position)

EndsFlat(k, o, x, c) ==
    /\ ~Held(o) /\ ~Held(x) /\ Kept(o, x)
    /\ LET d == ShouldEnter(k, o.state, c)
       IN  x.state = d.state /\ x.pending = d.signal

\* An order leaves no setup behind, and the baseline never has one.
LEMMA EnteringFacts ==
    ASSUME NEW k \in Strategies, NEW s \in States, NEW c \in Candles,
           s.phase = "ARMED" => k \notin {"baseline", "slope"}
    PROVE  LET d == ShouldEnter(k, s, c)
           IN  /\ \/ d.signal = NoSignal
                  \/ d.signal \in Buys /\ d.signal.dca = 0 /\ d.signal.reason = "entry"
               /\ d.signal # NoSignal => d.state.phase # "ARMED"
               /\ d.state.phase = "ARMED" => k \notin {"baseline", "slope"}
<1> DEFINE d == ShouldEnter(k, s, c)
<1>1. /\ \/ d.signal = NoSignal
         \/ d.signal \in Buys /\ d.signal.at = c.at /\ d.signal.dca = 0
            /\ d.signal.reason = "entry"
      /\ k \in Breakouts => Stays(s, d) \/ Waits(s, d, c) \/ Enters(s, d, c) \/ Arms(s, d, c)
      /\ k = "pullback" =>
            \/ Skips(s, d, c) \/ StaysIdle(s, d, c) \/ Drops(s, d, c)
            \/ Confirms(s, d, c) \/ Holds(s, d, c) \/ Begins(s, d, c)
      /\ k \in {"baseline", "slope"} => d.state = s
  BY ShouldEnterFacts
<1> HIDE DEF d
<1>2. CASE k \in Breakouts
  <2>1. k \notin {"baseline", "slope"}
    BY <1>2 DEF Breakouts
  <2> QED
    BY <1>1, <1>2, <2>1 DEF Stays, Waits, Enters, Arms, d
<1>3. CASE k = "pullback"
  BY <1>1, <1>3 DEF Skips, StaysIdle, Drops, Confirms, Holds, Begins, d
<1>4. CASE k \in {"baseline", "slope"}
  BY <1>1, <1>4 DEF d
<1> QED
  BY <1>2, <1>3, <1>4, StrategyNames

\* What the open of a candle does to a sound book.
LEMMA OpenedCases ==
    ASSUME NEW k \in Strategies, NEW b, Well(k, b), NEW c \in Candles, NEW refuse \in BOOLEAN,
           NEW o, o = Opened(k, b, c, refuse)
    PROVE  /\ o \in BookType /\ o.pending = NoSignal
           /\ \/ OpensSold(k, b, o, c)
              \/ ~refuse /\ OpensBought(k, b, o, c)
              \/ (b.pending = NoSignal \/ refuse) /\ OpensKept(b, o)
           /\ o.state.phase = "ARMED" => ~Held(o) /\ k \notin {"baseline", "slope"}
           /\ Setup(o.state) = Setup(b.state) /\ o.state.rsi = b.state.rsi
<1>0. b \in BookType
  BY DEF Well
<1>00. b.state \in States
  BY <1>0 DEF BookType
<1>1. CASE b.pending \in Sells
  <2>1. Held(b)
    BY <1>1 DEF Well
  <2>2. /\ o \in BookType /\ SoldFor(b, o, b.pending, c.at, c.open)
        /\ o.pending = NoSignal /\ o.state = FilledSell(k, b.state, c)
    BY <1>0, <1>1, <2>1, OpenedSells
  <2>3. ~Held(o)
    BY <2>2, HeldFacts DEF SoldFor
  <2>5. b.state.phase # "ARMED"
    BY <1>0, <1>1, PendingKinds DEF Well
  <2>4. Setup(o.state) = Setup(b.state) /\ o.state.rsi = b.state.rsi
    <3>1. ASSUME NEW s \in States, NEW t, t = FilledSell(k, s, c)
          PROVE  Setup(t) = Setup(s) /\ t.rsi = s.rsi
      BY <3>1, FilledSellFacts
    <3> QED
      BY <1>00, <2>2, <3>1
  <2>6. o.state.phase # "ARMED"
    BY <2>4, <2>5 DEF Setup
  <2> QED
    BY <1>1, <2>1, <2>2, <2>3, <2>4, <2>6 DEF OpensSold
<1>2. CASE b.pending \in Buys /\ ~refuse
  <2>1. /\ o \in BookType /\ o.pending = NoSignal /\ o.state = FilledBuy(k, b.state, b.pending, c)
        /\ o.position = Bought(b.position, b.pending, c.open) /\ Held(o)
        /\ o.fills = Append(b.fills, Fill("buy", b.pending, c.at, c.open, 1))
        /\ o.trades = b.trades /\ o.pnl = b.pnl
    BY <1>0, <1>2, OpenedBuys
  <2>2. b.state.phase # "ARMED"
    BY <1>0, <1>2, PendingKinds DEF Well
  <2>3. Setup(o.state) = Setup(b.state) /\ o.state.rsi = b.state.rsi
    <3>1. ASSUME NEW s \in States, NEW signal \in Buys, NEW t, t = FilledBuy(k, s, signal, c)
          PROVE  Setup(t) = Setup(s) /\ t.rsi = s.rsi
      BY <3>1, FilledBuyFacts
    <3> QED
      BY <1>00, <1>2, <2>1, <3>1
  <2>4. o.state.phase # "ARMED"
    BY <2>2, <2>3 DEF Setup
  <2> QED
    BY <1>2, <2>1, <2>3, <2>4 DEF OpensBought
<1>3. CASE b.pending = NoSignal \/ (b.pending \in Buys /\ refuse)
  <2>1. /\ o \in BookType /\ o.pending = NoSignal /\ o.state = b.state
        /\ o.position = b.position /\ o.fills = b.fills /\ o.trades = b.trades /\ o.pnl = b.pnl
        /\ Held(o) <=> Held(b)
    BY <1>0, <1>3, OpenedKeeps
  <2>2. b.pending \notin Sells
    BY <1>0, <1>3, PendingKinds
  <2>3. o.state.phase = "ARMED" => ~Held(o) /\ k \notin {"baseline", "slope"}
    BY <2>1 DEF Well
  <2> QED
    BY <1>3, <2>1, <2>2, <2>3 DEF OpensKept
<1> QED
  BY <1>0, <1>1, <1>2, <1>3, PendingKinds

\* A candle ends by a level, with a position kept or with a flat book, and leaves
\* a sound book sound.
LEMMA SteppedCases ==
    ASSUME NEW k \in Strategies, NEW b, Well(k, b), NEW c \in Candles, NEW refuse \in BOOLEAN,
           NEW o, o = Opened(k, b, c, refuse), NEW x, x = Stepped(k, b, c, refuse)
    PROVE  /\ Well(k, x)
           /\ EndsByLevel(o, x, c) \/ EndsHeld(k, o, x, c) \/ EndsFlat(k, o, x, c)
<1>1. /\ o \in BookType /\ o.pending = NoSignal
      /\ o.state.phase = "ARMED" => ~Held(o) /\ k \notin {"baseline", "slope"}
  BY OpenedCases
<1>2. o.state \in States
  BY <1>1 DEF BookType
<1>3. CASE LevelHit(o, c)
  <2>1. x = LevelClosed(o, c) /\ Held(o)
    BY <1>3 DEF Stepped, LevelHit
  <2>2. /\ x \in BookType /\ x.pending = o.pending /\ x.state = o.state
        /\ \E signal \in Sells, price \in Int :
              /\ signal.at = c.at /\ signal.reason \in EngineReasons
              /\ SoldFor(o, x, signal, c.at, price)
    BY <1>1, <2>1, LevelClosedFacts
  <2>3. ~Held(x)
    BY <2>2, HeldFacts DEF SoldFor
  <2>4. x.pending = NoSignal /\ x.pending \notin Sells /\ x.pending \notin Buys
    BY <1>1, <2>2, PendingKinds
  <2> QED
    BY <1>1, <2>1, <2>2, <2>3, <2>4 DEF Well, EndsByLevel
<1>4. CASE ~LevelHit(o, c) /\ Held(o)
  <2> DEFINE d == ShouldExit(k, o.state, Aged(o.position), c)
  <2>1. /\ x \in BookType /\ Kept(o, x)
        /\ x.state = d.state /\ x.pending = d.signal /\ x.position = Aged(o.position)
    <3>1. x = Evaluated(k, o, c)
      BY <1>4 DEF Stepped
    <3> QED
      BY <1>1, <1>4, <3>1, EvaluatedFacts
  <2>2. Held(x)
    BY <1>4, <2>1 DEF Kept
  <2>3. /\ Setup(d.state) = Setup(o.state)
        /\ \/ d.signal = NoSignal \/ SellsHere(d, c)
           \/ k \notin Breakouts /\ d.signal \in Buys /\ d.signal.at = c.at /\ d.signal.dca > 0
    <3>1. ASSUME NEW s \in States, NEW p, NEW e, e = ShouldExit(k, s, p, c)
          PROVE  /\ Setup(e.state) = Setup(s)
                 /\ \/ e.signal = NoSignal \/ SellsHere(e, c)
                    \/ k \notin Breakouts /\ e.signal \in Buys /\ e.signal.at = c.at /\ e.signal.dca > 0
      BY <3>1, ShouldExitFacts
    <3> QED
      BY <1>2, <3>1
  <2> HIDE DEF d
  <2>4. x.state.phase # "ARMED"
    BY <1>1, <1>4, <2>1, <2>3 DEF Setup
  <2>5. \/ x.pending = NoSignal \/ x.pending \in Sells
        \/ k \notin Breakouts /\ x.pending \in Buys /\ x.pending.dca > 0
    BY <2>1, <2>3 DEF SellsHere
  <2>6. Well(k, x)
    BY <2>1, <2>2, <2>4, <2>5, PendingKinds DEF Well
  <2>7. EndsHeld(k, o, x, c)
    BY <1>4, <2>1, <2>2 DEF EndsHeld, d
  <2> QED
    BY <2>6, <2>7
<1>5. CASE ~LevelHit(o, c) /\ ~Held(o)
  <2> DEFINE d == ShouldEnter(k, o.state, c)
  <2>1. /\ x \in BookType /\ Kept(o, x)
        /\ x.state = d.state /\ x.pending = d.signal
    <3>1. x = Evaluated(k, o, c)
      BY <1>5 DEF Stepped
    <3> QED
      BY <1>1, <1>5, <3>1, EvaluatedFacts
  <2>2. ~Held(x)
    BY <1>5, <2>1 DEF Kept
  <2>3. /\ \/ d.signal = NoSignal
           \/ d.signal \in Buys /\ d.signal.dca = 0 /\ d.signal.reason = "entry"
        /\ d.signal # NoSignal => d.state.phase # "ARMED"
        /\ d.state.phase = "ARMED" => k \notin {"baseline", "slope"}
    BY <1>1, <1>2, EnteringFacts
  <2> HIDE DEF d
  <2>4. Well(k, x)
    BY <2>1, <2>2, <2>3, PendingKinds, SignalsDiffer DEF Well
  <2>5. EndsFlat(k, o, x, c)
    BY <1>5, <2>1, <2>2 DEF EndsFlat, d
  <2> QED
    BY <2>4, <2>5
<1> QED
  BY <1>3, <1>4, <1>5

\* An element that no other exceeds is the maximum.
LEMMA MaxIs ==
    ASSUME NEW S \in SUBSET Int, NEW m \in S, \A x \in S : x <= m
    PROVE  Max(S) = m
<1>1. \A y \in S : (\A x \in S : x <= y) => y = m
  OBVIOUS
<1> QED
  BY <1>1 DEF Max

-----------------------------------------------------------------------------
(* Entries follow setups.                                                  *)

Numbering(cs) == cs \in Seq(Candles) /\ \A i \in 1 .. Len(cs) : cs[i].at = i

\* One more candle: the earlier ones keep their numbers.
LEMMA AppendedFacts ==
    ASSUME NEW cs, Numbering(cs), NEW c \in Candles, c.at = Len(cs) + 1
    PROVE  /\ Numbering(Append(cs, c)) /\ Len(Append(cs, c)) = Len(cs) + 1
           /\ Len(cs) \in Nat /\ Append(cs, c)[Len(cs) + 1] = c
           /\ \A i \in 1 .. Len(cs) : Append(cs, c)[i] = cs[i]
<1>1. cs \in Seq(Candles)
  BY DEF Numbering
<1>2. /\ Append(cs, c) \in Seq(Candles) /\ Len(Append(cs, c)) = Len(cs) + 1
      /\ Len(cs) \in Nat /\ Append(cs, c)[Len(cs) + 1] = c
      /\ \A i \in 1 .. Len(cs) : Append(cs, c)[i] = cs[i]
  BY <1>1, AppendProperties, LenProperties
<1>3. \A i \in 1 .. Len(cs) + 1 : Append(cs, c)[i].at = i
  BY <1>2 DEF Numbering
<1> QED
  BY <1>2, <1>3 DEF Numbering

\* What is known of the RSI, and the complete candles after a place.
RsiKnown(cs, n)    == {i \in 1 .. n : cs[i].rsi # Absent}
Complete(cs, a, n) == {i \in a + 1 .. n : PullbackKnown(cs[i])}

LastRsi(cs, n, rsi) == RsiKnown(cs, n) # {} /\ rsi = cs[Max(RsiKnown(cs, n))].rsi

\* What an armed setup knows.
BreakoutHolds(s, cs) ==
    /\ s.armedAt \in 1 .. Len(cs)
    /\ s.bars = Len(cs) - s.armedAt /\ s.bars < RetestTimeout
    /\ cs[s.armedAt].close > s.level
    /\ \A i \in s.armedAt .. Len(cs) : cs[i].regime # "TREND_DOWN"

PullbackHolds(s, cs) ==
    /\ s.armedAt \in 1 .. Len(cs)
    /\ s.bars = Cardinality(Complete(cs, s.armedAt, Len(cs))) /\ s.bars < SetupTimeout
    /\ LastRsi(cs, Len(cs), s.rsi)

SetupHolds(k, s, cs) ==
    s.phase = "ARMED" =>
        /\ k \in Breakouts => BreakoutHolds(s, cs)
        /\ k = "pullback" => PullbackHolds(s, cs)

\* What EntriesFollowSetups says of one order.
BreakoutFounded(x, cs) ==
    /\ x.at - x.armedAt \in 1 .. RetestTimeout - 1
    /\ cs[x.armedAt].close > x.level
    /\ cs[x.at].low <= x.level /\ x.level <= cs[x.at].close
    /\ \A i \in x.armedAt .. x.at : cs[i].regime # "TREND_DOWN"

PullbackFounded(x, cs) ==
    /\ Cardinality(Complete(cs, x.armedAt, x.at)) < SetupTimeout
    /\ cs[x.at].rsi > RsiEntry /\ cs[Max(RsiKnown(cs, x.at - 1))].rsi <= RsiEntry

Founded(k, x, cs) ==
    x.action = "open_long" /\ x.dca = 0 =>
        /\ k \in Breakouts => BreakoutFounded(x, cs)
        /\ k = "pullback" => PullbackFounded(x, cs)

\* The last RSI, one candle later.
LEMMA LastRsiAppended ==
    ASSUME NEW cs, Numbering(cs), NEW c \in Candles, c.at = Len(cs) + 1, NEW rsi,
           c.rsi # Absent \/ LastRsi(cs, Len(cs), rsi)
    PROVE  LastRsi(Append(cs, c), Len(cs) + 1, IF c.rsi # Absent THEN c.rsi ELSE rsi)
<1> DEFINE ds == Append(cs, c)
           n == Len(cs)
           old == RsiKnown(cs, n)
           new == RsiKnown(ds, n + 1)
<1>1. /\ n \in Nat /\ ds[n + 1] = c /\ \A i \in 1 .. n : ds[i] = cs[i]
  BY AppendedFacts
<1> HIDE DEF ds, n
<1>2. new \in SUBSET Int /\ old \in SUBSET Int /\ \A i \in new : i <= n + 1
  BY <1>1 DEF RsiKnown
<1>3. CASE c.rsi # Absent
  <2>1. n + 1 \in new
    BY <1>1, <1>3 DEF RsiKnown
  <2>2. Max(new) = n + 1
    <3> HIDE DEF new
    <3> QED
      BY <1>2, <2>1, MaxIs
  <2> QED
    BY <1>1, <1>3, <2>1, <2>2 DEF LastRsi, ds, n
<1>4. CASE c.rsi = Absent
  <2>1. new = old
    BY <1>1, <1>4 DEF RsiKnown
  <2>2. old # {} /\ rsi = cs[Max(old)].rsi
    BY <1>4 DEF LastRsi, n
  <2>3. IsFiniteSet(old)
    <3>1. old \subseteq 1 .. n /\ IsFiniteSet(1 .. n)
      BY <1>1, FS_Interval DEF RsiKnown
    <3> QED
      BY <3>1, FS_Subset
  <2>4. Max(old) \in old
    <3> HIDE DEF old
    <3> QED
      BY <1>2, <2>2, <2>3, MaxExists
  <2>5. Max(old) \in 1 .. n
    <3>1. \A i \in old : i \in 1 .. n
      BY DEF RsiKnown
    <3> QED
      BY <2>4, <3>1
  <2>6. ds[Max(old)] = cs[Max(old)]
    BY <1>1, <2>5
  <2> QED
    BY <1>4, <2>1, <2>2, <2>6 DEF LastRsi, ds, n
<1> QED
  BY <1>3, <1>4

\* The complete candles, one candle later.
LEMMA CompleteAppended ==
    ASSUME NEW cs, Numbering(cs), NEW c \in Candles, c.at = Len(cs) + 1, NEW a \in 1 .. Len(cs)
    PROVE  Cardinality(Complete(Append(cs, c), a, Len(cs) + 1)) =
              Cardinality(Complete(cs, a, Len(cs))) + (IF PullbackKnown(c) THEN 1 ELSE 0)
<1> DEFINE ds == Append(cs, c)
           n == Len(cs)
           old == Complete(cs, a, n)
           new == Complete(ds, a, n + 1)
<1>1. /\ n \in Nat /\ ds[n + 1] = c /\ \A i \in 1 .. n : ds[i] = cs[i]
  BY AppendedFacts
<1> HIDE DEF ds
<1>2. IsFiniteSet(old)
  <2>1. old \subseteq a + 1 .. n /\ IsFiniteSet(a + 1 .. n)
    BY <1>1, FS_Interval DEF Complete
  <2> QED
    BY <2>1, FS_Subset
<1>3. n + 1 \notin old
  BY <1>1 DEF Complete
<1>4. new = IF PullbackKnown(c) THEN old \cup {n + 1} ELSE old
  BY <1>1 DEF Complete
<1>5. Cardinality(old) \in Nat
  BY <1>2, FS_CardinalityType
<1> HIDE DEF old, new, n
<1>6. Cardinality(new) = Cardinality(old) + (IF PullbackKnown(c) THEN 1 ELSE 0)
  <2>1. CASE PullbackKnown(c)
    <3>1. new = old \cup {n + 1}
      BY <1>4, <2>1
    <3>2. Cardinality(new) = Cardinality(old) + 1
      BY <1>2, <1>3, <3>1, FS_AddElement
    <3> QED
      BY <2>1, <3>2
  <2>2. CASE ~PullbackKnown(c)
    BY <1>4, <1>5, <2>2
  <2> QED
    BY <2>1, <2>2
<1> QED
  BY <1>6 DEF old, new, ds, n

\* should_enter of a breakout keeps what is known of its setup, and an entry of it
\* is founded.
LEMMA BreakoutFollows ==
    ASSUME NEW cs, Numbering(cs), NEW c \in Candles, c.at = Len(cs) + 1,
           NEW k \in Strategies, k \in Breakouts, NEW s \in States, SetupHolds(k, s, cs),
           NEW d, d = ShouldEnter(k, s, c)
    PROVE  SetupHolds(k, d.state, Append(cs, c)) /\ Founded(k, d.signal, Append(cs, c))
<1> DEFINE ds == Append(cs, c)
           n == Len(cs)
<1>1. /\ n \in Nat /\ Len(ds) = n + 1 /\ ds[n + 1] = c /\ \A i \in 1 .. n : ds[i] = cs[i]
  BY AppendedFacts
<1>2. Stays(s, d) \/ Waits(s, d, c) \/ Enters(s, d, c) \/ Arms(s, d, c)
  BY ShouldEnterFacts
<1>3. k # "pullback"
  BY DEF Breakouts
<1> HIDE DEF ds
<1>4. CASE Stays(s, d)
  BY <1>4, SignalsDiffer DEF Stays, SetupHolds, Founded, ds
<1>5. CASE Waits(s, d, c)
  <2>1. BreakoutHolds(s, cs)
    BY <1>5 DEF Waits, SetupHolds
  <2>2. BreakoutHolds(d.state, ds)
    <3>1. d.state.armedAt \in 1 .. n /\ d.state.bars = n + 1 - d.state.armedAt
      BY <1>1, <1>5, <2>1 DEF Waits, BreakoutHolds, n
    <3>2. ds[d.state.armedAt].close > d.state.level /\ d.state.bars < RetestTimeout
      BY <1>1, <1>5, <2>1, <3>1 DEF Waits, BreakoutHolds
    <3>3. ASSUME NEW i \in d.state.armedAt .. n + 1 PROVE ds[i].regime # "TREND_DOWN"
      <4>1. CASE i = n + 1
        BY <1>1, <1>5, <4>1 DEF Waits
      <4>2. CASE i # n + 1
        BY <1>1, <1>5, <2>1, <3>1, <4>2 DEF Waits, BreakoutHolds, n
      <4> QED
        BY <4>1, <4>2
    <3> QED
      BY <1>1, <3>1, <3>2, <3>3 DEF BreakoutHolds
  <2> QED
    BY <1>3, <1>5, <2>2, SignalsDiffer DEF Waits, SetupHolds, Founded, ds
<1>6. CASE Enters(s, d, c)
  <2> DEFINE x == d.signal
  <2>1. BreakoutHolds(s, cs)
    BY <1>6 DEF Enters, SetupHolds
  <2>2. x.at = n + 1 /\ x.armedAt = s.armedAt /\ x.level = s.level
    BY <1>6 DEF Enters
  <2>3. s.armedAt \in 1 .. n /\ s.bars = n - s.armedAt /\ s.bars \in Int /\ RetestTimeout \in Int
    BY <1>1, <2>1, Limits DEF BreakoutHolds, n
  <2>4. x.at - x.armedAt \in 1 .. RetestTimeout - 1
    <3>1. s.bars + 1 < RetestTimeout
      BY <1>6 DEF Enters
    <3> HIDE DEF x
    <3> QED
      BY <1>1, <2>2, <2>3, <3>1
  <2>5. ds[x.armedAt].close > x.level
    BY <1>1, <2>1, <2>2, <2>3 DEF BreakoutHolds
  <2>6. ds[x.at].low <= x.level /\ x.level <= ds[x.at].close
    BY <1>1, <1>6, <2>2 DEF Enters
  <2>7. ASSUME NEW i \in x.armedAt .. x.at PROVE ds[i].regime # "TREND_DOWN"
    <3>1. CASE i = n + 1
      BY <1>1, <1>6, <3>1 DEF Enters
    <3>2. CASE i # n + 1
      BY <1>1, <2>1, <2>2, <2>3, <3>2 DEF BreakoutHolds, n
    <3> QED
      BY <3>1, <3>2
  <2>8. BreakoutFounded(x, ds)
    BY <2>4, <2>5, <2>6, <2>7 DEF BreakoutFounded
  <2> QED
    BY <1>3, <1>6, <2>8 DEF Enters, SetupHolds, Founded, ds
<1>7. CASE Arms(s, d, c)
  <2>1. BreakoutHolds(d.state, ds)
    <3>1. d.state.armedAt = n + 1 /\ d.state.bars = n + 1 - d.state.armedAt /\ d.state.bars = 0
      BY <1>1, <1>7 DEF Arms
    <3>2. \A i \in d.state.armedAt .. n + 1 : ds[i].regime # "TREND_DOWN"
      <4>1. d.state.armedAt .. n + 1 = {n + 1}
        BY <1>1, <3>1
      <4> QED
        BY <1>1, <1>7, <4>1 DEF Arms
    <3> QED
      BY <1>1, <1>7, <3>1, <3>2, Limits DEF BreakoutHolds, Arms
  <2> QED
    BY <1>3, <1>7, <2>1, SignalsDiffer DEF Arms, SetupHolds, Founded, ds
<1> QED
  BY <1>2, <1>4, <1>5, <1>6, <1>7

\* should_enter of the pullback keeps what is known of its setup, and an entry of
\* it is founded.
LEMMA PullbackFollows ==
    ASSUME NEW cs, Numbering(cs), NEW c \in Candles, c.at = Len(cs) + 1,
           NEW s \in States, SetupHolds("pullback", s, cs),
           NEW d, d = ShouldEnter("pullback", s, c)
    PROVE  SetupHolds("pullback", d.state, Append(cs, c)) /\ Founded("pullback", d.signal, Append(cs, c))
<1> DEFINE ds == Append(cs, c)
           n == Len(cs)
           p == "pullback"
<1>0. p \in Strategies /\ p \notin Breakouts
  BY DEF Strategies, Breakouts
<1>1. /\ n \in Nat /\ Len(ds) = n + 1 /\ ds[n + 1] = c /\ \A i \in 1 .. n : ds[i] = cs[i]
  BY AppendedFacts
<1>2. /\ d.state.rsi = IF c.rsi # Absent THEN c.rsi ELSE s.rsi
      /\ \/ Skips(s, d, c) \/ StaysIdle(s, d, c) \/ Drops(s, d, c)
         \/ Confirms(s, d, c) \/ Holds(s, d, c) \/ Begins(s, d, c)
  <2>1. d = PullbackEnter(s, c)
    BY DEF ShouldEnter
  <2> QED
    BY <2>1, PullbackEnterFacts
<1>3. PullbackKnown(c) => c.rsi # Absent
  BY DEF PullbackKnown, Known
<1> HIDE DEF ds
<1>4. CASE d.state.phase # "ARMED" /\ d.signal = NoSignal
  BY <1>4, SignalsDiffer DEF SetupHolds, Founded, ds
<1>5. CASE d.state.phase = "ARMED" /\ s.phase = "ARMED" /\ d.signal = NoSignal
  <2>1. PullbackHolds(s, cs)
    BY <1>5 DEF SetupHolds
  <2>2. /\ d.state.armedAt = s.armedAt
        /\ d.state.bars = s.bars + (IF PullbackKnown(c) THEN 1 ELSE 0)
        /\ d.state.bars < SetupTimeout
    <3>1. s.bars \in Nat /\ s.bars < SetupTimeout
      BY <2>1 DEF States, PullbackHolds
    <3>2. CASE Skips(s, d, c)
      BY <3>1, <3>2 DEF Skips, Setup
    <3>3. CASE Holds(s, d, c)
      BY <3>1, <3>3 DEF Holds
    <3> QED
      BY <1>2, <1>5, <3>2, <3>3 DEF StaysIdle, Drops, Confirms, Begins
  <2>3. s.armedAt \in 1 .. n
    BY <2>1 DEF PullbackHolds
  <2>4. Cardinality(Complete(ds, s.armedAt, n + 1)) =
           Cardinality(Complete(cs, s.armedAt, n)) + (IF PullbackKnown(c) THEN 1 ELSE 0)
    BY <2>3, CompleteAppended DEF ds
  <2>5. LastRsi(ds, n + 1, d.state.rsi)
    <3>1. LastRsi(cs, n, s.rsi)
      BY <2>1 DEF PullbackHolds
    <3>2. LastRsi(ds, n + 1, IF c.rsi # Absent THEN c.rsi ELSE s.rsi)
      BY <3>1, LastRsiAppended DEF ds
    <3> QED
      BY <1>2, <3>2
  <2>6. PullbackHolds(d.state, ds)
    <3>1. d.state.bars = Cardinality(Complete(ds, d.state.armedAt, Len(ds)))
      BY <1>1, <2>1, <2>2, <2>4 DEF PullbackHolds, n
    <3> QED
      BY <1>1, <2>2, <2>3, <2>5, <3>1 DEF PullbackHolds
  <2> QED
    BY <1>0, <1>5, <2>6, SignalsDiffer DEF SetupHolds, Founded, ds
<1>6. CASE Begins(s, d, c)
  <2>1. /\ d.state.armedAt = n + 1 /\ d.state.bars = 0 /\ d.signal = NoSignal
        /\ c.rsi # Absent /\ d.state.rsi = c.rsi
    BY <1>2, <1>3, <1>6 DEF Begins
  <2>2. LastRsi(ds, n + 1, c.rsi)
    <3>1. LastRsi(ds, n + 1, IF c.rsi # Absent THEN c.rsi ELSE s.rsi)
      BY <2>1, LastRsiAppended DEF ds
    <3> QED
      BY <2>1, <3>1
  <2>3. Complete(ds, n + 1, n + 1) = {}
    BY <1>1 DEF Complete
  <2>4. PullbackHolds(d.state, ds)
    <3>1. Cardinality(Complete(ds, d.state.armedAt, Len(ds))) = 0
      BY <1>1, <2>1, <2>3, FS_EmptySet
    <3>2. d.state.armedAt \in 1 .. Len(ds) /\ 0 < SetupTimeout
      BY <1>1, <2>1, Limits
    <3>3. LastRsi(ds, Len(ds), d.state.rsi)
      BY <1>1, <2>1, <2>2
    <3> QED
      BY <2>1, <3>1, <3>2, <3>3 DEF PullbackHolds
  <2> QED
    BY <1>0, <1>6, <2>1, <2>4, SignalsDiffer DEF SetupHolds, Founded, ds
<1>7. CASE Confirms(s, d, c)
  <2> DEFINE x == d.signal
  <2>1. PullbackHolds(s, cs)
    BY <1>7 DEF Confirms, SetupHolds
  <2>2. x.at = n + 1 /\ x.armedAt = s.armedAt /\ s.bars + 1 < SetupTimeout
    BY <1>7 DEF Confirms
  <2>3. s.armedAt \in 1 .. n
    BY <2>1 DEF PullbackHolds
  <2>4. Cardinality(Complete(ds, x.armedAt, x.at)) < SetupTimeout
    <3>1. Cardinality(Complete(ds, s.armedAt, n + 1)) =
             Cardinality(Complete(cs, s.armedAt, n)) + (IF PullbackKnown(c) THEN 1 ELSE 0)
      BY <2>3, CompleteAppended DEF ds
    <3>2. PullbackKnown(c) /\ s.bars = Cardinality(Complete(cs, s.armedAt, n))
      BY <1>7, <2>1 DEF Confirms, PullbackHolds
    <3> QED
      BY <2>2, <3>1, <3>2
  <2>5. ds[x.at].rsi > RsiEntry /\ s.rsi <= RsiEntry
    BY <1>1, <1>7, <2>2 DEF Confirms, Confirmed, Crossed
  <2>6. ds[Max(RsiKnown(ds, n))].rsi = s.rsi
    <3>1. RsiKnown(ds, n) = RsiKnown(cs, n)
      BY <1>1 DEF RsiKnown
    <3>2. RsiKnown(cs, n) # {} /\ s.rsi = cs[Max(RsiKnown(cs, n))].rsi
      BY <2>1 DEF PullbackHolds, LastRsi
    <3>3. RsiKnown(cs, n) \in SUBSET Int /\ IsFiniteSet(RsiKnown(cs, n))
      <4>1. RsiKnown(cs, n) \subseteq 1 .. n /\ IsFiniteSet(1 .. n)
        BY <1>1, FS_Interval DEF RsiKnown
      <4> QED
        BY <1>1, <4>1, FS_Subset
    <3>4. Max(RsiKnown(cs, n)) \in RsiKnown(cs, n)
      BY <3>2, <3>3, MaxExists
    <3>5. Max(RsiKnown(cs, n)) \in 1 .. n
      <4>1. \A i \in RsiKnown(cs, n) : i \in 1 .. n
        BY DEF RsiKnown
      <4> QED
        BY <3>4, <4>1
    <3> QED
      BY <1>1, <3>1, <3>2, <3>5
  <2>7. PullbackFounded(x, ds)
    <3>1. x.at - 1 = n
      BY <1>1, <2>2
    <3> QED
      BY <2>4, <2>5, <2>6, <3>1 DEF PullbackFounded
  <2> QED
    BY <1>0, <1>7, <2>7 DEF Confirms, SetupHolds, Founded, ds
<1>8. \/ d.state.phase # "ARMED" /\ d.signal = NoSignal
      \/ d.state.phase = "ARMED" /\ s.phase = "ARMED" /\ d.signal = NoSignal
      \/ Begins(s, d, c) \/ Confirms(s, d, c)
  BY <1>2 DEF Skips, StaysIdle, Drops, Holds, Setup
<1> QED
  BY <1>4, <1>5, <1>6, <1>7, <1>8

-----------------------------------------------------------------------------
(* The steps of the runs.                                                  *)

\* The candles are numbered and a run that has not ended is well formed.
Sound ==
    /\ Numbering(series)
    /\ ended \in BOOLEAN
    /\ book = [k \in Books |-> book[k]]
    /\ \A k \in Books : book[k] \in BookType /\ (~ended => Well(k, book[k]))

\* One candle, and the end.
Takes(c, refuse) ==
    /\ ~ended /\ ~ended' /\ c.at = Len(series) + 1
    /\ series' = Append(series, c)
    /\ book' = [k \in Books |-> Stepped(k, book[k], c, refuse)]
    /\ funnel' = IF "pullback" \in Books THEN FunnelStep(book["pullback"], c, refuse) ELSE funnel

\* A step takes one candle in every book, ends the run or changes nothing.
LEMMA Steps ==
    ASSUME Sound, [Next]_vars
    PROVE  \/ \E c \in Candles, refuse \in BOOLEAN : Takes(c, refuse)
           \/ End
           \/ UNCHANGED vars
<1>1. ASSUME NEW shape \in Shapes[Len(series) + 1], NEW refuse \in BOOLEAN,
             Len(series) < Len(Shapes), Candle(shape, refuse)
      PROVE  \E c \in Candles, r \in BOOLEAN : Takes(c, r)
  <2> DEFINE c == Numbered(shape, Len(series) + 1)
  <2>1. Len(series) \in Nat
    BY LenProperties DEF Sound, Numbering
  <2>2. shape \in CandleShape
    BY <1>1, <2>1, ResearchAssumption
  <2>3. c \in Candles /\ c.at = Len(series) + 1
    BY <2>1, <2>2, NumberedType
  <2>4. Takes(c, refuse)
    <3>1. c.at = Len(series) + 1
      BY <2>3
    <3> HIDE DEF c
    <3> QED
      BY <1>1, <3>1 DEF Candle, Takes, c
  <2> HIDE DEF c
  <2> QED
    BY <2>3, <2>4
<1>2. CASE UNCHANGED vars
  BY <1>2
<1>3. CASE Next
  BY <1>1, <1>3 DEF Next
<1> QED
  BY <1>2, <1>3

\* Every book belongs to a strategy.
LEMMA InBooks == Books \subseteq Strategies
  BY ResearchAssumption

\* A run after one candle, in the terms of OpenedCases and SteppedCases.
LEMMA BookTakes ==
    ASSUME Sound, NEW c \in Candles, NEW refuse \in BOOLEAN, Takes(c, refuse),
           NEW k \in Books
    PROVE  /\ k \in Strategies /\ Well(k, book[k])
           /\ book'[k] = Stepped(k, book[k], c, refuse)
  BY InBooks DEF Sound, Takes

\* A new book is flat, with a fresh strategy.
LEMMA FreshType == Fresh \in States /\ Fresh.phase = "IDLE" /\ NewBook \in BookType /\ ~Held(NewBook)
<1>1. Fresh \in States /\ Fresh.phase = "IDLE"
  <2>1. <<>> \in Seq(Nat) /\ <<>> \in Seq(Events)
    OBVIOUS
  <2> HIDE DEF Events
  <2> QED
    BY <2>1 DEF Fresh, States, Absent
<1>2. <<>> \in Seq(BuyFills \cup SellFills)
  OBVIOUS
<1>3. NewBook \in BookType
  <2> HIDE DEF Fresh, NoSignal, Flat
  <2> QED
    BY <1>1, <1>2 DEF NewBook, BookType
<1>4. ~Held(NewBook)
  BY DEF NewBook, Held, Flat
<1> QED
  BY <1>1, <1>3, <1>4

\* The end of the window sells what is held at the last close.
LEMMA LiquidatedFacts ==
    ASSUME Sound, NEW k \in Books, NEW x, x = Liquidated(book[k]), series # <<>>
    PROVE  /\ x \in BookType /\ x.pending = book[k].pending /\ x.state = book[k].state /\ ~Held(x)
           /\ ~Held(book[k]) => x = book[k]
           /\ Held(book[k]) =>
                 \E signal \in Sells, price \in Int :
                    /\ signal.reason = "END" /\ signal.at = Len(series)
                    /\ price = series[Len(series)].close
                    /\ SoldFor(book[k], x, signal, Len(series), price)
<1> DEFINE b == book[k]
           c == Last(series)
<1>1. b \in BookType
  BY DEF Sound
<1>2. c \in Candles /\ c.at = Len(series) /\ c = series[Len(series)] /\ Len(series) \in Nat
  <2>1. series \in Seq(Candles) /\ Len(series) \in 1 .. Len(series) /\ Len(series) \in Nat
    BY LenProperties, EmptySeq DEF Sound, Numbering
  <2> QED
    BY <2>1, ElementOfSeq DEF Last, Sound, Numbering
<1>3. CASE ~Held(b)
  BY <1>1, <1>3 DEF Liquidated
<1>4. CASE Held(b)
  <2> DEFINE signal == Sell(c, "END")
  <2>1. signal \in Sells /\ signal.reason = "END" /\ signal.at = Len(series)
    <3>1. "END" \in Reasons
      BY DEF Reasons, EngineReasons
    <3> HIDE DEF c
    <3> QED
      BY <1>2, <3>1, SellFacts
  <2>2. c.close \in Int
    BY <1>2 DEF Candles
  <2>3. x = Closed(b, signal, Len(series), c.close)
    BY <1>4 DEF Liquidated
  <2> HIDE DEF b, signal, c
  <2>4. /\ x \in BookType /\ SoldFor(b, x, signal, Len(series), c.close)
        /\ x.pending = b.pending /\ x.state = b.state
    BY <1>1, <1>2, <1>4, <2>1, <2>2, <2>3, ClosedFacts
  <2>5. ~Held(x)
    BY <2>4, HeldFacts DEF SoldFor
  <2> QED
    BY <1>2, <1>4, <2>1, <2>2, <2>4, <2>5 DEF b
<1> QED
  BY <1>3, <1>4

\* A run begins sound.
LEMMA SoundInit == Init => Sound
<1> SUFFICES ASSUME Init PROVE Sound
  OBVIOUS
<1>1. Numbering(series)
  BY DEF Init, Numbering
<1>2. ASSUME NEW k \in Books PROVE book[k] \in BookType /\ Well(k, book[k])
  <2>1. book[k] = NewBook
    BY DEF Init
  <2>2. NewBook.pending = NoSignal /\ NewBook.state = Fresh
    BY DEF NewBook
  <2> HIDE DEF NewBook
  <2> QED
    BY <2>1, <2>2, FreshType, PendingKinds DEF Well
<1> QED
  BY <1>1, <1>2 DEF Init, Sound

\* Every step of the research backtests keeps Sound.
LEMMA SoundKept ==
    ASSUME Sound, [Next]_vars
    PROVE  Sound'
<1>1. ASSUME NEW c \in Candles, NEW refuse \in BOOLEAN, Takes(c, refuse) PROVE Sound'
  <2>1. Numbering(series')
    BY <1>1, AppendedFacts DEF Sound, Takes
  <2>2. ASSUME NEW k \in Books PROVE book'[k] \in BookType /\ Well(k, book'[k])
    <3>1. /\ k \in Strategies /\ Well(k, book[k])
          /\ book'[k] = Stepped(k, book[k], c, refuse)
      BY <1>1, BookTakes
    <3>2. Well(k, book'[k])
      BY <3>1, SteppedCases
    <3> QED
      BY <3>2 DEF Well
  <2>3. book' = [k \in Books |-> book'[k]] /\ ended' = FALSE
    BY <1>1 DEF Takes, Sound
  <2> QED
    BY <2>1, <2>2, <2>3 DEF Sound
<1>2. CASE End
  <2>1. ASSUME NEW k \in Books PROVE book'[k] \in BookType
    <3>1. book'[k] = Liquidated(book[k]) /\ series # <<>>
      BY <1>2 DEF End
    <3> QED
      BY <3>1, LiquidatedFacts
  <2>2. book' = [k \in Books |-> book'[k]] /\ ended' = TRUE /\ series' = series
    BY <1>2 DEF End
  <2> QED
    BY <2>1, <2>2 DEF Sound
<1>3. CASE UNCHANGED vars
  BY <1>3 DEF vars, Sound
<1> QED
  BY <1>1, <1>2, <1>3, Steps

\* Every run knows what its setup is made of, and every order was founded on one.
SetupsKnown ==
    \A k \in Books :
        /\ SetupHolds(k, book[k].state, series)
        /\ Founded(k, book[k].pending, series)

\* The invariants imply that entries follow setups.
LEMMA FoundedFacts ==
    ASSUME Sound, SetupsKnown
    PROVE  EntriesFollowSetups
<1> SUFFICES ASSUME NEW k \in Books, book[k].pending.action = "open_long",
                    book[k].pending.dca = 0
             PROVE  /\ k \in Breakouts => BreakoutFounded(book[k].pending, series)
                    /\ k = "pullback" => PullbackFounded(book[k].pending, series)
  BY DEF EntriesFollowSetups, BreakoutFounded, PullbackFounded, Complete, RsiKnown
<1> QED
  BY DEF SetupsKnown, Founded

\* The setup of one run over one candle.
LEMMA SetupStepped ==
    ASSUME NEW cs, Numbering(cs), NEW c \in Candles, c.at = Len(cs) + 1,
           NEW k \in Strategies, NEW b, Well(k, b), SetupHolds(k, b.state, cs),
           NEW refuse \in BOOLEAN, NEW x, x = Stepped(k, b, c, refuse)
    PROVE  SetupHolds(k, x.state, Append(cs, c)) /\ Founded(k, x.pending, Append(cs, c))
<1> DEFINE o == Opened(k, b, c, refuse)
<1>1. /\ o \in BookType /\ o.pending = NoSignal
      /\ o.state.phase = "ARMED" => ~Held(o)
      /\ Setup(o.state) = Setup(b.state) /\ o.state.rsi = b.state.rsi
  BY OpenedCases
<1>2. Well(k, x) /\ (EndsByLevel(o, x, c) \/ EndsHeld(k, o, x, c) \/ EndsFlat(k, o, x, c))
  BY SteppedCases
<1> HIDE DEF o
<1>3. SetupHolds(k, o.state, cs) /\ o.state \in States
  BY <1>1 DEF SetupHolds, BreakoutHolds, PullbackHolds, Setup, BookType
<1>4. CASE EndsByLevel(o, x, c)
  <2>1. x.pending.action # "open_long" /\ x.state.phase # "ARMED"
    BY <1>1, <1>4, SignalsDiffer DEF EndsByLevel
  <2> QED
    BY <2>1 DEF SetupHolds, Founded
<1>5. CASE EndsHeld(k, o, x, c)
  <2>1. x.state.phase # "ARMED" /\ Held(x)
    BY <1>2, <1>5 DEF EndsHeld, Well
  <2>2. x.pending.action = "open_long" => x.pending.dca > 0
    BY <1>2, <2>1, PendingKinds DEF Well
  <2>3. ~(x.pending.action = "open_long" /\ x.pending.dca = 0)
    BY <2>2
  <2> QED
    BY <2>1, <2>3 DEF SetupHolds, Founded
<1>6. CASE EndsFlat(k, o, x, c)
  <2> DEFINE d == ShouldEnter(k, o.state, c)
  <2>1. x.state = d.state /\ x.pending = d.signal
    BY <1>6 DEF EndsFlat
  <2> HIDE DEF d
  <2>2. CASE k \in Breakouts
    <3>1. ASSUME NEW s \in States, SetupHolds(k, s, cs), NEW e, e = ShouldEnter(k, s, c)
          PROVE  SetupHolds(k, e.state, Append(cs, c)) /\ Founded(k, e.signal, Append(cs, c))
      BY <2>2, <3>1, BreakoutFollows
    <3> QED
      BY <1>3, <2>1, <3>1 DEF d
  <2>3. CASE k = "pullback"
    <3>1. ASSUME NEW s \in States, SetupHolds("pullback", s, cs),
                 NEW e, e = ShouldEnter("pullback", s, c)
          PROVE  /\ SetupHolds("pullback", e.state, Append(cs, c))
                 /\ Founded("pullback", e.signal, Append(cs, c))
      BY <3>1, PullbackFollows
    <3> QED
      BY <1>3, <2>1, <2>3, <3>1 DEF d
  <2>4. CASE k \notin Breakouts /\ k # "pullback"
    BY <2>4 DEF SetupHolds, Founded
  <2> QED
    BY <2>2, <2>3, <2>4
<1> QED
  BY <1>2, <1>4, <1>5, <1>6

\* Every step keeps what is known of the setups and of the pending entries.
LEMMA SetupsKept ==
    ASSUME Sound, SetupsKnown, [Next]_vars
    PROVE  SetupsKnown'
<1>1. ASSUME NEW c \in Candles, NEW refuse \in BOOLEAN, Takes(c, refuse) PROVE SetupsKnown'
  <2>1. ASSUME NEW k \in Books
        PROVE  SetupHolds(k, book'[k].state, series') /\ Founded(k, book'[k].pending, series')
    <3>1. /\ k \in Strategies /\ Well(k, book[k])
          /\ book'[k] = Stepped(k, book[k], c, refuse)
      BY <1>1, BookTakes
    <3>2. SetupHolds(k, book[k].state, series) /\ Numbering(series)
      BY DEF SetupsKnown, Sound
    <3>3. series' = Append(series, c) /\ c.at = Len(series) + 1
      BY <1>1 DEF Takes
    <3>4. ASSUME NEW b, Well(k, b), SetupHolds(k, b.state, series),
                 NEW x, x = Stepped(k, b, c, refuse)
          PROVE  SetupHolds(k, x.state, Append(series, c)) /\ Founded(k, x.pending, Append(series, c))
      BY <3>1, <3>2, <3>3, <3>4, SetupStepped
    <3> QED
      BY <3>1, <3>2, <3>3, <3>4
  <2> QED
    BY <2>1 DEF SetupsKnown
<1>2. CASE End
  <2>1. ASSUME NEW k \in Books
        PROVE  book'[k].state = book[k].state /\ book'[k].pending = book[k].pending
    <3>1. book'[k] = Liquidated(book[k]) /\ series # <<>>
      BY <1>2 DEF End
    <3> QED
      BY <3>1, LiquidatedFacts
  <2>2. series' = series
    BY <1>2 DEF End
  <2> QED
    BY <2>1, <2>2 DEF SetupsKnown
<1>3. CASE UNCHANGED vars
  BY <1>3 DEF vars, SetupsKnown
<1> QED
  BY <1>1, <1>2, <1>3, Steps

\* A run begins without setups.
LEMMA SetupsInit == Init => SetupsKnown
<1> SUFFICES ASSUME Init PROVE SetupsKnown
  OBVIOUS
<1>1. ASSUME NEW k \in Books
      PROVE  book[k].state.phase = "IDLE" /\ book[k].pending = NoSignal
  BY FreshType DEF Init, NewBook
<1> QED
  BY <1>1, SignalsDiffer DEF SetupsKnown, SetupHolds, Founded

\* In every run of the research backtests the candles are numbered, a position is
\* sold only if there is one, and an order that finds the book flat is an entry.
THEOREM RunsAreSound == Spec => []Sound
<1>1. Sound /\ [Next]_vars => Sound'
  BY SoundKept
<1> QED
  BY <1>1, SoundInit, PTL DEF Spec

\* Every entry of a breakout was armed by a close above its level, younger than
\* the timeout, never in doubt since and tested on its candle; every entry of the
\* pullback is a cross from the last RSI there was.
THEOREM EntriesAreFounded == Spec => []EntriesFollowSetups
<1>1. Sound /\ SetupsKnown /\ [Next]_vars => SetupsKnown'
  BY SetupsKept
<1>2. Sound /\ SetupsKnown => EntriesFollowSetups
  BY FoundedFacts
<1> QED
  BY <1>1, <1>2, SetupsInit, RunsAreSound, PTL DEF Spec

-----------------------------------------------------------------------------
(***************************************************************************)
(* The folds of the reports.  FoldLeft is a recursive function on the      *)
(* subsets of the places of a sequence: there is one, two of them agree on *)
(* the prefixes, and so a fold takes one element at a time.                *)
(***************************************************************************)

\* A set of numbers with 0 and every successor has all numbers: the least
\* number outside of it would have a predecessor.
LEMMA SetInduction ==
    ASSUME NEW T \in SUBSET Nat, 0 \in T, \A n \in T : n + 1 \in T
    PROVE  T = Nat
<1> SUFFICES ASSUME Nat \ T # {} PROVE FALSE
  OBVIOUS
<1>1. PICK m \in Nat \ T : \A k \in Nat \ T : ~(<<k, m>> \in OpToRel(<, Nat))
  BY NatLessThanWellFounded, WFMin, Zenon
<1>2. m - 1 \in Nat /\ m - 1 \in T => m \in T
  OBVIOUS
<1>3. m - 1 \in Nat
  OBVIOUS
<1>4. <<m - 1, m>> \in OpToRel(<, Nat)
  BY <1>3 DEF OpToRel
<1> QED
  BY <1>1, <1>2, <1>3, <1>4

\* The fold takes the last place of a prefix first.
LEMMA MaxOfPrefix ==
    ASSUME NEW i \in Nat
    PROVE  Max(1 .. i + 1) = i + 1 /\ (1 .. i + 1) \ {i + 1} = 1 .. i /\ 1 .. i + 1 # {}
<1>1. 1 .. i + 1 \in SUBSET Int /\ i + 1 \in 1 .. i + 1 /\ \A x \in 1 .. i + 1 : x <= i + 1
  OBVIOUS
<1>2. Max(1 .. i + 1) = i + 1
  BY <1>1, MaxIs
<1> QED
  BY <1>1, <1>2

\* Two functions that are continued in the same way agree.
LEMMA PrefixesAgree ==
    ASSUME NEW n \in Nat, NEW g, NEW h, g[{}] = h[{}],
           \A i \in 0 .. n - 1 : g[1 .. i] = h[1 .. i] => g[1 .. i + 1] = h[1 .. i + 1]
    PROVE  g[1 .. n] = h[1 .. n]
<1> DEFINE T == {i \in Nat : i <= n => g[1 .. i] = h[1 .. i]}
<1>1. 0 \in T
  <2>1. 1 .. 0 = {}
    OBVIOUS
  <2> QED
    BY <2>1
<1>2. ASSUME NEW i \in T PROVE i + 1 \in T
  <2>1. CASE i + 1 <= n
    <3>1. i \in 0 .. n - 1 /\ g[1 .. i] = h[1 .. i]
      BY <1>2, <2>1
    <3> QED
      BY <3>1
  <2>2. CASE ~(i + 1 <= n)
    BY <2>2
  <2> QED
    BY <2>1, <2>2
<1>3. T = Nat
  <2>1. T \in SUBSET Nat
    OBVIOUS
  <2> HIDE DEF T
  <2> QED
    BY <1>1, <1>2, <2>1, SetInduction
<1>4. n \in T
  BY <1>3
<1> QED
  BY <1>4

\* Replayed.
Start == [open |-> NoEntry, trades |-> <<>>, ok |-> TRUE]

ReplayAt(g, cs, s) == IF s = {} THEN Start ELSE Replay(g[s \ {Max(s)}], cs[Max(s)])
Replays(g, cs) == g = [s \in SUBSET DOMAIN cs |-> ReplayAt(g, cs, s)]

\* The replay of the fills is the fold that CHOOSE finds.
LEMMA ReplaysChosen ==
    ASSUME NEW cs
    PROVE  Replayed(cs) = (CHOOSE g : Replays(g, cs))[DOMAIN cs]
  BY DEF Replayed, FoldLeft, MapThenFoldSet, ReplayAt, Replays, Start

\* A fold over the fills extends to one more fill.
LEMMA ReplaysGrows ==
    ASSUME NEW n \in Nat, NEW cs, DOMAIN cs = 1 .. n + 1, NEW ds, DOMAIN ds = 1 .. n,
           \A i \in 1 .. n : ds[i] = cs[i], NEW g, Replays(g, ds)
    PROVE  \E h : Replays(h, cs)
<1> DEFINE h == [s \in SUBSET (1 .. n + 1) |->
                    IF n + 1 \in s THEN Replay(g[s \ {n + 1}], cs[n + 1]) ELSE g[s]]
<1>1. \A s \in SUBSET (1 .. n) : g[s] = ReplayAt(g, ds, s)
  BY DEF Replays
<1>2. ASSUME NEW s \in SUBSET (1 .. n + 1) PROVE h[s] = ReplayAt(h, cs, s)
  <2>1. CASE n + 1 \in s
    <3>1. Max(s) = n + 1
      <4>1. s \in SUBSET Int /\ \A x \in s : x <= n + 1
        OBVIOUS
      <4> QED
        BY <2>1, <4>1, MaxIs
    <3>2. s \ {n + 1} \in SUBSET (1 .. n + 1) /\ n + 1 \notin s \ {n + 1}
      OBVIOUS
    <3>3. h[s \ {n + 1}] = g[s \ {n + 1}]
      BY <3>2
    <3>4. h[s] = Replay(g[s \ {n + 1}], cs[n + 1])
      BY <2>1
    <3> HIDE DEF h
    <3> QED
      BY <2>1, <3>1, <3>3, <3>4 DEF ReplayAt
  <2>2. CASE n + 1 \notin s
    <3>1. s \in SUBSET (1 .. n)
      BY <2>2
    <3>2. h[s] = g[s]
      BY <2>2
    <3>3. CASE s = {}
      BY <1>1, <3>1, <3>2, <3>3 DEF ReplayAt
    <3>4. CASE s # {}
      <4>1. Max(s) \in s
        <5>0. IsFiniteSet(1 .. n) /\ s \in SUBSET (1 .. n)
          BY <3>1, FS_Interval
        <5>1. IsFiniteSet(s)
          BY <5>0, FS_Subset
        <5>2. s \in SUBSET Int
          BY <5>0
        <5> QED
          BY <3>4, <5>1, <5>2, MaxExists
      <4>2. Max(s) \in 1 .. n /\ s \ {Max(s)} \in SUBSET (1 .. n + 1) /\ n + 1 \notin s \ {Max(s)}
        BY <2>2, <3>1, <4>1
      <4>3. h[s \ {Max(s)}] = g[s \ {Max(s)}] /\ cs[Max(s)] = ds[Max(s)]
        BY <4>2
      <4> HIDE DEF h
      <4> QED
        BY <1>1, <3>1, <3>2, <3>4, <4>3 DEF ReplayAt
    <3> QED
      BY <3>3, <3>4
  <2> QED
    BY <2>1, <2>2
<1>3. h = [s \in SUBSET DOMAIN cs |-> ReplayAt(h, cs, s)]
  BY <1>2
<1> HIDE DEF h
<1> QED
  BY <1>3 DEF Replays

\* There is a fold over every sequence of fills.
LEMMA ReplaysExist ==
    ASSUME NEW n \in Nat, NEW cs, DOMAIN cs = 1 .. n
    PROVE  \E g : Replays(g, cs)
<1> DEFINE part(i) == [j \in 1 .. i |-> cs[j]]
           T == {i \in Nat : i <= n => \E g : Replays(g, part(i))}
<1>1. 0 \in T
  <2> DEFINE g == [s \in SUBSET (1 .. 0) |-> Start]
  <2>1. SUBSET (1 .. 0) = {{}}
    OBVIOUS
  <2>2. \A s \in SUBSET (1 .. 0) : g[s] = ReplayAt(g, part(0), s)
    BY <2>1 DEF ReplayAt
  <2>3. g = [s \in SUBSET DOMAIN part(0) |-> ReplayAt(g, part(0), s)]
    BY <2>2
  <2> HIDE DEF g
  <2> QED
    BY <2>3 DEF Replays
<1>2. ASSUME NEW i \in T PROVE i + 1 \in T
  <2>1. CASE i + 1 <= n
    <3>2. /\ DOMAIN part(i + 1) = 1 .. i + 1 /\ DOMAIN part(i) = 1 .. i
          /\ \A j \in 1 .. i : part(i)[j] = part(i + 1)[j]
      OBVIOUS
    <3> HIDE DEF part
    <3>0. i \in Nat /\ i <= n
      BY <2>1
    <3>1. PICK g : Replays(g, part(i))
      BY <1>2, <3>0
    <3>3. \E h : Replays(h, part(i + 1))
      BY <3>1, <3>2, ReplaysGrows
    <3> QED
      BY <3>3
  <2>2. CASE ~(i + 1 <= n)
    BY <2>2
  <2> QED
    BY <2>1, <2>2
<1>3. T = Nat
  <2>1. T \in SUBSET Nat
    OBVIOUS
  <2> HIDE DEF T
  <2> QED
    BY <1>1, <1>2, <2>1, SetInduction
<1>4. \E g : Replays(g, part(n))
  BY <1>3
<1>5. \A g : Replays(g, part(n)) => Replays(g, cs)
  <2> TAKE g
  <2>1. DOMAIN part(n) = DOMAIN cs /\ \A j \in 1 .. n : part(n)[j] = cs[j]
    OBVIOUS
  <2>2. ASSUME NEW s \in SUBSET (1 .. n) PROVE ReplayAt(g, part(n), s) = ReplayAt(g, cs, s)
    <3>1. CASE s = {}
      BY <3>1 DEF ReplayAt
    <3>2. CASE s # {}
      <4>1. Max(s) \in s
        <5>0. IsFiniteSet(1 .. n) /\ s \in SUBSET (1 .. n)
          BY FS_Interval
        <5>1. IsFiniteSet(s)
          BY <5>0, FS_Subset
        <5>2. s \in SUBSET Int
          BY <5>0
        <5> QED
          BY <3>2, <5>1, <5>2, MaxExists
      <4>2. part(n)[Max(s)] = cs[Max(s)]
        BY <4>1
      <4> HIDE DEF part
      <4> QED
        BY <3>2, <4>2 DEF ReplayAt
    <3> QED
      BY <3>1, <3>2
  <2> HIDE DEF part
  <2> QED
    BY <2>1, <2>2 DEF Replays
<1> QED
  BY <1>4, <1>5

\* The prefixes of a fold.
LEMMA ReplaysPrefixes ==
    ASSUME NEW n \in Nat, NEW cs, DOMAIN cs = 1 .. n, NEW g, Replays(g, cs)
    PROVE  /\ g[{}] = Start
           /\ \A i \in 0 .. n - 1 : g[1 .. i + 1] = Replay(g[1 .. i], cs[i + 1])
<1>1. \A s \in SUBSET (1 .. n) : g[s] = ReplayAt(g, cs, s)
  BY DEF Replays
<1>2. ASSUME NEW i \in 0 .. n - 1 PROVE g[1 .. i + 1] = Replay(g[1 .. i], cs[i + 1])
  <2>1. Max(1 .. i + 1) = i + 1 /\ (1 .. i + 1) \ {i + 1} = 1 .. i /\ 1 .. i + 1 # {}
    <3>1. i \in Nat
      OBVIOUS
    <3> QED
      BY <3>1, MaxOfPrefix
  <2>2. 1 .. i + 1 \in SUBSET (1 .. n)
    OBVIOUS
  <2> QED
    BY <1>1, <2>1, <2>2 DEF ReplayAt
<1> QED
  BY <1>1, <1>2 DEF ReplayAt

\* The replay of the fills, one fill at a time.
LEMMA ReplayedAppend ==
    ASSUME NEW X, NEW cs \in Seq(X), NEW x \in X
    PROVE  /\ Replayed(<<>>) = Start
           /\ Replayed(Append(cs, x)) = Replay(Replayed(cs), x)
<1> DEFINE n == Len(cs)
           ds == Append(cs, x)
           g == CHOOSE f : Replays(f, cs)
           h == CHOOSE f : Replays(f, ds)
<1>1. /\ n \in Nat /\ DOMAIN cs = 1 .. n /\ DOMAIN ds = 1 .. n + 1 /\ ds[n + 1] = x
      /\ \A i \in 1 .. n : ds[i] = cs[i]
  BY AppendProperties, LenProperties
<1> HIDE DEF n, ds
<1>2. Replays(g, cs) /\ Replays(h, ds)
  BY <1>1, ReplaysExist
<1>3. Replayed(cs) = g[1 .. n] /\ Replayed(ds) = h[1 .. n + 1]
  BY <1>1, ReplaysChosen
<1> HIDE DEF g, h
<1>4. g[{}] = Start /\ \A i \in 0 .. n - 1 : g[1 .. i + 1] = Replay(g[1 .. i], cs[i + 1])
  BY <1>1, <1>2, ReplaysPrefixes
<1>5. h[{}] = Start /\ \A i \in 0 .. n : h[1 .. i + 1] = Replay(h[1 .. i], ds[i + 1])
  <2>1. n + 1 \in Nat /\ n + 1 - 1 = n
    BY <1>1
  <2> QED
    BY <1>1, <1>2, <2>1, ReplaysPrefixes
<1>6. g[1 .. n] = h[1 .. n]
  <2>1. \A i \in 0 .. n - 1 : i \in 0 .. n /\ i + 1 \in 1 .. n /\ cs[i + 1] = ds[i + 1]
    BY <1>1
  <2>2. \A i \in 0 .. n - 1 : g[1 .. i] = h[1 .. i] => g[1 .. i + 1] = h[1 .. i + 1]
    BY <1>4, <1>5, <2>1
  <2>3. g[{}] = h[{}]
    BY <1>4, <1>5
  <2> QED
    BY <1>1, <2>2, <2>3, PrefixesAgree
<1>7. h[1 .. n + 1] = Replay(h[1 .. n], x)
  BY <1>1, <1>5
<1>8. Replayed(<<>>) = Start
  <2> DEFINE e == CHOOSE f : Replays(f, <<>>)
  <2>1. DOMAIN <<>> = 1 .. 0 /\ 1 .. 0 = {}
    OBVIOUS
  <2>2. Replays(e, <<>>)
    BY <2>1, ReplaysExist
  <2>3. Replayed(<<>>) = e[1 .. 0]
    BY <2>1, ReplaysChosen
  <2> HIDE DEF e
  <2>4. e[{}] = Start
    BY <2>1, <2>2, ReplaysPrefixes
  <2> QED
    BY <2>1, <2>3, <2>4
<1> QED
  BY <1>3, <1>6, <1>7, <1>8 DEF ds

\* TotalPnl.
PnlAt(g, cs, s) == IF s = {} THEN 0 ELSE g[s \ {Max(s)}] + cs[Max(s)].pnl
Pnls(g, cs) == g = [s \in SUBSET DOMAIN cs |-> PnlAt(g, cs, s)]

\* The sum of the PnL is the fold that CHOOSE finds.
LEMMA PnlsChosen ==
    ASSUME NEW cs
    PROVE  TotalPnl(cs) = (CHOOSE g : Pnls(g, cs))[DOMAIN cs]
  BY DEF TotalPnl, FoldLeft, MapThenFoldSet, PnlAt, Pnls

\* A sum of PnL extends to one more trade.
LEMMA PnlsGrows ==
    ASSUME NEW n \in Nat, NEW cs, DOMAIN cs = 1 .. n + 1, NEW ds, DOMAIN ds = 1 .. n,
           \A i \in 1 .. n : ds[i] = cs[i], NEW g, Pnls(g, ds)
    PROVE  \E h : Pnls(h, cs)
<1> DEFINE h == [s \in SUBSET (1 .. n + 1) |->
                    IF n + 1 \in s THEN g[s \ {n + 1}] + cs[n + 1].pnl ELSE g[s]]
<1>1. \A s \in SUBSET (1 .. n) : g[s] = PnlAt(g, ds, s)
  BY DEF Pnls
<1>2. ASSUME NEW s \in SUBSET (1 .. n + 1) PROVE h[s] = PnlAt(h, cs, s)
  <2>1. CASE n + 1 \in s
    <3>1. Max(s) = n + 1
      <4>1. s \in SUBSET Int /\ \A x \in s : x <= n + 1
        OBVIOUS
      <4> QED
        BY <2>1, <4>1, MaxIs
    <3>2. s \ {n + 1} \in SUBSET (1 .. n + 1) /\ n + 1 \notin s \ {n + 1}
      OBVIOUS
    <3>3. h[s \ {n + 1}] = g[s \ {n + 1}]
      BY <3>2
    <3>4. h[s] = g[s \ {n + 1}] + cs[n + 1].pnl
      BY <2>1
    <3> HIDE DEF h
    <3> QED
      BY <2>1, <3>1, <3>3, <3>4 DEF PnlAt
  <2>2. CASE n + 1 \notin s
    <3>1. s \in SUBSET (1 .. n)
      BY <2>2
    <3>2. h[s] = g[s]
      BY <2>2
    <3>3. CASE s = {}
      BY <1>1, <3>1, <3>2, <3>3 DEF PnlAt
    <3>4. CASE s # {}
      <4>1. Max(s) \in s
        <5>0. IsFiniteSet(1 .. n) /\ s \in SUBSET (1 .. n)
          BY <3>1, FS_Interval
        <5>1. IsFiniteSet(s)
          BY <5>0, FS_Subset
        <5>2. s \in SUBSET Int
          BY <5>0
        <5> QED
          BY <3>4, <5>1, <5>2, MaxExists
      <4>2. Max(s) \in 1 .. n /\ s \ {Max(s)} \in SUBSET (1 .. n + 1) /\ n + 1 \notin s \ {Max(s)}
        BY <2>2, <3>1, <4>1
      <4>3. h[s \ {Max(s)}] = g[s \ {Max(s)}] /\ cs[Max(s)] = ds[Max(s)]
        BY <4>2
      <4> HIDE DEF h
      <4> QED
        BY <1>1, <3>1, <3>2, <3>4, <4>3 DEF PnlAt
    <3> QED
      BY <3>3, <3>4
  <2> QED
    BY <2>1, <2>2
<1>3. h = [s \in SUBSET DOMAIN cs |-> PnlAt(h, cs, s)]
  BY <1>2
<1> HIDE DEF h
<1> QED
  BY <1>3 DEF Pnls

\* There is a sum for every sequence of trades.
LEMMA PnlsExist ==
    ASSUME NEW n \in Nat, NEW cs, DOMAIN cs = 1 .. n
    PROVE  \E g : Pnls(g, cs)
<1> DEFINE part(i) == [j \in 1 .. i |-> cs[j]]
           T == {i \in Nat : i <= n => \E g : Pnls(g, part(i))}
<1>1. 0 \in T
  <2> DEFINE g == [s \in SUBSET (1 .. 0) |-> 0]
  <2>1. SUBSET (1 .. 0) = {{}}
    OBVIOUS
  <2>2. \A s \in SUBSET (1 .. 0) : g[s] = PnlAt(g, part(0), s)
    BY <2>1 DEF PnlAt
  <2>3. g = [s \in SUBSET DOMAIN part(0) |-> PnlAt(g, part(0), s)]
    BY <2>2
  <2> HIDE DEF g
  <2> QED
    BY <2>3 DEF Pnls
<1>2. ASSUME NEW i \in T PROVE i + 1 \in T
  <2>1. CASE i + 1 <= n
    <3>2. /\ DOMAIN part(i + 1) = 1 .. i + 1 /\ DOMAIN part(i) = 1 .. i
          /\ \A j \in 1 .. i : part(i)[j] = part(i + 1)[j]
      OBVIOUS
    <3> HIDE DEF part
    <3>0. i \in Nat /\ i <= n
      BY <2>1
    <3>1. PICK g : Pnls(g, part(i))
      BY <1>2, <3>0
    <3>3. \E h : Pnls(h, part(i + 1))
      BY <3>1, <3>2, PnlsGrows
    <3> QED
      BY <3>3
  <2>2. CASE ~(i + 1 <= n)
    BY <2>2
  <2> QED
    BY <2>1, <2>2
<1>3. T = Nat
  <2>1. T \in SUBSET Nat
    OBVIOUS
  <2> HIDE DEF T
  <2> QED
    BY <1>1, <1>2, <2>1, SetInduction
<1>4. \E g : Pnls(g, part(n))
  BY <1>3
<1>5. \A g : Pnls(g, part(n)) => Pnls(g, cs)
  <2> TAKE g
  <2>1. DOMAIN part(n) = DOMAIN cs /\ \A j \in 1 .. n : part(n)[j] = cs[j]
    OBVIOUS
  <2>2. ASSUME NEW s \in SUBSET (1 .. n) PROVE PnlAt(g, part(n), s) = PnlAt(g, cs, s)
    <3>1. CASE s = {}
      BY <3>1 DEF PnlAt
    <3>2. CASE s # {}
      <4>1. Max(s) \in s
        <5>0. IsFiniteSet(1 .. n) /\ s \in SUBSET (1 .. n)
          BY FS_Interval
        <5>1. IsFiniteSet(s)
          BY <5>0, FS_Subset
        <5>2. s \in SUBSET Int
          BY <5>0
        <5> QED
          BY <3>2, <5>1, <5>2, MaxExists
      <4>2. part(n)[Max(s)] = cs[Max(s)]
        BY <4>1
      <4> HIDE DEF part
      <4> QED
        BY <3>2, <4>2 DEF PnlAt
    <3> QED
      BY <3>1, <3>2
  <2> HIDE DEF part
  <2> QED
    BY <2>1, <2>2 DEF Pnls
<1> QED
  BY <1>4, <1>5

\* The prefixes of a fold.
LEMMA PnlsPrefixes ==
    ASSUME NEW n \in Nat, NEW cs, DOMAIN cs = 1 .. n, NEW g, Pnls(g, cs)
    PROVE  /\ g[{}] = 0
           /\ \A i \in 0 .. n - 1 : g[1 .. i + 1] = g[1 .. i] + cs[i + 1].pnl
<1>1. \A s \in SUBSET (1 .. n) : g[s] = PnlAt(g, cs, s)
  BY DEF Pnls
<1>2. ASSUME NEW i \in 0 .. n - 1 PROVE g[1 .. i + 1] = g[1 .. i] + cs[i + 1].pnl
  <2>1. Max(1 .. i + 1) = i + 1 /\ (1 .. i + 1) \ {i + 1} = 1 .. i /\ 1 .. i + 1 # {}
    <3>1. i \in Nat
      OBVIOUS
    <3> QED
      BY <3>1, MaxOfPrefix
  <2>2. 1 .. i + 1 \in SUBSET (1 .. n)
    OBVIOUS
  <2> QED
    BY <1>1, <2>1, <2>2 DEF PnlAt
<1> QED
  BY <1>1, <1>2 DEF PnlAt

\* The sum of the PnL, one trade at a time.
LEMMA TotalPnlAppend ==
    ASSUME NEW X, NEW cs \in Seq(X), NEW x \in X
    PROVE  /\ TotalPnl(<<>>) = 0
           /\ TotalPnl(Append(cs, x)) = TotalPnl(cs) + x.pnl
<1> DEFINE n == Len(cs)
           ds == Append(cs, x)
           g == CHOOSE f : Pnls(f, cs)
           h == CHOOSE f : Pnls(f, ds)
<1>1. /\ n \in Nat /\ DOMAIN cs = 1 .. n /\ DOMAIN ds = 1 .. n + 1 /\ ds[n + 1] = x
      /\ \A i \in 1 .. n : ds[i] = cs[i]
  BY AppendProperties, LenProperties
<1> HIDE DEF n, ds
<1>2. Pnls(g, cs) /\ Pnls(h, ds)
  BY <1>1, PnlsExist
<1>3. TotalPnl(cs) = g[1 .. n] /\ TotalPnl(ds) = h[1 .. n + 1]
  BY <1>1, PnlsChosen
<1> HIDE DEF g, h
<1>4. g[{}] = 0 /\ \A i \in 0 .. n - 1 : g[1 .. i + 1] = g[1 .. i] + cs[i + 1].pnl
  BY <1>1, <1>2, PnlsPrefixes
<1>5. h[{}] = 0 /\ \A i \in 0 .. n : h[1 .. i + 1] = h[1 .. i] + ds[i + 1].pnl
  <2>1. n + 1 \in Nat /\ n + 1 - 1 = n
    BY <1>1
  <2> QED
    BY <1>1, <1>2, <2>1, PnlsPrefixes
<1>6. g[1 .. n] = h[1 .. n]
  <2>1. \A i \in 0 .. n - 1 : i \in 0 .. n /\ i + 1 \in 1 .. n /\ cs[i + 1] = ds[i + 1]
    BY <1>1
  <2>2. \A i \in 0 .. n - 1 : g[1 .. i] = h[1 .. i] => g[1 .. i + 1] = h[1 .. i + 1]
    BY <1>4, <1>5, <2>1
  <2>3. g[{}] = h[{}]
    BY <1>4, <1>5
  <2> QED
    BY <1>1, <2>2, <2>3, PrefixesAgree
<1>7. h[1 .. n + 1] = h[1 .. n] + x.pnl
  BY <1>1, <1>5
<1>8. TotalPnl(<<>>) = 0
  <2> DEFINE e == CHOOSE f : Pnls(f, <<>>)
  <2>1. DOMAIN <<>> = 1 .. 0 /\ 1 .. 0 = {}
    OBVIOUS
  <2>2. Pnls(e, <<>>)
    BY <2>1, PnlsExist
  <2>3. TotalPnl(<<>>) = e[1 .. 0]
    BY <2>1, PnlsChosen
  <2> HIDE DEF e
  <2>4. e[{}] = 0
    BY <2>1, <2>2, PnlsPrefixes
  <2> QED
    BY <2>1, <2>3, <2>4
<1> QED
  BY <1>3, <1>6, <1>7, <1>8 DEF ds

-----------------------------------------------------------------------------
(* The trades the reports rebuild.                                         *)

Opens ==
    [quantity : Nat \ {0}, cost : Int, fees : Int, first : BuyFills, buys : Nat \ {0}]

TradeType ==
    [entry : Buys, entryAt : Nat, entryPrice : Int, buys : Nat \ {0}, quantity : Nat \ {0},
     cost : Int, fees : Int, exit : Sells, exitAt : Nat, exitPrice : Int, reason : Reasons,
     pnl : Int]

\* An entry fills on the candle after its signal; a breakout has one purchase.
EntryOn(k, signal, at, buys, cs) ==
    /\ at \in 2 .. Len(cs) /\ signal.at = at - 1
    /\ signal.dca = 0 /\ signal.reason = "entry"
    /\ k \in Breakouts => buys = 1 /\ signal.level > 0
    /\ k \in {"baseline", "slope"} => cs[at - 1].regime = "TREND_UP"

\* No candle from a to b turned down.
NoDown(cs, a, b) == \A i \in a .. b : cs[i].regime # "TREND_DOWN"

OpenOn(k, open, cs, n) ==
    /\ EntryOn(k, open.first.signal, open.first.at, open.buys, cs)
    /\ NoDown(cs, open.first.at, n)

TradeOn(k, t, cs) ==
    /\ EntryOn(k, t.entry, t.entryAt, t.buys, cs)
    /\ t.exitAt \in t.entryAt .. Len(cs)
    /\ NoDown(cs, t.entryAt, t.exitAt - 2)
    /\ t.reason = "TREND_DOWN" =>
          /\ t.exit.at = t.exitAt - 1 /\ t.exit.at >= t.entryAt
          /\ cs[t.exit.at].regime = "TREND_DOWN"

TradesOn(k, cs) == {t \in TradeType : TradeOn(k, t, cs)}

\* The replayed fills are the portfolio; the open trade came through the candles
\* up to n.
Traded(k, b, cs, n) ==
    LET r == Replayed(b.fills)
    IN  /\ r \in [open : {NoEntry} \cup Opens, trades : Seq(TradesOn(k, cs)), ok : {TRUE}]
        /\ Len(r.trades) = b.trades /\ TotalPnl(r.trades) = b.pnl
        /\ ~Held(b) => r.open = NoEntry
        /\ Held(b) =>
              /\ r.open # NoEntry
              /\ r.open.quantity = b.position.quantity
              /\ r.open.cost = b.position.cost /\ r.open.fees = b.position.fees
              /\ OpenOn(k, r.open, cs, n)

\* The replay opens a position at the first purchase.
LEMMA EnteredFacts ==
    ASSUME NEW f \in BuyFills, NEW e, e = Entered(f)
    PROVE  /\ e \in Opens /\ e # NoEntry /\ e.first = f /\ e.buys = 1
           /\ e.quantity = 1 /\ e.cost = f.price /\ e.fees = Fee
<1>1. f.price \in Int /\ f.quantity = 1 /\ f.fee = Fee /\ Fee \in Nat
  BY ResearchAssumption DEF BuyFills
<1>2. f.price * f.quantity = f.price
  BY <1>1
<1>3. e = [quantity |-> 1, cost |-> f.price, fees |-> Fee, first |-> f, buys |-> 1]
  BY <1>1, <1>2 DEF Entered
<1>4. e \in Opens
  BY <1>1, <1>3 DEF Opens
<1> QED
  BY <1>3, <1>4 DEF NoEntry

\* The replay adds a later purchase to the open position.
LEMMA AddedFacts ==
    ASSUME NEW f \in BuyFills, NEW open \in Opens, NEW e, e = Added(open, f)
    PROVE  /\ e \in Opens /\ e # NoEntry /\ e.first = open.first /\ e.buys = open.buys + 1
           /\ e.quantity = open.quantity + 1 /\ e.cost = open.cost + f.price
           /\ e.fees = open.fees + Fee
<1>1. f.price \in Int /\ f.quantity = 1 /\ f.fee = Fee /\ Fee \in Nat
  BY ResearchAssumption DEF BuyFills
<1>2. f.price * f.quantity = f.price
  BY <1>1
<1>3. e = [open EXCEPT !.quantity = open.quantity + 1, !.cost = open.cost + f.price,
                       !.fees = open.fees + Fee, !.buys = open.buys + 1]
  BY <1>1, <1>2 DEF Added, Opens
<1>4. /\ open.quantity + 1 \in Nat \ {0} /\ open.cost + f.price \in Int
      /\ open.fees + Fee \in Int /\ open.buys + 1 \in Nat \ {0}
  BY <1>1 DEF Opens
<1>5. /\ e \in Opens /\ e.first = open.first /\ e.buys = open.buys + 1
      /\ e.quantity = open.quantity + 1 /\ e.cost = open.cost + f.price
      /\ e.fees = open.fees + Fee
  BY <1>3, <1>4 DEF Opens
<1> QED
  BY <1>4, <1>5 DEF NoEntry

\* The replay closes the open position as one trade.
LEMMA TradeFacts ==
    ASSUME NEW f \in SellFills, NEW open \in Opens, NEW t, t = Trade(open, f)
    PROVE  /\ t \in TradeType
           /\ t.entry = open.first.signal /\ t.entryAt = open.first.at /\ t.buys = open.buys
           /\ t.entryPrice = open.first.price
           /\ t.exit = f.signal /\ t.exitAt = f.at /\ t.reason = f.signal.reason
           /\ t.pnl = f.price * open.quantity - open.cost - open.fees - Fee
<1>1. /\ f.price \in Int /\ f.fee = Fee /\ Fee \in Nat /\ f.signal \in Sells /\ f.at \in Nat
      /\ f.signal.reason \in Reasons
  BY ResearchAssumption DEF SellFills, Sells
<1>2. /\ open.quantity \in Nat \ {0} /\ open.cost \in Int /\ open.fees \in Int
      /\ open.buys \in Nat \ {0} /\ open.first.signal \in Buys /\ open.first.at \in Nat
      /\ open.first.price \in Int
  BY DEF Opens, BuyFills
<1> DEFINE pnl == f.price * open.quantity - open.cost - open.fees - Fee
<1>3. pnl \in Int
  <2> DEFINE m == f.price * open.quantity
  <2>1. m \in Int
    BY <1>1, <1>2
  <2>2. pnl = m - open.cost - open.fees - Fee
    OBVIOUS
  <2> HIDE DEF m, pnl
  <2> QED
    BY <1>1, <1>2, <2>1, <2>2
<1>4. t = [entry |-> open.first.signal, entryAt |-> open.first.at, entryPrice |-> open.first.price,
           buys |-> open.buys, quantity |-> open.quantity, cost |-> open.cost,
           fees |-> open.fees, exit |-> f.signal, exitAt |-> f.at, exitPrice |-> f.price,
           reason |-> f.signal.reason, pnl |-> pnl]
  BY <1>1 DEF Trade
<1> HIDE DEF pnl
<1>5. t \in TradeType
  BY <1>1, <1>2, <1>3, <1>4 DEF TradeType
<1> QED
  BY <1>4, <1>5 DEF pnl

\* One more fill in the replay of a run.
LEMMA ReplayStep ==
    ASSUME NEW b \in BookType, NEW f \in BuyFills \cup SellFills
    PROVE  Replayed(Append(b.fills, f)) = Replay(Replayed(b.fills), f)
<1>1. b.fills \in Seq(BuyFills \cup SellFills)
  BY DEF BookType
<1> QED
  BY <1>1, ReplayedAppend

\* A trade on the candles is one on more candles.
LEMMA TradesGrow ==
    ASSUME NEW k, NEW cs, Numbering(cs), NEW c \in Candles, c.at = Len(cs) + 1
    PROVE  TradesOn(k, cs) \subseteq TradesOn(k, Append(cs, c))
<1> DEFINE ds == Append(cs, c)
           n == Len(cs)
<1>1. /\ n \in Nat /\ Len(ds) = n + 1 /\ \A i \in 1 .. n : ds[i] = cs[i]
  BY AppendedFacts
<1> HIDE DEF ds
<1>2. ASSUME NEW t \in TradeType, TradeOn(k, t, cs) PROVE TradeOn(k, t, ds)
  <2>1. t.entryAt \in 2 .. n /\ t.exitAt \in t.entryAt .. n /\ t.entryAt \in Nat /\ t.exitAt \in Nat
    BY <1>1, <1>2 DEF TradeOn, EntryOn
  <2>2. EntryOn(k, t.entry, t.entryAt, t.buys, ds)
    <3>1. t.entryAt \in 2 .. n + 1 /\ ds[t.entryAt - 1] = cs[t.entryAt - 1]
      BY <1>1, <2>1
    <3> QED
      BY <1>1, <1>2, <3>1 DEF TradeOn, EntryOn
  <2>3. NoDown(ds, t.entryAt, t.exitAt - 2)
    <3>1. \A i \in t.entryAt .. t.exitAt - 2 : i \in 1 .. n /\ ds[i] = cs[i]
      BY <1>1, <2>1
    <3> QED
      BY <1>2, <3>1 DEF TradeOn, NoDown
  <2>4. t.reason = "TREND_DOWN" => t.exit.at \in 1 .. n
    BY <1>1, <1>2, <2>1 DEF TradeOn
  <2>5. t.exitAt \in t.entryAt .. Len(ds)
    BY <1>1, <2>1
  <2> QED
    BY <1>1, <1>2, <2>2, <2>3, <2>4, <2>5 DEF TradeOn
<1> QED
  BY <1>2 DEF TradesOn, ds

\* What the book traded stays true with one more candle.
LEMMA TradedGrows ==
    ASSUME NEW k, NEW b \in BookType, NEW cs, Numbering(cs), NEW c \in Candles, c.at = Len(cs) + 1,
           NEW n \in Int, n <= Len(cs), Traded(k, b, cs, n)
    PROVE  Traded(k, b, Append(cs, c), n)
<1> DEFINE ds == Append(cs, c)
           r == Replayed(b.fills)
<1>1. /\ Len(cs) \in Nat /\ Len(ds) = Len(cs) + 1 /\ \A i \in 1 .. Len(cs) : ds[i] = cs[i]
  BY AppendedFacts
<1>2. TradesOn(k, cs) \subseteq TradesOn(k, ds)
  BY TradesGrow
<1> HIDE DEF ds
<1>3. Seq(TradesOn(k, cs)) \subseteq Seq(TradesOn(k, ds))
  BY <1>2
<1>4. Held(b) => OpenOn(k, r.open, ds, n)
  <2>1. SUFFICES ASSUME Held(b) PROVE OpenOn(k, r.open, ds, n)
    OBVIOUS
  <2> DEFINE at == r.open.first.at
  <2>2. OpenOn(k, r.open, cs, n)
    BY <2>1 DEF Traded
  <2>3. at \in 2 .. Len(cs)
    BY <2>2 DEF OpenOn, EntryOn
  <2>4. at \in 2 .. Len(ds) /\ ds[at - 1] = cs[at - 1]
    BY <1>1, <2>3
  <2>5. \A i \in at .. n : ds[i] = cs[i]
    BY <1>1, <2>3
  <2> HIDE DEF r
  <2> QED
    BY <2>2, <2>4, <2>5 DEF OpenOn, EntryOn, NoDown
<1>5. r \in [open : {NoEntry} \cup Opens, trades : Seq(TradesOn(k, ds)), ok : {TRUE}]
  <2>1. r \in [open : {NoEntry} \cup Opens, trades : Seq(TradesOn(k, cs)), ok : {TRUE}]
    BY DEF Traded
  <2> HIDE DEF r
  <2> QED
    BY <1>3, <2>1
<1> QED
  BY <1>4, <1>5 DEF Traded, ds

\* A candle without a fill keeps what the book traded.
LEMMA TradedKept ==
    ASSUME NEW k, NEW b \in BookType, NEW x \in BookType, NEW cs, NEW n, NEW m,
           Kept(b, x), Traded(k, b, cs, n),
           Held(b) => \A at : NoDown(cs, at, n) => NoDown(cs, at, m)
    PROVE  Traded(k, x, cs, m)
  BY DEF Kept, Traded, OpenOn

\* A purchase at the open of the next candle.
LEMMA TradedBought ==
    ASSUME NEW k, NEW cs, Numbering(cs), NEW c \in Candles, c.at = Len(cs) + 1, Len(cs) >= 1,
           NEW b \in BookType, Traded(k, b, cs, Len(cs)), b.pending \in Buys,
           NEW o \in BookType, OpensBought(k, b, o, c),
           Held(b) => k \notin Breakouts,
           ~Held(b) => /\ b.pending.dca = 0 /\ b.pending.reason = "entry"
                       /\ b.pending.at = Len(cs)
                       /\ k \in Breakouts => b.pending.level > 0
                       /\ k \in {"baseline", "slope"} => cs[Len(cs)].regime = "TREND_UP"
    PROVE  Traded(k, o, Append(cs, c), Len(cs))
<1> DEFINE n == Len(cs)
           ds == Append(cs, c)
           r == Replayed(b.fills)
           f == Fill("buy", b.pending, c.at, c.open, 1)
           s == Replayed(o.fills)
<1>1. /\ n \in Nat /\ Len(ds) = n + 1 /\ ds[n + 1] = c /\ \A i \in 1 .. n : ds[i] = cs[i]
  BY AppendedFacts
<1>2. c.at \in Nat /\ c.open \in Int
  BY DEF Candles
<1>3. f \in BuyFills /\ f.side = "buy" /\ f.at = n + 1 /\ f.price = c.open /\ f.signal = b.pending
  BY <1>2, FillType DEF Fill
<1>4. s = Replay(r, f)
  <2>1. o.fills = Append(b.fills, f)
    BY DEF OpensBought
  <2>2. f \in BuyFills \cup SellFills
    BY <1>3
  <2> HIDE DEF f, r
  <2> QED
    BY <2>1, <2>2, ReplayStep DEF r
<1>5. Traded(k, b, ds, n)
  BY <1>1, TradedGrows
<1> HIDE DEF n, ds, r, f, s
<1>6. /\ r \in [open : {NoEntry} \cup Opens, trades : Seq(TradesOn(k, ds)), ok : {TRUE}]
      /\ Len(r.trades) = b.trades /\ TotalPnl(r.trades) = b.pnl
      /\ ~Held(b) => r.open = NoEntry
      /\ Held(b) => /\ r.open # NoEntry /\ r.open.quantity = b.position.quantity
                    /\ r.open.cost = b.position.cost /\ r.open.fees = b.position.fees
                    /\ OpenOn(k, r.open, ds, n)
  BY <1>5 DEF Traded, r
<1>7. s = [r EXCEPT !.open = IF r.open = NoEntry THEN Entered(f) ELSE Added(r.open, f)]
  BY <1>3, <1>4, <1>6 DEF Replay
<1>8. /\ o.position = Bought(b.position, b.pending, c.open) /\ Held(o)
      /\ o.trades = b.trades /\ o.pnl = b.pnl
  BY DEF OpensBought
<1>9. b.position \in {Flat} \cup Positions /\ (Held(b) <=> b.position # Flat)
  BY HeldFacts DEF BookType
<1>10. CASE Held(b)
  <2> DEFINE e == Added(r.open, f)
  <2>1. r.open \in Opens
    BY <1>6, <1>10
  <2>2. /\ e \in Opens /\ e # NoEntry /\ e.first = r.open.first
        /\ e.quantity = r.open.quantity + 1 /\ e.cost = r.open.cost + f.price
        /\ e.fees = r.open.fees + Fee
    BY <1>3, <2>1, AddedFacts
  <2> HIDE DEF e
  <2>3. s.open = e /\ s.trades = r.trades /\ s.ok = TRUE
        /\ s \in [open : {NoEntry} \cup Opens, trades : Seq(TradesOn(k, ds)), ok : {TRUE}]
    BY <1>6, <1>7, <1>10, <2>2 DEF e
  <2>4. /\ o.position.quantity = b.position.quantity + 1
        /\ o.position.cost = b.position.cost + c.open /\ o.position.fees = b.position.fees + Fee
    BY <1>2, <1>8, <1>9, <1>10, BoughtFacts
  <2>5. OpenOn(k, s.open, ds, n)
    BY <1>6, <1>10, <2>2, <2>3 DEF OpenOn, EntryOn
  <2> QED
    BY <1>3, <1>6, <1>8, <1>10, <2>2, <2>3, <2>4, <2>5 DEF Traded, s, ds, n
<1>11. CASE ~Held(b)
  <2> DEFINE e == Entered(f)
  <2>1. /\ e \in Opens /\ e # NoEntry /\ e.first = f /\ e.buys = 1
        /\ e.quantity = 1 /\ e.cost = f.price /\ e.fees = Fee
    BY <1>3, EnteredFacts
  <2> HIDE DEF e
  <2>2. s.open = e /\ s.trades = r.trades /\ s.ok = TRUE
        /\ s \in [open : {NoEntry} \cup Opens, trades : Seq(TradesOn(k, ds)), ok : {TRUE}]
    BY <1>6, <1>7, <1>11, <2>1 DEF e
  <2>3. /\ o.position.quantity = 1
        /\ o.position.cost = c.open /\ o.position.fees = Fee
    <3>1. b.position = Flat /\ Flat \in {Flat} \cup Positions
      BY <1>9, <1>11
    <3>2. ASSUME NEW signal \in Buys, NEW price \in Int, NEW p, p = Bought(Flat, signal, price)
          PROVE  p.quantity = 1 /\ p.cost = price /\ p.fees = Fee
      BY <3>1, <3>2, BoughtFacts
    <3> QED
      BY <1>2, <1>8, <3>1, <3>2
  <2>4. OpenOn(k, e, ds, n)
    <3>1. n + 1 \in 2 .. Len(ds) /\ n + 1 - 1 = n /\ n \in 1 .. n
      BY <1>1 DEF n
    <3>2. NoDown(ds, n + 1, n)
      BY <1>1 DEF NoDown
    <3>3. k \in {"baseline", "slope"} => ds[n].regime = "TREND_UP"
      BY <1>1, <1>11, <3>1 DEF n
    <3>4. e.first.at = n + 1 /\ e.first.signal = b.pending
      BY <1>3, <2>1
    <3> QED
      BY <1>11, <2>1, <3>1, <3>2, <3>3, <3>4 DEF OpenOn, EntryOn, n
  <2> QED
    BY <1>3, <1>6, <1>8, <1>11, <2>1, <2>2, <2>3, <2>4 DEF Traded, s, ds, n
<1> QED
  BY <1>10, <1>11

\* A sale of the position.
LEMMA TradedSold ==
    ASSUME NEW k, NEW cs, Numbering(cs), Len(cs) >= 1, NEW n \in Int, Len(cs) - 2 <= n,
           NEW b \in BookType, Held(b), Traded(k, b, cs, n),
           NEW signal \in Sells, NEW price \in Int,
           NEW x \in BookType, ~Held(x), SoldFor(b, x, signal, Len(cs), price),
           signal.reason = "TREND_DOWN" =>
              /\ signal.at = Len(cs) - 1 /\ cs[Len(cs) - 1].regime = "TREND_DOWN"
              /\ Replayed(b.fills).open.first.at <= Len(cs) - 1
    PROVE  \A m : Traded(k, x, cs, m)
<1> DEFINE at == Len(cs)
           r == Replayed(b.fills)
           q == b.position.quantity
           f == Fill("sell", signal, at, price, q)
           s == Replayed(x.fills)
           t == Trade(r.open, f)
<1>1. at \in Nat
  BY LenProperties DEF Numbering
<1>2. q \in Nat \ {0}
  BY HeldFacts DEF Positions
<1> HIDE DEF at, q
<1>3. /\ f \in SellFills /\ f.side = "sell" /\ f.at = at /\ f.price = price
      /\ f.signal = signal /\ f.quantity = q
  BY <1>1, <1>2, FillType DEF Fill
<1>4. s = Replay(r, f)
  <2>1. x.fills = Append(b.fills, f)
    BY DEF SoldFor, at, q
  <2>2. f \in BuyFills \cup SellFills
    BY <1>3
  <2> HIDE DEF f, r
  <2> QED
    BY <2>1, <2>2, ReplayStep DEF r
<1> HIDE DEF r, f, s
<1>5. /\ r \in [open : {NoEntry} \cup Opens, trades : Seq(TradesOn(k, cs)), ok : {TRUE}]
      /\ Len(r.trades) = b.trades /\ TotalPnl(r.trades) = b.pnl
      /\ r.open # NoEntry /\ r.open.quantity = q
      /\ r.open.cost = b.position.cost /\ r.open.fees = b.position.fees
      /\ OpenOn(k, r.open, cs, n)
  BY DEF Traded, r, q
<1>6. r.open \in Opens
  BY <1>5
<1>7. /\ t \in TradeType
      /\ t.entry = r.open.first.signal /\ t.entryAt = r.open.first.at /\ t.buys = r.open.buys
      /\ t.exit = signal /\ t.exitAt = at /\ t.reason = signal.reason
      /\ t.pnl = price * r.open.quantity - r.open.cost - r.open.fees - Fee
  BY <1>3, <1>6, TradeFacts
<1>8. s = [r EXCEPT !.trades = Append(r.trades, t), !.open = NoEntry]
  BY <1>3, <1>4, <1>5 DEF Replay
<1>9. t \in TradesOn(k, cs)
  <2>1. r.open.first.at \in 2 .. at /\ EntryOn(k, t.entry, t.entryAt, t.buys, cs)
    BY <1>5, <1>7 DEF OpenOn, EntryOn, at
  <2>2. NoDown(cs, t.entryAt, t.exitAt - 2)
    <3>1. \A i \in t.entryAt .. t.exitAt - 2 : i \in t.entryAt .. n
      BY <1>1, <1>7, <2>1 DEF at
    <3> QED
      BY <1>5, <1>7, <3>1 DEF OpenOn, NoDown
  <2>3. t.exitAt \in t.entryAt .. Len(cs)
    BY <1>1, <1>7, <2>1 DEF at
  <2>4. t.reason = "TREND_DOWN" =>
           /\ t.exit.at = t.exitAt - 1 /\ t.exit.at >= t.entryAt
           /\ cs[t.exit.at].regime = "TREND_DOWN"
    BY <1>1, <1>7, <2>1 DEF at, r
  <2> HIDE DEF t
  <2> QED
    BY <1>7, <2>1, <2>2, <2>3, <2>4 DEF TradesOn, TradeOn
<1> HIDE DEF t
<1>10. /\ s \in [open : {NoEntry} \cup Opens, trades : Seq(TradesOn(k, cs)), ok : {TRUE}]
       /\ s.open = NoEntry /\ s.trades = Append(r.trades, t)
  <2>1. Append(r.trades, t) \in Seq(TradesOn(k, cs))
    BY <1>5, <1>9, AppendProperties
  <2> QED
    BY <1>5, <1>8, <2>1
<1>11. Len(s.trades) = x.trades
  <2>1. Len(s.trades) = Len(r.trades) + 1
    BY <1>5, <1>10, AppendProperties
  <2> QED
    BY <1>5, <2>1 DEF SoldFor
<1>12. TotalPnl(s.trades) = x.pnl
  <2>1. TotalPnl(s.trades) = TotalPnl(r.trades) + t.pnl
    BY <1>5, <1>9, <1>10, TotalPnlAppend
  <2>2. x.pnl = b.pnl + price * q - b.position.cost - b.position.fees - Fee
    BY DEF SoldFor, q
  <2>3. t.pnl = price * q - b.position.cost - b.position.fees - Fee
    BY <1>5, <1>7
  <2> DEFINE y == price * q
  <2>4. /\ y \in Int /\ b.pnl \in Int /\ b.position.cost \in Int /\ b.position.fees \in Int
        /\ Fee \in Int
    <3>1. b.position \in Positions
      BY HeldFacts
    <3> QED
      BY <1>2, <3>1, ResearchAssumption DEF BookType, Positions
  <2> HIDE DEF y
  <2>5. x.pnl = b.pnl + y - b.position.cost - b.position.fees - Fee
    BY <2>2 DEF y
  <2>6. t.pnl = y - b.position.cost - b.position.fees - Fee
    BY <2>3 DEF y
  <2> QED
    BY <1>5, <2>1, <2>4, <2>5, <2>6
<1> QED
  BY <1>10, <1>11, <1>12 DEF Traded, s

\* What an order says of the candle it was made on.
Ordered(k, b, cs) ==
    /\ b.pending # NoSignal => b.pending.at = Len(cs) /\ Len(cs) >= 1
    /\ k \in Breakouts =>
          /\ b.state.phase = "ARMED" => b.state.level > 0
          /\ b.pending \in Buys => b.pending.level > 0
    /\ k \in {"baseline", "slope"} /\ b.pending \in Buys /\ ~Held(b) =>
          cs[Len(cs)].regime = "TREND_UP"
    /\ b.pending \in Sells /\ b.pending.reason = "TREND_DOWN" =>
          cs[Len(cs)].regime = "TREND_DOWN"

\* The last candle the position came through.
Survived(b, cs) == IF b.pending \in Sells THEN Len(cs) - 1 ELSE Len(cs)

Booked(k, b, cs) == Ordered(k, b, cs) /\ Traded(k, b, cs, Survived(b, cs))

\* The open of a candle keeps the replay and the portfolio together.
LEMMA BookedOpens ==
    ASSUME NEW cs, Numbering(cs), NEW c \in Candles, c.at = Len(cs) + 1,
           NEW k \in Strategies, NEW b, Well(k, b), Booked(k, b, cs),
           NEW refuse \in BOOLEAN, NEW o, o = Opened(k, b, c, refuse)
    PROVE  Traded(k, o, Append(cs, c), Len(cs))
<1> DEFINE ds == Append(cs, c)
<1>1. /\ Numbering(ds) /\ Len(cs) \in Nat /\ Len(ds) = Len(cs) + 1 /\ ds[Len(cs) + 1] = c
      /\ \A i \in 1 .. Len(cs) : ds[i] = cs[i]
  BY AppendedFacts
<1>2. /\ o \in BookType /\ o.pending = NoSignal
      /\ \/ OpensSold(k, b, o, c) \/ OpensBought(k, b, o, c) \/ OpensKept(b, o)
  BY OpenedCases
<1>3. b \in BookType
  BY DEF Well
<1>4. Traded(k, b, cs, Survived(b, cs)) /\ Ordered(k, b, cs)
  BY DEF Booked
<1>5. Traded(k, b, ds, Survived(b, cs))
  <2>1. Survived(b, cs) \in Int /\ Survived(b, cs) <= Len(cs)
    BY <1>1 DEF Survived
  <2> QED
    BY <1>3, <1>4, <2>1, TradedGrows
<1> HIDE DEF ds
<1>6. CASE OpensSold(k, b, o, c)
  <2>1. /\ Held(b) /\ ~Held(o) /\ b.pending \in Sells
        /\ SoldFor(b, o, b.pending, Len(ds), c.open) /\ c.open \in Int
    BY <1>1, <1>6 DEF OpensSold, Candles
  <2>2. Survived(b, cs) = Len(ds) - 2
    BY <1>1, <2>1 DEF Survived
  <2>3. b.pending.at = Len(ds) - 1 /\ Len(cs) \in 1 .. Len(cs) /\ Len(ds) - 1 = Len(cs)
    BY <1>1, <1>3, <1>4, <2>1, PendingKinds DEF Ordered
  <2>4. b.pending.reason = "TREND_DOWN" => ds[Len(ds) - 1].regime = "TREND_DOWN"
    BY <1>1, <1>4, <2>1, <2>3 DEF Ordered
  <2>5. Replayed(b.fills).open.first.at <= Len(ds) - 1
    BY <1>1, <1>4, <2>1 DEF Traded, OpenOn, EntryOn
  <2>6. \A m : Traded(k, o, ds, m)
    <3>1. Len(ds) >= 1 /\ Len(ds) - 2 \in Int /\ Len(ds) - 2 <= Len(ds) - 2
      BY <1>1
    <3>2. Traded(k, b, ds, Len(ds) - 2)
      BY <1>5, <2>2
    <3>3. ASSUME NEW signal \in Sells, NEW price \in Int, SoldFor(b, o, signal, Len(ds), price),
                 signal.at = Len(ds) - 1,
                 signal.reason = "TREND_DOWN" => ds[Len(ds) - 1].regime = "TREND_DOWN"
          PROVE  \A m : Traded(k, o, ds, m)
      BY <1>1, <1>2, <1>3, <2>1, <2>5, <3>1, <3>2, <3>3, TradedSold
    <3> QED
      BY <2>1, <2>3, <2>4, <3>3
  <2> QED
    BY <2>6 DEF ds
<1>7. CASE OpensBought(k, b, o, c)
  <2>1. b.pending \in Buys /\ b.pending \notin Sells /\ b.pending # NoSignal
    BY <1>3, <1>7, PendingKinds DEF OpensBought
  <2>2. b.pending.at = Len(cs) /\ Len(cs) >= 1
    BY <1>4, <2>1 DEF Ordered
  <2>3. Traded(k, b, cs, Len(cs))
    BY <1>4, <2>1 DEF Survived
  <2>4. /\ Held(b) => k \notin Breakouts
        /\ ~Held(b) => /\ b.pending.dca = 0 /\ b.pending.reason = "entry"
                       /\ k \in Breakouts => b.pending.level > 0
                       /\ k \in {"baseline", "slope"} => cs[Len(cs)].regime = "TREND_UP"
    BY <1>4, <2>1 DEF Well, Ordered
  <2> QED
    BY <1>2, <1>3, <1>7, <2>1, <2>2, <2>3, <2>4, TradedBought
<1>8. CASE OpensKept(b, o)
  <2>1. Survived(b, cs) = Len(cs)
    BY <1>8 DEF OpensKept, Survived
  <2> QED
    BY <1>5, <1>8, <2>1 DEF OpensKept, Traded, ds
<1> QED
  BY <1>2, <1>6, <1>7, <1>8

\* A whole candle keeps the replay and the portfolio together.
LEMMA BookedStepped ==
    ASSUME NEW cs, Numbering(cs), NEW c \in Candles, c.at = Len(cs) + 1,
           NEW k \in Strategies, NEW b, Well(k, b), Booked(k, b, cs),
           NEW refuse \in BOOLEAN, NEW x, x = Stepped(k, b, c, refuse)
    PROVE  Booked(k, x, Append(cs, c))
<1> DEFINE ds == Append(cs, c)
           o == Opened(k, b, c, refuse)
<1>1. /\ Numbering(ds) /\ Len(cs) \in Nat /\ Len(ds) = Len(cs) + 1 /\ ds[Len(cs) + 1] = c
      /\ \A i \in 1 .. Len(cs) : ds[i] = cs[i]
  BY AppendedFacts
<1>2. /\ o \in BookType /\ o.pending = NoSignal
      /\ o.state.phase = "ARMED" => ~Held(o)
      /\ Setup(o.state) = Setup(b.state)
  BY OpenedCases
<1>3. Well(k, x) /\ (EndsByLevel(o, x, c) \/ EndsHeld(k, o, x, c) \/ EndsFlat(k, o, x, c))
  BY SteppedCases
<1>4. Traded(k, o, ds, Len(cs)) /\ Ordered(k, b, cs)
  BY BookedOpens DEF Booked
<1>5. k \in Breakouts /\ o.state.phase = "ARMED" => o.state.level > 0
  <2> HIDE DEF o
  <2> QED
    BY <1>2, <1>4 DEF Ordered, Setup
<1> HIDE DEF ds, o
<1>6. x \in BookType /\ o.state \in States
  BY <1>2, <1>3 DEF Well, BookType
<1>7. ds[Len(ds)] = c /\ Len(ds) >= 1 /\ Len(ds) - 1 = Len(cs) /\ c.at = Len(ds)
  BY <1>1
<1>8. CASE EndsByLevel(o, x, c)
  <2>1. PICK signal \in Sells, price \in Int :
           signal.reason \in EngineReasons /\ SoldFor(o, x, signal, Len(ds), price)
    BY <1>7, <1>8 DEF EndsByLevel
  <2>2. signal.reason # "TREND_DOWN"
    BY <2>1 DEF EngineReasons
  <2>3. Held(o) /\ ~Held(x) /\ x.pending = NoSignal /\ x.state = o.state
    BY <1>8 DEF EndsByLevel
  <2>4. \A m : Traded(k, x, ds, m)
    <3>1. Len(cs) \in Int /\ Len(ds) - 2 <= Len(cs)
      BY <1>1
    <3> QED
      BY <1>1, <1>2, <1>4, <1>6, <1>7, <2>1, <2>2, <2>3, <3>1, TradedSold
  <2>5. Ordered(k, x, ds)
    BY <1>5, <1>6, <2>3, PendingKinds DEF Ordered
  <2> QED
    BY <2>4, <2>5 DEF Booked, ds
<1>9. CASE EndsHeld(k, o, x, c)
  <2> DEFINE d == ShouldExit(k, o.state, Aged(o.position), c)
  <2>1. Held(o) /\ Held(x) /\ Kept(o, x) /\ x.pending = d.signal
    BY <1>9 DEF EndsHeld
  <2>2. /\ \/ d.signal = NoSignal \/ SellsHere(d, c)
           \/ k \notin Breakouts /\ d.signal \in Buys /\ d.signal.at = c.at
        /\ c.regime = "TREND_DOWN" => SellsHere(d, c)
        /\ SellsHere(d, c) /\ d.signal.reason = "TREND_DOWN" => c.regime = "TREND_DOWN"
    <3>1. ASSUME NEW s \in States, NEW p, NEW e, e = ShouldExit(k, s, p, c)
          PROVE  /\ \/ e.signal = NoSignal \/ SellsHere(e, c)
                    \/ k \notin Breakouts /\ e.signal \in Buys /\ e.signal.at = c.at
                 /\ c.regime = "TREND_DOWN" => SellsHere(e, c)
                 /\ SellsHere(e, c) /\ e.signal.reason = "TREND_DOWN" => c.regime = "TREND_DOWN"
      BY <3>1, ShouldExitFacts
    <3> QED
      BY <1>6, <3>1
  <2> HIDE DEF d
  <2>3. Ordered(k, x, ds)
    <3>1. x.state.phase # "ARMED"
      BY <1>3, <2>1 DEF Well
    <3>2. x.pending # NoSignal => x.pending.at = Len(ds)
      BY <1>7, <2>1, <2>2 DEF SellsHere
    <3>3. x.pending \in Buys => k \notin Breakouts
      BY <1>3, <2>1 DEF Well
    <3>4. x.pending \in Sells /\ x.pending.reason = "TREND_DOWN" => c.regime = "TREND_DOWN"
      BY <1>6, <2>1, <2>2, PendingKinds DEF SellsHere
    <3> QED
      BY <1>7, <2>1, <3>1, <3>2, <3>3, <3>4 DEF Ordered
  <2>4. Traded(k, x, ds, Survived(x, ds))
    <3>1. CASE x.pending \in Sells
      <4>1. Survived(x, ds) = Len(cs)
        BY <1>7, <3>1 DEF Survived
      <4> QED
        BY <1>2, <1>4, <1>6, <2>1, <4>1, TradedKept
    <3>2. CASE x.pending \notin Sells
      <4>1. Survived(x, ds) = Len(cs) + 1 /\ c.regime # "TREND_DOWN"
        BY <1>1, <2>1, <2>2, <3>2 DEF Survived, SellsHere
      <4>2. \A at : NoDown(ds, at, Len(cs)) => NoDown(ds, at, Len(cs) + 1)
        <5> TAKE at
        <5>1. \A i \in at .. Len(cs) + 1 : i # Len(cs) + 1 => i \in at .. Len(cs)
          BY <1>1
        <5> QED
          BY <1>1, <4>1, <5>1 DEF NoDown
      <4> QED
        BY <1>2, <1>4, <1>6, <2>1, <4>1, <4>2, TradedKept
    <3> QED
      BY <3>1, <3>2
  <2> QED
    BY <2>3, <2>4 DEF Booked, ds
<1>10. CASE EndsFlat(k, o, x, c)
  <2> DEFINE d == ShouldEnter(k, o.state, c)
  <2>1. ~Held(o) /\ ~Held(x) /\ Kept(o, x) /\ x.pending = d.signal /\ x.state = d.state
    BY <1>10 DEF EndsFlat
  <2>2. /\ \/ d.signal = NoSignal
           \/ d.signal \in Buys /\ d.signal.at = c.at
        /\ k \in Breakouts =>
              Stays(o.state, d) \/ Waits(o.state, d, c) \/ Enters(o.state, d, c) \/ Arms(o.state, d, c)
        /\ k \in {"baseline", "slope"} => (d.signal # NoSignal => c.regime = "TREND_UP")
    <3>1. ASSUME NEW s \in States, NEW e, e = ShouldEnter(k, s, c)
          PROVE  /\ \/ e.signal = NoSignal
                    \/ e.signal \in Buys /\ e.signal.at = c.at
                 /\ k \in Breakouts =>
                       Stays(s, e) \/ Waits(s, e, c) \/ Enters(s, e, c) \/ Arms(s, e, c)
                 /\ k \in {"baseline", "slope"} => (e.signal # NoSignal => c.regime = "TREND_UP")
      BY <3>1, ShouldEnterFacts
    <3> QED
      BY <1>6, <3>1
  <2> HIDE DEF d
  <2>3. Ordered(k, x, ds)
    <3>1. x.pending \notin Sells
      BY <1>3, <2>1 DEF Well
    <3>2. k \in Breakouts => /\ x.state.phase = "ARMED" => x.state.level > 0
                             /\ x.pending \in Buys => x.pending.level > 0
      BY <1>5, <1>6, <2>1, <2>2, PendingKinds DEF Stays, Waits, Enters, Arms
    <3>3. x.pending # NoSignal => x.pending.at = Len(ds)
      BY <1>7, <2>1, <2>2
    <3>4. k \in {"baseline", "slope"} /\ x.pending \in Buys => c.regime = "TREND_UP"
      BY <1>6, <2>1, <2>2, PendingKinds
    <3> QED
      BY <1>7, <3>1, <3>2, <3>3, <3>4 DEF Ordered
  <2>4. Traded(k, x, ds, Survived(x, ds))
    BY <1>2, <1>4, <1>6, <2>1, TradedKept
  <2> QED
    BY <2>3, <2>4 DEF Booked, ds
<1> QED
  BY <1>3, <1>8, <1>9, <1>10

\* The books of all runs, on the way and at the end.
AllBooked ==
    \A k \in Books :
        /\ ~ended => Booked(k, book[k], series)
        /\ ended => ~Held(book[k]) /\ Traded(k, book[k], series, Len(series))

\* A run begins without fills.
LEMMA BookedInit == Init => AllBooked
<1> SUFFICES ASSUME Init, NEW k \in Books PROVE Booked(k, book[k], series)
  BY DEF Init, AllBooked
<1> DEFINE b == book[k]
<1>1. /\ b.pending = NoSignal /\ b.state.phase = "IDLE" /\ ~Held(b) /\ b \in BookType
      /\ b.fills = <<>> /\ b.trades = 0 /\ b.pnl = 0
  <2>1. b = NewBook
    BY DEF Init
  <2> QED
    BY <2>1, FreshType DEF NewBook
<1> HIDE DEF b
<1>2. Replayed(<<>>) = Start /\ TotalPnl(<<>>) = 0
  <2>1. <<>> \in Seq({0})
    OBVIOUS
  <2> QED
    BY <2>1, ReplayedAppend, TotalPnlAppend
<1>3. Traded(k, b, series, Survived(b, series))
  <2>1. Start.open = NoEntry /\ Start.trades = <<>> /\ Start.ok = TRUE
    BY DEF Start
  <2>2. Start \in [open : {NoEntry} \cup Opens, trades : Seq(TradesOn(k, series)), ok : {TRUE}]
    <3>1. <<>> \in Seq(TradesOn(k, series))
      OBVIOUS
    <3> QED
      BY <3>1 DEF Start
  <2>3. Len(<<>>) = 0
    OBVIOUS
  <2> QED
    BY <1>1, <1>2, <2>1, <2>2, <2>3 DEF Traded
<1>4. Ordered(k, b, series)
  BY <1>1, PendingKinds DEF Ordered
<1> QED
  BY <1>3, <1>4 DEF Booked, b

\* Every step keeps the replay and the portfolio together.
LEMMA BookedKept ==
    ASSUME Sound, AllBooked, [Next]_vars
    PROVE  AllBooked'
<1>1. ASSUME NEW c \in Candles, NEW refuse \in BOOLEAN, Takes(c, refuse) PROVE AllBooked'
  <2>1. ASSUME NEW k \in Books PROVE Booked(k, book'[k], series')
    <3>1. /\ k \in Strategies /\ Well(k, book[k])
          /\ book'[k] = Stepped(k, book[k], c, refuse)
      BY <1>1, BookTakes
    <3>2. Booked(k, book[k], series) /\ Numbering(series)
      BY <1>1 DEF AllBooked, Sound, Takes
    <3>3. series' = Append(series, c) /\ c.at = Len(series) + 1
      BY <1>1 DEF Takes
    <3>4. ASSUME NEW b, Well(k, b), Booked(k, b, series),
                 NEW x, x = Stepped(k, b, c, refuse)
          PROVE  Booked(k, x, Append(series, c))
      BY <3>1, <3>2, <3>3, <3>4, BookedStepped
    <3> QED
      BY <3>1, <3>2, <3>3, <3>4
  <2>2. ended' = FALSE \/ ~ended'
    BY <1>1 DEF Takes
  <2> QED
    BY <2>1, <2>2 DEF AllBooked
<1>2. CASE End
  <2>1. ASSUME NEW k \in Books
        PROVE  ~Held(book'[k]) /\ Traded(k, book'[k], series, Len(series))
    <3> DEFINE b == book[k]
               x == book'[k]
    <3>1. x = Liquidated(b) /\ series # <<>> /\ ~ended
      BY <1>2 DEF End
    <3>2. /\ x \in BookType /\ ~Held(x)
          /\ ~Held(b) => x = b
          /\ Held(b) =>
                \E signal \in Sells, price \in Int :
                   /\ signal.reason = "END" /\ SoldFor(b, x, signal, Len(series), price)
      BY <3>1, LiquidatedFacts
    <3>3. /\ b \in BookType /\ Numbering(series) /\ series \in Seq(Candles)
          /\ Traded(k, b, series, Survived(b, series))
      BY <3>1 DEF Sound, AllBooked, Booked, Numbering
    <3>4. Len(series) \in Nat /\ Len(series) >= 1
      BY <3>1, <3>3, EmptySeq, LenProperties
    <3> HIDE DEF b, x
    <3>5. CASE Held(b)
      <4>1. PICK signal \in Sells, price \in Int :
               signal.reason = "END" /\ SoldFor(b, x, signal, Len(series), price)
        BY <3>2, <3>5
      <4>2. Survived(b, series) \in Int /\ Len(series) - 2 <= Survived(b, series)
        BY <3>4 DEF Survived
      <4>3. signal.reason # "TREND_DOWN"
        BY <4>1
      <4>4. \A m : Traded(k, x, series, m)
        BY <3>2, <3>3, <3>4, <3>5, <4>1, <4>2, <4>3, TradedSold
      <4> QED
        BY <3>2, <4>4 DEF x
    <3>6. CASE ~Held(b)
      BY <3>2, <3>3, <3>6 DEF Traded, x
    <3> QED
      BY <3>5, <3>6
  <2>2. series' = series /\ ended'
    BY <1>2 DEF End
  <2> QED
    BY <2>1, <2>2 DEF AllBooked
<1>3. CASE UNCHANGED vars
  BY <1>3 DEF vars, AllBooked
<1> QED
  BY <1>1, <1>2, <1>3, Steps

\* The random id of a run is in its fingerprint where the engine sold.
LEMMA FingerprintFacts ==
    ASSUME NEW b \in BookType
    PROVE  Deterministic(b) <=> \A f \in ToSet(b.fills) : f.signal.reason \notin EngineReasons
<1> DEFINE n == Len(b.fills)
           run(i, id) == IF b.fills[i].signal.reason \in EngineReasons THEN id ELSE 0
           row(id) == [i \in DOMAIN b.fills |-> [fill |-> b.fills[i], run |-> run(i, id)]]
<1>1. DOMAIN b.fills = 1 .. n /\ ToSet(b.fills) = {b.fills[i] : i \in 1 .. n}
  BY DEF BookType, ToSet
<1>2. Deterministic(b) <=> row(1) = row(2)
  BY DEF Deterministic, Fingerprint
<1>3. row(1) = row(2) <=> \A i \in 1 .. n : run(i, 1) = run(i, 2)
  <2> HIDE DEF run
  <2>1. \A id : row(id) = [i \in 1 .. n |-> [fill |-> b.fills[i], run |-> run(i, id)]]
    BY <1>1
  <2>2. ASSUME row(1) = row(2), NEW i \in 1 .. n PROVE run(i, 1) = run(i, 2)
    <3>1. row(1)[i].run = run(i, 1) /\ row(2)[i].run = run(i, 2)
      BY <2>1
    <3> HIDE DEF row
    <3> QED
      BY <2>2, <3>1
  <2>3. ASSUME \A i \in 1 .. n : run(i, 1) = run(i, 2) PROVE row(1) = row(2)
    BY <2>1, <2>3
  <2> QED
    BY <2>2, <2>3
<1>4. \A i \in 1 .. n : run(i, 1) = run(i, 2) <=> b.fills[i].signal.reason \notin EngineReasons
  OBVIOUS
<1> HIDE DEF run, row
<1> QED
  BY <1>1, <1>2, <1>3, <1>4

\* The invariants imply that the reports reconcile.
LEMMA ReconcileFacts ==
    ASSUME Sound, AllBooked
    PROVE  ReportsReconcile
<1> SUFFICES ASSUME ended, NEW k \in Books
             PROVE  /\ Reconciled(book[k])
                    /\ GatePassed(book[k], Len(Trades(k)), TotalPnl(Trades(k)))
                          <=> \A f \in ToSet(book[k].fills) : f.signal.reason \notin EngineReasons
                    /\ k \in Breakouts => BreakoutReadable(book[k])
  BY DEF ReportsReconcile
<1> DEFINE b == book[k]
           r == Replayed(b.fills)
<1>1. b \in BookType /\ ~Held(b) /\ Traded(k, b, series, Len(series))
  BY DEF Sound, AllBooked
<1> HIDE DEF b
<1>2. /\ r.ok /\ r.open = NoEntry /\ r.trades \in Seq(TradesOn(k, series))
      /\ Len(r.trades) = b.trades /\ TotalPnl(r.trades) = b.pnl
  BY <1>1 DEF Traded
<1>3. Reconciled(b)
  BY <1>2 DEF Reconciled
<1>4. GatePassed(b, Len(r.trades), TotalPnl(r.trades)) <=> Deterministic(b)
  BY <1>2 DEF GatePassed
<1>5. k \in Breakouts => BreakoutReadable(b)
  <2>1. \A t \in ToSet(r.trades) : t \in TradesOn(k, series)
    BY <1>2 DEF ToSet
  <2>2. \A t \in TradesOn(k, series) : k \in Breakouts =>
           /\ t.buys = 1 /\ t.entry.reason = "entry" /\ t.entry.level > 0
           /\ t.exitAt >= t.entryAt
    BY DEF TradesOn, TradeOn, EntryOn
  <2> QED
    BY <1>3, <2>1, <2>2 DEF BreakoutReadable, ClosedTrades
<1> QED
  BY <1>1, <1>3, <1>4, <1>5, FingerprintFacts DEF Trades, ClosedTrades, b

\* Whatever a run is made of, the trades rebuilt from its fills are the
\* portfolio's, as many and with the same PnL, a breakout report can read them,
\* and the gate fails exactly on the sales of the engine.
THEOREM ReportsAreReconciled == Spec => []ReportsReconcile
<1>1. Sound /\ AllBooked /\ [Next]_vars => AllBooked'
  BY BookedKept
<1>2. Sound /\ AllBooked => ReportsReconcile
  BY ReconcileFacts
<1> QED
  BY <1>1, <1>2, BookedInit, RunsAreSound, PTL DEF Spec

-----------------------------------------------------------------------------
(* The path of a trade.                                                    *)

\* An element that no other undercuts is the minimum.
LEMMA MinIs ==
    ASSUME NEW S \in SUBSET Int, NEW m \in S, \A x \in S : m <= x
    PROVE  Min(S) = m
<1>1. Min(S) \in S /\ \A x \in S : Min(S) <= x
  BY DEF Min
<1>2. Min(S) \in Int /\ m \in Int /\ Min(S) <= m /\ m <= Min(S)
  BY <1>1
<1> QED
  BY <1>2

\* The smallest number is the opposite of the largest opposite.
LEMMA MinExists ==
    ASSUME NEW S \in SUBSET Int, IsFiniteSet(S), S # {}
    PROVE  Min(S) \in S /\ \A x \in S : Min(S) <= x
<1> DEFINE R == {0 - x : x \in S}
<1>1. IsFiniteSet(R)
  <2>1. [x \in S |-> 0 - x] \in Surjection(S, R)
    BY DEF Surjection
  <2> QED
    BY <2>1, FS_Surjection
<1>2. R \in SUBSET Int /\ R # {}
  <2>1. \A x \in S : x \in Int /\ 0 - x \in Int
    OBVIOUS
  <2>2. PICK x : x \in S
    OBVIOUS
  <2>3. 0 - x \in R
    BY <2>2
  <2> QED
    BY <2>1, <2>3
<1>3. Max(R) \in R /\ \A y \in R : y <= Max(R)
  BY <1>1, <1>2, MaxExists
<1>4. PICK m \in S : Max(R) = 0 - m
  BY <1>3
<1>5. ASSUME NEW x \in S PROVE m <= x
  <2>1. 0 - x <= 0 - m
    BY <1>3, <1>4
  <2> QED
    BY <2>1
<1> QED
  BY <1>5, MinIs

\* The candles of a trade that it did not leave on.
LEMMA PathFacts ==
    ASSUME NEW cs, Numbering(cs), NEW k, NEW t \in TradesOn(k, cs),
           NEW path, path = Path(t, cs)
    PROVE  /\ t.entryAt \in Int /\ t.exitAt \in Int /\ t.entryAt <= t.exitAt
           /\ path \in Seq(Candles) /\ Len(path) = t.exitAt - t.entryAt
           /\ \A i \in 1 .. Len(path) : path[i] = cs[t.entryAt + i - 1]
<1>1. /\ t.entryAt \in 2 .. Len(cs) /\ t.exitAt \in t.entryAt .. Len(cs)
      /\ Len(cs) \in Nat /\ cs \in Seq(Candles)
  BY DEF TradesOn, TradeOn, EntryOn, Numbering
<1> DEFINE a == t.entryAt
           b == t.exitAt - 1
<1>2. a \in Int /\ b \in Int /\ \A i \in a .. b : cs[i] \in Candles
  <2>1. \A i \in a .. b : i \in 1 .. Len(cs)
    BY <1>1
  <2> QED
    BY <1>1, <2>1
<1>3. /\ SubSeq(cs, a, b) \in Seq(Candles)
      /\ Len(SubSeq(cs, a, b)) = IF a <= b THEN b - a + 1 ELSE 0
      /\ \A i \in 1 .. b - a + 1 : SubSeq(cs, a, b)[i] = cs[a + i - 1]
  <2> HIDE DEF a, b
  <2> QED
    BY <1>2, SubSeqProperties
<1>4. path = SubSeq(cs, a, b)
  BY DEF Path
<1>5. Len(path) = t.exitAt - t.entryAt
  BY <1>1, <1>3, <1>4
<1> QED
  BY <1>1, <1>3, <1>4, <1>5

\* The first candle of a path that turned down is its last.
LEMMA FirstDownFacts ==
    ASSUME NEW cs, Numbering(cs), NEW k, NEW t \in TradesOn(k, cs)
    PROVE  LET down == FirstTrendDown(t, cs) IN
           /\ down \in 0 .. Len(Path(t, cs))
           /\ down # 0 => t.entryAt + down = t.exitAt
           /\ t.reason = "TREND_DOWN" => t.exit.at = t.entryAt + down - 1
<1> DEFINE path == Path(t, cs)
           n == Len(path)
           I == {i \in 1 .. n : path[i].regime = "TREND_DOWN"}
<1>1. /\ t.entryAt \in Int /\ t.exitAt \in Int /\ t.entryAt <= t.exitAt
      /\ path \in Seq(Candles) /\ n = t.exitAt - t.entryAt
      /\ \A i \in 1 .. n : path[i] = cs[t.entryAt + i - 1]
  BY PathFacts
<1>2. FirstTrendDown(t, cs) = IF I # {} THEN Min(I) ELSE 0
  BY DEF FirstTrendDown, SelectInSeq
<1>3. \A i \in t.entryAt .. t.exitAt - 2 : cs[i].regime # "TREND_DOWN"
  BY DEF TradesOn, TradeOn, NoDown
<1>4. n \in Nat
  BY <1>1
<1> HIDE DEF path, n
<1>5. ASSUME NEW i \in I PROVE i = n
  <2>1. i \in 1 .. n /\ cs[t.entryAt + i - 1].regime = "TREND_DOWN"
    BY <1>1
  <2>2. CASE i < n
    <3>1. t.entryAt + i - 1 \in t.entryAt .. t.exitAt - 2
      BY <1>1, <1>4, <2>1, <2>2
    <3> QED
      BY <1>3, <2>1, <3>1
  <2> QED
    BY <1>4, <2>1, <2>2
<1>6. CASE I = {}
  <2>1. t.reason # "TREND_DOWN"
    <3> SUFFICES ASSUME t.reason = "TREND_DOWN" PROVE FALSE
      OBVIOUS
    <3>1. /\ t.exit.at = t.exitAt - 1 /\ t.exit.at >= t.entryAt
          /\ cs[t.exit.at].regime = "TREND_DOWN"
      BY DEF TradesOn, TradeOn
    <3>2. n \in 1 .. n /\ t.entryAt + n - 1 = t.exit.at
      BY <1>1, <1>4, <3>1
    <3>3. path[n].regime = "TREND_DOWN"
      BY <1>1, <3>1, <3>2
    <3> QED
      BY <1>6, <3>2, <3>3
  <2> QED
    BY <1>2, <1>4, <1>6, <2>1 DEF path, n
<1>7. CASE I # {}
  <2>1. n \in I /\ I \in SUBSET Int /\ \A i \in I : n <= i
    BY <1>4, <1>5, <1>7
  <2>2. Min(I) = n
    BY <2>1, MinIs
  <2>3. t.reason = "TREND_DOWN" => t.exit.at = t.exitAt - 1
    BY DEF TradesOn, TradeOn
  <2>4. FirstTrendDown(t, cs) = n /\ t.entryAt + n = t.exitAt /\ n \in 0 .. n
    BY <1>1, <1>2, <1>4, <1>7, <2>2
  <2>5. t.reason = "TREND_DOWN" => t.exit.at = t.entryAt + n - 1
    BY <1>1, <2>3, <2>4
  <2> QED
    BY <2>4, <2>5 DEF path, n
<1> QED
  BY <1>6, <1>7

\* The prices of a few candles are a finite set of numbers.
LEMMA PricesOf ==
    ASSUME NEW q \in Seq(Candles)
    PROVE  /\ {c.high : c \in ToSet(q)} \in SUBSET Int /\ IsFiniteSet({c.high : c \in ToSet(q)})
           /\ {c.low : c \in ToSet(q)} \in SUBSET Int /\ IsFiniteSet({c.low : c \in ToSet(q)})
<1> DEFINE S == ToSet(q)
           H == {c.high : c \in S}
           L == {c.low : c \in S}
<1>1. S = {q[i] : i \in 1 .. Len(q)} /\ S \subseteq Candles
  BY DEF ToSet
<1>2. IsFiniteSet(S)
  <2>1. IsFiniteSet(1 .. Len(q))
    BY FS_Interval
  <2>2. [i \in 1 .. Len(q) |-> q[i]] \in Surjection(1 .. Len(q), S)
    BY <1>1 DEF Surjection
  <2> QED
    BY <2>1, <2>2, FS_Surjection
<1>3. H \in SUBSET Int /\ L \in SUBSET Int
  <2>1. \A c \in Candles : c.high \in Int /\ c.low \in Int
    BY DEF Candles
  <2> HIDE DEF S
  <2> QED
    BY <1>1, <2>1
<1> HIDE DEF S
<1>4. IsFiniteSet(H)
  <2>1. [c \in S |-> c.high] \in Surjection(S, H)
    BY DEF Surjection
  <2> QED
    BY <1>2, <2>1, FS_Surjection
<1>5. IsFiniteSet(L)
  <2>1. [c \in S |-> c.low] \in Surjection(S, L)
    BY DEF Surjection
  <2> QED
    BY <1>2, <2>1, FS_Surjection
<1> QED
  BY <1>3, <1>4, <1>5 DEF S

\* With more prices the best one is not worse.
LEMMA MaxGrows ==
    ASSUME NEW S \in SUBSET Int, IsFiniteSet(S), NEW R \in SUBSET S, R # {}
    PROVE  Max(R) \in Int /\ Max(S) \in Int /\ Max(R) <= Max(S)
<1>1. IsFiniteSet(R) /\ S # {} /\ R \in SUBSET Int
  BY FS_Subset
<1>2. Max(R) \in R /\ Max(S) \in S /\ \A x \in S : x <= Max(S)
  BY <1>1, MaxExists
<1> QED
  BY <1>2

\* The path of a trade that sat through no TREND_DOWN candle.
LEMMA ExitPathFacts ==
    ASSUME NEW cs, Numbering(cs), NEW k, NEW t \in TradesOn(k, cs),
           NEW path, path = ExitPath(t, cs)
    PROVE  /\ path.barsToTrendDown # 0 => t.entryAt + path.barsToTrendDown = t.exitAt
           /\ path.bestBefore <= path.mfe /\ path.mae <= t.exitPrice - t.entryPrice
           /\ t.reason = "TREND_DOWN" =>
                 TrendDownExit(t, cs).at = t.entryAt + path.barsToTrendDown - 1
<1> DEFINE q == Path(t, cs)
           down == FirstTrendDown(t, cs)
           up == SubSeq(q, 1, down)
           entry == t.entryPrice
           ends == {t.entryPrice, t.exitPrice}
           H == ends \cup {c.high : c \in ToSet(q)}
           L == ends \cup {c.low : c \in ToSet(q)}
           B == {t.entryPrice} \cup {c.high : c \in ToSet(up)}
<1>1. entry \in Int /\ t.exitPrice \in Int /\ q \in Seq(Candles)
  BY PathFacts DEF TradesOn, TradeType
<1>2. /\ down \in 0 .. Len(q) /\ (down # 0 => t.entryAt + down = t.exitAt)
      /\ t.reason = "TREND_DOWN" => t.exit.at = t.entryAt + down - 1
  BY FirstDownFacts
<1>3. /\ path.barsToTrendDown = down
      /\ path.mfe = Max(H) - entry /\ path.mae = Min(L) - entry
      /\ path.bestBefore = IF down = 0 THEN 0 ELSE Max(B) - entry
  BY DEF ExitPath
<1>4. TrendDownExit(t, cs).at = t.exit.at
  BY DEF TrendDownExit
<1>5. H \in SUBSET Int /\ L \in SUBSET Int /\ IsFiniteSet(H) /\ IsFiniteSet(L)
  <2>1. ends \in SUBSET Int /\ IsFiniteSet(ends)
    <3>1. IsFiniteSet({t.entryPrice}) /\ ends = {t.entryPrice} \cup {t.exitPrice}
      BY FS_Singleton
    <3> QED
      BY <1>1, <3>1, FS_AddElement
  <2>2. /\ {c.high : c \in ToSet(q)} \in SUBSET Int /\ IsFiniteSet({c.high : c \in ToSet(q)})
        /\ {c.low : c \in ToSet(q)} \in SUBSET Int /\ IsFiniteSet({c.low : c \in ToSet(q)})
    BY <1>1, PricesOf
  <2> HIDE DEF ends
  <2> QED
    BY <2>1, <2>2, FS_Union
<1>6. B \in SUBSET H
  <2>1. /\ Len(up) = down
        /\ \A i \in 1 .. down : up[i] = q[i]
    <3>1. \A i \in 1 .. down : q[i] \in Candles
      BY <1>1, <1>2
    <3>2. 1 \in Int /\ down \in Int /\ Len(q) \in Nat
      BY <1>1, <1>2
    <3> HIDE DEF down, q
    <3>3. /\ up \in Seq(Candles) /\ Len(up) = IF 1 <= down THEN down - 1 + 1 ELSE 0
          /\ \A i \in 1 .. down - 1 + 1 : up[i] = q[1 + i - 1]
      BY <3>1, <3>2, SubSeqProperties
    <3>4. down \in 0 .. Len(q)
      BY <1>2
    <3> QED
      BY <3>2, <3>3, <3>4
  <2>2. up \in Seq(Candles)
    BY <1>1, <1>2
  <2>3. ASSUME NEW c \in ToSet(up) PROVE c \in ToSet(q)
    <3>1. PICK i \in 1 .. down : c = up[i]
      BY <2>1, <2>2, <2>3 DEF ToSet
    <3>2. c = q[i] /\ i \in DOMAIN q
      BY <1>1, <1>2, <2>1, <3>1
    <3> QED
      BY <3>2 DEF ToSet
  <2> HIDE DEF up, q
  <2> QED
    BY <2>3
<1>7. Max(H) \in H /\ \A x \in H : x <= Max(H)
  <2> HIDE DEF H
  <2>1. H # {}
    BY DEF H
  <2> QED
    BY <1>5, <2>1, MaxExists
<1>8. Min(L) \in L /\ \A x \in L : Min(L) <= x
  <2> HIDE DEF L
  <2>1. L # {}
    BY DEF L
  <2> QED
    BY <1>5, <2>1, MinExists
<1>9. Max(B) \in Int /\ Max(H) \in Int /\ Max(B) <= Max(H)
  <2>1. B # {}
    OBVIOUS
  <2> HIDE DEF B, H
  <2> QED
    BY <1>5, <1>6, <2>1, MaxGrows
<1>10. entry \in H /\ t.exitPrice \in L
  OBVIOUS
<1> HIDE DEF H, L, B, down, q, up, entry
<1>11. Min(L) \in Int /\ Min(L) <= t.exitPrice /\ entry <= Max(H)
  BY <1>5, <1>7, <1>8, <1>10
<1>12. path.bestBefore <= path.mfe
  <2>1. CASE down = 0
    BY <1>1, <1>3, <1>9, <1>11, <2>1
  <2>2. CASE down # 0
    BY <1>1, <1>3, <1>9, <1>11, <2>2
  <2> QED
    BY <2>1, <2>2
<1>13. path.mae <= t.exitPrice - t.entryPrice
  BY <1>1, <1>3, <1>11 DEF entry
<1> QED
  BY <1>2, <1>3, <1>4, <1>12, <1>13

\* Whatever trades a report is made of: none is continued and switched.
LEMMA TrendDownReportFacts ==
    ASSUME NEW cs, NEW k, NEW trades \in Seq(TradesOn(k, cs)),
           NEW r, r = TrendDownReport(TrendDownExits(trades, cs))
    PROVE  r.continued + r.switched <= r.total
<1> DEFINE T == {t \in ToSet(trades) : t.reason = "TREND_DOWN"}
           R == TrendDownExits(trades, cs)
           C == {x \in R : x.continued}
           W == {x \in R : x.switched}
<1>1. IsFiniteSet(R)
  <2>1. IsFiniteSet(1 .. Len(trades)) /\ ToSet(trades) = {trades[i] : i \in 1 .. Len(trades)}
    BY FS_Interval DEF ToSet
  <2>2. [i \in 1 .. Len(trades) |-> trades[i]] \in Surjection(1 .. Len(trades), ToSet(trades))
    BY <2>1 DEF Surjection
  <2>3. IsFiniteSet(ToSet(trades))
    BY <2>1, <2>2, FS_Surjection
  <2>4. IsFiniteSet(T)
    BY <2>3, FS_Subset
  <2> HIDE DEF T
  <2>5. R = {TrendDownExit(t, cs) : t \in T}
    BY DEF TrendDownExits, T
  <2>6. [t \in T |-> TrendDownExit(t, cs)] \in Surjection(T, R)
    BY <2>5 DEF Surjection
  <2> QED
    BY <2>4, <2>6, FS_Surjection
<1>2. ASSUME NEW x \in R PROVE ~(x.continued /\ x.switched)
  <2>1. PICK t \in T : x = TrendDownExit(t, cs)
    BY <1>2 DEF TrendDownExits
  <2> QED
    BY <2>1 DEF TrendDownExit
<1> HIDE DEF R
<1>3. C \cap W = {} /\ C \cup W \in SUBSET R /\ C \in SUBSET R /\ W \in SUBSET R
  BY <1>2
<1> HIDE DEF C, W
<1>4. IsFiniteSet(C) /\ IsFiniteSet(W) /\ IsFiniteSet(C \cup W)
  BY <1>1, <1>3, FS_Subset
<1>5. Cardinality(C \cup W) <= Cardinality(R)
  BY <1>1, <1>3, FS_Subset
<1>6. Cardinality(C \cup W) = Cardinality(C) + Cardinality(W) - Cardinality(C \cap W)
  BY <1>4, FS_Union
<1>7. Cardinality(C \cap W) = 0
  BY <1>3, FS_EmptySet
<1>8. Cardinality(C) \in Nat /\ Cardinality(W) \in Nat /\ Cardinality(R) \in Nat
  BY <1>1, <1>4, FS_CardinalityType
<1>9. r.total = Cardinality(R) /\ r.continued = Cardinality(C) /\ r.switched = Cardinality(W)
  BY DEF TrendDownReport, R, C, W
<1> QED
  BY <1>5, <1>6, <1>7, <1>8, <1>9

\* The trades of an ended run are trades on its candles.
LEMMA ClosedFactsOf ==
    ASSUME Sound, AllBooked, ended, NEW k \in Books
    PROVE  Trades(k) \in Seq(TradesOn(k, series)) /\ Numbering(series)
BY DEF Sound, AllBooked, Traded, Trades, ClosedTrades

\* No strategy sits through a TREND_DOWN candle, whatever it trades: the first
\* one on the path of a trade is the last before the exit, and it is the one the
\* diagnostics report; their counts fit.
THEOREM TrendDownEnds == Spec => []FirstTrendDownEnds
<1>1. ASSUME Sound, AllBooked PROVE FirstTrendDownEnds
  <2>1. ASSUME ended, NEW k \in Books
        PROVE  LET trades == Trades(k) IN
               /\ \A t \in ToSet(trades) : LET path == ExitPath(t, series) IN
                     /\ path.barsToTrendDown # 0 => t.entryAt + path.barsToTrendDown = t.exitAt
                     /\ path.bestBefore <= path.mfe /\ path.mae <= t.exitPrice - t.entryPrice
                     /\ t.reason = "TREND_DOWN" =>
                           TrendDownExit(t, series).at = t.entryAt + path.barsToTrendDown - 1
               /\ LET r == TrendDownReport(TrendDownExits(trades, series))
                  IN  r.continued + r.switched <= r.total
    <3> DEFINE trades == Trades(k)
    <3>1. trades \in Seq(TradesOn(k, series)) /\ Numbering(series)
      BY <1>1, <2>1, ClosedFactsOf
    <3> HIDE DEF trades
    <3>2. \A t \in ToSet(trades) : t \in TradesOn(k, series)
      BY <3>1 DEF ToSet
    <3>3. ASSUME NEW t \in ToSet(trades)
          PROVE  LET path == ExitPath(t, series) IN
                 /\ path.barsToTrendDown # 0 => t.entryAt + path.barsToTrendDown = t.exitAt
                 /\ path.bestBefore <= path.mfe /\ path.mae <= t.exitPrice - t.entryPrice
                 /\ t.reason = "TREND_DOWN" =>
                       TrendDownExit(t, series).at = t.entryAt + path.barsToTrendDown - 1
      <4>1. t \in TradesOn(k, series)
        BY <3>2
      <4> QED
        BY <3>1, <4>1, ExitPathFacts
    <3>4. LET r == TrendDownReport(TrendDownExits(trades, series))
          IN  r.continued + r.switched <= r.total
      BY <3>1, TrendDownReportFacts
    <3> QED
      BY <3>3, <3>4 DEF trades
  <2> QED
    BY <2>1 DEF FirstTrendDownEnds
<1>2. Spec => []AllBooked
  BY BookedInit, BookedKept, RunsAreSound, PTL DEF Spec
<1> QED
  BY <1>1, <1>2, RunsAreSound, PTL

-----------------------------------------------------------------------------
(* The watch of V2: its events and its counters.                           *)

\* A watch starts only on a position, once, and not before its age: between it
\* and the STARTED of the position there is neither.
InOrder(events) ==
    \A i \in DOMAIN events : events[i].event = "WATCH_STARTED" =>
        \E j \in 1 .. i - 1 :
            /\ events[j].event = "STARTED"
            /\ events[i].at >= events[j].at + DetectionAge - 1
            /\ \A m \in j + 1 .. i - 1 : events[m].event \notin {"STARTED", "WATCH_STARTED"}

\* The STARTED of the position that was bought at a candle is the last one.
Anchored(events, at, used) ==
    \E j \in DOMAIN events :
        /\ events[j].event = "STARTED" /\ events[j].at = at
        /\ \A m \in j + 1 .. Len(events) :
              events[m].event # "STARTED" /\ (~used => events[m].event # "WATCH_STARTED")

\* The counters of a position bought by a fill, after n candles.
Counted(s, pending, first, n) ==
    /\ s.mode # "NONE" /\ s.heldLevel = first.signal.level
    /\ s.age \in {n - first.at, n - first.at + 1}
    /\ pending = NoSignal => s.age = n - first.at + 1 /\ s.watchBars < WatchMax
    /\ s.watchBars <= WatchMax
    /\ s.used => s.age >= DetectionAge
    /\ ~s.used => s.mode = "NORMAL_POSITION"

\* A position below its structure at the age of detection was watched, if it
\* came through that candle.
Noticed(events, cs, from, level, n) ==
    LET at == from + DetectionAge - 1
    IN  at <= n /\ StructureKnown(cs[at]) /\ BelowStructure(cs[at], level) =>
           \E e \in ToSet(events) : e.at = at /\ e.event = "WATCH_STARTED"

TradesNoticed(b, cs) ==
    \A t \in ToSet(ClosedTrades(b)) :
        Noticed(b.state.events, cs, t.entryAt, t.entry.level, t.exitAt - 2)

Followed(b, cs, n) ==
    /\ InOrder(b.state.events) /\ TradesNoticed(b, cs)
    /\ Held(b) =>
          LET first == Replayed(b.fills).open.first
          IN  /\ b.fills # <<>> /\ Last(b.fills) = first
              /\ Counted(b.state, b.pending, first, n)
              /\ Anchored(b.state.events, first.at, b.state.used)
              /\ Noticed(b.state.events, cs, first.at, first.signal.level,
                         IF b.pending \in Sells THEN n - 1 ELSE n)

\* The two breakouts are one until a watch expires.
TimedOut(b) == \E t \in ToSet(ClosedTrades(b)) : t.reason = "WATCH_TIMEOUT"

Expiring(b, x) ==
    x.pending \in Sells /\ x.pending.reason = "WATCH_TIMEOUT" /\ b.pending = NoSignal

Twins(b, x) ==
    /\ Core(b.state) = Core(x.state) /\ b.position = x.position /\ b.fills = x.fills
    /\ b.pending = x.pending \/ Expiring(b, x)

\* One more element in a sequence is one more in its set.
LEMMA ToSetAppend ==
    ASSUME NEW S, NEW s \in Seq(S), NEW x \in S
    PROVE  ToSet(Append(s, x)) = ToSet(s) \cup {x}
<1>1. /\ DOMAIN s = 1 .. Len(s) /\ Len(s) \in Nat /\ Append(s, x) \in Seq(S)
      /\ Len(Append(s, x)) = Len(s) + 1 /\ Append(s, x)[Len(s) + 1] = x
      /\ \A i \in 1 .. Len(s) : Append(s, x)[i] = s[i]
  BY AppendProperties
<1>2. DOMAIN Append(s, x) = 1 .. Len(s) + 1
  BY <1>1
<1>3. 1 .. Len(s) + 1 = (1 .. Len(s)) \cup {Len(s) + 1}
  BY <1>1
<1> HIDE DEF ToSet
<1>4. ToSet(Append(s, x)) = {Append(s, x)[i] : i \in 1 .. Len(s) + 1}
  BY <1>2 DEF ToSet
<1>5. ToSet(s) = {s[i] : i \in 1 .. Len(s)}
  BY <1>1 DEF ToSet
<1> QED
  BY <1>1, <1>3, <1>4, <1>5

\* An audit with one more event.
LEMMA EventAppended ==
    ASSUME NEW events \in Seq(Events), NEW f \in Events, NEW e, e = Append(events, f)
    PROVE  /\ e \in Seq(Events) /\ Len(events) \in Nat /\ Len(e) = Len(events) + 1
           /\ DOMAIN e = 1 .. Len(events) + 1 /\ DOMAIN events = 1 .. Len(events)
           /\ e[Len(events) + 1] = f /\ \A i \in 1 .. Len(events) : e[i] = events[i]
           /\ ToSet(e) = ToSet(events) \cup {f}
<1>1. /\ e \in Seq(Events) /\ Len(events) \in Nat /\ Len(e) = Len(events) + 1
      /\ e[Len(events) + 1] = f /\ \A i \in 1 .. Len(events) : e[i] = events[i]
  BY AppendProperties
<1> QED
  BY <1>1, ToSetAppend

\* An audit event is one of the known events, of its candle.
LEMMA EventLogged ==
    ASSUME NEW s \in States, NEW c \in Candles, NEW name \in EventNames
    PROVE  \E f \in Events : f.event = name /\ f.at = c.at /\ Logged(s, name, c) = Append(s.events, f)
<1> DEFINE f == [event |-> name, at |-> c.at]
<1>1. f \in Events /\ f.event = name /\ f.at = c.at
  BY DEF Events, Candles
<1> QED
  BY <1>1 DEF Logged

\* Any event but a watch keeps the order.
LEMMA OrderKept ==
    ASSUME NEW events \in Seq(Events), InOrder(events), NEW f \in Events,
           f.event # "WATCH_STARTED", NEW e, e = Append(events, f)
    PROVE  InOrder(e)
<1>1. /\ Len(events) \in Nat /\ DOMAIN e = 1 .. Len(events) + 1 /\ DOMAIN events = 1 .. Len(events)
      /\ e[Len(events) + 1] = f /\ \A i \in 1 .. Len(events) : e[i] = events[i]
  BY EventAppended
<1> SUFFICES ASSUME NEW i \in DOMAIN e, e[i].event = "WATCH_STARTED"
             PROVE  \E j \in 1 .. i - 1 :
                       /\ e[j].event = "STARTED"
                       /\ e[i].at >= e[j].at + DetectionAge - 1
                       /\ \A m \in j + 1 .. i - 1 : e[m].event \notin {"STARTED", "WATCH_STARTED"}
  BY DEF InOrder
<1>2. i \in 1 .. Len(events) /\ e[i] = events[i]
  BY <1>1
<1>3. PICK j \in 1 .. i - 1 :
         /\ events[j].event = "STARTED"
         /\ events[i].at >= events[j].at + DetectionAge - 1
         /\ \A m \in j + 1 .. i - 1 : events[m].event \notin {"STARTED", "WATCH_STARTED"}
  BY <1>1, <1>2 DEF InOrder
<1>4. e[j] = events[j] /\ \A m \in j + 1 .. i - 1 : e[m] = events[m]
  BY <1>1, <1>2
<1> QED
  BY <1>2, <1>3, <1>4

\* A watch of an unwatched position that is old enough keeps it too.
LEMMA OrderWatched ==
    ASSUME NEW events \in Seq(Events), InOrder(events), NEW f \in Events,
           NEW at \in Nat, NEW used \in BOOLEAN, ~used, Anchored(events, at, used),
           f.at >= at + DetectionAge - 1, NEW e, e = Append(events, f)
    PROVE  InOrder(e)
<1>1. /\ Len(events) \in Nat /\ DOMAIN e = 1 .. Len(events) + 1 /\ DOMAIN events = 1 .. Len(events)
      /\ e[Len(events) + 1] = f /\ \A i \in 1 .. Len(events) : e[i] = events[i]
  BY EventAppended
<1> SUFFICES ASSUME NEW i \in DOMAIN e, e[i].event = "WATCH_STARTED"
             PROVE  \E j \in 1 .. i - 1 :
                       /\ e[j].event = "STARTED"
                       /\ e[i].at >= e[j].at + DetectionAge - 1
                       /\ \A m \in j + 1 .. i - 1 : e[m].event \notin {"STARTED", "WATCH_STARTED"}
  BY DEF InOrder
<1>2. CASE i \in 1 .. Len(events)
  <2>1. PICK j \in 1 .. i - 1 :
           /\ events[j].event = "STARTED"
           /\ events[i].at >= events[j].at + DetectionAge - 1
           /\ \A m \in j + 1 .. i - 1 : events[m].event \notin {"STARTED", "WATCH_STARTED"}
    BY <1>1, <1>2 DEF InOrder
  <2>2. e[i] = events[i] /\ e[j] = events[j] /\ \A m \in j + 1 .. i - 1 : e[m] = events[m]
    BY <1>1, <1>2
  <2> QED
    BY <2>1, <2>2
<1>3. CASE i = Len(events) + 1
  <2>1. PICK j \in DOMAIN events :
           /\ events[j].event = "STARTED" /\ events[j].at = at
           /\ \A m \in j + 1 .. Len(events) :
                 events[m].event # "STARTED" /\ events[m].event # "WATCH_STARTED"
    BY DEF Anchored
  <2>2. /\ j \in 1 .. i - 1 /\ e[j] = events[j] /\ e[i] = f /\ i - 1 = Len(events)
        /\ \A m \in j + 1 .. i - 1 : m \in j + 1 .. Len(events) /\ e[m] = events[m]
    BY <1>1, <1>3
  <2> QED
    BY <2>1, <2>2
<1> QED
  BY <1>1, <1>2, <1>3

\* The anchor of a position holds until the next STARTED.
LEMMA AnchorKept ==
    ASSUME NEW events \in Seq(Events), NEW f \in Events, NEW at \in Nat,
           NEW used \in BOOLEAN, NEW later \in BOOLEAN, Anchored(events, at, used),
           used => later, f.event # "STARTED", f.event = "WATCH_STARTED" => later,
           NEW e, e = Append(events, f)
    PROVE  Anchored(e, at, later)
<1>1. /\ Len(events) \in Nat /\ DOMAIN e = 1 .. Len(events) + 1 /\ DOMAIN events = 1 .. Len(events)
      /\ Len(e) = Len(events) + 1
      /\ e[Len(events) + 1] = f /\ \A i \in 1 .. Len(events) : e[i] = events[i]
  BY EventAppended
<1>2. PICK j \in 1 .. Len(events) :
         /\ events[j].event = "STARTED" /\ events[j].at = at
         /\ \A m \in j + 1 .. Len(events) :
               events[m].event # "STARTED" /\ (~used => events[m].event # "WATCH_STARTED")
  BY <1>1 DEF Anchored
<1>3. ASSUME NEW m \in j + 1 .. Len(e)
      PROVE  e[m].event # "STARTED" /\ (~later => e[m].event # "WATCH_STARTED")
  <2>1. CASE m = Len(events) + 1
    BY <1>1, <2>1
  <2>2. CASE m # Len(events) + 1
    <3>1. m \in j + 1 .. Len(events) /\ m \in 1 .. Len(events)
      BY <1>1, <2>2
    <3> QED
      BY <1>1, <1>2, <3>1
  <2> QED
    BY <2>1, <2>2
<1>4. j \in DOMAIN e /\ e[j] = events[j]
  BY <1>1, <1>2
<1> QED
  BY <1>2, <1>3, <1>4 DEF Anchored

\* The STARTED of a purchase is an anchor.
LEMMA AnchorSet ==
    ASSUME NEW events \in Seq(Events), NEW f \in Events, f.event = "STARTED",
           NEW used \in BOOLEAN, NEW e, e = Append(events, f)
    PROVE  Anchored(e, f.at, used)
<1>1. /\ Len(events) \in Nat /\ DOMAIN e = 1 .. Len(events) + 1
      /\ Len(e) = Len(events) + 1 /\ e[Len(events) + 1] = f
  BY EventAppended
<1>2. Len(events) + 1 \in DOMAIN e /\ \A m \in Len(events) + 1 + 1 .. Len(e) : FALSE
  BY <1>1
<1> QED
  BY <1>1, <1>2 DEF Anchored

\* What was noticed stays noticed, for a position that came less far as well.
LEMMA NoticedStays ==
    ASSUME NEW events, NEW later, ToSet(events) \subseteq ToSet(later),
           NEW cs, NEW ds, NEW from \in Nat \ {0}, NEW level, NEW n \in Int, NEW m \in Int, m <= n,
           \A i \in 1 .. n : ds[i] = cs[i], Noticed(events, cs, from, level, n)
    PROVE  Noticed(later, ds, from, level, m)
<1> DEFINE at == from + DetectionAge - 1
<1>1. at \in Nat \ {0}
  BY Limits
<1>2. at <= m => at <= n /\ ds[at] = cs[at]
  BY <1>1
<1> HIDE DEF at
<1>3. SUFFICES ASSUME at <= m, StructureKnown(ds[at]), BelowStructure(ds[at], level)
               PROVE  \E e \in ToSet(later) : e.at = at /\ e.event = "WATCH_STARTED"
  BY DEF Noticed, at
<1>4. \E e \in ToSet(events) : e.at = at /\ e.event = "WATCH_STARTED"
  BY <1>2, <1>3 DEF Noticed, at
<1> QED
  BY <1>4

\* What one candle of a position does to the audit of V2: nothing, an event that
\* is neither STARTED nor a watch, or the watch of a position that had none.
Adds(s, t, f) ==
    /\ t.events = Append(s.events, f) /\ t.used = s.used
    /\ f.event \notin {"STARTED", "WATCH_STARTED"}

Watches(s, t, f, first, at) ==
    /\ t.events = Append(s.events, f) /\ ~s.used /\ t.used
    /\ f.event = "WATCH_STARTED" /\ f.at = at /\ at >= first.at + DetectionAge - 1

\* The candle on which a position of the age of detection fails.
Fails(c, first, at) ==
    /\ at = first.at + DetectionAge - 1
    /\ StructureKnown(c) /\ BelowStructure(c, first.signal.level)

\* A candle on which V2 manages a position keeps its counters, adds at most one
\* event, and watches a position whose structure fails.
LEMMA WatchStep ==
    ASSUME NEW s \in States, NEW c \in Candles, NEW n \in Nat, c.at = n + 1,
           NEW first \in BuyFills, first.at \in 1 .. n + 1, Counted(s, NoSignal, first, n),
           NEW p, NEW d, d = ShouldExit("breakout_v2", s, p, c)
    PROVE  /\ Counted(d.state, d.signal, first, n + 1)
           /\ d.signal = NoSignal \/ d.signal \in Sells
           /\ \/ /\ d.state.events = s.events /\ d.state.used = s.used
                 /\ d.signal = NoSignal => ~Fails(c, first, n + 1)
              \/ \E f \in Events :
                    /\ Adds(s, d.state, f)
                    /\ d.signal = NoSignal => ~Fails(c, first, n + 1)
              \/ \E f \in Events : Watches(s, d.state, f, first, n + 1)
<1> DEFINE hard == BaseExit(Observe(s, c), p, c)
<1>1. d = BreakoutV2Exit(s, p, c)
  BY DEF ShouldExit, Breakouts
<1>2. /\ d.state \in States /\ Leaves(d, c)
      /\ \/ hard.signal # NoSignal /\ d.signal = hard.signal
            /\ HardExit(s, d) /\ EventsKept(s, d, c)
         \/ hard.signal = NoSignal /\ V2Stays(s, d, c)
  BY <1>1, V2ExitFacts
<1> HIDE DEF hard
<1>3. d.signal = NoSignal \/ d.signal \in Sells
  BY <1>2 DEF Leaves, SellsHere
<1>4. /\ s.mode # "NONE" /\ s.heldLevel = first.signal.level
      /\ s.age = n - first.at + 1 /\ s.watchBars < WatchMax
      /\ s.used => s.age >= DetectionAge
      /\ ~s.used => s.mode = "NORMAL_POSITION"
      /\ s.age \in Nat /\ s.watchBars \in Nat /\ s.used \in BOOLEAN /\ first.at \in Int
      /\ d.state.age \in Nat /\ d.state.watchBars \in Nat /\ d.state.used \in BOOLEAN
  <2>1. /\ s.age \in Nat /\ s.watchBars \in Nat /\ s.used \in BOOLEAN
        /\ d.state.age \in Nat /\ d.state.watchBars \in Nat /\ d.state.used \in BOOLEAN
    BY <1>2 DEF States
  <2>2. first.at \in Int
    OBVIOUS
  <2> QED
    BY <2>1, <2>2 DEF Counted
<1>5. DetectionAge \in Nat \ {0} /\ WatchMax \in Nat \ {0}
  BY Limits
<1>6. \A x \in Sells : x # NoSignal
  BY SignalsDiffer
<1>7. \A name \in EventNames :
         \E f \in Events : /\ f.event = name /\ f.at = n + 1
                           /\ Append(s.events, [event |-> name, at |-> c.at]) = Append(s.events, f)
  BY EventLogged DEF Logged
<1>8. CASE HardExit(s, d) /\ EventsKept(s, d, c)
  <2>1. d.signal # NoSignal /\ d.state.used = s.used
    BY <1>8 DEF HardExit
  <2>2. Counted(d.state, d.signal, first, n + 1)
    BY <1>4, <1>5, <1>8, <2>1 DEF HardExit, Counted
  <2>3. \/ d.state.events = s.events
        \/ \E f \in Events : Adds(s, d.state, f)
    <3>1. PICK f \in Events : /\ f.event = "WATCH_HARD_EXIT"
                              /\ Append(s.events, [event |-> "WATCH_HARD_EXIT", at |-> c.at])
                                    = Append(s.events, f)
      BY <1>7 DEF EventNames
    <3> QED
      BY <1>8, <2>1, <3>1 DEF EventsKept, Adds
  <2> QED
    BY <1>3, <2>1, <2>2, <2>3
<1>9. CASE V2Stays(s, d, c)
  <2>1. d.state.age = s.age + 1 /\ d.state.heldLevel = s.heldLevel
    BY <1>9 DEF V2Stays
  <2>2. d.state.age = n + 1 - first.at + 1 /\ d.state.heldLevel = first.signal.level
    BY <1>4, <2>1
  <2>6. ASSUME d.state.mode # "NONE", d.state.watchBars <= WatchMax,
               d.signal = NoSignal => d.state.watchBars < WatchMax,
               d.state.age >= DetectionAge \/ ~d.state.used,
               d.state.used \/ d.state.mode = "NORMAL_POSITION"
        PROVE  Counted(d.state, d.signal, first, n + 1)
    BY <2>2, <2>6 DEF Counted
  <2>3. CASE WatchBegins(s, d, c)
    <3>1. PICK f \in Events : /\ f.event = "WATCH_STARTED" /\ f.at = n + 1
                              /\ Append(s.events, [event |-> "WATCH_STARTED", at |-> c.at])
                                    = Append(s.events, f)
      BY <1>7 DEF EventNames
    <3>2. /\ ~s.used /\ s.age + 1 >= DetectionAge /\ d.state.used /\ d.signal = NoSignal
          /\ d.state.mode = "FAILURE_WATCH" /\ d.state.watchBars = 0
          /\ d.state.events = Append(s.events, f)
      BY <2>3, <3>1 DEF WatchBegins, FailsNow
    <3>3. Watches(s, d.state, f, first, n + 1)
      <4>1. n + 1 >= first.at + DetectionAge - 1
        BY <1>4, <1>5, <3>2
      <4> QED
        BY <3>1, <3>2, <4>1 DEF Watches
    <3>4. Counted(d.state, d.signal, first, n + 1)
      <4>1. d.state.age >= DetectionAge /\ d.state.watchBars < WatchMax /\ 0 <= WatchMax
        BY <1>5, <2>1, <3>2
      <4> QED
        BY <2>6, <3>2, <4>1
    <3> QED
      BY <1>3, <3>3, <3>4
  <2>4. CASE WatchStays(s, d, c)
    <3>1. /\ ~FailsNow(s, c) /\ s.mode = "NORMAL_POSITION" /\ d.signal = NoSignal
          /\ d.state.mode = s.mode /\ d.state.used = s.used /\ d.state.watchBars = s.watchBars
          /\ d.state.events = s.events
      BY <2>4 DEF WatchStays
    <3>2. ~Fails(c, first, n + 1)
      <4> SUFFICES ASSUME Fails(c, first, n + 1) PROVE FALSE
        OBVIOUS
      <4>1. s.age + 1 = DetectionAge
        BY <1>4, <1>5 DEF Fails
      <4>2. ~s.used
        BY <1>4, <1>5, <4>1
      <4>3. s.age + 1 >= DetectionAge
        BY <1>5, <4>1
      <4> QED
        BY <1>4, <3>1, <4>2, <4>3 DEF Fails, FailsNow
    <3>3. Counted(d.state, d.signal, first, n + 1)
      BY <1>4, <1>5, <2>1, <2>2, <3>1 DEF Counted
    <3> QED
      BY <1>3, <3>1, <3>2, <3>3
  <2>5. CASE s.mode # "NORMAL_POSITION"
    <3>1. s.used /\ s.age >= DetectionAge
      BY <1>4, <2>5
    <3>2. ~Fails(c, first, n + 1)
      BY <1>4, <1>5, <3>1 DEF Fails
    <3>6. d.state.age >= DetectionAge
      BY <1>4, <1>5, <2>1, <3>1
    <3>3. CASE WatchEnds(s, d, c)
      <4>1. PICK f \in Events : /\ f.event = "WATCH_RECOVERED"
                                /\ Append(s.events, [event |-> "WATCH_RECOVERED", at |-> c.at])
                                      = Append(s.events, f)
        BY <1>7 DEF EventNames
      <4>2. /\ d.state.mode = "NORMAL_POSITION" /\ d.state.used = s.used
            /\ d.state.watchBars = 0 /\ d.signal = NoSignal
            /\ d.state.events = Append(s.events, f)
        BY <3>3, <4>1 DEF WatchEnds
      <4>3. Adds(s, d.state, f)
        BY <4>1, <4>2 DEF Adds
      <4>4. Counted(d.state, d.signal, first, n + 1)
        <5>1. d.state.watchBars < WatchMax /\ d.state.watchBars <= WatchMax
          BY <1>5, <4>2
        <5> QED
          BY <2>6, <3>6, <4>2, <5>1
      <4> QED
        BY <1>3, <3>2, <4>3, <4>4
    <3>4. CASE WatchExpires(s, d, c)
      <4>1. PICK f \in Events : /\ f.event = "WATCH_TIMEOUT"
                                /\ Append(s.events, [event |-> "WATCH_TIMEOUT", at |-> c.at])
                                      = Append(s.events, f)
        BY <1>7 DEF EventNames
      <4>2. /\ d.state.mode = s.mode /\ d.state.used = s.used
            /\ d.state.watchBars = s.watchBars + 1
            /\ d.state.events = Append(s.events, f)
        BY <3>4, <4>1 DEF WatchExpires
      <4>3. Adds(s, d.state, f)
        BY <4>1, <4>2 DEF Adds
      <4>4. Sell(c, "WATCH_TIMEOUT") \in Sells
        BY SellFacts DEF Reasons
      <4>5. d.signal # NoSignal
        BY <1>6, <3>4, <4>4 DEF WatchExpires
      <4>6. Counted(d.state, d.signal, first, n + 1)
        <5>1. d.state.watchBars <= WatchMax
          BY <1>4, <1>5, <4>2
        <5> QED
          BY <1>4, <2>6, <3>1, <3>6, <4>2, <4>5, <5>1
      <4> QED
        BY <1>3, <3>2, <4>3, <4>6
    <3>5. CASE WatchGoesOn(s, d, c)
      <4>1. /\ d.state.mode = s.mode /\ d.state.used = s.used /\ d.signal = NoSignal
            /\ d.state.watchBars = s.watchBars + 1 /\ s.watchBars + 1 < WatchMax
            /\ d.state.events = s.events
        BY <3>5 DEF WatchGoesOn
      <4>2. Counted(d.state, d.signal, first, n + 1)
        <5>1. d.state.watchBars <= WatchMax /\ d.state.watchBars < WatchMax
          BY <1>4, <1>5, <4>1
        <5> QED
          BY <1>4, <2>6, <3>1, <3>6, <4>1, <5>1
      <4> QED
        BY <1>3, <3>2, <4>1, <4>2
    <3> QED
      BY <1>9, <2>3, <2>4, <2>5, <3>3, <3>4, <3>5 DEF V2Stays, WatchBegins, WatchStays
  <2> QED
    BY <1>9, <2>3, <2>4, <2>5 DEF V2Stays, WatchEnds, WatchExpires, WatchGoesOn
<1> QED
  BY <1>2, <1>8, <1>9

\* A sale adds the trade of the open position to the replay.
LEMMA SaleReplayed ==
    ASSUME NEW k, NEW cs, NEW n, NEW b \in BookType, Held(b), Traded(k, b, cs, n),
           NEW signal \in Sells, NEW at \in Nat, NEW price \in Int,
           NEW x, SoldFor(b, x, signal, at, price)
    PROVE  LET open == Replayed(b.fills).open
           IN  /\ open \in Opens
               /\ \E t \in TradeType :
                     /\ ToSet(ClosedTrades(x)) = ToSet(ClosedTrades(b)) \cup {t}
                     /\ t.entry = open.first.signal /\ t.entryAt = open.first.at
                     /\ t.exitAt = at /\ t.reason = signal.reason
<1> DEFINE r == Replayed(b.fills)
           q == b.position.quantity
           f == Fill("sell", signal, at, price, q)
           t == Trade(r.open, f)
<1>1. q \in Nat \ {0}
  BY HeldFacts DEF Positions
<1> HIDE DEF q
<1>2. /\ f \in SellFills /\ f.side = "sell" /\ f.at = at /\ f.signal = signal /\ f.quantity = q
  BY <1>1, FillType DEF Fill
<1>3. Replayed(x.fills) = Replay(r, f)
  <2>1. x.fills = Append(b.fills, f)
    BY DEF SoldFor, q
  <2>2. f \in BuyFills \cup SellFills
    BY <1>2
  <2> HIDE DEF f, r
  <2> QED
    BY <2>1, <2>2, ReplayStep DEF r
<1> HIDE DEF r, f
<1>4. /\ r \in [open : {NoEntry} \cup Opens, trades : Seq(TradesOn(k, cs)), ok : {TRUE}]
      /\ r.open # NoEntry /\ r.open.quantity = q
  BY DEF Traded, r, q
<1>5. r.open \in Opens /\ r.trades \in Seq(TradeType)
  <2>1. TradesOn(k, cs) \subseteq TradeType
    BY DEF TradesOn
  <2> QED
    BY <1>4, <2>1
<1>6. /\ t \in TradeType /\ t.entry = r.open.first.signal /\ t.entryAt = r.open.first.at
      /\ t.exitAt = at /\ t.reason = signal.reason
  BY <1>2, <1>5, TradeFacts
<1>7. Replayed(x.fills) = [r EXCEPT !.trades = Append(r.trades, t), !.open = NoEntry]
  BY <1>2, <1>3, <1>4 DEF Replay
<1> HIDE DEF t
<1>8. ClosedTrades(x) = Append(r.trades, t) /\ ClosedTrades(b) = r.trades
  BY <1>4, <1>7 DEF ClosedTrades, r
<1>9. ToSet(ClosedTrades(x)) = ToSet(ClosedTrades(b)) \cup {t}
  BY <1>5, <1>6, <1>8, ToSetAppend
<1> QED
  BY <1>5, <1>6, <1>9 DEF r

\* An entry opens the next one.
LEMMA EntryReplayed ==
    ASSUME NEW k, NEW cs, NEW n, NEW b \in BookType, ~Held(b), Traded(k, b, cs, n),
           b.pending \in Buys, NEW c \in Candles, NEW o, OpensBought(k, b, o, c)
    PROVE  LET first == Replayed(o.fills).open.first
           IN  /\ first \in BuyFills /\ first.at = c.at /\ first.signal = b.pending
               /\ o.fills # <<>> /\ Last(o.fills) = first
               /\ ClosedTrades(o) = ClosedTrades(b)
<1> DEFINE r == Replayed(b.fills)
           f == Fill("buy", b.pending, c.at, c.open, 1)
<1>1. c.at \in Nat /\ c.open \in Int
  BY DEF Candles
<1>2. f \in BuyFills /\ f.side = "buy" /\ f.at = c.at /\ f.signal = b.pending
  BY <1>1, FillType DEF Fill
<1>3. o.fills = Append(b.fills, f)
  BY DEF OpensBought
<1> HIDE DEF f
<1>4. b.fills \in Seq(BuyFills \cup SellFills) /\ f \in BuyFills \cup SellFills
  BY <1>2 DEF BookType
<1>5. Replayed(o.fills) = Replay(r, f)
  BY <1>3, <1>4, ReplayStep
<1> HIDE DEF r
<1>6. r \in [open : {NoEntry} \cup Opens, trades : Seq(TradesOn(k, cs)), ok : {TRUE}]
      /\ r.open = NoEntry
  BY DEF Traded, r
<1>7. Replayed(o.fills) = [r EXCEPT !.open = Entered(f)]
  BY <1>2, <1>5, <1>6 DEF Replay
<1>8. Entered(f).first = f
  BY <1>2, EnteredFacts
<1>9. o.fills # <<>> /\ Last(o.fills) = f
  <2> DEFINE X == BuyFills \cup SellFills
             e == Append(b.fills, f)
  <2>1. Len(e) = Len(b.fills) + 1 /\ e[Len(b.fills) + 1] = f /\ e # <<>>
    <3> HIDE DEF X, e
    <3>1. b.fills \in Seq(X) /\ f \in X
      BY <1>4 DEF X
    <3>2. /\ Append(b.fills, f) # <<>> /\ Len(Append(b.fills, f)) = Len(b.fills) + 1
          /\ Append(b.fills, f)[Len(b.fills) + 1] = f
      BY <3>1, AppendProperties
    <3> QED
      BY <3>2 DEF e
  <2> QED
    BY <1>3, <2>1 DEF Last
<1>10. Replayed(o.fills).open.first = f /\ ClosedTrades(o) = ClosedTrades(b)
  BY <1>6, <1>7, <1>8 DEF ClosedTrades, r
<1> QED
  BY <1>2, <1>9, <1>10

\* The trades of a run stay noticed.
LEMMA TradesStay ==
    ASSUME NEW k, NEW cs, Numbering(cs), NEW n, NEW b \in BookType, Traded(k, b, cs, n),
           TradesNoticed(b, cs), NEW ds, \A i \in 1 .. Len(cs) : ds[i] = cs[i],
           NEW later, ToSet(b.state.events) \subseteq ToSet(later)
    PROVE  \A t \in ToSet(ClosedTrades(b)) :
              Noticed(later, ds, t.entryAt, t.entry.level, t.exitAt - 2)
<1> SUFFICES ASSUME NEW t \in ToSet(ClosedTrades(b))
             PROVE  Noticed(later, ds, t.entryAt, t.entry.level, t.exitAt - 2)
  OBVIOUS
<1>1. t \in TradesOn(k, cs)
  BY DEF Traded, ClosedTrades, ToSet
<1>2. /\ t.entryAt \in Nat \ {0} /\ t.exitAt \in Int /\ t.exitAt <= Len(cs) /\ Len(cs) \in Nat
  BY <1>1 DEF TradesOn, TradeOn, EntryOn, Numbering
<1>3. Noticed(b.state.events, cs, t.entryAt, t.entry.level, t.exitAt - 2)
  BY DEF TradesNoticed
<1>4. \A i \in 1 .. t.exitAt - 2 : ds[i] = cs[i]
  BY <1>2
<1>5. t.exitAt - 2 \in Int /\ t.exitAt - 2 <= t.exitAt - 2
  BY <1>2
<1>6. ASSUME NEW from \in Nat \ {0}, NEW level, NEW m \in Int, \A i \in 1 .. m : ds[i] = cs[i],
             m <= m, Noticed(b.state.events, cs, from, level, m)
      PROVE  Noticed(later, ds, from, level, m)
  BY <1>6, NoticedStays
<1> QED
  BY <1>2, <1>3, <1>4, <1>5, <1>6

\* A sale closes a noticed trade.
LEMMA SaleNoticed ==
    ASSUME NEW k, NEW cs, Numbering(cs), NEW n \in Int, NEW b \in BookType, Held(b),
           Traded(k, b, cs, n), TradesNoticed(b, cs),
           NEW ds, \A i \in 1 .. Len(cs) : ds[i] = cs[i],
           NEW signal \in Sells, NEW at \in Nat, NEW price \in Int,
           NEW x, SoldFor(b, x, signal, at, price),
           ToSet(b.state.events) \subseteq ToSet(x.state.events),
           NEW m \in Int, at - 2 <= m, m <= Len(cs),
           Noticed(b.state.events, cs, Replayed(b.fills).open.first.at,
                   Replayed(b.fills).open.first.signal.level, m)
    PROVE  TradesNoticed(x, ds)
<1> DEFINE open == Replayed(b.fills).open
<1>1. open \in Opens
  BY SaleReplayed
<1>2. PICK t \in TradeType :
         /\ ToSet(ClosedTrades(x)) = ToSet(ClosedTrades(b)) \cup {t}
         /\ t.entry = open.first.signal /\ t.entryAt = open.first.at /\ t.exitAt = at
  BY SaleReplayed
<1>3. open.first.at \in 2 .. Len(cs) /\ Len(cs) \in Nat
  BY DEF Traded, OpenOn, EntryOn, Numbering
<1>4. Noticed(b.state.events, cs, open.first.at, open.first.signal.level, m)
  OBVIOUS
<1> HIDE DEF open
<1>5. Noticed(x.state.events, ds, t.entryAt, t.entry.level, t.exitAt - 2)
  <2> DEFINE from == t.entryAt
             level == t.entry.level
             last == t.exitAt - 2
             events == b.state.events
             later == x.state.events
  <2>1. from \in Nat \ {0} /\ last \in Int /\ last <= m
    BY <1>2, <1>3
  <2>2. \A i \in 1 .. m : ds[i] = cs[i]
    BY <1>3
  <2>3. Noticed(events, cs, from, level, m)
    BY <1>2, <1>4
  <2>4. ToSet(events) \subseteq ToSet(later)
    OBVIOUS
  <2> HIDE DEF from, level, last, events, later
  <2>5. Noticed(later, ds, from, level, last)
    BY <2>1, <2>2, <2>3, <2>4, NoticedStays
  <2> QED
    BY <2>5 DEF from, level, last, later
<1>6. \A u \in ToSet(ClosedTrades(b)) :
         Noticed(x.state.events, ds, u.entryAt, u.entry.level, u.exitAt - 2)
  BY TradesStay
<1> QED
  BY <1>2, <1>5, <1>6 DEF TradesNoticed

\* The open of a candle keeps the audit of V2 and its counters on the position.
LEMMA FollowedOpens ==
    ASSUME NEW cs, Numbering(cs), NEW c \in Candles, c.at = Len(cs) + 1,
           NEW k \in Strategies, k = "breakout_v2",
           NEW b, Well(k, b), Booked(k, b, cs), Followed(b, cs, Len(cs)),
           NEW refuse \in BOOLEAN, NEW o, o = Opened(k, b, c, refuse)
    PROVE  Followed(o, Append(cs, c), Len(cs))
<1> DEFINE ds == Append(cs, c)
           n == Len(cs)
           events == b.state.events
           first == Replayed(b.fills).open.first
<1>1. n \in Nat /\ \A i \in 1 .. n : ds[i] = cs[i]
  BY AppendedFacts
<1>2. /\ o \in BookType /\ o.pending = NoSignal
      /\ \/ OpensSold(k, b, o, c) \/ OpensBought(k, b, o, c) \/ OpensKept(b, o)
  BY OpenedCases
<1>3. b \in BookType /\ b.state \in States /\ events \in Seq(Events) /\ c.at \in Nat /\ c.open \in Int
  BY DEF Well, BookType, States, Candles
<1>4. NoSignal \notin Sells /\ k \in Breakouts
  BY SignalsDiffer DEF Breakouts
<1>5. Traded(k, b, cs, Survived(b, cs)) /\ InOrder(events) /\ TradesNoticed(b, cs)
  BY DEF Booked, Followed
<1>6. Held(b) =>
         /\ b.fills # <<>> /\ Last(b.fills) = first
         /\ Counted(b.state, b.pending, first, n)
         /\ Anchored(events, first.at, b.state.used)
         /\ Noticed(events, cs, first.at, first.signal.level, IF b.pending \in Sells THEN n - 1 ELSE n)
  BY DEF Followed
<1>7. CASE OpensSold(k, b, o, c)
  <2>1. /\ b.pending \in Sells /\ Held(b) /\ ~Held(o)
        /\ SoldFor(b, o, b.pending, c.at, c.open) /\ o.state = FilledSell(k, b.state, c)
    BY <1>7 DEF OpensSold
  <2>2. o.state.events = Logged(b.state, "CLOSED", c)
    BY <1>3, <2>1, FilledSellFacts
  <2>3. PICK f \in Events : f.event = "CLOSED" /\ o.state.events = Append(events, f)
    <3>1. "CLOSED" \in EventNames
      BY DEF EventNames
    <3> QED
      BY <1>3, <2>2, <3>1, EventLogged
  <2>4. InOrder(o.state.events)
    BY <1>3, <1>5, <2>3, OrderKept
  <2>5. ToSet(events) \subseteq ToSet(o.state.events)
    <3>1. events \in Seq(Events) /\ f \in Events
      BY <1>3
    <3> HIDE DEF events
    <3>2. ToSet(Append(events, f)) = ToSet(events) \cup {f}
      BY <3>1, ToSetAppend
    <3>3. ToSet(o.state.events) = ToSet(events) \cup {f}
      BY <2>3, <3>2
    <3> QED
      BY <3>3
  <2>6. Survived(b, cs) \in Int /\ n - 1 \in Int /\ c.at - 2 <= n - 1 /\ n - 1 <= Len(cs)
    BY <1>1 DEF Survived
  <2>7. Noticed(events, cs, first.at, first.signal.level, n - 1)
    BY <1>6, <2>1
  <2>8. TradesNoticed(o, ds)
    <3> HIDE DEF ds
    <3>1. \A i \in 1 .. Len(cs) : ds[i] = cs[i]
      BY <1>1
    <3>2. ASSUME NEW m \in Int, c.at - 2 <= m, m <= Len(cs),
                 Noticed(events, cs, first.at, first.signal.level, m)
          PROVE  TradesNoticed(o, ds)
      BY <1>3, <1>5, <2>1, <2>5, <2>6, <3>1, <3>2, SaleNoticed
    <3> QED
      BY <2>6, <2>7, <3>2
  <2> QED
    BY <2>1, <2>4, <2>8 DEF Followed
<1>8. CASE OpensBought(k, b, o, c)
  <2>1. b.pending \in Buys /\ o.state = FilledBuy(k, b.state, b.pending, c)
    BY <1>8 DEF OpensBought
  <2>2. ~Held(b)
    BY <1>4, <2>1 DEF Well
  <2>3. /\ o.state \in States
        /\ o.state.mode = "NORMAL_POSITION" /\ o.state.heldLevel = b.pending.level
        /\ o.state.age = 0 /\ ~o.state.used /\ o.state.watchBars = 0
        /\ o.state.events = Logged(b.state, "STARTED", c)
    BY <1>3, <2>1, FilledBuyFacts
  <2>4. PICK f \in Events :
           f.event = "STARTED" /\ f.at = c.at /\ o.state.events = Append(events, f)
    <3>1. "STARTED" \in EventNames
      BY DEF EventNames
    <3>2. PICK f \in Events : /\ f.event = "STARTED" /\ f.at = c.at
                              /\ Logged(b.state, "STARTED", c) = Append(events, f)
      BY <1>3, <3>1, EventLogged
    <3> QED
      BY <2>3, <3>2
  <2>5. InOrder(o.state.events)
    BY <1>3, <1>5, <2>4, OrderKept
  <2>6. ToSet(events) \subseteq ToSet(o.state.events)
    <3>1. events \in Seq(Events) /\ f \in Events
      BY <1>3
    <3> HIDE DEF events
    <3>2. ToSet(Append(events, f)) = ToSet(events) \cup {f}
      BY <3>1, ToSetAppend
    <3>3. ToSet(o.state.events) = ToSet(events) \cup {f}
      BY <2>4, <3>2
    <3> QED
      BY <3>3
  <2> DEFINE opened == Replayed(o.fills).open.first
  <2>7. /\ opened \in BuyFills /\ opened.at = c.at /\ opened.signal = b.pending
        /\ o.fills # <<>> /\ Last(o.fills) = opened /\ ClosedTrades(o) = ClosedTrades(b)
    BY <1>3, <1>5, <1>8, <2>1, <2>2, EntryReplayed
  <2> HIDE DEF opened
  <2>8. TradesNoticed(o, ds)
    <3>1. \A t \in ToSet(ClosedTrades(b)) :
             Noticed(o.state.events, ds, t.entryAt, t.entry.level, t.exitAt - 2)
      <4> HIDE DEF ds
      <4> QED
        BY <1>1, <1>3, <1>5, <2>6, TradesStay
    <3> QED
      BY <2>7, <3>1 DEF TradesNoticed
  <2>9. Counted(o.state, o.pending, opened, n)
    <3>1. n - opened.at + 1 = 0 /\ 0 < WatchMax /\ 0 <= WatchMax
      BY <1>1, <2>7, Limits
    <3> QED
      BY <1>2, <2>3, <2>7, <3>1 DEF Counted
  <2>10. Anchored(o.state.events, opened.at, o.state.used)
    <3>1. o.state.used \in BOOLEAN
      BY <2>3 DEF States
    <3>2. Anchored(o.state.events, f.at, o.state.used)
      BY <1>3, <2>4, <3>1, AnchorSet
    <3> QED
      BY <2>4, <2>7, <3>2
  <2>11. Noticed(o.state.events, ds, opened.at, opened.signal.level, n)
    <3>1. ~(opened.at + DetectionAge - 1 <= n)
      BY <1>1, <2>7, Limits
    <3> QED
      BY <3>1 DEF Noticed
  <2>12. o.pending \notin Sells
    BY <1>2, <1>4
  <2> QED
    BY <2>5, <2>7, <2>8, <2>9, <2>10, <2>11, <2>12 DEF Followed, opened
<1>9. CASE OpensKept(b, o)
  <2>1. /\ b.pending \notin Sells /\ o.state = b.state /\ o.fills = b.fills /\ (Held(o) <=> Held(b))
    BY <1>9 DEF OpensKept
  <2>2. TradesNoticed(o, ds)
    <3>1. \A t \in ToSet(ClosedTrades(b)) :
             Noticed(events, ds, t.entryAt, t.entry.level, t.exitAt - 2)
      <4> HIDE DEF ds
      <4> QED
        BY <1>1, <1>3, <1>5, TradesStay
    <3> QED
      BY <2>1, <3>1 DEF TradesNoticed, ClosedTrades
  <2>3. Held(b) => b.pending = NoSignal
    BY <1>3, <1>4, <2>1, PendingKinds DEF Well
  <2>4. ASSUME Held(b) PROVE Noticed(events, ds, first.at, first.signal.level, n)
    <3>1. Noticed(events, cs, first.at, first.signal.level, n)
      BY <1>6, <2>1, <2>4
    <3>2. first.at \in Nat \ {0}
      BY <1>1, <1>5, <2>4 DEF Traded, OpenOn, EntryOn
    <3>3. n \in Int /\ n <= n
      BY <1>1
    <3> DEFINE from == first.at
               level == first.signal.level
    <3>4. ToSet(events) \subseteq ToSet(events)
      OBVIOUS
    <3> HIDE DEF ds, n, first, from, level, events
    <3>5. from \in Nat \ {0} /\ Noticed(events, cs, from, level, n)
      BY <3>1, <3>2 DEF from, level
    <3>6. Noticed(events, ds, from, level, n)
      BY <1>1, <3>3, <3>4, <3>5, NoticedStays
    <3> QED
      BY <3>6 DEF from, level
  <2> QED
    BY <1>2, <1>4, <1>5, <1>6, <2>1, <2>2, <2>3, <2>4 DEF Followed
<1> QED
  BY <1>2, <1>7, <1>8, <1>9

\* So does the rest of the candle.
LEMMA FollowedEnds ==
    ASSUME NEW ds, Numbering(ds), NEW c \in Candles, NEW n \in Nat, Len(ds) = n + 1,
           ds[n + 1] = c, c.at = n + 1, NEW k \in Strategies, k = "breakout_v2",
           NEW o \in BookType, o.pending = NoSignal, Traded(k, o, ds, n), Followed(o, ds, n),
           NEW x \in BookType, EndsByLevel(o, x, c) \/ EndsHeld(k, o, x, c) \/ EndsFlat(k, o, x, c)
    PROVE  Followed(x, ds, n + 1)
<1> DEFINE events == o.state.events
           first == Replayed(o.fills).open.first
<1>1. o.state \in States /\ events \in Seq(Events) /\ x.state \in States /\ k \in Breakouts
  BY DEF BookType, States, Breakouts
<1>2. NoSignal \notin Sells
  BY SignalsDiffer
<1>3. InOrder(events) /\ TradesNoticed(o, ds)
  BY DEF Followed
<1>4. Held(o) =>
         /\ o.fills # <<>> /\ Last(o.fills) = first
         /\ Counted(o.state, NoSignal, first, n)
         /\ Anchored(events, first.at, o.state.used)
         /\ Noticed(events, ds, first.at, first.signal.level, n)
         /\ first \in BuyFills /\ first.at \in 2 .. n + 1
  BY <1>2 DEF Followed, Traded, OpenOn, EntryOn, Opens
<1>5. CASE EndsByLevel(o, x, c)
  <2>1. Held(o) /\ ~Held(x) /\ x.state = o.state
    BY <1>5 DEF EndsByLevel
  <2>2. PICK signal \in Sells, price \in Int : SoldFor(o, x, signal, n + 1, price)
    BY <1>5 DEF EndsByLevel
  <2>3. /\ n \in Int /\ n + 1 \in Nat /\ n + 1 - 2 <= n /\ n <= Len(ds)
        /\ \A i \in 1 .. Len(ds) : ds[i] = ds[i]
    OBVIOUS
  <2>4. ToSet(o.state.events) \subseteq ToSet(x.state.events)
    BY <2>1
  <2>5. TradesNoticed(x, ds)
    <3>1. Noticed(o.state.events, ds, Replayed(o.fills).open.first.at,
                  Replayed(o.fills).open.first.signal.level, n)
      BY <1>4, <2>1
    <3>2. ASSUME NEW at \in Nat, SoldFor(o, x, signal, at, price), at - 2 <= n
          PROVE  TradesNoticed(x, ds)
      BY <1>3, <2>1, <2>3, <2>4, <3>1, <3>2, SaleNoticed
    <3> QED
      BY <2>2, <2>3, <3>2
  <2> QED
    BY <1>3, <2>1, <2>5 DEF Followed
<1>6. CASE EndsFlat(k, o, x, c)
  <2> DEFINE d == ShouldEnter(k, o.state, c)
  <2>1. ~Held(x) /\ x.fills = o.fills /\ x.state = d.state
    BY <1>6 DEF EndsFlat, Kept
  <2>2. d.state.events = events
    BY <1>1, ShouldEnterFacts
  <2>3. x.state.events = events
    BY <2>1, <2>2
  <2> QED
    BY <1>3, <2>1, <2>3 DEF Followed, TradesNoticed, ClosedTrades
<1>7. CASE EndsHeld(k, o, x, c)
  <2> DEFINE p == Aged(o.position)
             d == ShouldExit("breakout_v2", o.state, p, c)
             s == o.state
  <2>1. Held(o) /\ Held(x) /\ x.fills = o.fills /\ x.state = d.state /\ x.pending = d.signal
    BY <1>7 DEF EndsHeld, Kept
  <2>2. first.at \in 1 .. n + 1 /\ first.at \in Nat \ {0} /\ first \in BuyFills
    BY <1>4, <2>1
  <2>3. Counted(s, NoSignal, first, n) /\ Anchored(events, first.at, s.used) /\ s.used \in BOOLEAN
    BY <1>1, <1>4, <2>1 DEF States
  <2> HIDE DEF first, p
  <2>4. /\ Counted(d.state, d.signal, first, n + 1)
        /\ d.signal = NoSignal \/ d.signal \in Sells
        /\ \/ /\ d.state.events = s.events /\ d.state.used = s.used
              /\ d.signal = NoSignal => ~Fails(c, first, n + 1)
           \/ \E f \in Events :
                 /\ Adds(s, d.state, f)
                 /\ d.signal = NoSignal => ~Fails(c, first, n + 1)
           \/ \E f \in Events : Watches(s, d.state, f, first, n + 1)
    BY <1>1, <2>2, <2>3, WatchStep
  <2> HIDE DEF d
  <2>5. d.state.used \in BOOLEAN
    BY <1>1, <2>1 DEF States
  <2>6. /\ InOrder(d.state.events) /\ Anchored(d.state.events, first.at, d.state.used)
        /\ ToSet(events) \subseteq ToSet(d.state.events)
        /\ d.signal = NoSignal /\ Fails(c, first, n + 1) =>
              \E e \in ToSet(d.state.events) : e.at = n + 1 /\ e.event = "WATCH_STARTED"
    <3>1. CASE d.state.events = s.events /\ d.state.used = s.used
               /\ (d.signal = NoSignal => ~Fails(c, first, n + 1))
      BY <1>3, <2>3, <3>1
    <3>2. ASSUME NEW f \in Events, Adds(s, d.state, f),
                 d.signal = NoSignal => ~Fails(c, first, n + 1)
          PROVE  /\ InOrder(d.state.events) /\ Anchored(d.state.events, first.at, d.state.used)
                 /\ ToSet(events) \subseteq ToSet(d.state.events)
                 /\ d.signal = NoSignal /\ Fails(c, first, n + 1) =>
                       \E e \in ToSet(d.state.events) : e.at = n + 1 /\ e.event = "WATCH_STARTED"
      <4> DEFINE e == d.state.events
                 later == d.state.used
      <4>1. /\ e = Append(events, f) /\ later = s.used
            /\ f.event # "STARTED" /\ f.event # "WATCH_STARTED"
        BY <3>2 DEF Adds
      <4> HIDE DEF e, later
      <4>2. InOrder(e)
        BY <1>1, <1>3, <4>1, OrderKept
      <4>3. Anchored(e, first.at, later)
        BY <1>1, <2>2, <2>3, <4>1, AnchorKept
      <4>4. ToSet(e) = ToSet(events) \cup {f}
        BY <1>1, <4>1, ToSetAppend
      <4> QED
        BY <3>2, <4>2, <4>3, <4>4 DEF e, later
    <3>3. ASSUME NEW f \in Events, Watches(s, d.state, f, first, n + 1)
          PROVE  /\ InOrder(d.state.events) /\ Anchored(d.state.events, first.at, d.state.used)
                 /\ ToSet(events) \subseteq ToSet(d.state.events)
                 /\ d.signal = NoSignal /\ Fails(c, first, n + 1) =>
                       \E e \in ToSet(d.state.events) : e.at = n + 1 /\ e.event = "WATCH_STARTED"
      <4> DEFINE e == d.state.events
                 later == d.state.used
      <4>1. /\ e = Append(events, f) /\ ~s.used /\ later
            /\ f.event = "WATCH_STARTED" /\ f.at = n + 1 /\ f.at >= first.at + DetectionAge - 1
            /\ f.event # "STARTED"
        BY <3>3 DEF Watches
      <4> HIDE DEF e, later
      <4>2. InOrder(e)
        BY <1>1, <1>3, <2>2, <2>3, <4>1, OrderWatched
      <4>3. Anchored(e, first.at, later)
        <5>1. later \in BOOLEAN
          BY <2>5 DEF later
        <5> QED
          BY <1>1, <2>2, <2>3, <4>1, <5>1, AnchorKept
      <4>4. ToSet(e) = ToSet(events) \cup {f}
        BY <1>1, <4>1, ToSetAppend
      <4> QED
        BY <4>1, <4>2, <4>3, <4>4 DEF e, later
    <3> QED
      BY <2>4, <3>1, <3>2, <3>3
  <2>7. TradesNoticed(x, ds)
    <3>1. \A i \in 1 .. Len(ds) : ds[i] = ds[i]
      OBVIOUS
    <3>2. \A t \in ToSet(ClosedTrades(o)) :
             Noticed(d.state.events, ds, t.entryAt, t.entry.level, t.exitAt - 2)
      BY <1>3, <2>6, <3>1, TradesStay
    <3> QED
      BY <2>1, <3>2 DEF TradesNoticed, ClosedTrades
  <2>8. Noticed(d.state.events, ds, first.at, first.signal.level, n)
    <3> DEFINE from == first.at
               level == first.signal.level
               later == d.state.events
    <3>1. from \in Nat \ {0} /\ n \in Int /\ n <= n /\ \A i \in 1 .. n : ds[i] = ds[i]
      BY <2>2
    <3>2. Noticed(events, ds, from, level, n) /\ ToSet(events) \subseteq ToSet(later)
      BY <1>4, <2>1, <2>6 DEF first
    <3> HIDE DEF from, level, later, events
    <3>3. Noticed(later, ds, from, level, n)
      BY <3>1, <3>2, NoticedStays
    <3> QED
      BY <3>3 DEF from, level, later
  <2>9. d.signal = NoSignal => Noticed(d.state.events, ds, first.at, first.signal.level, n + 1)
    <3> SUFFICES ASSUME d.signal = NoSignal, first.at + DetectionAge - 1 <= n + 1,
                        StructureKnown(ds[first.at + DetectionAge - 1]),
                        BelowStructure(ds[first.at + DetectionAge - 1], first.signal.level)
                 PROVE  \E e \in ToSet(d.state.events) :
                           e.at = first.at + DetectionAge - 1 /\ e.event = "WATCH_STARTED"
      BY DEF Noticed
    <3>1. first.at + DetectionAge - 1 \in Nat
      BY <2>2, Limits
    <3>2. CASE first.at + DetectionAge - 1 <= n
      BY <2>8, <3>2 DEF Noticed
    <3>3. CASE first.at + DetectionAge - 1 = n + 1
      <4>1. Fails(c, first, n + 1)
        BY <3>3 DEF Fails
      <4> QED
        BY <2>6, <3>3, <4>1
    <3> QED
      BY <3>1, <3>2, <3>3
  <2>10. Noticed(d.state.events, ds, first.at, first.signal.level,
                 IF d.signal \in Sells THEN n + 1 - 1 ELSE n + 1)
    <3>1. n + 1 - 1 = n
      OBVIOUS
    <3> QED
      BY <1>2, <2>4, <2>8, <2>9, <3>1
  <2> QED
    BY <1>4, <2>1, <2>4, <2>6, <2>7, <2>10 DEF Followed, first
<1> QED
  BY <1>5, <1>6, <1>7

\* A whole candle keeps the audit of V2 and its counters on the position.
LEMMA FollowedStepped ==
    ASSUME NEW cs, Numbering(cs), NEW c \in Candles, c.at = Len(cs) + 1,
           NEW k \in Strategies, k = "breakout_v2",
           NEW b, Well(k, b), Booked(k, b, cs), Followed(b, cs, Len(cs)),
           NEW refuse \in BOOLEAN, NEW x, x = Stepped(k, b, c, refuse)
    PROVE  Followed(x, Append(cs, c), Len(cs) + 1)
<1> DEFINE ds == Append(cs, c)
           o == Opened(k, b, c, refuse)
<1>1. /\ Numbering(ds) /\ Len(cs) \in Nat /\ Len(ds) = Len(cs) + 1 /\ ds[Len(cs) + 1] = c
  BY AppendedFacts
<1>2. o \in BookType /\ o.pending = NoSignal
  BY OpenedCases
<1>3. Well(k, x) /\ (EndsByLevel(o, x, c) \/ EndsHeld(k, o, x, c) \/ EndsFlat(k, o, x, c))
  BY SteppedCases
<1>4. Traded(k, o, ds, Len(cs)) /\ Followed(o, ds, Len(cs))
  BY BookedOpens, FollowedOpens
<1>5. x \in BookType
  BY <1>3 DEF Well
<1> HIDE DEF ds, o
<1>6. Followed(x, ds, Len(cs) + 1)
  BY <1>1, <1>2, <1>3, <1>4, <1>5, FollowedEnds
<1> QED
  BY <1>6 DEF ds
-----------------------------------------------------------------------------
(* V1 and V2 are one strategy but for the watch.                           *)

\* Strategies that agree on all but the watch.
LEMMA CoreIs ==
    ASSUME NEW s, NEW t
    PROVE  Core(s) = Core(t) <=>
              /\ s.phase = t.phase /\ s.armedAt = t.armedAt /\ s.bars = t.bars
              /\ s.level = t.level /\ s.highs = t.highs /\ s.seen = t.seen /\ s.prior = t.prior
              /\ s.rsi = t.rsi /\ s.dca = t.dca /\ s.trailing = t.trailing
BY DEF Core

\* observe() sees no watch.
LEMMA CoreObserved ==
    ASSUME NEW s \in States, NEW t \in States, Core(s) = Core(t), NEW c \in Candles
    PROVE  Core(Observe(s, c)) = Core(Observe(t, c))
<1>1. /\ s.phase = t.phase /\ s.armedAt = t.armedAt /\ s.bars = t.bars
      /\ s.level = t.level /\ s.highs = t.highs /\ s.seen = t.seen /\ s.prior = t.prior
      /\ s.rsi = t.rsi /\ s.dca = t.dca /\ s.trailing = t.trailing
  BY CoreIs
<1> DEFINE prior == IF Len(s.highs) >= Lookback THEN Max(ToSet(s.highs)) ELSE Absent
           more == Append(s.highs, c.high)
           highs == IF Len(more) > Lookback THEN Tail(more) ELSE more
           sn == [s EXCEPT !.seen = c.at, !.prior = prior, !.highs = highs]
           tn == [t EXCEPT !.seen = c.at, !.prior = prior, !.highs = highs]
<1>2. /\ Observe(s, c) = IF s.seen = c.at THEN s ELSE sn
      /\ Observe(t, c) = IF s.seen = c.at THEN t ELSE tn
  BY <1>1 DEF Observe
<1> HIDE DEF prior, highs
<1>3. Core(sn) = Core(tn)
  BY <1>1 DEF States, Core
<1> HIDE DEF sn, tn
<1> QED
  BY <1>2, <1>3

\* The hard exit sees no watch.
LEMMA CoreExits ==
    ASSUME NEW s \in States, NEW t \in States, Core(s) = Core(t), NEW p, NEW c \in Candles,
           NEW d, d = BaseExit(s, p, c), NEW e, e = BaseExit(t, p, c)
    PROVE  d.signal = e.signal /\ Core(d.state) = Core(e.state)
<1>1. /\ s.phase = t.phase /\ s.armedAt = t.armedAt /\ s.bars = t.bars
      /\ s.level = t.level /\ s.highs = t.highs /\ s.seen = t.seen /\ s.prior = t.prior
      /\ s.rsi = t.rsi /\ s.dca = t.dca /\ s.trailing = t.trailing
  BY CoreIs
<1> DEFINE trailing == IF TrailingActive(p, c, s.trailing) THEN TrailingHigh(c, s.trailing)
                       ELSE s.trailing
           sm == [s EXCEPT !.trailing = trailing]
           tm == [t EXCEPT !.trailing = trailing]
           sr == [s EXCEPT !.trailing = Absent]
           tr == [t EXCEPT !.trailing = Absent]
           hit == trailing # Absent /\ TrailingHit(c, trailing)
<1>2. sm.trailing = trailing /\ tm.trailing = trailing
  BY DEF States
<1>3. Core(sm) = Core(tm) /\ Core(sr) = Core(tr)
  <2> HIDE DEF trailing
  <2> QED
    BY <1>1 DEF States, Core
<1>4. /\ d = IF HoldingExpired(p, MaxHolding) THEN Decision(s, Sell(c, "MAX_HOLDING"))
             ELSE IF c.regime = "TREND_DOWN" THEN Decision(s, Sell(c, "TREND_DOWN"))
             ELSE IF hit THEN Decision(sr, Sell(c, "TRAILING"))
             ELSE IF ProfitReached(p, c) THEN Decision(sm, Sell(c, "TAKE_PROFIT"))
             ELSE Decision(sm, NoSignal)
      /\ e = IF HoldingExpired(p, MaxHolding) THEN Decision(t, Sell(c, "MAX_HOLDING"))
             ELSE IF c.regime = "TREND_DOWN" THEN Decision(t, Sell(c, "TREND_DOWN"))
             ELSE IF hit THEN Decision(tr, Sell(c, "TRAILING"))
             ELSE IF ProfitReached(p, c) THEN Decision(tm, Sell(c, "TAKE_PROFIT"))
             ELSE Decision(tm, NoSignal)
  BY <1>1, <1>2 DEF BaseExit, Wait
<1> HIDE DEF sm, tm, sr, tr, hit
<1>5. \A a, x : Decision(a, x).state = a /\ Decision(a, x).signal = x
  BY DEF Decision
<1> HIDE DEF Decision
<1> QED
  BY <1>3, <1>4, <1>5

\* should_enter of a breakout sees no watch.
LEMMA CoreEnters ==
    ASSUME NEW s \in States, NEW t \in States, Core(s) = Core(t), NEW c \in Candles,
           NEW d, d = BreakoutEnter(s, c), NEW e, e = BreakoutEnter(t, c)
    PROVE  d.signal = e.signal /\ Core(d.state) = Core(e.state)
<1> DEFINE so == Observe(s, c)
           to == Observe(t, c)
<1>1. so \in States /\ to \in States /\ Core(so) = Core(to)
  BY ObserveFacts, CoreObserved
<1>2. /\ d = IF so.phase = "ARMED"
             THEN IF BreakoutLost(Older(so), c) THEN Wait(Idle(so))
                  ELSE IF RetestHeld(Older(so), c) THEN Decision(Idle(so), Buy(c, Older(so), 0))
                  ELSE Wait(Older(so))
             ELSE IF BreaksOut(so, c)
                  THEN Wait([so EXCEPT !.phase = "ARMED", !.armedAt = c.at, !.level = so.prior,
                                       !.bars = 0])
                  ELSE Wait(so)
      /\ e = IF to.phase = "ARMED"
             THEN IF BreakoutLost(Older(to), c) THEN Wait(Idle(to))
                  ELSE IF RetestHeld(Older(to), c) THEN Decision(Idle(to), Buy(c, Older(to), 0))
                  ELSE Wait(Older(to))
             ELSE IF BreaksOut(to, c)
                  THEN Wait([to EXCEPT !.phase = "ARMED", !.armedAt = c.at, !.level = to.prior,
                                       !.bars = 0])
                  ELSE Wait(to)
  BY DEF BreakoutEnter
<1> HIDE DEF so, to
<1>3. /\ so.phase = to.phase /\ so.armedAt = to.armedAt /\ so.bars = to.bars
      /\ so.level = to.level /\ so.highs = to.highs /\ so.seen = to.seen /\ so.prior = to.prior
      /\ so.rsi = to.rsi /\ so.dca = to.dca /\ so.trailing = to.trailing
  BY <1>1, CoreIs
<1> DEFINE sa == [so EXCEPT !.phase = "ARMED", !.armedAt = c.at, !.level = so.prior, !.bars = 0]
           ta == [to EXCEPT !.phase = "ARMED", !.armedAt = c.at, !.level = to.prior, !.bars = 0]
           lost == BreakoutLost(Older(so), c)
           held == RetestHeld(Older(so), c)
           buy == Buy(c, Older(so), 0)
           out == BreaksOut(so, c)
<1>4. Core(sa) = Core(ta) /\ Core(Idle(so)) = Core(Idle(to)) /\ Core(Older(so)) = Core(Older(to))
  BY <1>1, <1>3 DEF States, Core, Idle, Older
<1>5. /\ Older(to).bars = Older(so).bars /\ Older(to).level = Older(so).level
      /\ Older(to).armedAt = Older(so).armedAt
  BY <1>4, CoreIs
<1>6. /\ BreakoutLost(Older(to), c) = lost /\ RetestHeld(Older(to), c) = held
      /\ Buy(c, Older(to), 0) = buy
  BY <1>5 DEF BreakoutLost, RetestHeld, Buy
<1>7. BreaksOut(to, c) = out
  BY <1>3 DEF BreaksOut
<1>8. /\ d = IF so.phase = "ARMED"
             THEN IF lost THEN Decision(Idle(so), NoSignal)
                  ELSE IF held THEN Decision(Idle(so), buy) ELSE Decision(Older(so), NoSignal)
             ELSE IF out THEN Decision(sa, NoSignal) ELSE Decision(so, NoSignal)
      /\ e = IF so.phase = "ARMED"
             THEN IF lost THEN Decision(Idle(to), NoSignal)
                  ELSE IF held THEN Decision(Idle(to), buy) ELSE Decision(Older(to), NoSignal)
             ELSE IF out THEN Decision(ta, NoSignal) ELSE Decision(to, NoSignal)
  <2> HIDE DEF sa, ta, lost, held, buy, out
  <2>1. \A a : Wait(a) = Decision(a, NoSignal)
    BY DEF Wait
  <2> QED
    BY <1>2, <1>3, <1>6, <1>7, <2>1 DEF sa, ta, lost, held, buy, out
<1>9. \A a, x : Decision(a, x).state = a /\ Decision(a, x).signal = x
  BY DEF Decision
<1> HIDE DEF sa, ta, lost, held, buy, out, Decision
<1> QED
  BY <1>1, <1>4, <1>8, <1>9

\* Told of the same purchase, they forget the same trailing stop.
LEMMA CoreFilled ==
    ASSUME NEW s \in States, NEW t \in States, Core(s) = Core(t), NEW signal \in Buys,
           NEW c \in Candles
    PROVE  Core(FilledBuy("breakout", s, signal, c)) = Core(FilledBuy("breakout_v2", t, signal, c))
<1>1. /\ s.phase = t.phase /\ s.armedAt = t.armedAt /\ s.bars = t.bars
      /\ s.level = t.level /\ s.highs = t.highs /\ s.seen = t.seen /\ s.prior = t.prior
      /\ s.rsi = t.rsi /\ s.dca = t.dca /\ s.trailing = t.trailing
  BY CoreIs
<1> DEFINE trailing == IF signal.dca = 0 THEN Absent ELSE s.trailing
           sc == [s EXCEPT !.trailing = trailing]
           tc == [t EXCEPT !.trailing = trailing]
           tu == [Unmanaged(tc) EXCEPT !.mode = "NORMAL_POSITION", !.heldLevel = signal.level]
<1>2. /\ FilledBuy("breakout", s, signal, c) = sc
      /\ FilledBuy("breakout_v2", t, signal, c) = Event(tu, "STARTED", c)
  BY <1>1 DEF FilledBuy
<1>3. trailing \in Nat
  BY DEF States, Absent
<1> HIDE DEF trailing
<1>4. Core(sc) = Core(tc) /\ tc \in States
  BY <1>1, <1>3 DEF States, Core
<1> HIDE DEF sc, tc
<1>5. Core(tu) = Core(tc) /\ tu \in States
  <2> DEFINE v == Unmanaged(tc)
  <2>1. v \in States /\ Core(v) = Core(tc)
    BY <1>4, UnmanagedFacts
  <2> HIDE DEF v
  <2>2. tu = [v EXCEPT !.mode = "NORMAL_POSITION", !.heldLevel = signal.level]
    BY DEF v
  <2>3. signal.level \in Nat
    BY DEF Buys
  <2> HIDE DEF tu
  <2> QED
    BY <2>1, <2>2, <2>3 DEF States, Core
<1> HIDE DEF tu
<1>6. Core(Event(tu, "STARTED", c)) = Core(tu)
  <2>1. "STARTED" \in EventNames
    BY DEF EventNames
  <2>2. Event(tu, "STARTED", c) =
           [tu EXCEPT !.events = Append(tu.events, [event |-> "STARTED", at |-> c.at])]
    BY <1>5, <2>1, EventFacts
  <2> QED
    BY <1>5, <2>2 DEF States, Core
<1> QED
  BY <1>2, <1>4, <1>5, <1>6

\* A trade stays in the replay.
LEMMA TradesStaySold ==
    ASSUME NEW cs, Numbering(cs), NEW c \in Candles, c.at = Len(cs) + 1,
           NEW k \in Strategies, k \in Breakouts, NEW b, Well(k, b), Booked(k, b, cs),
           NEW refuse \in BOOLEAN, NEW o, o = Opened(k, b, c, refuse),
           NEW x, x = Stepped(k, b, c, refuse)
    PROVE  /\ ToSet(ClosedTrades(b)) \subseteq ToSet(ClosedTrades(o))
           /\ ToSet(ClosedTrades(o)) \subseteq ToSet(ClosedTrades(x))
           /\ b.pending \in Sells =>
                 \E t \in ToSet(ClosedTrades(o)) : t.reason = b.pending.reason
<1>1. /\ o \in BookType
      /\ \/ OpensSold(k, b, o, c) \/ OpensBought(k, b, o, c) \/ OpensKept(b, o)
  BY OpenedCases
<1>2. Well(k, x) /\ (EndsByLevel(o, x, c) \/ EndsHeld(k, o, x, c) \/ EndsFlat(k, o, x, c))
  BY SteppedCases
<1>3. b \in BookType /\ c.at \in Nat /\ c.open \in Int
  BY DEF Well, Candles
<1>4. Traded(k, b, cs, Survived(b, cs)) /\ Traded(k, o, Append(cs, c), Len(cs))
  BY BookedOpens DEF Booked
<1>5. /\ ToSet(ClosedTrades(b)) \subseteq ToSet(ClosedTrades(o))
      /\ b.pending \in Sells =>
            \E t \in ToSet(ClosedTrades(o)) : t.reason = b.pending.reason
  <2>1. CASE OpensSold(k, b, o, c)
    <3>1. b.pending \in Sells /\ Held(b) /\ SoldFor(b, o, b.pending, c.at, c.open)
      BY <2>1 DEF OpensSold
    <3>2. \E t \in TradeType :
             /\ ToSet(ClosedTrades(o)) = ToSet(ClosedTrades(b)) \cup {t}
             /\ t.reason = b.pending.reason
      BY <1>3, <1>4, <3>1, SaleReplayed
    <3> QED
      BY <3>2
  <2>2. CASE OpensBought(k, b, o, c)
    <3>1. b.pending \in Buys /\ b.pending \notin Sells
      BY <1>3, <2>2, PendingKinds DEF OpensBought
    <3>2. ~Held(b)
      BY <3>1 DEF Well
    <3>3. ClosedTrades(o) = ClosedTrades(b)
      BY <1>3, <1>4, <2>2, <3>1, <3>2, EntryReplayed
    <3> QED
      BY <3>1, <3>3
  <2>3. CASE OpensKept(b, o)
    BY <2>3 DEF OpensKept, ClosedTrades
  <2> QED
    BY <1>1, <2>1, <2>2, <2>3
<1>8. ToSet(ClosedTrades(o)) \subseteq ToSet(ClosedTrades(x))
  <2>1. CASE EndsByLevel(o, x, c)
    <3>1. Held(o)
      BY <2>1 DEF EndsByLevel
    <3>2. PICK signal \in Sells, price \in Int : SoldFor(o, x, signal, c.at, price)
      BY <2>1 DEF EndsByLevel
    <3>3. \E t \in TradeType : ToSet(ClosedTrades(x)) = ToSet(ClosedTrades(o)) \cup {t}
      BY <1>1, <1>3, <1>4, <3>1, <3>2, SaleReplayed
    <3> QED
      BY <3>3
  <2>2. CASE EndsHeld(k, o, x, c) \/ EndsFlat(k, o, x, c)
    BY <2>2 DEF EndsHeld, EndsFlat, Kept, ClosedTrades
  <2> QED
    BY <1>2, <2>1, <2>2
<1> QED
  BY <1>5, <1>8

\* The same sale of the same position.
LEMMA ClosedAlike ==
    ASSUME NEW b \in BookType, NEW y \in BookType, b.position = y.position, b.fills = y.fills,
           Core(b.state) = Core(y.state), NEW signal, NEW at, NEW price,
           NEW u, u = Closed(b, signal, at, price), NEW v, v = Closed(y, signal, at, price)
    PROVE  /\ u.position = v.position /\ u.fills = v.fills /\ Core(u.state) = Core(v.state)
           /\ u.pending = b.pending /\ v.pending = y.pending
<1> DEFINE f == Fill("sell", signal, at, price, b.position.quantity)
<1>1. /\ u.position = Flat /\ u.fills = Append(b.fills, f) /\ u.state = b.state
      /\ u.pending = b.pending
  BY DEF Closed, BookType
<1>2. /\ v.position = Flat /\ v.fills = Append(y.fills, f) /\ v.state = y.state
      /\ v.pending = y.pending
  BY DEF Closed, BookType
<1> QED
  BY <1>1, <1>2

\* At the open of a candle V1 and V2 fill the same signals.
LEMMA TwinsOpen ==
    ASSUME NEW b, Well("breakout", b), NEW y, Well("breakout_v2", y), Twins(b, y),
           b.pending = y.pending, NEW c \in Candles, NEW refuse \in BOOLEAN,
           NEW o, o = Opened("breakout", b, c, refuse),
           NEW z, z = Opened("breakout_v2", y, c, refuse)
    PROVE  /\ o \in BookType /\ z \in BookType /\ o.pending = NoSignal /\ z.pending = NoSignal
           /\ Core(o.state) = Core(z.state) /\ o.position = z.position /\ o.fills = z.fills
<1>1. /\ b \in BookType /\ y \in BookType /\ b.state \in States /\ y.state \in States
      /\ "breakout" \in Strategies /\ "breakout_v2" \in Strategies
  BY DEF Well, BookType, Strategies, Breakouts
<1>2. /\ Core(b.state) = Core(y.state) /\ b.position = y.position /\ b.fills = y.fills
      /\ Held(b) <=> Held(y)
  BY DEF Twins, Held
<1>3. CASE b.pending \in Sells
  <2>1. Held(b) /\ Held(y) /\ y.pending \in Sells
    BY <1>3 DEF Well
  <2>2. /\ o \in BookType /\ SoldFor(b, o, b.pending, c.at, c.open)
        /\ o.pending = NoSignal /\ o.state = FilledSell("breakout", b.state, c)
    BY <1>1, <1>3, <2>1, OpenedSells
  <2>3. /\ z \in BookType /\ SoldFor(y, z, y.pending, c.at, c.open)
        /\ z.pending = NoSignal /\ z.state = FilledSell("breakout_v2", y.state, c)
    BY <1>1, <2>1, OpenedSells
  <2>4. o.state = b.state /\ Core(z.state) = Core(y.state)
    BY <1>1, <2>2, <2>3, FilledSellFacts
  <2> QED
    BY <1>2, <2>2, <2>3, <2>4 DEF SoldFor
<1>4. CASE b.pending \in Buys /\ ~refuse
  <2>1. /\ o \in BookType /\ o.pending = NoSignal
        /\ o.state = FilledBuy("breakout", b.state, b.pending, c)
        /\ o.position = Bought(b.position, b.pending, c.open)
        /\ o.fills = Append(b.fills, Fill("buy", b.pending, c.at, c.open, 1))
    BY <1>1, <1>4, OpenedBuys
  <2>2. /\ z \in BookType /\ z.pending = NoSignal
        /\ z.state = FilledBuy("breakout_v2", y.state, y.pending, c)
        /\ z.position = Bought(y.position, y.pending, c.open)
        /\ z.fills = Append(y.fills, Fill("buy", y.pending, c.at, c.open, 1))
    BY <1>1, <1>4, OpenedBuys
  <2>3. Core(o.state) = Core(z.state)
    BY <1>1, <1>2, <1>4, <2>1, <2>2, CoreFilled
  <2> QED
    BY <1>2, <2>1, <2>2, <2>3
<1>5. CASE b.pending = NoSignal \/ (b.pending \in Buys /\ refuse)
  <2>1. /\ o \in BookType /\ o.pending = NoSignal /\ o.state = b.state
        /\ o.position = b.position /\ o.fills = b.fills
    BY <1>1, <1>5, OpenedKeeps
  <2>2. /\ z \in BookType /\ z.pending = NoSignal /\ z.state = y.state
        /\ z.position = y.position /\ z.fills = y.fills
    BY <1>1, <1>5, OpenedKeeps
  <2> QED
    BY <1>2, <2>1, <2>2
<1> QED
  BY <1>1, <1>3, <1>4, <1>5, PendingKinds

\* Asked on the same candle, they say the same, or the watch expires.
LEMMA TwinsEvaluate ==
    ASSUME NEW o \in BookType, NEW z \in BookType, Core(o.state) = Core(z.state),
           o.position = z.position, o.fills = z.fills, NEW c \in Candles,
           NEW u, u = Evaluated("breakout", o, c), NEW v, v = Evaluated("breakout_v2", z, c)
    PROVE  Twins(u, v)
<1> DEFINE s == o.state
           t == z.state
<1>1. s \in States /\ t \in States /\ "breakout" \in Strategies /\ "breakout_v2" \in Strategies
  BY DEF BookType, Strategies, Breakouts
<1>2. Held(o) <=> Held(z)
  BY DEF Held
<1>3. CASE Held(o)
  <2> DEFINE p == Aged(o.position)
             d == ShouldExit("breakout", s, p, c)
             e == ShouldExit("breakout_v2", t, p, c)
             hard == BaseExit(Observe(t, c), p, c)
  <2>1. u.state = d.state /\ u.pending = d.signal /\ u.position = p /\ u.fills = o.fills
    BY <1>1, <1>3, EvaluatedFacts DEF Kept
  <2>2. v.state = e.state /\ v.pending = e.signal /\ v.position = p /\ v.fills = z.fills
    BY <1>1, <1>2, <1>3, EvaluatedFacts DEF Kept
  <2> HIDE DEF p
  <2>3. d = BaseExit(Observe(s, c), p, c) /\ e = BreakoutV2Exit(t, p, c)
    BY DEF ShouldExit, Breakouts
  <2>4. d.signal = hard.signal /\ Core(d.state) = Core(hard.state)
    <3>1. /\ Observe(s, c) \in States /\ Observe(t, c) \in States
          /\ Core(Observe(s, c)) = Core(Observe(t, c))
      BY <1>1, ObserveFacts, CoreObserved
    <3> QED
      BY <2>3, <3>1, CoreExits
  <2>5. /\ Core(e.state) = Core(hard.state)
        /\ \/ hard.signal # NoSignal /\ e.signal = hard.signal
           \/ hard.signal = NoSignal /\ V2Stays(t, e, c)
    BY <1>1, <2>3, V2ExitFacts
  <2> HIDE DEF d, e, hard
  <2>6. V2Stays(t, e, c) => e.signal = NoSignal \/ e.signal = Sell(c, "WATCH_TIMEOUT")
    BY DEF V2Stays, WatchBegins, WatchStays, WatchEnds, WatchExpires, WatchGoesOn
  <2>7. Sell(c, "WATCH_TIMEOUT") \in Sells /\ Sell(c, "WATCH_TIMEOUT").reason = "WATCH_TIMEOUT"
    BY SellFacts DEF Reasons
  <2>8. Core(u.state) = Core(v.state) /\ u.position = v.position /\ u.fills = v.fills
    BY <2>1, <2>2, <2>4, <2>5
  <2>9. u.pending = v.pending \/ Expiring(u, v)
    BY <2>1, <2>2, <2>4, <2>5, <2>6, <2>7 DEF Expiring
  <2> QED
    BY <2>8, <2>9 DEF Twins
<1>4. CASE ~Held(o)
  <2> DEFINE d == ShouldEnter("breakout", s, c)
             e == ShouldEnter("breakout_v2", t, c)
             w == Unmanaged(t)
  <2>1. u.state = d.state /\ u.pending = d.signal /\ u.position = Flat /\ u.fills = o.fills
    BY <1>1, <1>4, EvaluatedFacts DEF Kept
  <2>2. v.state = e.state /\ v.pending = e.signal /\ v.position = Flat /\ v.fills = z.fills
    BY <1>1, <1>2, <1>4, EvaluatedFacts DEF Kept
  <2>3. d = BreakoutEnter(s, c) /\ e = BreakoutEnter(w, c)
    BY DEF ShouldEnter
  <2>4. w \in States /\ Core(w) = Core(s)
    BY <1>1, UnmanagedFacts
  <2> HIDE DEF d, e, w
  <2>5. d.signal = e.signal /\ Core(d.state) = Core(e.state)
    BY <1>1, <2>3, <2>4, CoreEnters
  <2> QED
    BY <2>1, <2>2, <2>5 DEF Twins
<1> QED
  BY <1>3, <1>4

\* A whole candle keeps V1 and V2 twins, until a watch expires.
LEMMA TwinsStepped ==
    ASSUME NEW cs, Numbering(cs), NEW c \in Candles, c.at = Len(cs) + 1,
           NEW b, Well("breakout", b), NEW y, Well("breakout_v2", y), Booked("breakout_v2", y, cs),
           TimedOut(y) \/ Twins(b, y), NEW refuse \in BOOLEAN,
           NEW u, u = Stepped("breakout", b, c, refuse),
           NEW v, v = Stepped("breakout_v2", y, c, refuse)
    PROVE  TimedOut(v) \/ Twins(u, v)
<1> DEFINE o == Opened("breakout", b, c, refuse)
           z == Opened("breakout_v2", y, c, refuse)
<1>1. /\ "breakout" \in Strategies /\ "breakout_v2" \in Strategies /\ "breakout_v2" \in Breakouts
  BY DEF Strategies, Breakouts
<1>2. /\ ToSet(ClosedTrades(y)) \subseteq ToSet(ClosedTrades(z))
      /\ ToSet(ClosedTrades(z)) \subseteq ToSet(ClosedTrades(v))
      /\ y.pending \in Sells => \E t \in ToSet(ClosedTrades(z)) : t.reason = y.pending.reason
  BY <1>1, TradesStaySold
<1>3. CASE TimedOut(y)
  BY <1>2, <1>3 DEF TimedOut
<1>4. CASE Twins(b, y) /\ Expiring(b, y)
  BY <1>2, <1>4 DEF Expiring, TimedOut
<1>5. CASE Twins(b, y) /\ b.pending = y.pending
  <2>1. /\ o \in BookType /\ z \in BookType /\ o.pending = NoSignal /\ z.pending = NoSignal
        /\ Core(o.state) = Core(z.state) /\ o.position = z.position /\ o.fills = z.fills
    BY <1>5, TwinsOpen
  <2>2. /\ u = IF LevelHit(o, c) THEN LevelClosed(o, c) ELSE Evaluated("breakout", o, c)
        /\ v = IF LevelHit(z, c) THEN LevelClosed(z, c) ELSE Evaluated("breakout_v2", z, c)
    BY DEF Stepped
  <2> HIDE DEF o, z
  <2>3. LevelHit(o, c) <=> LevelHit(z, c)
    BY <2>1 DEF LevelHit, Held
  <2>4. CASE LevelHit(o, c)
    <3> DEFINE signal == Sell(c, LevelReason(o.position, c))
               price == LevelPrice(o.position, c)
    <3>1. u = Closed(o, signal, c.at, price) /\ v = Closed(z, signal, c.at, price)
      BY <2>1, <2>2, <2>3, <2>4 DEF LevelClosed
    <3> HIDE DEF signal, price
    <3>2. /\ u.position = v.position /\ u.fills = v.fills /\ Core(u.state) = Core(v.state)
          /\ u.pending = o.pending /\ v.pending = z.pending
      BY <2>1, <3>1, ClosedAlike
    <3> QED
      BY <2>1, <3>2 DEF Twins
  <2>5. CASE ~LevelHit(o, c)
    BY <2>1, <2>2, <2>3, <2>5, TwinsEvaluate
  <2> QED
    BY <2>4, <2>5
<1> QED
  BY <1>3, <1>4, <1>5 DEF Twins

\* The run of V2 on the way and at its end, and next to it the one of V1.
FollowedRun ==
    LET b == book["breakout_v2"]
    IN  /\ ~ended => Followed(b, series, Len(series))
        /\ ended => InOrder(b.state.events) /\ TradesNoticed(b, series)

TwinRuns ==
    LET b == book["breakout"]
        y == book["breakout_v2"]
    IN  TimedOut(y) \/ IF ended THEN b.fills = y.fills ELSE Twins(b, y)

AllFollowed ==
    /\ "breakout_v2" \in Books => FollowedRun
    /\ Breakouts \subseteq Books => TwinRuns

\* A run begins with twins and an empty audit.
LEMMA FollowedInit == Init => AllFollowed
<1> SUFFICES ASSUME Init PROVE AllFollowed
  OBVIOUS
<1>1. /\ Fresh.events = <<>> /\ ~ended /\ series = <<>>
      /\ \A k \in Books : book[k] = NewBook
  BY DEF Init, Fresh
<1>2. /\ NewBook.state = Fresh /\ ~Held(NewBook) /\ NewBook.fills = <<>>
  BY FreshType DEF NewBook
<1>3. ClosedTrades(NewBook) = <<>>
  <2>1. Replayed(<<>>) = Start
    <3>1. <<>> \in Seq({0})
      OBVIOUS
    <3> QED
      BY <3>1, ReplayedAppend
  <2> QED
    BY <1>2, <2>1 DEF ClosedTrades, Start
<1>4. Followed(NewBook, series, Len(series))
  <2>1. InOrder(<<>>)
    BY DEF InOrder
  <2>2. TradesNoticed(NewBook, series)
    BY <1>3 DEF TradesNoticed, ToSet
  <2> QED
    BY <1>1, <1>2, <2>1, <2>2 DEF Followed
<1>5. Twins(NewBook, NewBook)
  BY DEF Twins
<1> QED
  BY <1>1, <1>4, <1>5 DEF AllFollowed, FollowedRun, TwinRuns, Breakouts

\* A candle keeps the audit, the counters and the twins.
LEMMA FollowedCandle ==
    ASSUME Sound, AllBooked, AllFollowed, NEW c \in Candles, NEW refuse \in BOOLEAN,
           Takes(c, refuse)
    PROVE  AllFollowed'
<1>1. /\ ~ended /\ ~ended' /\ c.at = Len(series) + 1 /\ series' = Append(series, c)
      /\ Numbering(series) /\ Len(series') = Len(series) + 1
  BY AppendedFacts DEF Takes, Sound
<1>2. ASSUME NEW k \in Books
      PROVE  /\ k \in Strategies /\ Well(k, book[k]) /\ Booked(k, book[k], series)
             /\ book'[k] = Stepped(k, book[k], c, refuse)
  BY <1>1, BookTakes DEF AllBooked
<1>3. ASSUME "breakout_v2" \in Books PROVE FollowedRun'
  <2> DEFINE b == book["breakout_v2"]
             x == book'["breakout_v2"]
  <2>1. /\ "breakout_v2" \in Strategies /\ Well("breakout_v2", b)
        /\ Booked("breakout_v2", b, series) /\ x = Stepped("breakout_v2", b, c, refuse)
    BY <1>2, <1>3
  <2>2. Followed(b, series, Len(series))
    BY <1>1, <1>3 DEF AllFollowed, FollowedRun
  <2> HIDE DEF b, x
  <2>3. Followed(x, Append(series, c), Len(series) + 1)
    BY <1>1, <2>1, <2>2, FollowedStepped
  <2> QED
    BY <1>1, <2>3 DEF FollowedRun, x
<1>4. ASSUME Breakouts \subseteq Books PROVE TwinRuns'
  <2> DEFINE b == book["breakout"]
             y == book["breakout_v2"]
             u == book'["breakout"]
             v == book'["breakout_v2"]
  <2>0. "breakout" \in Books /\ "breakout_v2" \in Books
    BY <1>4 DEF Breakouts
  <2>1. /\ Well("breakout", b) /\ u = Stepped("breakout", b, c, refuse)
        /\ Well("breakout_v2", y) /\ Booked("breakout_v2", y, series)
        /\ v = Stepped("breakout_v2", y, c, refuse)
    BY <1>2, <2>0
  <2>2. TimedOut(y) \/ Twins(b, y)
    BY <1>1, <1>4 DEF AllFollowed, TwinRuns
  <2> HIDE DEF b, y, u, v
  <2>3. TimedOut(v) \/ Twins(u, v)
    BY <1>1, <2>1, <2>2, TwinsStepped
  <2> QED
    BY <1>1, <2>3 DEF TwinRuns, u, v
<1> QED
  BY <1>3, <1>4 DEF AllFollowed

\* The end of the window closes V1 and V2 alike.
LEMMA FollowedEnd ==
    ASSUME Sound, AllBooked, AllFollowed, End
    PROVE  AllFollowed'
<1>1. /\ ~ended /\ ended' /\ series' = series /\ series # <<>> /\ Numbering(series)
      /\ \A k \in Books : book'[k] = Liquidated(book[k])
  BY DEF End, Sound
<1>2. Len(series) \in Nat /\ \A i \in 1 .. Len(series) : series[i] = series[i]
  BY <1>1 DEF Numbering
<1>3. ASSUME NEW k \in Books
      PROVE  /\ book[k] \in BookType /\ Booked(k, book[k], series)
             /\ book'[k].state = book[k].state
             /\ ~Held(book[k]) => book'[k] = book[k]
             /\ Held(book[k]) =>
                   \E signal \in Sells, price \in Int :
                      SoldFor(book[k], book'[k], signal, Len(series), price)
             /\ ToSet(ClosedTrades(book[k])) \subseteq ToSet(ClosedTrades(book'[k]))
  <2> DEFINE b == book[k]
             x == book'[k]
  <2>1. b \in BookType /\ Booked(k, b, series) /\ x = Liquidated(book[k])
    BY <1>1 DEF Sound, AllBooked
  <2>2. /\ x.state = b.state /\ (~Held(b) => x = b)
        /\ Held(b) => \E signal \in Sells, price \in Int : SoldFor(b, x, signal, Len(series), price)
    BY <1>1, <2>1, LiquidatedFacts
  <2> HIDE DEF b, x
  <2>3. CASE Held(b)
    <3>1. PICK signal \in Sells, price \in Int : SoldFor(b, x, signal, Len(series), price)
      BY <2>2, <2>3
    <3>2. \E t \in TradeType : ToSet(ClosedTrades(x)) = ToSet(ClosedTrades(b)) \cup {t}
      BY <1>2, <2>1, <2>3, <3>1, SaleReplayed DEF Booked
    <3> QED
      BY <2>1, <2>2, <3>2 DEF b, x
  <2>4. CASE ~Held(b)
    BY <2>1, <2>2, <2>4 DEF b, x
  <2> QED
    BY <2>3, <2>4
<1>4. ASSUME "breakout_v2" \in Books PROVE FollowedRun'
  <2> DEFINE b == book["breakout_v2"]
             x == book'["breakout_v2"]
             n == Len(series)
             first == Replayed(b.fills).open.first
  <2>1. /\ b \in BookType /\ Booked("breakout_v2", b, series)
        /\ x.state = b.state /\ (~Held(b) => x = b)
        /\ Held(b) => \E signal \in Sells, price \in Int : SoldFor(b, x, signal, n, price)
    BY <1>3, <1>4
  <2>2. /\ InOrder(b.state.events) /\ TradesNoticed(b, series)
        /\ Held(b) => Noticed(b.state.events, series, first.at, first.signal.level,
                              IF b.pending \in Sells THEN n - 1 ELSE n)
    BY <1>1, <1>4 DEF AllFollowed, FollowedRun, Followed
  <2> HIDE DEF b, x, n
  <2>3. ASSUME Held(b) PROVE TradesNoticed(x, series)
    <3>1. PICK signal \in Sells, price \in Int : SoldFor(b, x, signal, n, price)
      BY <2>1, <2>3
    <3> DEFINE m == IF b.pending \in Sells THEN n - 1 ELSE n
    <3>2. m \in Int /\ n - 2 <= m /\ m <= Len(series) /\ n \in Nat /\ Survived(b, series) \in Int
      BY <1>2 DEF Survived, n
    <3>3. Noticed(b.state.events, series, first.at, first.signal.level, m)
      BY <2>2, <2>3
    <3>4. Traded("breakout_v2", b, series, Survived(b, series))
      BY <2>1 DEF Booked
    <3> HIDE DEF m
    <3>5. ToSet(b.state.events) \subseteq ToSet(x.state.events)
      BY <2>1
    <3> QED
      BY <1>1, <1>2, <2>1, <2>2, <2>3, <3>1, <3>2, <3>3, <3>4, <3>5, SaleNoticed
  <2>4. TradesNoticed(x, series) /\ InOrder(x.state.events)
    BY <2>1, <2>2, <2>3
  <2> QED
    BY <1>1, <2>4 DEF FollowedRun, x
<1>5. ASSUME Breakouts \subseteq Books PROVE TwinRuns'
  <2> DEFINE b == book["breakout"]
             y == book["breakout_v2"]
             u == book'["breakout"]
             v == book'["breakout_v2"]
  <2>0. "breakout" \in Books /\ "breakout_v2" \in Books
    BY <1>5 DEF Breakouts
  <2>1. /\ b \in BookType /\ y \in BookType
        /\ ToSet(ClosedTrades(y)) \subseteq ToSet(ClosedTrades(v))
    BY <1>3, <2>0
  <2>2. u = Liquidated(b) /\ v = Liquidated(y)
    BY <1>1, <2>0
  <2>3. TimedOut(y) \/ Twins(b, y)
    BY <1>1, <1>5 DEF AllFollowed, TwinRuns
  <2> HIDE DEF b, y, u, v
  <2>4. CASE Twins(b, y)
    <3>1. b.position = y.position /\ b.fills = y.fills /\ Core(b.state) = Core(y.state)
          /\ (Held(b) <=> Held(y))
      BY <2>4 DEF Twins, Held
    <3>2. CASE Held(b)
      <4> DEFINE signal == Sell(Last(series), "END")
                 price == Last(series).close
      <4>1. u = Closed(b, signal, Len(series), price) /\ v = Closed(y, signal, Len(series), price)
        BY <2>2, <3>1, <3>2 DEF Liquidated
      <4> HIDE DEF signal, price
      <4>2. u.fills = v.fills
        BY <2>1, <3>1, <4>1, ClosedAlike
      <4> QED
        BY <1>1, <4>2 DEF TwinRuns, u, v
    <3>3. CASE ~Held(b)
      BY <1>1, <2>2, <3>1, <3>3 DEF Liquidated, TwinRuns, u, v
    <3> QED
      BY <3>2, <3>3
  <2>5. CASE TimedOut(y)
    <3>1. TimedOut(v)
      BY <2>1, <2>5 DEF TimedOut
    <3> QED
      BY <3>1 DEF TwinRuns, v
  <2> QED
    BY <2>3, <2>4, <2>5
<1> QED
  BY <1>4, <1>5 DEF AllFollowed

\* Every step keeps the audit, the counters and the twins.
LEMMA FollowedKept ==
    ASSUME Sound, AllBooked, AllFollowed, [Next]_vars
    PROVE  AllFollowed'
<1>1. CASE UNCHANGED vars
  BY <1>1 DEF vars, AllFollowed, FollowedRun, TwinRuns
<1> QED
  BY <1>1, Steps, FollowedCandle, FollowedEnd

\* The invariants imply that the watch follows the position.
LEMMA WatchFacts ==
    ASSUME Sound, AllBooked, AllFollowed
    PROVE  WatchFollowsPosition
<1>1. OnlyWatchDiffers
  <2> SUFFICES ASSUME ended, Breakouts \subseteq Books PROVE OnlyWatchDiffers
    BY DEF OnlyWatchDiffers
  <2> DEFINE y == book["breakout_v2"]
             events == y.state.events
  <2>1. "breakout" \in Books /\ "breakout_v2" \in Books
    BY DEF Breakouts
  <2>2. \/ \E t \in ToSet(Trades("breakout_v2")) : t.reason = "WATCH_TIMEOUT"
        \/ Trades("breakout") = Trades("breakout_v2")
    BY <2>1 DEF AllFollowed, TwinRuns, TimedOut, Trades, ClosedTrades
  <2>3. InOrder(events) /\ TradesNoticed(y, series)
    BY <2>1 DEF AllFollowed, FollowedRun
  <2>4. ASSUME SnapshotHours = DetectionAge, NEW t \in ToSet(Trades("breakout_v2")),
               FailedStructure(t, series).triggered
        PROVE  WatchStartedAt(SnapshotAt(t))
    <3> DEFINE at == SnapshotAt(t)
    <3>1. /\ t.exitAt > at + 1 /\ StructureKnown(series[at])
          /\ BelowStructure(series[at], t.entry.level)
      BY <2>4 DEF FailedStructure, Result
    <3>2. t \in TradesOn("breakout_v2", series)
      BY <2>1, ClosedFactsOf DEF ToSet
    <3>3. t.entryAt \in Int /\ t.exitAt \in Int /\ DetectionAge \in Nat
      BY <3>2, Limits DEF TradesOn, TradeOn, EntryOn, TradeType
    <3>4. at = t.entryAt + DetectionAge - 1
      BY <2>4 DEF SnapshotAt
    <3>5. at <= t.exitAt - 2
      BY <3>1, <3>3, <3>4
    <3>6. Noticed(events, series, t.entryAt, t.entry.level, t.exitAt - 2)
      BY <2>3 DEF TradesNoticed, Trades
    <3> HIDE DEF at
    <3>7. \E e \in ToSet(events) : e.at = at /\ e.event = "WATCH_STARTED"
      BY <3>1, <3>4, <3>5, <3>6 DEF Noticed
    <3> QED
      BY <3>7 DEF WatchStartedAt, at
  <2> QED
    BY <2>2, <2>3, <2>4 DEF OnlyWatchDiffers, InOrder
<1>2. CountersFollowPosition
  <2> SUFFICES ASSUME "breakout_v2" \in Books, Held(book["breakout_v2"])
               PROVE  CountersFollowPosition
    BY DEF CountersFollowPosition
  <2>1. ~ended
    BY DEF AllBooked
  <2>2. Followed(book["breakout_v2"], series, Len(series))
    BY <2>1 DEF AllFollowed, FollowedRun
  <2> QED
    BY <2>2 DEF Followed, Counted, CountersFollowPosition
<1> QED
  BY <1>1, <1>2 DEF WatchFollowsPosition

\* V2 is V1 until a watch expires; it watches a position once, at its age or
\* later, and exactly when the failed-structure report says so; and its counters
\* are of the position that the engine holds.
THEOREM WatchIsOfThePosition == Spec => []WatchFollowsPosition
<1>1. Sound /\ AllBooked /\ AllFollowed /\ [Next]_vars => AllFollowed'
  BY FollowedKept
<1>2. Sound /\ AllBooked /\ AllFollowed => WatchFollowsPosition
  BY WatchFacts
<1>3. Spec => []AllBooked
  BY BookedInit, BookedKept, RunsAreSound, PTL DEF Spec
<1> QED
  BY <1>1, <1>2, <1>3, FollowedInit, RunsAreSound, PTL DEF Spec

-----------------------------------------------------------------------------
(* What a candle does to the replayed trades.                              *)

\* The entry of the open position, in the replay.
First(b) == Replayed(b.fills).open.first

SoldOut(b, x, at) ==
    /\ Held(b) /\ ~Held(x)
    /\ \E t \in TradeType :
          /\ ToSet(ClosedTrades(x)) = ToSet(ClosedTrades(b)) \cup {t}
          /\ t.entry = First(b).signal /\ t.entryAt = First(b).at /\ t.exitAt = at

BoughtIn(b, x, at) ==
    /\ ~Held(b) /\ Held(x) /\ ClosedTrades(x) = ClosedTrades(b)
    /\ First(x).signal = b.pending /\ First(x).at = at

Remains(b, x) ==
    /\ ClosedTrades(x) = ClosedTrades(b) /\ (Held(x) <=> Held(b))
    /\ Held(b) => First(x) = First(b)

\* A safety order leaves the entry of the position as it is.
LEMMA SafetyReplayed ==
    ASSUME NEW k, NEW cs, NEW n, NEW b \in BookType, Held(b), Traded(k, b, cs, n),
           b.pending \in Buys, NEW c \in Candles, NEW o, OpensBought(k, b, o, c)
    PROVE  First(o) = First(b) /\ ClosedTrades(o) = ClosedTrades(b)
<1> DEFINE r == Replayed(b.fills)
           f == Fill("buy", b.pending, c.at, c.open, 1)
<1>1. c.at \in Nat /\ c.open \in Int
  BY DEF Candles
<1>2. f \in BuyFills /\ f.side = "buy" /\ f \in BuyFills \cup SellFills
  BY <1>1, FillType DEF Fill
<1>3. o.fills = Append(b.fills, f)
  BY DEF OpensBought
<1> HIDE DEF f
<1>4. Replayed(o.fills) = Replay(r, f)
  BY <1>2, <1>3, ReplayStep
<1> HIDE DEF r
<1>5. r \in [open : {NoEntry} \cup Opens, trades : Seq(TradesOn(k, cs)), ok : {TRUE}]
      /\ r.open # NoEntry /\ r.open \in Opens
  BY DEF Traded, r
<1>6. Replayed(o.fills) = [r EXCEPT !.open = Added(r.open, f)]
  BY <1>2, <1>4, <1>5 DEF Replay
<1>7. Added(r.open, f).first = r.open.first
  BY <1>2, <1>5, AddedFacts
<1> QED
  BY <1>5, <1>6, <1>7 DEF First, ClosedTrades, r

\* The open of a candle sells, enters, or goes on.
LEMMA OpensReplayed ==
    ASSUME NEW cs, Numbering(cs), NEW c \in Candles, c.at = Len(cs) + 1,
           NEW k \in Strategies, NEW b, Well(k, b), Booked(k, b, cs),
           NEW refuse \in BOOLEAN, NEW o, o = Opened(k, b, c, refuse)
    PROVE  \/ SoldOut(b, o, c.at)
           \/ ~refuse /\ b.pending \in Buys /\ BoughtIn(b, o, c.at)
           \/ (Held(b) \/ b.pending = NoSignal \/ refuse) /\ Remains(b, o)
<1>1. \/ OpensSold(k, b, o, c)
      \/ ~refuse /\ OpensBought(k, b, o, c)
      \/ (b.pending = NoSignal \/ refuse) /\ OpensKept(b, o)
  BY OpenedCases
<1>2. b \in BookType /\ c.at \in Nat /\ c.open \in Int
  BY DEF Well, Candles
<1>3. Traded(k, b, cs, Survived(b, cs))
  BY DEF Booked
<1>4. CASE OpensSold(k, b, o, c)
  <2>1. b.pending \in Sells /\ Held(b) /\ ~Held(o) /\ SoldFor(b, o, b.pending, c.at, c.open)
    BY <1>4 DEF OpensSold
  <2>2. \E t \in TradeType :
           /\ ToSet(ClosedTrades(o)) = ToSet(ClosedTrades(b)) \cup {t}
           /\ t.entry = First(b).signal /\ t.entryAt = First(b).at /\ t.exitAt = c.at
    BY <1>2, <1>3, <2>1, SaleReplayed DEF First
  <2> QED
    BY <2>1, <2>2 DEF SoldOut
<1>5. CASE ~refuse /\ OpensBought(k, b, o, c)
  <2>1. b.pending \in Buys /\ Held(o)
    BY <1>5 DEF OpensBought
  <2>2. CASE Held(b)
    BY <1>2, <1>3, <1>5, <2>1, <2>2, SafetyReplayed DEF Remains
  <2>3. CASE ~Held(b)
    <3>1. /\ First(o).at = c.at /\ First(o).signal = b.pending
          /\ ClosedTrades(o) = ClosedTrades(b)
      BY <1>2, <1>3, <1>5, <2>1, <2>3, EntryReplayed DEF First
    <3> QED
      BY <1>5, <2>1, <2>3, <3>1 DEF BoughtIn
  <2> QED
    BY <2>2, <2>3
<1>6. CASE (b.pending = NoSignal \/ refuse) /\ OpensKept(b, o)
  BY <1>6 DEF OpensKept, Remains, First, ClosedTrades
<1> QED
  BY <1>1, <1>4, <1>5, <1>6

\* The rest of the candle sells or goes on.
LEMMA EndsReplayed ==
    ASSUME NEW cs, Numbering(cs), NEW c \in Candles, c.at = Len(cs) + 1,
           NEW k \in Strategies, NEW b, Well(k, b), Booked(k, b, cs),
           NEW refuse \in BOOLEAN, NEW o, o = Opened(k, b, c, refuse),
           NEW x, x = Stepped(k, b, c, refuse)
    PROVE  SoldOut(o, x, c.at) \/ Remains(o, x)
<1>1. EndsByLevel(o, x, c) \/ EndsHeld(k, o, x, c) \/ EndsFlat(k, o, x, c)
  BY SteppedCases
<1>2. o \in BookType /\ c.at \in Nat /\ Traded(k, o, Append(cs, c), Len(cs))
  BY OpenedCases, BookedOpens DEF Candles
<1>3. CASE EndsByLevel(o, x, c)
  <2>1. Held(o) /\ ~Held(x)
    BY <1>3 DEF EndsByLevel
  <2>2. PICK signal \in Sells, price \in Int : SoldFor(o, x, signal, c.at, price)
    BY <1>3 DEF EndsByLevel
  <2>3. \E t \in TradeType :
           /\ ToSet(ClosedTrades(x)) = ToSet(ClosedTrades(o)) \cup {t}
           /\ t.entry = First(o).signal /\ t.entryAt = First(o).at /\ t.exitAt = c.at
    BY <1>2, <2>1, <2>2, SaleReplayed DEF First
  <2> QED
    BY <2>1, <2>3 DEF SoldOut
<1>4. CASE EndsHeld(k, o, x, c) \/ EndsFlat(k, o, x, c)
  BY <1>4 DEF EndsHeld, EndsFlat, Kept, Remains, First, ClosedTrades
<1> QED
  BY <1>1, <1>3, <1>4

\* The end of the window sells or changes nothing.
LEMMA EndReplayed ==
    ASSUME Sound, AllBooked, ~ended, series # <<>>, NEW k \in Books,
           NEW x, x = Liquidated(book[k])
    PROVE  SoldOut(book[k], x, Len(series)) \/ (~Held(x) /\ x = book[k])
<1> DEFINE b == book[k]
<1>1. b \in BookType /\ Traded(k, b, series, Survived(b, series)) /\ Len(series) \in Nat
  BY DEF Sound, AllBooked, Booked, Numbering
<1>2. /\ ~Held(x) /\ (~Held(b) => x = b)
      /\ Held(b) => \E signal \in Sells, price \in Int : SoldFor(b, x, signal, Len(series), price)
  BY LiquidatedFacts
<1> HIDE DEF b
<1>3. CASE Held(b)
  <2>1. PICK signal \in Sells, price \in Int : SoldFor(b, x, signal, Len(series), price)
    BY <1>2, <1>3
  <2>2. \E t \in TradeType :
           /\ ToSet(ClosedTrades(x)) = ToSet(ClosedTrades(b)) \cup {t}
           /\ t.entry = First(b).signal /\ t.entryAt = First(b).at /\ t.exitAt = Len(series)
    BY <1>1, <1>3, <2>1, SaleReplayed DEF First
  <2>3. SoldOut(b, x, Len(series))
    BY <1>2, <1>3, <2>2 DEF SoldOut
  <2> QED
    BY <2>3 DEF b
<1>4. CASE ~Held(b)
  BY <1>2, <1>4 DEF b
<1> QED
  BY <1>3, <1>4
-----------------------------------------------------------------------------
(* The gate on the slope: the filtered run is the baseline's until an entry *)
(* of the baseline is one the report filters.                              *)

\* The signals of the entries of a run, the one of the open position too.
Entries(b) ==
    {t.entry : t \in ToSet(ClosedTrades(b))} \cup (IF Held(b) THEN {First(b).signal} ELSE {})

FilteredAt(signal, cs) ==
    signal.at \in 1 .. Len(cs) /\ \A slope \in cs[signal.at].slope : slope < SlopeThreshold

Passed(b, cs) == \E e \in Entries(b) : FilteredAt(e, cs)

\* The baseline has ordered what the gate held back.
Missed(b, y, cs) ==
    /\ b.pending \in Buys /\ ~Held(b) /\ FilteredAt(b.pending, cs)
    /\ y = [b EXCEPT !.pending = NoSignal]

\* The entries of a run stay its entries.
LEMMA EntriesStay ==
    ASSUME NEW b, NEW x, NEW at, SoldOut(b, x, at) \/ BoughtIn(b, x, at) \/ Remains(b, x)
    PROVE  Entries(b) \subseteq Entries(x)
<1>1. CASE SoldOut(b, x, at)
  <2>1. PICK t \in TradeType : /\ ToSet(ClosedTrades(x)) = ToSet(ClosedTrades(b)) \cup {t}
                               /\ t.entry = First(b).signal
    BY <1>1 DEF SoldOut
  <2> QED
    BY <2>1 DEF Entries
<1>2. CASE BoughtIn(b, x, at)
  BY <1>2 DEF BoughtIn, Entries
<1>3. CASE Remains(b, x)
  BY <1>3 DEF Remains, Entries
<1> QED
  BY <1>1, <1>2, <1>3

\* One more candle changes nothing for an earlier signal.
LEMMA FilteredStays ==
    ASSUME NEW cs, Numbering(cs), NEW c \in Candles, c.at = Len(cs) + 1,
           NEW signal, FilteredAt(signal, cs)
    PROVE  FilteredAt(signal, Append(cs, c))
<1>1. /\ Len(Append(cs, c)) = Len(cs) + 1 /\ Len(cs) \in Nat
      /\ \A i \in 1 .. Len(cs) : Append(cs, c)[i] = cs[i]
  BY AppendedFacts
<1> QED
  BY <1>1 DEF FilteredAt

\* At the open both runs fill alike, or the baseline fills what the gate held back.
LEMMA GateOpens ==
    ASSUME NEW cs, Numbering(cs), NEW c \in Candles, c.at = Len(cs) + 1,
           NEW b, Well("baseline", b), Booked("baseline", b, cs),
           NEW y, b = y \/ Missed(b, y, cs), NEW refuse \in BOOLEAN,
           NEW o, o = Opened("baseline", b, c, refuse),
           NEW z, z = Opened("slope", y, c, refuse)
    PROVE  o = z \/ Passed(o, Append(cs, c))
<1>1. "baseline" \in Strategies /\ "baseline" \notin Breakouts /\ "slope" \notin Breakouts
      /\ b \in BookType
  BY DEF Strategies, Breakouts, Well
<1>2. CASE b = y
  <2>1. \A s, signal : FilledBuy("baseline", s, signal, c) = FilledBuy("slope", s, signal, c)
    BY DEF FilledBuy
  <2>2. \A s : FilledSell("baseline", s, c) = FilledSell("slope", s, c)
    BY DEF FilledSell
  <2> QED
    BY <1>2, <2>1, <2>2 DEF Opened
<1>3. CASE Missed(b, y, cs) /\ refuse
  <2>1. /\ b.pending \in Buys /\ y = [b EXCEPT !.pending = NoSignal] /\ b.pending.action = "open_long"
    BY <1>3, SignalsDiffer DEF Missed
  <2>2. y \in BookType /\ y.pending = NoSignal /\ [y EXCEPT !.pending = NoSignal] = y
    BY <1>1, <2>1 DEF BookType
  <2>3. o = y
    BY <1>3, <2>1 DEF Opened
  <2>4. z = y
    BY <2>2, SignalsDiffer DEF Opened
  <2> QED
    BY <2>3, <2>4
<1>4. CASE Missed(b, y, cs) /\ ~refuse
  <2>1. b.pending \in Buys /\ ~Held(b) /\ FilteredAt(b.pending, cs)
    BY <1>4 DEF Missed
  <2>2. b.pending # NoSignal /\ b.pending \notin Sells
    BY <2>1, SignalsDiffer
  <2>3. BoughtIn(b, o, c.at)
    BY <1>1, <1>4, <2>1, <2>2, OpensReplayed DEF SoldOut
  <2>4. b.pending \in Entries(o)
    BY <2>3 DEF BoughtIn, Entries
  <2>5. FilteredAt(b.pending, Append(cs, c))
    BY <2>1, FilteredStays
  <2> QED
    BY <2>4, <2>5 DEF Passed
<1> QED
  BY <1>2, <1>3, <1>4

\* Asked on the same candle, they say the same, or the gate holds the order back.
LEMMA GateEvaluates ==
    ASSUME NEW cs, Numbering(cs), NEW c \in Candles, c.at = Len(cs) + 1,
           NEW o \in BookType, o.pending = NoSignal,
           NEW u, u = IF LevelHit(o, c) THEN LevelClosed(o, c) ELSE Evaluated("baseline", o, c),
           NEW v, v = IF LevelHit(o, c) THEN LevelClosed(o, c) ELSE Evaluated("slope", o, c)
    PROVE  u = v \/ Missed(u, v, Append(cs, c))
<1>1. o.state \in States
  BY DEF BookType
<1>2. CASE LevelHit(o, c)
  BY <1>2
<1>3. CASE ~LevelHit(o, c) /\ Held(o)
  <2>1. \A s, p : ShouldExit("baseline", s, p, c) = ShouldExit("slope", s, p, c)
    BY DEF ShouldExit, Breakouts
  <2> DEFINE m == [o EXCEPT !.position.holding = @ + 1]
             exit(k) == ShouldExit(k, o.state, m.position, c)
             asked(k) == [m EXCEPT !.state = exit(k).state, !.pending = exit(k).signal]
  <2>2. u = asked("baseline") /\ v = asked("slope")
    BY <1>3 DEF Evaluated
  <2>3. exit("baseline") = exit("slope")
    BY <2>1
  <2> HIDE DEF exit
  <2> QED
    BY <2>2, <2>3
<1>4. CASE ~LevelHit(o, c) /\ ~Held(o)
  <2> DEFINE s == o.state
             d == BaselineEnter(s, c)
             e == SlopeEnter(s, c)
  <2>1. u = [o EXCEPT !.state = d.state, !.pending = d.signal]
    BY <1>4 DEF Evaluated, ShouldEnter
  <2>2. v = [o EXCEPT !.state = e.state, !.pending = e.signal]
    BY <1>4 DEF Evaluated, ShouldEnter
  <2>3. /\ d.state = s
        /\ d.signal = NoSignal \/ (d.signal \in Buys /\ d.signal.at = c.at)
    <3>1. ASSUME NEW x, x = BaselineEnter(s, c)
          PROVE  /\ x.state = s
                 /\ x.signal = NoSignal \/ (x.signal \in Buys /\ x.signal.at = c.at)
      BY <1>1, <3>1, BaselineEnterFacts
    <3> QED
      BY <3>1
  <2>4. \/ e = d
        \/ e = Wait(s) /\ \A slope \in c.slope : slope < SlopeThreshold
    <3>1. \A slope \in c.slope : slope \in Int
      BY DEF Candles
    <3>2. (\E slope \in c.slope : slope >= SlopeThreshold)
             \/ \A slope \in c.slope : slope < SlopeThreshold
      BY <3>1, Limits
    <3> HIDE DEF s
    <3> QED
      BY <3>2 DEF SlopeEnter
  <2> HIDE DEF d, e
  <2>5. CASE e = d
    BY <2>1, <2>2, <2>5
  <2>6. CASE e = Wait(s) /\ \A slope \in c.slope : slope < SlopeThreshold
    <3>1. e.state = s /\ e.signal = NoSignal
      BY <2>6 DEF Wait, Decision
    <3>2. CASE d.signal = NoSignal
      BY <2>1, <2>2, <2>3, <3>1, <3>2
    <3>3. CASE d.signal \in Buys /\ d.signal.at = c.at
      <4>1. u.pending = d.signal /\ u.position = o.position /\ v = [u EXCEPT !.pending = NoSignal]
        <5>1. /\ DOMAIN o = {"position", "pending", "state", "fills", "trades", "pnl"}
              /\ u = [o EXCEPT !.state = s, !.pending = d.signal]
              /\ v = [o EXCEPT !.state = s, !.pending = NoSignal]
          BY <2>1, <2>2, <2>3, <3>1 DEF BookType
        <5> QED
          BY <5>1
      <4>2. Append(cs, c)[Len(cs) + 1] = c /\ Len(Append(cs, c)) = Len(cs) + 1 /\ Len(cs) \in Nat
        BY AppendedFacts
      <4>3. FilteredAt(u.pending, Append(cs, c))
        BY <2>6, <3>3, <4>1, <4>2 DEF FilteredAt
      <4> QED
        BY <1>4, <3>3, <4>1, <4>3 DEF Missed, Held
    <3> QED
      BY <2>3, <3>2, <3>3
  <2> QED
    BY <2>4, <2>5, <2>6
<1> QED
  BY <1>2, <1>3, <1>4

\* A whole candle keeps the two runs together, until a filtered entry fills.
LEMMA GateStepped ==
    ASSUME NEW cs, Numbering(cs), NEW c \in Candles, c.at = Len(cs) + 1,
           NEW b, Well("baseline", b), Booked("baseline", b, cs),
           NEW y, Passed(b, cs) \/ b = y \/ Missed(b, y, cs), NEW refuse \in BOOLEAN,
           NEW u, u = Stepped("baseline", b, c, refuse),
           NEW v, v = Stepped("slope", y, c, refuse)
    PROVE  Passed(u, Append(cs, c)) \/ u = v \/ Missed(u, v, Append(cs, c))
<1> DEFINE o == Opened("baseline", b, c, refuse)
           z == Opened("slope", y, c, refuse)
<1>1. "baseline" \in Strategies
  BY DEF Strategies
<1>2. Entries(b) \subseteq Entries(o)
  <2>1. SoldOut(b, o, c.at) \/ BoughtIn(b, o, c.at) \/ Remains(b, o)
    BY <1>1, OpensReplayed
  <2> QED
    BY <2>1, EntriesStay
<1>3. Entries(o) \subseteq Entries(u)
  BY <1>1, EndsReplayed, EntriesStay
<1>4. o \in BookType /\ o.pending = NoSignal
  BY <1>1, OpenedCases
<1>5. /\ u = IF LevelHit(o, c) THEN LevelClosed(o, c) ELSE Evaluated("baseline", o, c)
      /\ v = IF LevelHit(z, c) THEN LevelClosed(z, c) ELSE Evaluated("slope", z, c)
  BY DEF Stepped
<1>6. CASE Passed(b, cs)
  BY <1>2, <1>3, <1>6, FilteredStays DEF Passed
<1>7. CASE b = y \/ Missed(b, y, cs)
  <2>1. o = z \/ Passed(o, Append(cs, c))
    BY <1>7, GateOpens
  <2> HIDE DEF o, z
  <2>2. CASE Passed(o, Append(cs, c))
    BY <1>3, <2>2 DEF Passed
  <2>3. CASE o = z
    BY <1>4, <1>5, <2>3, GateEvaluates
  <2> QED
    BY <2>1, <2>2, <2>3
<1> QED
  BY <1>6, <1>7

\* The two runs, on the way and at the end.
GatedRuns ==
    LET b == book["baseline"]
        y == book["slope"]
    IN  {"baseline", "slope"} \subseteq Books =>
           \/ Passed(b, series)
           \/ ~ended /\ (b = y \/ Missed(b, y, series))
           \/ ended /\ b.fills = y.fills

\* Both runs begin alike.
LEMMA GatedInit == Init => GatedRuns
  BY DEF Init, GatedRuns

\* Every step keeps the two runs together, until a filtered entry fills.
LEMMA GatedKept ==
    ASSUME Sound, AllBooked, GatedRuns, [Next]_vars
    PROVE  GatedRuns'
<1> DEFINE b == book["baseline"]
           y == book["slope"]
           u == book'["baseline"]
           v == book'["slope"]
<1>1. ASSUME NEW c \in Candles, NEW refuse \in BOOLEAN, Takes(c, refuse),
             {"baseline", "slope"} \subseteq Books
      PROVE  GatedRuns'
  <2>1. /\ ~ended /\ ~ended' /\ c.at = Len(series) + 1 /\ series' = Append(series, c)
        /\ Numbering(series)
    BY <1>1 DEF Takes, Sound
  <2>2. /\ Well("baseline", b) /\ Booked("baseline", b, series)
        /\ u = Stepped("baseline", b, c, refuse) /\ v = Stepped("slope", y, c, refuse)
    BY <1>1, <2>1, BookTakes DEF AllBooked
  <2>3. Passed(b, series) \/ b = y \/ Missed(b, y, series)
    BY <1>1, <2>1 DEF GatedRuns
  <2> HIDE DEF b, y, u, v
  <2>4. Passed(u, Append(series, c)) \/ u = v \/ Missed(u, v, Append(series, c))
    BY <1>1, <2>1, <2>2, <2>3, GateStepped
  <2> QED
    BY <2>1, <2>4 DEF GatedRuns, u, v
<1>2. ASSUME End, {"baseline", "slope"} \subseteq Books PROVE GatedRuns'
  <2>1. /\ ~ended /\ ended' /\ series' = series /\ series # <<>>
        /\ u = Liquidated(b) /\ v = Liquidated(y)
    BY <1>2 DEF End
  <2>2. CASE Passed(b, series)
    <3>1. Entries(b) \subseteq Entries(u)
      <4>1. SoldOut(b, u, Len(series)) \/ (~Held(u) /\ u = b)
        BY <1>2, <2>1, EndReplayed
      <4> HIDE DEF b, u
      <4> QED
        BY <4>1, EntriesStay
    <3>2. Passed(u, series)
      BY <2>2, <3>1 DEF Passed
    <3> QED
      BY <2>1, <3>2 DEF GatedRuns
  <2>3. CASE b = y
    BY <2>1, <2>3 DEF GatedRuns
  <2>4. CASE Missed(b, y, series)
    <3>1. b \in BookType /\ ~Held(b) /\ y = [b EXCEPT !.pending = NoSignal]
      BY <1>2, <2>4 DEF Sound, Missed
    <3>2. y.fills = b.fills /\ ~Held(y)
      BY <3>1 DEF BookType, Held
    <3>3. u.fills = v.fills
      BY <2>1, <3>1, <3>2 DEF Liquidated
    <3> QED
      BY <2>1, <3>3 DEF GatedRuns
  <2> QED
    BY <1>2, <2>1, <2>2, <2>3, <2>4 DEF GatedRuns
<1>3. CASE UNCHANGED vars
  BY <1>3 DEF vars, GatedRuns
<1>4. CASE ~({"baseline", "slope"} \subseteq Books)
  BY <1>4 DEF GatedRuns
<1> QED
  BY <1>1, <1>2, <1>3, <1>4, Steps

\* A candle of an uptrend is the latest of at least one.
LEMMA TrendUpAgeFacts ==
    ASSUME NEW cs, NEW at \in Nat, at >= 1, cs[at].regime = "TREND_UP"
    PROVE  TrendUpAge(cs, at) > 0
<1> DEFINE P(n) == /\ \A i \in at - n + 1 .. at : cs[i].regime = "TREND_UP"
                   /\ n < at => cs[at - n].regime # "TREND_UP"
           other == {i \in 1 .. at : cs[i].regime # "TREND_UP"}
<1>1. \E n \in 0 .. at : P(n)
  <2>1. CASE other = {}
    <3>1. at \in 0 .. at /\ P(at)
      BY <2>1
    <3> QED
      BY <3>1
  <2>2. CASE other # {}
    <3>1. PICK m \in other : \A i \in other : i <= m
      <4>1. other \in SUBSET Int /\ IsFiniteSet(other)
        BY FS_Interval, FS_Subset
      <4> QED
        BY <2>2, <4>1, MaxExists
    <3>2. m \in 1 .. at /\ cs[m].regime # "TREND_UP" /\ at - (at - m) = m
      BY <3>1
    <3>3. \A i \in m + 1 .. at : cs[i].regime = "TREND_UP"
      BY <3>1, <3>2
    <3>4. at - m \in 0 .. at /\ P(at - m)
      BY <3>2, <3>3
    <3> QED
      BY <3>4
  <2> QED
    BY <2>1, <2>2
<1> DEFINE age == CHOOSE n \in 0 .. at : P(n)
<1>2. age \in 0 .. at /\ P(age)
  BY <1>1
<1>3. TrendUpAge(cs, at) = age
  BY DEF TrendUpAge
<1> HIDE DEF age
<1>4. age # 0
  BY <1>2
<1> QED
  BY <1>2, <1>3, <1>4

\* The invariants imply that the filter report is exact.
LEMMA FilterFacts ==
    ASSUME Sound, AllBooked, GatedRuns
    PROVE  FilterIsExact
<1> SUFFICES ASSUME ended, {"baseline", "slope"} \subseteq Books
             PROVE  FilterIsExact
  BY DEF FilterIsExact
<1> DEFINE trades == Trades("baseline")
<1>1. /\ "baseline" \in {"baseline", "slope"}
      /\ \A t \in ToSet(trades) : t \in TradesOn("baseline", series)
  <2>1. trades \in Seq(TradesOn("baseline", series))
    BY ClosedFactsOf
  <2> QED
    BY <2>1 DEF ToSet
<1>2. ASSUME NEW t \in ToSet(trades)
      PROVE  /\ t.entry.at \in Nat /\ t.entry.at >= 1
             /\ series[t.entry.at].regime = "TREND_UP"
  BY <1>1 DEF TradesOn, TradeOn, EntryOn
<1>3. ASSUME \A t \in ToSet(trades) : ~Filtered(t, series) PROVE trades = Trades("slope")
  <2> DEFINE b == book["baseline"]
  <2>1. ~Held(b)
    BY DEF AllBooked
  <2>2. ~Passed(b, series)
    BY <1>3, <2>1 DEF Passed, Entries, FilteredAt, Filtered, Trades
  <2>3. b.fills = book["slope"].fills
    BY <2>2 DEF GatedRuns
  <2> QED
    BY <2>3 DEF Trades, ClosedTrades
<1>4. \A t \in ToSet(trades) : TrendUpAge(series, t.entry.at) > 0
  BY <1>2, TrendUpAgeFacts
<1> QED
  BY <1>3, <1>4 DEF FilterIsExact

\* The filter report is exact: the run behind the gate on the slope has the
\* trades of the baseline, unless the report filters one of them; and every
\* trade it looks at was entered in an uptrend.
THEOREM TheFilterIsExact == Spec => []FilterIsExact
<1>1. Sound /\ AllBooked /\ GatedRuns /\ [Next]_vars => GatedRuns'
  BY GatedKept
<1>2. Sound /\ AllBooked /\ GatedRuns => FilterIsExact
  BY FilterFacts
<1>3. Spec => []AllBooked
  BY BookedInit, BookedKept, RunsAreSound, PTL DEF Spec
<1> QED
  BY <1>1, <1>2, <1>3, GatedInit, RunsAreSound, PTL DEF Spec

-----------------------------------------------------------------------------
(* The funnel: its counts, and what explains a candle.                     *)

Waitings ==
    {"WAITING", "RSI_CROSS_NO_EMA20", "RSI_CROSS_EMA20_VOL_BLOCK",
     "RSI_CROSS_CONFIRMATION_BLOCK_UNKNOWN"}

TraceNames == {"SETUP_ARMED", "IDLE_NO_SETUP", "CONFIRMED"} \cup Waitings \cup Cancels

TraceType == [at : Nat, event : TraceNames, crossed : BOOLEAN, above : BOOLEAN]
LifeType  == [armedAt : Nat, at : Nat, reason : TraceNames \cup {"OPEN_AT_END"}]

FunnelType == [traces : Seq(TraceType), lives : Seq(LifeType), baseFills : Nat]

\* How often an element of T occurs in a sequence.
Places(s, T) == {i \in DOMAIN s : s[i] \in T}
Count(s, T)  == Cardinality(Places(s, T))

TracesOf(event) == {tr \in TraceType : tr.event = event}
LivesOf(reasons) == {l \in LifeType : l.reason \in reasons}

\* The places of a sequence are finitely many.
LEMMA CountType ==
    ASSUME NEW D, NEW s \in Seq(D), NEW T
    PROVE  IsFiniteSet(Places(s, T)) /\ Count(s, T) \in Nat
<1>1. DOMAIN s = 1 .. Len(s) /\ Len(s) \in Int
  OBVIOUS
<1>2. IsFiniteSet(1 .. Len(s)) /\ Places(s, T) \in SUBSET (1 .. Len(s))
  BY <1>1, FS_Interval DEF Places
<1>3. IsFiniteSet(Places(s, T))
  BY <1>2, FS_Subset
<1> QED
  BY <1>3, FS_CardinalityType DEF Count

\* One more element counts where it belongs.
LEMMA CountAppended ==
    ASSUME NEW D, NEW s \in Seq(D), NEW e \in D, NEW T
    PROVE  Count(Append(s, e), T) = IF e \in T THEN Count(s, T) + 1 ELSE Count(s, T)
<1> DEFINE z == Append(s, e)
           n == Len(s) + 1
<1>1. /\ DOMAIN z = 1 .. n /\ DOMAIN s = 1 .. Len(s) /\ Len(s) \in Nat /\ z[n] = e
      /\ \A i \in 1 .. Len(s) : z[i] = s[i]
  BY AppendProperties, LenProperties
<1>2. 1 .. n = 1 .. Len(s) \cup {n} /\ n \notin 1 .. Len(s)
  BY <1>1
<1> HIDE DEF z, n
<1>3. IsFiniteSet(Places(s, T)) /\ n \notin Places(s, T)
  BY <1>1, <1>2, CountType DEF Places
<1>4. CASE e \in T
  <2>1. Places(z, T) = Places(s, T) \cup {n}
    BY <1>1, <1>2, <1>4 DEF Places
  <2> QED
    BY <1>3, <1>4, <2>1, FS_AddElement DEF Count, z
<1>5. CASE e \notin T
  <2>1. Places(z, T) = Places(s, T)
    BY <1>1, <1>2, <1>5 DEF Places
  <2> QED
    BY <1>5, <2>1 DEF Count, z
<1> QED
  BY <1>4, <1>5

\* What the funnel reads off one call of should_enter.
LEMMA TraceEventFacts ==
    ASSUME NEW s \in States, NEW c \in Candles, NEW d, d = PullbackEnter(s, c),
           NEW event, event = TraceEvent(s, d, c)
    PROVE  /\ d.state \in States /\ (d.signal = NoSignal \/ d.signal \in Buys)
           /\ s.phase = "IDLE" => d.signal = NoSignal
           /\ s.phase = "IDLE" /\ d.state.phase = "IDLE" => event = "IDLE_NO_SETUP"
           /\ s.phase = "IDLE" /\ d.state.phase = "ARMED" => event = "SETUP_ARMED"
           /\ s.phase = "ARMED" /\ d.signal # NoSignal =>
                 /\ d.state.phase = "IDLE" /\ event = "CONFIRMED"
                 /\ CrossSeen(s, c) /\ AboveEma20(c)
           /\ s.phase = "ARMED" /\ d.signal = NoSignal /\ d.state.phase = "IDLE" =>
                 event \in Cancels
           /\ s.phase = "ARMED" /\ d.state.phase = "ARMED" => event \in Waitings
           /\ event = "RSI_CROSS_EMA20_VOL_BLOCK" => CrossSeen(s, c) /\ AboveEma20(c)
           /\ event = "RSI_CROSS_CONFIRMATION_BLOCK_UNKNOWN" => ~PullbackKnown(c)
<1>1. /\ d.state \in States
      /\ \/ Skips(s, d, c) \/ StaysIdle(s, d, c) \/ Drops(s, d, c)
         \/ Confirms(s, d, c) \/ Holds(s, d, c) \/ Begins(s, d, c)
  BY PullbackEnterFacts
<1>2. s.phase \in {"IDLE", "ARMED"} /\ d.state.phase \in {"IDLE", "ARMED"}
  BY <1>1 DEF States
<1>3. CASE StaysIdle(s, d, c)
  BY <1>1, <1>3 DEF StaysIdle, TraceEvent
<1>4. CASE Begins(s, d, c)
  BY <1>1, <1>4 DEF Begins, TraceEvent
<1>5. CASE Confirms(s, d, c)
  <2>1. /\ s.phase = "ARMED" /\ d.state.phase = "IDLE" /\ d.signal \in Buys
        /\ PullbackKnown(c) /\ Confirmed(s, c)
    BY <1>5 DEF Confirms
  <2>2. d.signal # NoSignal
    BY <2>1, SignalsDiffer
  <2>3. c["rsi"] # Absent /\ c["ema20"] # Absent
    BY <2>1 DEF PullbackKnown, Known
  <2>4. CrossSeen(s, c) /\ AboveEma20(c)
    BY <2>1, <2>3 DEF CrossSeen, AboveEma20, Confirmed
  <2>5. event = "CONFIRMED"
    BY <2>1, <2>2 DEF TraceEvent
  <2> QED
    BY <1>1, <2>1, <2>2, <2>4, <2>5
<1>6. CASE Drops(s, d, c)
  <2>1. /\ s.phase = "ARMED" /\ d.state.phase = "IDLE" /\ d.signal = NoSignal
        /\ c.regime # "TREND_UP" \/ ~Trending(c) \/ s.bars + 1 >= SetupTimeout
    BY <1>6 DEF Drops
  <2>2. event = CancelReason(s, c)
    BY <2>1 DEF TraceEvent
  <2>3. c.close \in Nat /\ c.ema200 \in Nat /\ c.ema50 \in Nat
    BY DEF Candles
  <2>4. Trending(c) \/ c.close <= c.ema200 \/ c.ema50 <= c.ema200
    BY <2>3 DEF Trending
  <2>5. event \in Cancels
    BY <2>1, <2>2, <2>4 DEF CancelReason, Cancels, Trending
  <2>6. event \notin {"RSI_CROSS_EMA20_VOL_BLOCK", "RSI_CROSS_CONFIRMATION_BLOCK_UNKNOWN"}
    BY <2>5 DEF Cancels
  <2> QED
    BY <1>1, <2>1, <2>5, <2>6
<1>7. CASE (Skips(s, d, c) \/ Holds(s, d, c)) /\ s.phase = "ARMED"
  <2>1. /\ d.state.phase = "ARMED" /\ d.signal = NoSignal
        /\ ~PullbackKnown(c) \/ ~Confirmed(s, c)
    BY <1>7 DEF Skips, Holds, Setup
  <2>2. event = IF ~CrossSeen(s, c) THEN "WAITING"
                ELSE IF ~AboveEma20(c) THEN "RSI_CROSS_NO_EMA20"
                ELSE IF ~c.calm THEN "RSI_CROSS_EMA20_VOL_BLOCK"
                ELSE "RSI_CROSS_CONFIRMATION_BLOCK_UNKNOWN"
    BY <1>7, <2>1 DEF TraceEvent
  <2>3. event \in Waitings
    BY <2>2 DEF Waitings
  <2>4. event = "RSI_CROSS_CONFIRMATION_BLOCK_UNKNOWN" => ~PullbackKnown(c)
    <3>1. CrossSeen(s, c) /\ AboveEma20(c) /\ c.calm => Confirmed(s, c)
      BY DEF CrossSeen, AboveEma20, Confirmed
    <3> QED
      BY <2>1, <2>2, <3>1
  <2>5. event = "RSI_CROSS_EMA20_VOL_BLOCK" => CrossSeen(s, c) /\ AboveEma20(c)
    BY <2>2
  <2> QED
    BY <1>1, <1>7, <2>1, <2>3, <2>4, <2>5
<1>8. CASE Skips(s, d, c) /\ s.phase = "IDLE"
  BY <1>1, <1>8 DEF Skips, Setup, TraceEvent
<1>9. Holds(s, d, c) => s.phase = "ARMED"
  BY DEF Holds
<1> QED
  BY <1>1, <1>2, <1>3, <1>4, <1>5, <1>6, <1>7, <1>8, <1>9

\* A setup is armed, or has one life; a confirmed one fills at most once.
Accounts(f, armed, owed) ==
    LET confirmed == Count(f.traces, TracesOf("CONFIRMED"))
    IN  /\ Count(f.traces, TracesOf("SETUP_ARMED"))
              = confirmed + Count(f.lives, LivesOf(Cancels))
                   + Count(f.lives, LivesOf({"OPEN_AT_END"})) + armed
        /\ confirmed = Count(f.lives, LivesOf({"CONFIRMED"}))
        /\ f.baseFills + owed <= confirmed

ArmedIn(s)  == IF s.phase = "ARMED" THEN 1 ELSE 0
Entering(b) == b.pending \in Buys /\ b.pending.dca = 0
OwedBy(b)   == IF Entering(b) THEN 1 ELSE 0

TraceOk(tr, cs) ==
    /\ tr.at \in 1 .. Len(cs)
    /\ tr.event \in {"RSI_CROSS_EMA20_VOL_BLOCK", "CONFIRMED"} => tr.crossed /\ tr.above
    /\ tr.event = "RSI_CROSS_CONFIRMATION_BLOCK_UNKNOWN" => ~PullbackKnown(cs[tr.at])

\* The counts of the funnel are numbers.
LEMMA FunnelCounts ==
    ASSUME NEW f \in FunnelType
    PROVE  /\ \A T : Count(f.traces, T) \in Nat /\ Count(f.lives, T) \in Nat
           /\ f.baseFills \in Nat
<1>1. f.traces \in Seq(TraceType) /\ f.lives \in Seq(LifeType) /\ f.baseFills \in Nat
  BY DEF FunnelType
<1> QED
  BY <1>1, CountType

\* The trace of a call, and the life it may end.
LeavesTrace(f, s, d, c, g) ==
    \E tr \in TraceType :
        /\ tr.at = c.at /\ tr.event = TraceEvent(s, d, c)
        /\ tr.crossed <=> CrossSeen(s, c)
        /\ tr.above <=> AboveEma20(c)
        /\ g.traces = Append(f.traces, tr) /\ g.baseFills = f.baseFills
        /\ s.phase = "ARMED" /\ d.state.phase = "IDLE" =>
              \E l \in LifeType : l.reason = tr.event /\ g.lives = Append(f.lives, l)
        /\ ~(s.phase = "ARMED" /\ d.state.phase = "IDLE") => g.lives = f.lives
        /\ g \in FunnelType

\* One traced call: the trace, and the life it may end.
LEMMA TracedFacts ==
    ASSUME NEW f \in FunnelType, NEW s \in States, NEW c \in Candles,
           NEW d, d = PullbackEnter(s, c), NEW g, g = Traced(f, s, d, c)
    PROVE  LeavesTrace(f, s, d, c, g)
<1> DEFINE event == TraceEvent(s, d, c)
           crossed == CrossSeen(s, c)
           above == AboveEma20(c)
           tr == [at |-> c.at, event |-> event, crossed |-> crossed, above |-> above]
           l == Life(s, c.at, event)
           ends == s.phase = "ARMED" /\ d.state.phase = "IDLE"
<1>1. event \in TraceNames
  <2>1. /\ d.state \in States /\ (d.signal = NoSignal \/ d.signal \in Buys)
        /\ event \in {"IDLE_NO_SETUP", "SETUP_ARMED", "CONFIRMED"} \/ event \in Cancels
              \/ event \in Waitings
    <3>1. s.phase \in {"IDLE", "ARMED"}
      BY DEF States
    <3>2. d.state \in States
      BY TraceEventFacts
    <3>3. d.state.phase \in {"IDLE", "ARMED"}
      BY <3>2 DEF States
    <3> QED
      BY <3>1, <3>2, <3>3, TraceEventFacts
  <2> QED
    BY <2>1 DEF TraceNames
<1>2. crossed \in BOOLEAN /\ above \in BOOLEAN /\ c.at \in Nat /\ s.armedAt \in Nat
  BY DEF CrossSeen, AboveEma20, Candles, States
<1>3. g = [f EXCEPT !.traces = Append(f.traces, tr),
                    !.lives = IF ends THEN Append(f.lives, l) ELSE f.lives]
  BY DEF Traced
<1> HIDE DEF event, crossed, above
<1>4. tr \in TraceType /\ tr.at = c.at /\ tr.event = event /\ tr.crossed = crossed /\ tr.above = above
  BY <1>1, <1>2 DEF TraceType
<1>5. l \in LifeType /\ l.reason = event
  BY <1>1, <1>2 DEF Life, LifeType
<1> HIDE DEF tr, l, ends
<1>6. f.traces \in Seq(TraceType) /\ f.lives \in Seq(LifeType) /\ f.baseFills \in Nat
  BY DEF FunnelType
<1>7. Append(f.traces, tr) \in Seq(TraceType) /\ Append(f.lives, l) \in Seq(LifeType)
  BY <1>4, <1>5, <1>6, AppendProperties
<1>8. /\ g.traces = Append(f.traces, tr) /\ g.baseFills = f.baseFills
      /\ g.lives = IF ends THEN Append(f.lives, l) ELSE f.lives
      /\ g = [traces |-> g.traces, lives |-> g.lives, baseFills |-> g.baseFills]
  BY <1>3 DEF FunnelType
<1>9. g \in FunnelType
  BY <1>6, <1>7, <1>8 DEF FunnelType
<1>10. /\ ends => \E z \in LifeType : z.reason = tr.event /\ g.lives = Append(f.lives, z)
       /\ ~ends => g.lives = f.lives
  BY <1>4, <1>5, <1>8
<1>11. /\ tr.crossed <=> CrossSeen(s, c)
       /\ tr.above <=> AboveEma20(c)
  BY <1>4 DEF crossed, above
<1> QED
  BY <1>4, <1>8, <1>9, <1>10, <1>11 DEF LeavesTrace, event, ends

\* A traced call keeps the accounts.
LEMMA TracedAccounts ==
    ASSUME NEW f \in FunnelType, NEW s \in States, NEW c \in Candles,
           NEW d, d = PullbackEnter(s, c), NEW g, g = Traced(f, s, d, c),
           Accounts(f, ArmedIn(s), 0)
    PROVE  Accounts(g, ArmedIn(d.state), IF d.signal = NoSignal THEN 0 ELSE 1)
<1> DEFINE event == TraceEvent(s, d, c)
<1>1. PICK tr \in TraceType :
         /\ tr.event = event /\ g.traces = Append(f.traces, tr) /\ g.baseFills = f.baseFills
         /\ s.phase = "ARMED" /\ d.state.phase = "IDLE" =>
               \E l \in LifeType : l.reason = tr.event /\ g.lives = Append(f.lives, l)
         /\ ~(s.phase = "ARMED" /\ d.state.phase = "IDLE") => g.lives = f.lives
  <2>1. LeavesTrace(f, s, d, c, g)
    BY TracedFacts
  <2> QED
    BY <2>1 DEF LeavesTrace
<1>2. f.traces \in Seq(TraceType) /\ f.lives \in Seq(LifeType)
  BY DEF FunnelType
<1>3. \A e : Count(g.traces, TracesOf(e))
                = IF event = e THEN Count(f.traces, TracesOf(e)) + 1 ELSE Count(f.traces, TracesOf(e))
  <2>1. \A e : tr \in TracesOf(e) <=> event = e
    BY <1>1 DEF TracesOf
  <2>2. \A T : Count(Append(f.traces, tr), T)
                  = IF tr \in T THEN Count(f.traces, T) + 1 ELSE Count(f.traces, T)
    BY <1>2, CountAppended
  <2> HIDE DEF event
  <2> QED
    BY <1>1, <2>1, <2>2
<1>4. ASSUME s.phase = "ARMED", d.state.phase = "IDLE", NEW r
      PROVE  Count(g.lives, LivesOf(r))
                = IF event \in r THEN Count(f.lives, LivesOf(r)) + 1 ELSE Count(f.lives, LivesOf(r))
  <2>1. PICK l \in LifeType : l.reason = event /\ g.lives = Append(f.lives, l)
    BY <1>1, <1>4
  <2>2. l \in LivesOf(r) <=> event \in r
    BY <2>1 DEF LivesOf
  <2>3. Count(Append(f.lives, l), LivesOf(r))
           = IF l \in LivesOf(r) THEN Count(f.lives, LivesOf(r)) + 1 ELSE Count(f.lives, LivesOf(r))
    BY <1>2, CountAppended
  <2> HIDE DEF event
  <2> QED
    BY <2>1, <2>2, <2>3
<1>5. s.phase = "IDLE" \/ d.state.phase # "IDLE" => g.lives = f.lives
  <2>1. ~(s.phase = "ARMED" /\ d.state.phase = "IDLE") => g.lives = f.lives
    BY <1>1
  <2> QED
    BY <2>1
<1>6. /\ s.phase \in {"IDLE", "ARMED"} /\ d.state.phase \in {"IDLE", "ARMED"}
      /\ s.phase = "IDLE" => d.signal = NoSignal
      /\ s.phase = "IDLE" /\ d.state.phase = "IDLE" => event = "IDLE_NO_SETUP"
      /\ s.phase = "IDLE" /\ d.state.phase = "ARMED" => event = "SETUP_ARMED"
      /\ s.phase = "ARMED" /\ d.signal # NoSignal => d.state.phase = "IDLE" /\ event = "CONFIRMED"
      /\ s.phase = "ARMED" /\ d.signal = NoSignal /\ d.state.phase = "IDLE" => event \in Cancels
      /\ s.phase = "ARMED" /\ d.state.phase = "ARMED" => event \in Waitings
  <2>1. d.state \in States
    BY TraceEventFacts
  <2>2. s.phase \in {"IDLE", "ARMED"} /\ d.state.phase \in {"IDLE", "ARMED"}
    BY <2>1 DEF States
  <2> QED
    BY <2>2, TraceEventFacts
<1> DEFINE armed(x)     == Count(x.traces, TracesOf("SETUP_ARMED"))
           confirmed(x) == Count(x.traces, TracesOf("CONFIRMED"))
           cancelled(x) == Count(x.lives, LivesOf(Cancels))
           open(x)      == Count(x.lives, LivesOf({"OPEN_AT_END"}))
           lived(x)     == Count(x.lives, LivesOf({"CONFIRMED"}))
<1>7. /\ armed(f) \in Nat /\ confirmed(f) \in Nat /\ cancelled(f) \in Nat /\ open(f) \in Nat
      /\ lived(f) \in Nat /\ f.baseFills \in Nat /\ g.baseFills = f.baseFills
  BY <1>1, FunnelCounts
<1>8. /\ armed(f) = confirmed(f) + cancelled(f) + open(f) + ArmedIn(s)
      /\ confirmed(f) = lived(f) /\ f.baseFills + 0 <= confirmed(f)
  BY DEF Accounts
<1> HIDE DEF event
<1>9. /\ armed(g) = IF event = "SETUP_ARMED" THEN armed(f) + 1 ELSE armed(f)
      /\ confirmed(g) = IF event = "CONFIRMED" THEN confirmed(f) + 1 ELSE confirmed(f)
  BY <1>3
<1>10. s.phase = "ARMED" /\ d.state.phase = "IDLE" =>
          /\ cancelled(g) = IF event \in Cancels THEN cancelled(f) + 1 ELSE cancelled(f)
          /\ open(g) = IF event \in {"OPEN_AT_END"} THEN open(f) + 1 ELSE open(f)
          /\ lived(g) = IF event \in {"CONFIRMED"} THEN lived(f) + 1 ELSE lived(f)
  BY <1>4
<1>11. s.phase = "IDLE" \/ d.state.phase # "IDLE" =>
          cancelled(g) = cancelled(f) /\ open(g) = open(f) /\ lived(g) = lived(f)
  BY <1>5
<1>12. \A x : Accounts(x, ArmedIn(d.state), IF d.signal = NoSignal THEN 0 ELSE 1) <=>
          /\ armed(x) = confirmed(x) + cancelled(x) + open(x) + ArmedIn(d.state)
          /\ confirmed(x) = lived(x)
          /\ x.baseFills + (IF d.signal = NoSignal THEN 0 ELSE 1) <= confirmed(x)
  BY DEF Accounts
<1> HIDE DEF armed, confirmed, cancelled, open, lived
<1>13. CASE s.phase = "IDLE" /\ d.state.phase = "IDLE"
  BY <1>6, <1>7, <1>8, <1>9, <1>11, <1>12, <1>13 DEF ArmedIn
<1>14. CASE s.phase = "IDLE" /\ d.state.phase = "ARMED"
  BY <1>6, <1>7, <1>8, <1>9, <1>11, <1>12, <1>14 DEF ArmedIn
<1>15. CASE s.phase = "ARMED" /\ d.signal # NoSignal
  BY <1>6, <1>7, <1>8, <1>9, <1>10, <1>12, <1>15 DEF ArmedIn, Cancels
<1>16. CASE s.phase = "ARMED" /\ d.signal = NoSignal /\ d.state.phase = "IDLE"
  <2>1. event \in Cancels /\ event \notin {"SETUP_ARMED", "CONFIRMED", "OPEN_AT_END"}
    BY <1>6, <1>16 DEF Cancels
  <2> QED
    BY <1>7, <1>8, <1>9, <1>10, <1>12, <1>16, <2>1 DEF ArmedIn
<1>17. CASE s.phase = "ARMED" /\ d.signal = NoSignal /\ d.state.phase = "ARMED"
  <2>1. event \notin {"SETUP_ARMED", "CONFIRMED"}
    BY <1>6, <1>17 DEF Waitings
  <2> QED
    BY <1>7, <1>8, <1>9, <1>11, <1>12, <1>17, <2>1 DEF ArmedIn
<1> QED
  BY <1>6, <1>13, <1>14, <1>15, <1>16, <1>17

\* A candle of the pullback is looked at, or a trade or the position covers it.
Explained(i, b, f) ==
    \/ \E j \in DOMAIN f.traces : f.traces[j].at = i
    \/ \E t \in ToSet(ClosedTrades(b)) : t.entryAt <= i /\ i <= t.exitAt
    \/ Held(b) /\ First(b).at <= i

FilledFunnel(b, refuse) ==
    [funnel EXCEPT !.baseFills = IF BaseFilled(b, refuse) THEN @ + 1 ELSE @]

\* The fill of an entry was owed.
LEMMA FillCounted ==
    ASSUME funnel \in FunnelType, NEW b \in BookType, NEW refuse \in BOOLEAN, NEW armed,
           Accounts(funnel, armed, OwedBy(b)), NEW f, f = FilledFunnel(b, refuse)
    PROVE  /\ f \in FunnelType /\ f.traces = funnel.traces /\ Accounts(f, armed, 0)
<1>1. /\ funnel.traces \in Seq(TraceType) /\ funnel.lives \in Seq(LifeType)
      /\ funnel.baseFills \in Nat
  BY DEF FunnelType
<1>2. f = [funnel EXCEPT !.baseFills =
              IF BaseFilled(b, refuse) THEN funnel.baseFills + 1 ELSE funnel.baseFills]
  BY DEF FilledFunnel
<1>3. /\ f.traces = funnel.traces /\ f.lives = funnel.lives
      /\ f.baseFills = IF BaseFilled(b, refuse) THEN funnel.baseFills + 1 ELSE funnel.baseFills
      /\ f = [traces |-> f.traces, lives |-> f.lives, baseFills |-> f.baseFills]
  BY <1>2 DEF FunnelType
<1>4. f \in FunnelType
  BY <1>1, <1>3 DEF FunnelType
<1>5. BaseFilled(b, refuse) => OwedBy(b) = 1
  BY PendingKinds DEF BaseFilled, OwedBy, Entering
<1>6. OwedBy(b) \in {0, 1}
  BY DEF OwedBy
<1>7. /\ f.baseFills + 0 <= funnel.baseFills + OwedBy(b)
      /\ f.baseFills + 0 \in Nat /\ funnel.baseFills + OwedBy(b) \in Nat
  BY <1>1, <1>3, <1>5, <1>6
<1>8. Count(funnel.traces, TracesOf("CONFIRMED")) \in Nat
  BY FunnelCounts
<1>9. /\ Count(f.traces, TracesOf("SETUP_ARMED"))
            = Count(f.traces, TracesOf("CONFIRMED")) + Count(f.lives, LivesOf(Cancels))
                 + Count(f.lives, LivesOf({"OPEN_AT_END"})) + armed
      /\ Count(f.traces, TracesOf("CONFIRMED")) = Count(f.lives, LivesOf({"CONFIRMED"}))
      /\ funnel.baseFills + OwedBy(b) <= Count(f.traces, TracesOf("CONFIRMED"))
  BY <1>3 DEF Accounts
<1>10. f.baseFills + 0 <= Count(f.traces, TracesOf("CONFIRMED"))
  BY <1>3, <1>7, <1>8, <1>9
<1> QED
  BY <1>3, <1>4, <1>9, <1>10 DEF Accounts

\* A candle of the pullback keeps the accounts, and leaves a trace when it is flat.
LEMMA FunnelStepped ==
    ASSUME NEW cs, Numbering(cs), NEW c \in Candles, c.at = Len(cs) + 1,
           NEW b, Well("pullback", b), funnel \in FunnelType,
           Accounts(funnel, ArmedIn(b.state), OwedBy(b)), NEW refuse \in BOOLEAN,
           NEW o, o = Opened("pullback", b, c, refuse),
           NEW u, u = Stepped("pullback", b, c, refuse), NEW g, g = FunnelStep(b, c, refuse)
    PROVE  /\ g \in FunnelType /\ Accounts(g, ArmedIn(u.state), OwedBy(u))
           /\ Held(o) => g.traces = funnel.traces
           /\ ~Held(o) => \E tr \in TraceType :
                 tr.at = c.at /\ TraceOk(tr, Append(cs, c)) /\ g.traces = Append(funnel.traces, tr)
<1> DEFINE f == FilledFunnel(b, refuse)
           d == ShouldEnter("pullback", o.state, c)
<1>0. "pullback" \in Strategies /\ b \in BookType
  BY DEF Strategies, Well
<1>1. /\ o \in BookType /\ o.pending = NoSignal
      /\ o.state.phase = "ARMED" => ~Held(o)
      /\ Setup(o.state) = Setup(b.state)
  BY <1>0, OpenedCases
<1>2. /\ Well("pullback", u)
      /\ EndsByLevel(o, u, c) \/ EndsHeld("pullback", o, u, c) \/ EndsFlat("pullback", o, u, c)
  BY <1>0, SteppedCases
<1>3. f \in FunnelType /\ f.traces = funnel.traces /\ Accounts(f, ArmedIn(b.state), 0)
  BY <1>0, FillCounted
<1>4. g = IF Held(o) THEN f ELSE Traced(f, o.state, d, c)
  BY DEF FunnelStep, FilledFunnel
<1>5. ArmedIn(o.state) = ArmedIn(b.state)
  BY <1>1 DEF ArmedIn, Setup
<1>6. o.state \in States
  BY <1>1 DEF BookType
<1> HIDE DEF f
<1>7. CASE Held(o)
  <2>1. ArmedIn(b.state) = 0
    BY <1>1, <1>5, <1>7 DEF ArmedIn
  <2>2. ArmedIn(u.state) = 0 /\ OwedBy(u) = 0
    <3>1. CASE EndsByLevel(o, u, c)
      <4>1. u.state = o.state /\ u.pending = NoSignal
        BY <3>1 DEF EndsByLevel
      <4> QED
        BY <1>1, <1>7, <4>1, SignalsDiffer DEF ArmedIn, OwedBy, Entering
    <3>2. CASE EndsHeld("pullback", o, u, c)
      <4>1. Held(u)
        BY <3>2 DEF EndsHeld
      <4>2. u.state.phase # "ARMED" /\ (u.pending \in Buys => u.pending.dca > 0)
        BY <1>2, <4>1 DEF Well
      <4> QED
        BY <4>2 DEF ArmedIn, OwedBy, Entering
    <3> QED
      BY <1>2, <1>7, <3>1, <3>2 DEF EndsFlat
  <2> QED
    BY <1>3, <1>4, <1>7, <2>1, <2>2
<1>8. CASE ~Held(o)
  <2>1. d = PullbackEnter(o.state, c)
    BY DEF ShouldEnter
  <2>2. EndsFlat("pullback", o, u, c)
    BY <1>2, <1>8 DEF EndsByLevel, EndsHeld
  <2>3. u.state = d.state /\ u.pending = d.signal
    BY <2>2 DEF EndsFlat
  <2>4. g = Traced(f, o.state, d, c)
    BY <1>4, <1>8
  <2> HIDE DEF d
  <2> DEFINE s == o.state
  <2>5. s \in States /\ Accounts(f, ArmedIn(s), 0)
    BY <1>3, <1>5, <1>6
  <2>6. ~Held(u) /\ OwedBy(u) = IF d.signal = NoSignal THEN 0 ELSE 1
    <3>1. ~Held(u)
      BY <2>2 DEF EndsFlat
    <3>2. u.pending \in Buys => u.pending.dca = 0
      BY <1>2, <3>1 DEF Well
    <3>3. d.signal = NoSignal \/ d.signal \in Buys
      BY <1>6, <2>1, TraceEventFacts
    <3> QED
      BY <2>3, <3>1, <3>2, <3>3, SignalsDiffer DEF OwedBy, Entering
  <2> HIDE DEF s
  <2>7. Accounts(g, ArmedIn(d.state), IF d.signal = NoSignal THEN 0 ELSE 1)
    BY <1>3, <2>1, <2>4, <2>5, TracedAccounts DEF s
  <2>8. LeavesTrace(f, s, d, c, g)
    <3>1. d = PullbackEnter(s, c) /\ g = Traced(f, s, d, c)
      BY <2>1, <2>4 DEF s
    <3> QED
      BY <1>3, <2>5, <3>1, TracedFacts
  <2>9. PICK tr \in TraceType :
           /\ tr.at = c.at /\ tr.event = TraceEvent(s, d, c)
           /\ tr.crossed <=> CrossSeen(s, c)
           /\ tr.above <=> AboveEma20(c)
           /\ g.traces = Append(f.traces, tr) /\ g \in FunnelType
    BY <2>8 DEF LeavesTrace
  <2>10. TraceOk(tr, Append(cs, c))
    <3>1. /\ c.at \in 1 .. Len(Append(cs, c)) /\ Append(cs, c)[c.at] = c
      BY AppendedFacts
    <3> DEFINE event == TraceEvent(s, d, c)
    <3>2. /\ event = "CONFIRMED" => CrossSeen(s, c) /\ AboveEma20(c)
          /\ event = "RSI_CROSS_EMA20_VOL_BLOCK" => CrossSeen(s, c) /\ AboveEma20(c)
          /\ event = "RSI_CROSS_CONFIRMATION_BLOCK_UNKNOWN" => ~PullbackKnown(c)
      <4>1. /\ s.phase \in {"IDLE", "ARMED"} /\ d.state.phase \in {"IDLE", "ARMED"}
            /\ s.phase = "IDLE" /\ d.state.phase = "IDLE" => event = "IDLE_NO_SETUP"
            /\ s.phase = "IDLE" /\ d.state.phase = "ARMED" => event = "SETUP_ARMED"
            /\ s.phase = "ARMED" /\ d.signal # NoSignal => CrossSeen(s, c) /\ AboveEma20(c)
            /\ s.phase = "ARMED" /\ d.signal = NoSignal /\ d.state.phase = "IDLE" =>
                  event \in Cancels
            /\ s.phase = "ARMED" /\ d.state.phase = "ARMED" => event \in Waitings
            /\ event = "RSI_CROSS_EMA20_VOL_BLOCK" => CrossSeen(s, c) /\ AboveEma20(c)
            /\ event = "RSI_CROSS_CONFIRMATION_BLOCK_UNKNOWN" => ~PullbackKnown(c)
        <5>1. d = PullbackEnter(s, c)
          BY <2>1 DEF s
        <5>2. d.state \in States
          BY <2>5, <5>1, TraceEventFacts
        <5>3. s.phase \in {"IDLE", "ARMED"} /\ d.state.phase \in {"IDLE", "ARMED"}
          BY <2>5, <5>2 DEF States
        <5> QED
          BY <2>5, <5>1, <5>3, TraceEventFacts
      <4> HIDE DEF event
      <4> QED
        BY <4>1 DEF Cancels, Waitings
    <3> QED
      BY <2>9, <3>1, <3>2 DEF TraceOk
  <2> QED
    BY <1>3, <1>8, <2>3, <2>6, <2>7, <2>9, <2>10
<1> QED
  BY <1>7, <1>8

\* What explained a candle still does, with more traces, trades or the position.
LEMMA ExplainedStays ==
    ASSUME NEW i, NEW b, NEW x, NEW f, NEW g, NEW at \in Int, i \in Int, i <= at,
           Explained(i, b, f),
           \A j \in DOMAIN f.traces : j \in DOMAIN g.traces /\ g.traces[j] = f.traces[j],
           SoldOut(b, x, at) \/ BoughtIn(b, x, at) \/ Remains(b, x)
    PROVE  Explained(i, x, g)
<1>1. CASE \E j \in DOMAIN f.traces : f.traces[j].at = i
  BY <1>1 DEF Explained
<1>2. CASE \E t \in ToSet(ClosedTrades(b)) : t.entryAt <= i /\ i <= t.exitAt
  <2>1. ToSet(ClosedTrades(b)) \subseteq ToSet(ClosedTrades(x))
    BY DEF SoldOut, BoughtIn, Remains
  <2> QED
    BY <1>2, <2>1 DEF Explained
<1>3. CASE Held(b) /\ First(b).at <= i
  <2>1. CASE SoldOut(b, x, at)
    <3>1. PICK t \in TradeType : /\ ToSet(ClosedTrades(x)) = ToSet(ClosedTrades(b)) \cup {t}
                                 /\ t.entryAt = First(b).at /\ t.exitAt = at
      BY <2>1 DEF SoldOut
    <3> QED
      BY <1>3, <3>1 DEF Explained
  <2>2. CASE Remains(b, x)
    BY <1>3, <2>2 DEF Explained, Remains
  <2> QED
    BY <1>3, <2>1, <2>2 DEF BoughtIn
<1> QED
  BY <1>1, <1>2, <1>3 DEF Explained

\* A candle in a position is covered by it.
LEMMA CandleCovered ==
    ASSUME NEW o, NEW u, NEW at \in Int, NEW g, Held(o), First(o).at \in Int, First(o).at <= at,
           SoldOut(o, u, at) \/ Remains(o, u)
    PROVE  Explained(at, u, g)
<1>1. CASE SoldOut(o, u, at)
  <2>1. PICK t \in TradeType : /\ ToSet(ClosedTrades(u)) = ToSet(ClosedTrades(o)) \cup {t}
                               /\ t.entryAt = First(o).at /\ t.exitAt = at
    BY <1>1 DEF SoldOut
  <2>2. t \in ToSet(ClosedTrades(u)) /\ t.entryAt <= at /\ at <= t.exitAt
    BY <2>1
  <2> QED
    BY <2>2 DEF Explained
<1>2. CASE Remains(o, u)
  BY <1>2 DEF Explained, Remains
<1> QED
  BY <1>1, <1>2

\* The candles of the pullback stay explained.
LEMMA ExplainedStepped ==
    ASSUME NEW cs, Numbering(cs), NEW c \in Candles, c.at = Len(cs) + 1,
           NEW b, Well("pullback", b), Booked("pullback", b, cs), funnel \in FunnelType,
           Accounts(funnel, ArmedIn(b.state), OwedBy(b)), NEW refuse \in BOOLEAN,
           \A j \in DOMAIN funnel.traces : TraceOk(funnel.traces[j], cs),
           \A i \in 1 .. Len(cs) : Explained(i, b, funnel),
           NEW u, u = Stepped("pullback", b, c, refuse), NEW g, g = FunnelStep(b, c, refuse)
    PROVE  /\ \A j \in DOMAIN g.traces : TraceOk(g.traces[j], Append(cs, c))
           /\ \A i \in 1 .. Len(cs) + 1 : Explained(i, u, g)
<1> DEFINE o == Opened("pullback", b, c, refuse)
           ds == Append(cs, c)
           old == funnel.traces
<1>0. "pullback" \in Strategies
  BY DEF Strategies
<1>1. /\ Len(cs) \in Nat /\ Len(ds) = Len(cs) + 1 /\ c.at = Len(cs) + 1
      /\ \A i \in 1 .. Len(cs) : ds[i] = cs[i]
  BY AppendedFacts
<1>2. \/ SoldOut(b, o, c.at) \/ BoughtIn(b, o, c.at) \/ Remains(b, o)
  BY <1>0, OpensReplayed
<1>3. SoldOut(o, u, c.at) \/ Remains(o, u)
  BY <1>0, EndsReplayed
<1>4. /\ Held(o) => g.traces = old
      /\ ~Held(o) => \E tr \in TraceType :
            tr.at = c.at /\ TraceOk(tr, ds) /\ g.traces = Append(old, tr)
  BY FunnelStepped
<1>5. Traded("pullback", o, ds, Len(cs))
  BY <1>0, BookedOpens
<1>6. old \in Seq(TraceType) /\ DOMAIN old = 1 .. Len(old) /\ Len(old) \in Nat
  BY DEF FunnelType
<1> HIDE DEF o, ds, old
<1>7. \A j \in DOMAIN old : TraceOk(old[j], ds)
  <2>1. ASSUME NEW j \in DOMAIN old PROVE TraceOk(old[j], ds)
    <3>1. TraceOk(old[j], cs)
      BY DEF old
    <3> QED
      BY <1>1, <3>1 DEF TraceOk
  <2> QED
    BY <2>1
<1>8. CASE Held(o)
  <2>1. g.traces = old /\ \A j \in DOMAIN old : j \in DOMAIN g.traces /\ g.traces[j] = old[j]
    BY <1>4, <1>8
  <2>2. ASSUME NEW i \in 1 .. Len(cs) PROVE Explained(i, u, g)
    <3>1. i \in Int /\ i <= c.at /\ c.at \in Int /\ Explained(i, b, funnel)
      BY <1>1
    <3>2. Explained(i, o, funnel)
      BY <1>2, <3>1, ExplainedStays
    <3> QED
      BY <1>3, <2>1, <3>1, <3>2, ExplainedStays DEF old
  <2>3. Explained(c.at, u, g)
    <3>1. First(o).at \in 2 .. Len(ds)
      BY <1>5, <1>8 DEF Traded, OpenOn, EntryOn, First
    <3>2. First(o).at \in Int /\ First(o).at <= c.at /\ c.at \in Int
      BY <1>1, <3>1
    <3> QED
      BY <1>3, <1>8, <3>2, CandleCovered
  <2> QED
    BY <1>1, <1>7, <2>1, <2>2, <2>3 DEF ds
<1>9. CASE ~Held(o)
  <2>1. PICK tr \in TraceType : tr.at = c.at /\ TraceOk(tr, ds) /\ g.traces = Append(old, tr)
    BY <1>4, <1>9
  <2> DEFINE m == Len(old) + 1
  <2>2. /\ DOMAIN g.traces = 1 .. m /\ g.traces[m] = tr /\ m \in 1 .. m
        /\ \A j \in 1 .. Len(old) : j \in 1 .. m /\ g.traces[j] = old[j]
    BY <1>6, <2>1, AppendProperties, LenProperties
  <2>3. ASSUME NEW j \in 1 .. m PROVE j \in 1 .. Len(old) \/ j = m
    BY <1>6
  <2> HIDE DEF m
  <2>4. \A j \in DOMAIN old : j \in DOMAIN g.traces /\ g.traces[j] = old[j]
    BY <1>6, <2>2
  <2>5. \A j \in DOMAIN g.traces : TraceOk(g.traces[j], ds)
    BY <1>6, <1>7, <2>1, <2>2, <2>3
  <2>6. ASSUME NEW i \in 1 .. Len(cs) PROVE Explained(i, u, g)
    <3>1. i \in Int /\ i <= c.at /\ c.at \in Int /\ Explained(i, b, funnel)
      BY <1>1
    <3>2. Explained(i, o, funnel)
      BY <1>2, <3>1, ExplainedStays
    <3> QED
      BY <1>3, <2>4, <3>1, <3>2, ExplainedStays DEF old
  <2>7. Explained(c.at, u, g)
    BY <2>1, <2>2 DEF Explained
  <2> QED
    BY <1>1, <2>5, <2>6, <2>7 DEF ds
<1> QED
  BY <1>8, <1>9

\* The run of the pullback and its funnel, on the way and at the end.
FunnelRun ==
    LET b == book["pullback"]
    IN  "pullback" \in Books =>
           /\ funnel \in FunnelType
           /\ ~ended => Accounts(funnel, ArmedIn(b.state), OwedBy(b))
           /\ ended => Accounts(funnel, 0, 0)
           /\ \A j \in DOMAIN funnel.traces : TraceOk(funnel.traces[j], series)
           /\ \A i \in 1 .. Len(series) : Explained(i, b, funnel)

\* A run begins with an empty funnel.
LEMMA FunnelInit == Init => FunnelRun
<1> SUFFICES ASSUME Init, "pullback" \in Books PROVE FunnelRun
  BY DEF FunnelRun
<1> DEFINE b == book["pullback"]
<1>1. funnel.traces = <<>> /\ funnel.lives = <<>> /\ funnel.baseFills = 0 /\ ~ended /\ Len(series) = 0
  BY DEF Init, NewFunnel
<1>2. funnel \in FunnelType
  <2>1. <<>> \in Seq(TraceType) /\ <<>> \in Seq(LifeType)
    OBVIOUS
  <2> QED
    BY <2>1 DEF Init, NewFunnel, FunnelType
<1>3. \A T : Places(<<>>, T) = {}
  BY DEF Places
<1>4. \A T : Count(<<>>, T) = 0
  BY <1>3, FS_EmptySet DEF Count
<1>5. ArmedIn(b.state) = 0 /\ OwedBy(b) = 0
  <2>1. b.state = Fresh /\ b.pending = NoSignal
    BY DEF Init, NewBook
  <2> QED
    BY <2>1, FreshType, SignalsDiffer DEF ArmedIn, OwedBy, Entering
<1>6. Accounts(funnel, 0, 0)
  BY <1>1, <1>4 DEF Accounts
<1>7. DOMAIN funnel.traces = {} /\ 1 .. Len(series) = {}
  BY <1>1
<1> QED
  BY <1>1, <1>2, <1>5, <1>6, <1>7 DEF FunnelRun

\* The end closes the open setup.
LEMMA FinalizedFacts ==
    ASSUME NEW f \in FunnelType, NEW s \in States, NEW at \in Nat, NEW owed \in {0, 1},
           Accounts(f, ArmedIn(s), owed), NEW g, g = Finalized(f, s, at)
    PROVE  g \in FunnelType /\ Accounts(g, 0, 0) /\ g.traces = f.traces
<1>1. f.traces \in Seq(TraceType) /\ f.lives \in Seq(LifeType) /\ f.baseFills \in Nat
  BY DEF FunnelType
<1> DEFINE confirmed == Count(f.traces, TracesOf("CONFIRMED"))
           cancelled(x) == Count(x.lives, LivesOf(Cancels))
           open(x) == Count(x.lives, LivesOf({"OPEN_AT_END"}))
           lived(x) == Count(x.lives, LivesOf({"CONFIRMED"}))
<1>2. /\ confirmed \in Nat /\ cancelled(f) \in Nat /\ open(f) \in Nat /\ lived(f) \in Nat
  BY FunnelCounts
<1>3. /\ Count(f.traces, TracesOf("SETUP_ARMED")) = confirmed + cancelled(f) + open(f) + ArmedIn(s)
      /\ confirmed = lived(f) /\ f.baseFills + owed <= confirmed
  BY DEF Accounts
<1>4. f.baseFills + 0 <= confirmed
  <2>1. f.baseFills + owed <= confirmed /\ confirmed \in Nat /\ owed \in {0, 1}
    BY <1>2, <1>3
  <2> HIDE DEF confirmed
  <2>2. f.baseFills + 0 <= f.baseFills + owed /\ f.baseFills + owed \in Nat
    BY <1>1, <2>1
  <2> QED
    BY <1>1, <2>1, <2>2
<1>5. CASE s.phase = "ARMED"
  <2> DEFINE l == Life(s, at, "OPEN_AT_END")
  <2>1. g = [f EXCEPT !.lives = Append(f.lives, l)]
    BY <1>5 DEF Finalized
  <2>2. l \in LifeType /\ l.reason = "OPEN_AT_END"
    BY DEF Life, LifeType, States
  <2> HIDE DEF l
  <2>3. /\ g.lives = Append(f.lives, l) /\ g.traces = f.traces /\ g.baseFills = f.baseFills
        /\ g = [traces |-> g.traces, lives |-> g.lives, baseFills |-> g.baseFills]
    BY <2>1 DEF FunnelType
  <2>4. g.lives \in Seq(LifeType)
    BY <1>1, <2>2, <2>3, AppendProperties
  <2>5. g \in FunnelType
    BY <1>1, <2>3, <2>4 DEF FunnelType
  <2>6. /\ l \notin LivesOf(Cancels) /\ l \in LivesOf({"OPEN_AT_END"})
        /\ l \notin LivesOf({"CONFIRMED"})
    BY <2>2 DEF LivesOf, Cancels
  <2>7. \A T : Count(Append(f.lives, l), T) =
                  IF l \in T THEN Count(f.lives, T) + 1 ELSE Count(f.lives, T)
    BY <1>1, <2>2, CountAppended
  <2>8. cancelled(g) = cancelled(f) /\ open(g) = open(f) + 1 /\ lived(g) = lived(f)
    BY <2>3, <2>6, <2>7
  <2>9. ArmedIn(s) = 1
    BY <1>5 DEF ArmedIn
  <2>10. Accounts(g, 0, 0) <=>
            /\ Count(f.traces, TracesOf("SETUP_ARMED")) = confirmed + cancelled(g) + open(g) + 0
            /\ confirmed = lived(g) /\ f.baseFills + 0 <= confirmed
    BY <2>3 DEF Accounts
  <2> HIDE DEF confirmed, cancelled, open, lived
  <2>11. Accounts(g, 0, 0)
    BY <1>2, <1>3, <1>4, <2>8, <2>9, <2>10
  <2> QED
    BY <2>3, <2>5, <2>11
<1>6. CASE s.phase # "ARMED"
  <2>1. g = f /\ ArmedIn(s) = 0
    BY <1>6 DEF Finalized, ArmedIn
  <2> QED
    BY <1>3, <1>4, <2>1 DEF Accounts
<1> QED
  BY <1>5, <1>6

\* Every step keeps the accounts of the funnel and explains its candle.
LEMMA FunnelKept ==
    ASSUME Sound, AllBooked, FunnelRun, [Next]_vars
    PROVE  FunnelRun'
<1> SUFFICES ASSUME "pullback" \in Books PROVE FunnelRun'
  BY DEF FunnelRun
<1> DEFINE b == book["pullback"]
           u == book'["pullback"]
           g == funnel'
<1>1. ASSUME NEW c \in Candles, NEW refuse \in BOOLEAN, Takes(c, refuse) PROVE FunnelRun'
  <2>1. /\ ~ended /\ ~ended' /\ c.at = Len(series) + 1 /\ series' = Append(series, c)
        /\ Numbering(series) /\ Len(series') = Len(series) + 1
    BY <1>1, AppendedFacts DEF Takes, Sound
  <2>2. /\ Well("pullback", b) /\ Booked("pullback", b, series)
        /\ u = Stepped("pullback", b, c, refuse) /\ g = FunnelStep(b, c, refuse)
    BY <1>1, <2>1, BookTakes DEF AllBooked, Takes
  <2>3. /\ funnel \in FunnelType /\ Accounts(funnel, ArmedIn(b.state), OwedBy(b))
        /\ \A j \in DOMAIN funnel.traces : TraceOk(funnel.traces[j], series)
        /\ \A i \in 1 .. Len(series) : Explained(i, b, funnel)
    BY <2>1 DEF FunnelRun
  <2> HIDE DEF b, u, g
  <2>4. g \in FunnelType /\ Accounts(g, ArmedIn(u.state), OwedBy(u))
    <3> DEFINE o == Opened("pullback", b, c, refuse)
    <3>1. o = Opened("pullback", b, c, refuse)
      OBVIOUS
    <3> HIDE DEF o
    <3> QED
      BY <2>1, <2>2, <2>3, <3>1, FunnelStepped
  <2>5. /\ \A j \in DOMAIN g.traces : TraceOk(g.traces[j], Append(series, c))
        /\ \A i \in 1 .. Len(series) + 1 : Explained(i, u, g)
    BY <2>1, <2>2, <2>3, ExplainedStepped
  <2> QED
    BY <2>1, <2>4, <2>5 DEF FunnelRun, u, g
<1>2. CASE End
  <2>1. /\ ~ended /\ ended' /\ series' = series /\ series # <<>> /\ u = Liquidated(book["pullback"])
        /\ g = Finalized(funnel, b.state, Len(series) + 1) /\ Len(series) \in Nat
    BY <1>2 DEF End, Sound, Numbering
  <2>2. /\ funnel \in FunnelType /\ Accounts(funnel, ArmedIn(b.state), OwedBy(b))
        /\ \A j \in DOMAIN funnel.traces : TraceOk(funnel.traces[j], series)
        /\ \A i \in 1 .. Len(series) : Explained(i, b, funnel)
    BY <2>1 DEF FunnelRun
  <2>3. b.state \in States /\ OwedBy(b) \in {0, 1} /\ Len(series) + 1 \in Nat
    BY <2>1 DEF Sound, BookType, OwedBy
  <2>4. SoldOut(b, u, Len(series)) \/ (~Held(u) /\ u = b)
    BY <2>1, EndReplayed
  <2> HIDE DEF b, u, g
  <2>5. g \in FunnelType /\ Accounts(g, 0, 0) /\ g.traces = funnel.traces
    <3>1. ASSUME NEW s \in States, NEW at \in Nat, Accounts(funnel, ArmedIn(s), OwedBy(b)),
                 NEW h, h = Finalized(funnel, s, at)
          PROVE  h \in FunnelType /\ Accounts(h, 0, 0) /\ h.traces = funnel.traces
      BY <2>2, <2>3, <3>1, FinalizedFacts
    <3> QED
      BY <2>1, <2>2, <2>3, <3>1
  <2>6. ASSUME NEW i \in 1 .. Len(series) PROVE Explained(i, u, g)
    <3>1. Explained(i, b, funnel) /\ i \in Int /\ Len(series) \in Int /\ i <= Len(series)
      BY <2>1, <2>2
    <3>2. \A j \in DOMAIN funnel.traces : j \in DOMAIN g.traces /\ g.traces[j] = funnel.traces[j]
      BY <2>5
    <3>3. CASE SoldOut(b, u, Len(series))
      BY <3>1, <3>2, <3>3, ExplainedStays
    <3>4. CASE ~Held(u) /\ u = b
      BY <2>5, <3>1, <3>4 DEF Explained
    <3> QED
      BY <2>4, <3>3, <3>4
  <2> QED
    BY <2>1, <2>2, <2>5, <2>6 DEF FunnelRun, u, g
<1>3. CASE UNCHANGED vars
  BY <1>3 DEF vars, FunnelRun
<1> QED
  BY <1>1, <1>2, <1>3, Steps

\* The invariants imply that the funnel accounts for everything.
LEMMA FunnelFacts ==
    ASSUME Sound, AllBooked, FunnelRun
    PROVE  FunnelAccounts
<1> SUFFICES ASSUME ended, {"pullback", "baseline"} \subseteq Books PROVE FunnelAccounts
  BY DEF FunnelAccounts
<1> DEFINE w == WindowFunnel
           b == book["pullback"]
           traces == funnel.traces
<1>1. /\ "pullback" \in Books /\ "baseline" \in Books
      /\ funnel \in FunnelType /\ Accounts(funnel, 0, 0) /\ ~Held(b)
      /\ \A j \in DOMAIN traces : TraceOk(traces[j], series)
      /\ \A i \in 1 .. Len(series) : Explained(i, b, funnel)
  BY DEF FunnelRun, AllBooked
<1>2. /\ traces \in Seq(TraceType) /\ funnel.lives \in Seq(LifeType) /\ funnel.baseFills \in Nat
      /\ DOMAIN traces = 1 .. Len(traces) /\ Len(traces) \in Nat
      /\ \A j \in 1 .. Len(traces) : traces[j] \in TraceType
  BY <1>1 DEF FunnelType
<1>3. \A e : Traces(e) = Places(traces, TracesOf(e))
  BY <1>2 DEF Traces, Places, TracesOf
<1>4. \A r : Lives(r) = Places(funnel.lives, LivesOf(r))
  <2>1. \A j \in DOMAIN funnel.lives : funnel.lives[j] \in LifeType
    BY <1>2
  <2> QED
    BY <2>1 DEF Lives, Places, LivesOf
<1>5. /\ \A e : EventCount(e) = Count(traces, TracesOf(e))
      /\ \A r : LifeCount(r) = Count(funnel.lives, LivesOf(r))
  BY <1>3, <1>4 DEF EventCount, LifeCount, Count
<1>6. /\ \A e : EventCount(e) \in Nat
      /\ \A r : LifeCount(r) \in Nat
  BY <1>1, <1>5, FunnelCounts
<1>7. /\ w.armed = EventCount("SETUP_ARMED") /\ w.confirmed = EventCount("CONFIRMED")
      /\ w.fills = funnel.baseFills /\ w.cancelled = LifeCount(Cancels)
      /\ w.open = LifeCount({"OPEN_AT_END"}) /\ w.crosses = Cardinality(Crosses)
      /\ w.crossesAbove = Cardinality(CrossesAbove)
      /\ w.blocked = EventCount("RSI_CROSS_EMA20_VOL_BLOCK")
  BY DEF WindowFunnel
<1> HIDE DEF w
<1>8. /\ w.armed = w.confirmed + w.cancelled + w.open
      /\ w.confirmed = LifeCount({"CONFIRMED"}) /\ w.fills <= w.confirmed
  <2>1. /\ EventCount("SETUP_ARMED") = EventCount("CONFIRMED") + LifeCount(Cancels)
              + LifeCount({"OPEN_AT_END"}) + 0
        /\ EventCount("CONFIRMED") = LifeCount({"CONFIRMED"})
        /\ funnel.baseFills + 0 <= EventCount("CONFIRMED")
    BY <1>1, <1>5 DEF Accounts
  <2> QED
    BY <1>2, <1>6, <1>7, <2>1
<1>9. w.crosses >= w.crossesAbove /\ w.crossesAbove >= w.blocked + w.confirmed
  <2> DEFINE B == Traces("RSI_CROSS_EMA20_VOL_BLOCK")
             C == Traces("CONFIRMED")
  <2>1. IsFiniteSet(DOMAIN traces)
    BY <1>2, FS_Interval
  <2>2. Crosses \in SUBSET DOMAIN traces /\ CrossesAbove \in SUBSET Crosses
        /\ B \cup C \in SUBSET CrossesAbove
    <3>1. \A j \in B \cup C : j \in DOMAIN traces /\ traces[j].crossed /\ traces[j].above
      BY <1>1 DEF TraceOk, Traces
    <3> QED
      BY <3>1 DEF Crosses, CrossesAbove
  <2>3. B \cap C = {} /\ B \in SUBSET DOMAIN traces /\ C \in SUBSET DOMAIN traces
    BY DEF Traces
  <2> HIDE DEF B, C
  <2>4. IsFiniteSet(Crosses)
    BY <2>1, <2>2, FS_Subset
  <2>5. IsFiniteSet(CrossesAbove) /\ Cardinality(CrossesAbove) <= Cardinality(Crosses)
    BY <2>2, <2>4, FS_Subset
  <2>6. IsFiniteSet(B \cup C) /\ Cardinality(B \cup C) <= Cardinality(CrossesAbove)
    BY <2>2, <2>5, FS_Subset
  <2>7. IsFiniteSet(B) /\ IsFiniteSet(C)
    BY <2>1, <2>3, FS_Subset
  <2>8. Cardinality(B \cup C) = Cardinality(B) + Cardinality(C) - Cardinality(B \cap C)
    BY <2>7, FS_Union
  <2>9. Cardinality(B \cap C) = 0
    BY <2>3, FS_EmptySet
  <2>10. w.blocked = Cardinality(B) /\ w.confirmed = Cardinality(C)
    BY <1>7 DEF EventCount, B, C
  <2>11. /\ Cardinality(B) \in Nat /\ Cardinality(C) \in Nat
         /\ Cardinality(Crosses) \in Nat /\ Cardinality(CrossesAbove) \in Nat
    BY <2>4, <2>5, <2>7, FS_CardinalityType
  <2> QED
    BY <1>7, <2>5, <2>6, <2>8, <2>9, <2>10, <2>11
<1>10. \A i \in Traces("RSI_CROSS_CONFIRMATION_BLOCK_UNKNOWN") : ~PullbackKnown(series[traces[i].at])
  BY <1>1 DEF TraceOk, Traces
<1>11. ASSUME NEW t \in Misses(Trades("baseline"), Trades("pullback"))
       PROVE  MissStatus(t.entry.at, Trades("pullback")) # "NO_V2_ENTRY_EVALUATION"
  <2> DEFINE at == t.entry.at
             I == {i \in 1 .. Len(traces) : traces[i].at = at}
  <2>1. at \in 1 .. Len(series)
    <3>1. t \in ToSet(Trades("baseline"))
      BY DEF Misses
    <3>2. Trades("baseline") \in Seq(TradesOn("baseline", series))
      BY <1>1, ClosedFactsOf
    <3>3. t \in TradesOn("baseline", series)
      BY <3>1, <3>2 DEF ToSet
    <3>4. t.entryAt \in 2 .. Len(series) /\ t.entry.at = t.entryAt - 1
      BY <3>3 DEF TradesOn, TradeOn, EntryOn
    <3> QED
      BY <3>4
  <2>2. Explained(at, b, funnel)
    BY <1>1, <2>1
  <2>3. TraceAt(at) = IF I # {} THEN Min(I) ELSE 0
    BY DEF TraceAt, SelectInSeq
  <2> HIDE DEF at
  <2>4. CASE I # {}
    <3>1. I \in SUBSET Int /\ IsFiniteSet(I)
      <4>1. I \in SUBSET (1 .. Len(traces))
        OBVIOUS
      <4>2. Len(traces) \in Int
        BY <1>2
      <4>3. IsFiniteSet(1 .. Len(traces))
        BY <4>2, FS_Interval
      <4>4. I \in SUBSET Int
        BY <4>1, <4>2
      <4> QED
        BY <4>1, <4>3, <4>4, FS_Subset
    <3>2. Min(I) \in I
      BY <2>4, <3>1, MinExists
    <3>3. TraceAt(at) \in 1 .. Len(traces)
      BY <2>3, <2>4, <3>2
    <3>4. TraceAt(at) # 0 /\ traces[TraceAt(at)].event \in TraceNames
      BY <1>2, <3>3 DEF TraceType
    <3>5. MissStatus(at, Trades("pullback")) = traces[TraceAt(at)].event
      BY <3>4 DEF MissStatus
    <3>6. "NO_V2_ENTRY_EVALUATION" \notin TraceNames
      BY DEF TraceNames, Waitings, Cancels
    <3> QED
      BY <3>4, <3>5, <3>6 DEF at
  <2>5. CASE I = {}
    <3>1. ~(\E j \in DOMAIN traces : traces[j].at = at)
      BY <1>2, <2>5
    <3>2. \E z \in ToSet(Trades("pullback")) : z.entryAt <= at /\ at <= z.exitAt
      BY <1>1, <2>2, <3>1 DEF Explained, Trades
    <3>3. TraceAt(at) = 0
      BY <2>3, <2>5
    <3>4. MissStatus(at, Trades("pullback")) = "V2_POSITION_OPEN"
      BY <3>2, <3>3 DEF MissStatus
    <3> QED
      BY <3>4 DEF at
  <2> QED
    BY <2>4, <2>5
<1> QED
  BY <1>8, <1>9, <1>10, <1>11 DEF FunnelAccounts, w

\* Every setup the funnel saw armed has one end, a confirmed one fills at most
\* once, a cross that should have confirmed and did not was on an incomplete
\* candle, and every trade of the baseline that the pullback missed is explained.
THEOREM TheFunnelAccounts == Spec => []FunnelAccounts
<1>1. Sound /\ AllBooked /\ FunnelRun /\ [Next]_vars => FunnelRun'
  BY FunnelKept
<1>2. Sound /\ AllBooked /\ FunnelRun => FunnelAccounts
  BY FunnelFacts
<1>3. Spec => []AllBooked
  BY BookedInit, BookedKept, RunsAreSound, PTL DEF Spec
<1> QED
  BY <1>1, <1>2, <1>3, FunnelInit, RunsAreSound, PTL DEF Spec
=============================================================================
