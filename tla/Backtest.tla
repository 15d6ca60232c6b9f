------------------------------ MODULE Backtest ------------------------------
(***************************************************************************)
(* BacktestEngine.run over the candles of one symbol, with the Portfolio   *)
(* it trades and a TrendDCA strategy.  Each candle goes through three      *)
(* phases: the signal of the previous candle executes at the open, the     *)
(* attached levels are tried against the range, and the strategy decides   *)
(* on the close.                                                           *)
(*                                                                         *)
(* An order's size is any member of Quantities, and the risk engine may    *)
(* refuse a purchase or cut it down to any smaller quantity: RiskEngine    *)
(* models that decision.  It approves every sale that is worth at most     *)
(* twice the position's last mark, and NoDoubling keeps prices in that     *)
(* range.  Slippage is in hundredths of a percent, the fee in tenths.      *)
(***************************************************************************)
EXTENDS TrendDCA, FiniteSets

CONSTANTS
    Candles,          \* [open, high, low, close]
    Quantities,
    Slippages,        \* what the fixed, random and volume parts can add up to
    InitialBalance, TakerFee, MinimumFee,
    Confirmations,    \* which strategies: 1, 3
    HoldingLimits,    \* values of max_holding_periods
    Policies,         \* end_position_policy
    MaxCandles

ASSUME CandleAssumption ==
    \A c \in Candles :
        /\ {c.open, c.high, c.low, c.close} \subseteq Nat \ {0}
        /\ c.low <= c.open /\ c.low <= c.close
        /\ c.open <= c.high /\ c.close <= c.high
        /\ c.high <= 2 * c.low

SlippageRange == 0 .. 9999       \* below the whole price

ASSUME BacktestAssumption ==
    /\ Quantities \subseteq Nat \ {0}
    /\ Slippages \subseteq SlippageRange
    /\ InitialBalance \in Nat
    /\ TakerFee \in 0 .. 1000 /\ MinimumFee \in {0, 1}
    /\ Confirmations \subseteq Nat \ {0} /\ HoldingLimits \subseteq Nat \ {0}
    /\ Policies \subseteq {"liquidate", "mark_to_market"}
    /\ MaxCandles \in Nat

VARIABLES
    confirm, maxHolding, policy,  \* configuration of the run
    index, candle, phase,         \* the loop
    pending,                      \* the signal waiting for the next open
    balance, position, realized,  \* Portfolio; realized sums the closed trades
    dcaLevel, trailing, streak,   \* the strategy
    buys, age                     \* history: fills and candles of the position

config    == <<confirm, maxHolding, policy>>
portfolio == <<balance, position, realized>>
strategy  == <<dcaLevel, trailing, streak>>
history   == <<buys, age>>
vars == <<config, index, candle, phase, pending, portfolio, strategy, history>>

-----------------------------------------------------------------------------
NoCandle == [close |-> Absent]
NoSignal == [action |-> "none"]

Entry(level, quantity, stop, take) ==
    [action |-> "open_long", level |-> level, quantity |-> quantity, stop |-> stop, take |-> take]

Close == [action |-> "close"]

Flat == [quantity |-> 0]
Open == position.quantity > 0

Positions ==
    [quantity : Nat \ {0}, cost : Nat, fees : Nat, stop : Nat, take : Nat,
     mark : Nat, high : Nat, holding : Nat]

Entries ==
    [action : {"open_long"}, level : 0 .. MaxDcaLevel, quantity : Quantities,
     stop : Nat, take : Nat]

TypeOK ==
    /\ confirm \in Confirmations /\ maxHolding \in HoldingLimits /\ policy \in Policies
    /\ index \in 0 .. MaxCandles
    /\ phase \in {"next", "levels", "evaluate", "done"}
    /\ candle \in Candles \cup {NoCandle}
    /\ phase \in {"levels", "evaluate"} => candle # NoCandle
    /\ pending \in {NoSignal, Close} \cup Entries
    /\ balance \in Int /\ realized \in Int
    /\ position \in {Flat} \cup Positions
    /\ dcaLevel \in 0 .. MaxDcaLevel
    /\ trailing \in Nat
    /\ streak \in Nat
    /\ buys \in Nat /\ age \in Nat

Init ==
    /\ confirm \in Confirmations /\ maxHolding \in HoldingLimits /\ policy \in Policies
    /\ index = 0 /\ candle = NoCandle /\ phase = "next"
    /\ pending = NoSignal
    /\ balance = InitialBalance /\ position = Flat /\ realized = 0
    /\ dcaLevel = 0 /\ trailing = Absent /\ streak = 0
    /\ buys = 0 /\ age = 0

-----------------------------------------------------------------------------
(* Prices, fees and the portfolio.                                         *)

BuyPrice(price, slip)  == price + (price * slip) \div 10000
SellPrice(price, slip) == price - (price * slip) \div 10000

Commission(value) ==
    LET fee == (value * TakerFee) \div 1000
    IN  IF fee > MinimumFee THEN fee ELSE MinimumFee

Higher(a, b) == IF a > b THEN a ELSE b

\* A fill moves a level only if its signal carries one.
Level(new, old) == IF new # Absent THEN new ELSE old

\* Mutant: the fee is not part of what has to be paid.
AffordableWithoutFee(price, quantity) == price * quantity <= balance

Affordable(price, quantity) ==
    price * quantity + Commission(price * quantity) <= balance

\* Mutant: a safety order replaces the fees of the position.
BoughtLastFee(price, signal, quantity) ==
    LET value == price * quantity
    IN  IF Open
        THEN [quantity |-> position.quantity + quantity, cost |-> position.cost + value,
              fees |-> Commission(value),
              stop |-> Level(signal.stop, position.stop), take |-> Level(signal.take, position.take),
              mark |-> price, high |-> Higher(position.high, price),
              holding |-> position.holding + 1]
        ELSE [quantity |-> quantity, cost |-> value, fees |-> Commission(value),
              stop |-> signal.stop, take |-> signal.take,
              mark |-> price, high |-> price, holding |-> 0]

\* The position after a fill.  A safety order adds to it, and through
\* update_market counts as one more holding period.
Bought(price, signal, quantity) ==
    LET value == price * quantity
    IN  IF Open
        THEN [quantity |-> position.quantity + quantity, cost |-> position.cost + value,
              fees |-> position.fees + Commission(value),
              stop |-> Level(signal.stop, position.stop), take |-> Level(signal.take, position.take),
              mark |-> price, high |-> Higher(position.high, price),
              holding |-> position.holding + 1]
        ELSE [quantity |-> quantity, cost |-> value, fees |-> Commission(value),
              stop |-> signal.stop, take |-> signal.take,
              mark |-> price, high |-> price, holding |-> 0]

ClosePosition(price) ==
    LET value == price * position.quantity
        fee   == Commission(value)
    IN  /\ balance' = balance + value - fee
        /\ realized' = realized + value - position.cost - position.fees - fee
        /\ position' = Flat
        /\ buys' = 0 /\ age' = 0

\* update_positions: the mark is the close, the high counts the candle.
Marked ==
    [position EXCEPT !.mark = candle.close, !.high = Higher(@, candle.high), !.holding = @ + 1]

-----------------------------------------------------------------------------
(* A candle opens and the pending signal executes.                         *)

\* Mutant: an executed signal stays pending.
ArriveKeepsPending(c) ==
    /\ phase = "next" /\ index < MaxCandles
    /\ Open => c.high <= 2 * position.mark
    /\ candle' = c /\ index' = index + 1 /\ phase' = "levels"
    /\ UNCHANGED pending

NoDoubling(c) == Open => c.high <= 2 * position.mark

Arrive(c) ==
    /\ phase = "next" /\ index < MaxCandles
    /\ NoDoubling(c)
    /\ candle' = c /\ index' = index + 1 /\ phase' = "levels"
    /\ pending' = NoSignal

NothingPending(c) ==
    /\ pending = NoSignal
    /\ Arrive(c)
    /\ UNCHANGED <<config, portfolio, strategy, history>>

\* Mutant: a base order keeps the trailing high of the last position.
OnFillKeepsTrailing(signal) == dcaLevel' = signal.level /\ UNCHANGED <<trailing, streak>>

OnFill(signal) ==
    /\ dcaLevel' = signal.level
    /\ trailing' = IF signal.level = 0 THEN Absent ELSE trailing
    /\ UNCHANGED streak

FillBuy(c, slip) ==
    /\ pending.action = "open_long"
    /\ Arrive(c)
    /\ \E quantity \in 1 .. pending.quantity :
          LET price == BuyPrice(c.open, slip) IN
          /\ Affordable(price, quantity)
          /\ position' = Bought(price, pending, quantity)
          /\ balance' = balance - price * quantity - Commission(price * quantity)
    /\ OnFill(pending)
    /\ buys' = buys + 1
    /\ UNCHANGED <<config, realized, age>>

\* Mutant: the strategy counts an order that was not filled.
RefuseBuyCounts(c) ==
    /\ pending.action = "open_long"
    /\ Arrive(c)
    /\ dcaLevel' = pending.level
    /\ UNCHANGED <<config, portfolio, trailing, streak, history>>

\* The risk engine refuses, also after its adjustment, or the portfolio cannot
\* pay.  The strategy is not told.
RefuseBuy(c) ==
    /\ pending.action = "open_long"
    /\ Arrive(c)
    /\ UNCHANGED <<config, portfolio, strategy, history>>

FillClose(c, slip) ==
    /\ pending.action = "close" /\ Open
    /\ Arrive(c)
    /\ ClosePosition(SellPrice(c.open, slip))
    /\ UNCHANGED <<config, strategy>>

-----------------------------------------------------------------------------
(* The attached levels.  A candle that touches both counts as the stop.  An *)
(* exit by a level ends the candle: the strategy is not asked, and is not   *)
(* told of the fill.                                                        *)

\* Mutant: the take-profit is tried first.
LevelPriceTakeFirst ==
    IF position.take # Absent /\ candle.high >= position.take THEN position.take
    ELSE IF position.stop # Absent /\ candle.low <= position.stop
         THEN IF candle.open <= position.stop THEN candle.open ELSE position.stop
         ELSE Absent

\* check_intrabar_exits: the reference price, or Absent.
LevelPrice ==
    IF position.stop # Absent /\ candle.low <= position.stop
    THEN IF candle.open <= position.stop THEN candle.open ELSE position.stop
    ELSE IF position.take # Absent /\ candle.high >= position.take THEN position.take
         ELSE Absent

LevelExit(slip) ==
    /\ phase = "levels" /\ Open
    /\ LevelPrice # Absent
    /\ ClosePosition(SellPrice(LevelPrice, slip))
    /\ phase' = "next"
    /\ UNCHANGED <<config, index, candle, pending, strategy>>

NoLevelHit ==
    /\ phase = "levels"
    /\ Open => LevelPrice = Absent
    /\ phase' = "evaluate"
    /\ UNCHANGED <<config, index, candle, pending, portfolio, strategy, history>>

-----------------------------------------------------------------------------
(* The strategy decides on the close.                                      *)

Decide(signal) ==
    /\ phase = "evaluate" /\ phase' = "next"
    /\ pending' = signal
    /\ UNCHANGED <<config, index, candle, balance, realized, buys>>

\* should_enter; the comparisons of the indicators hold or do not.
SignalEntry(quantity) ==
    /\ ~Open
    /\ Decide(Entry(0, quantity, StopLoss(candle.close), TakeProfit(candle.close)))
    /\ UNCHANGED <<position, strategy, age>>

StayOut ==
    /\ ~Open
    /\ Decide(NoSignal)
    /\ UNCHANGED <<position, strategy, age>>

Hold ==
    /\ Open
    /\ position' = Marked
    /\ age' = age + 1
    /\ UNCHANGED dcaLevel

ExpiryExit ==
    /\ Hold /\ HoldingExpired(Marked, maxHolding)
    /\ Decide(Close)
    /\ streak' = 0
    /\ UNCHANGED trailing

TrendDownExit(regime) ==
    /\ Hold /\ ~HoldingExpired(Marked, maxHolding)
    /\ RegimeExit(regime, streak, confirm)
    /\ Decide(Close)
    /\ streak' = 0
    /\ UNCHANGED trailing

\* The position passed the two exits that do not depend on the price.
Priced(regime) ==
    /\ Hold /\ ~HoldingExpired(Marked, maxHolding)
    /\ ~RegimeExit(regime, streak, confirm)

High == TrailingHigh(candle, trailing)

Trailed ==
    trailing' = IF TrailingActive(Marked, candle, trailing) THEN High ELSE trailing

TrailingStopped == TrailingActive(Marked, candle, trailing) /\ TrailingHit(candle, High)

TrailingExit(regime) ==
    /\ Priced(regime) /\ TrailingStopped
    /\ Decide(Close)
    /\ trailing' = Absent /\ streak' = 0

ProfitExit(regime) ==
    /\ Priced(regime) /\ ~TrailingStopped
    /\ ProfitReached(Marked, candle)
    /\ Decide(Close)
    /\ Trailed /\ streak' = 0

SafetyOrder(regime, quantity) ==
    /\ Priced(regime) /\ ~TrailingStopped /\ ~ProfitReached(Marked, candle)
    /\ SafetyOrderDue(Marked, candle, regime, dcaLevel)
    /\ Decide(Entry(dcaLevel + 1, quantity, Absent, Absent))
    /\ Trailed /\ streak' = NextStreak(regime, streak)

KeepPosition(regime) ==
    /\ Priced(regime) /\ ~TrailingStopped /\ ~ProfitReached(Marked, candle)
    /\ ~SafetyOrderDue(Marked, candle, regime, dcaLevel)
    /\ Decide(NoSignal)
    /\ Trailed /\ streak' = NextStreak(regime, streak)

-----------------------------------------------------------------------------
(* The candles are used up.  A signal of the last one is not executed.     *)

Liquidates == policy = "liquidate" /\ Open

Liquidate(slip) ==
    /\ phase = "next" /\ Liquidates
    /\ ClosePosition(SellPrice(candle.close, slip))
    /\ phase' = "done"
    /\ UNCHANGED <<config, index, candle, pending, strategy>>

Finish ==
    /\ phase = "next" /\ ~Liquidates
    /\ phase' = "done"
    /\ UNCHANGED <<config, index, candle, pending, portfolio, strategy, history>>

-----------------------------------------------------------------------------
Regimes == {"TREND_UP", "TREND_DOWN", "OTHER"}

Next ==
    \/ \E c \in Candles : NothingPending(c) \/ RefuseBuy(c)
    \/ \E c \in Candles, slip \in Slippages : FillBuy(c, slip) \/ FillClose(c, slip)
    \/ \E slip \in Slippages : LevelExit(slip) \/ Liquidate(slip)
    \/ NoLevelHit
    \/ \E quantity \in Quantities : SignalEntry(quantity)
    \/ StayOut \/ ExpiryExit
    \/ \E regime \in Regimes :
          TrendDownExit(regime) \/ TrailingExit(regime) \/ ProfitExit(regime) \/ KeepPosition(regime)
    \/ \E regime \in Regimes, quantity \in Quantities : SafetyOrder(regime, quantity)
    \/ Finish

Spec == Init /\ [][Next]_vars

-----------------------------------------------------------------------------
(* Properties.                                                             *)

\* Portfolio never spends what it does not have, whatever slippage, fees,
\* adjusted quantities and losses a sequence of trades brings.
CashNeverNegative == balance >= 0

Invested == IF Open THEN position.cost + position.fees ELSE 0

\* The books balance: cash and the money in the open position are the initial
\* balance and the PnL recorded for the closed trades (open_position,
\* close_position), over base orders, safety orders and every kind of exit.
LedgerBalances == balance + Invested = InitialBalance + realized

\* A signal executes a candle after it was computed.  By then the position it
\* was computed for is still the one that is held: an exit or a safety order
\* never meets a flat portfolio, a base order never an open position.
PendingMatchesPosition ==
    phase # "done" =>
        /\ pending.action = "close" => Open
        /\ pending.action = "open_long" => (pending.level > 0 <=> Open)

\* The strategy's dca_levels, which only on_fill moves and no exit resets,
\* counts the safety orders in the position the portfolio holds.
DcaLevelCountsBuys == Open => buys = dcaLevel + 1

\* The trailing high never comes from an earlier position, although the exits
\* by a level and by regime leave it in place: it stays within the high-water
\* mark of the position that is held.
TrailingWithinHigh == Open => trailing <= position.high

\* A position whose stop the candle touches leaves in that candle, for no more
\* than the stop, nor than the open when that is lower; also when the
\* take-profit was touched too.
StopsBind ==
    [][phase = "levels" /\ Open /\ position.stop # Absent /\ candle.low <= position.stop =>
          /\ position' = Flat
          /\ balance' - balance <= position.quantity * position.stop
          /\ balance' - balance <= position.quantity * candle.open]_vars

\* max_holding_periods bounds the candles a position sees: safety orders make
\* the counter run faster, never slower.
HeldAtMost == age <= maxHolding

\* The accounts of Portfolio, over any trades: solvent and balanced.
BooksHold == CashNeverNegative /\ LedgerBalances

\* What the strategy remembers of its position, kept in other variables and
\* updated at other times than the portfolio, is about the position held.
MemoryFollowsPosition == DcaLevelCountsBuys /\ TrailingWithinHigh

\* No position outlives its stop or its holding limit.
ExitsBind == []HeldAtMost /\ StopsBind
=============================================================================
