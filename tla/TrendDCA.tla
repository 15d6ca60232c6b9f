------------------------------ MODULE TrendDCA ------------------------------
(***************************************************************************)
(* The decisions of TrendDCAStrategy and of its experiment                 *)
(* TrendDCAConfirm3Strategy, as operators over a candle and the position   *)
(* the engine shows the strategy.  Percentages are whole, prices positive  *)
(* integers.  The average entry price is cost / quantity, so a comparison  *)
(* with it is multiplied out.                                              *)
(*                                                                         *)
(* The baseline leaves at the first TREND_DOWN candle, the experiment at   *)
(* the third in a row: confirm is 1 or 3.                                  *)
(***************************************************************************)
EXTENDS Integers

CONSTANTS
    TakeProfitPct, StopLossPct,
    TrailingActivationPct, TrailingDistancePct

ASSUME ConfigAssumption ==
    /\ {TakeProfitPct, TrailingActivationPct} \subseteq Nat
    /\ {StopLossPct, TrailingDistancePct} \subseteq 0 .. 99

Absent == 0       \* None, for a price or a level

\* The thresholds of the three safety orders, in percent below the average.
DcaThreshold == <<3, 5, 8>>
MaxDcaLevel  == 3

StopLoss(close)   == (close * (100 - StopLossPct)) \div 100
TakeProfit(close) == (close * (100 + TakeProfitPct)) \div 100

\* Mutant: the limit itself is still allowed.
HoldingExpiredLate(position, limit) == position.holding > limit

HoldingExpired(position, limit) == position.holding >= limit

NextStreak(regime, streak) == IF regime = "TREND_DOWN" THEN streak + 1 ELSE 0

RegimeExit(regime, streak, confirm) ==
    regime = "TREND_DOWN" /\ streak + 1 >= confirm

TrailingActive(position, candle, trailing) ==
    \/ trailing # Absent
    \/ 100 * candle.high * position.quantity >= position.cost * (100 + TrailingActivationPct)

TrailingHigh(candle, trailing) ==
    IF trailing > candle.high THEN trailing ELSE candle.high

TrailingHit(candle, high) == 100 * candle.low <= high * (100 - TrailingDistancePct)

ProfitReached(position, candle) ==
    100 * candle.close * position.quantity >= position.cost * (100 + TakeProfitPct)

SafetyOrderDue(position, candle, regime, level) ==
    /\ regime = "TREND_UP"
    /\ level < MaxDcaLevel
    /\ 100 * (position.cost - candle.close * position.quantity)
          >= DcaThreshold[level + 1] * position.cost
=============================================================================
