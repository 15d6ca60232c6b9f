----------------------------- MODULE MCBacktest -----------------------------
(* An instance of Backtest for TLC. *)
EXTENDS Backtest

Candle(o, h, l, c) == [open |-> o, high |-> h, low |-> l, close |-> c]

\* From a base order near 100: the three safety orders, the stop within the
\* candle and by a gap, the take-profit, both levels at once, and a rise that
\* starts the trailing stop before it falls back.
FallsAndRises ==
    {Candle(100, 101, 99, 100), Candle(100, 100, 96, 96), Candle(96, 96, 92, 92),
     Candle(92, 92, 87, 87), Candle(92, 92, 80, 84), Candle(80, 82, 80, 82),
     Candle(100, 104, 100, 104), Candle(100, 108, 84, 100)}
=============================================================================
