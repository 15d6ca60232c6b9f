----------------------------- MODULE MCResearch -----------------------------
(* Instances of the research backtests for TLC. *)
EXTENDS ResearchReports

Shape(o, h, l, c, e20, e50, e200, regime, rsi, calm, slope) ==
    [open |-> o, high |-> h, low |-> l, close |-> c, ema20 |-> e20, ema50 |-> e50,
     ema200 |-> e200, regime |-> regime, rsi |-> rsi, calm |-> calm, slope |-> slope]

Quiet    == Shape(100, 101,  99, 100,  99,  98, 90, "TREND_UP",   50, TRUE,  {1})
Breaks   == Shape(100, 104, 100, 103,  99,  98, 90, "TREND_UP",   60, TRUE,  {1})
Retests  == Shape(103, 103, 101, 102, 100,  98, 90, "TREND_UP",   40, TRUE,  {1})
Weakens  == Shape(102, 102,  98,  99, 101, 100, 90, "TREND_UP",   42, TRUE,  {0})
Turns    == Shape(100, 100,  97,  98, 101, 100, 90, "TREND_DOWN", 30, TRUE,  {0})
Falls    == Shape( 98,  98,  90,  91,  99,  99, 92, "OTHER",      30, TRUE,  {0})
Spikes   == Shape(103, 110, 102, 104, 100,  98, 90, "TREND_UP",   70, FALSE, {1})
Partly   == Shape(103, 104, 101, 103, 100,  98,  0, "TREND_UP",   50, TRUE,  {})
Unknown  == Shape(100, 101,  99, 100,   0,   0,  0, "NONE",        0, TRUE,  {})

Rises    == Shape(104, 106, 104, 106, 107,  98, 90, "TREND_UP",   60, TRUE,  {1})

Moves == {Breaks, Retests, Weakens, Turns, Falls, Spikes, Rises}

\* Two candles fill the look-back window, then a setup can begin, be tested or
\* lost, and a position has time to be watched, to leave, and to be followed by
\* another.
SetupThenAnything ==
    <<{Quiet}, {Quiet}, {Breaks, Retests, Weakens}, (Moves \cup {Partly, Unknown}) \ {Rises, Turns},
      Moves, Moves \cup {Unknown}, Moves \ {Turns}, {Breaks, Retests, Weakens, Falls, Spikes}>>
=============================================================================
