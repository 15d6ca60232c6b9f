----------------------------- MODULE MCDataOps -----------------------------
(***************************************************************************)
(* Four hours, of which the second has a flawed candle; the holdout is the *)
(* third and needs one candle before it.  The samples of the indicators    *)
(* rise and fall slowly and fast.                                          *)
(***************************************************************************)
EXTENDS DataOps

MCFlaws == [h \in Hours |-> IF h = 1 THEN {"invalid_ohlc"} ELSE {}]

MCCandles == {[close |-> 6, high |-> 6, low |-> 6], [close |-> 7, high |-> 8, low |-> 6],
              [close |-> 5, high |-> 6, low |-> 5], [close |-> 12, high |-> 12, low |-> 4]}
MCSlope == <<1, 20>>
MCHighVolatility(returns) == \E k \in DOMAIN returns : returns[k][1] >= 2 * returns[k][2]
=============================================================================
