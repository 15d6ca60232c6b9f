------------------------------ MODULE Research ------------------------------
(***************************************************************************)
(* The research backtests: BacktestEngine.run over the hourly candles of   *)
(* one symbol and one window, once for each strategy, so that the reports  *)
(* can compare them.  The runs see the same candles, so the model advances *)
(* them together: one step is one candle, taken by every book.             *)
(*                                                                         *)
(* Sizes and prices are abstracted: every order buys one unit at the open, *)
(* and a fill costs Fee.  The risk engine may refuse the purchases of a    *)
(* candle.  Backtest models the sizes, the slippage and the cash.          *)
(***************************************************************************)
EXTENDS SetupStrategies

CONSTANTS
    Books,          \* the strategies that are compared
    Shapes,         \* Shapes[i]: what the i-th candle can be
    Fee

\* A candle with its indicators: Absent for one that is not known.
CandleShape ==
    [open : Nat, high : Nat, low : Nat, close : Nat, ema20 : Nat, ema50 : Nat, ema200 : Nat,
     regime : STRING, rsi : Nat, calm : BOOLEAN, slope : SUBSET Int]

ASSUME ResearchAssumption ==
    Books \subseteq Strategies /\ Fee \in Nat /\ Shapes \in Seq(SUBSET CandleShape)

VARIABLES
    series,         \* the candles so far
    book,           \* book[k]: portfolio, strategy and audit of one run
    funnel,         \* InstrumentedTrendPullbackConfirmation
    ended

vars == <<series, book, funnel, ended>>

Flat == [quantity |-> 0]
Held(b) == b.position.quantity > 0

NewBook ==
    [position |-> Flat, pending |-> NoSignal, state |-> Fresh,
     fills |-> <<>>, trades |-> 0, pnl |-> 0]

NewFunnel == [traces |-> <<>>, lives |-> <<>>, baseFills |-> 0]

Init ==
    /\ series = <<>>
    /\ book = [k \in Books |-> NewBook]
    /\ funnel = NewFunnel
    /\ ended = FALSE

-----------------------------------------------------------------------------
(* The portfolio and the audit of fills.                                   *)

Fill(side, signal, at, price, quantity) ==
    [side |-> side, signal |-> signal, at |-> at, price |-> price,
     quantity |-> quantity, fee |-> Fee]

Level(new, old) == IF new # Absent THEN new ELSE old

Bought(p, signal, price) ==
    IF p = Flat
    THEN [quantity |-> 1, cost |-> price, fees |-> Fee,
          stop |-> signal.stop, take |-> signal.take, holding |-> 0]
    ELSE [quantity |-> p.quantity + 1, cost |-> p.cost + price, fees |-> p.fees + Fee,
          stop |-> Level(signal.stop, p.stop), take |-> Level(signal.take, p.take),
          holding |-> p.holding + 1]

\* Mutant: the entry fees of a position are not charged to its trade.
ClosedWithoutEntryFees(b, signal, at, price) ==
    [b EXCEPT !.position = Flat,
              !.pnl = @ + price * b.position.quantity - b.position.cost - Fee,
              !.trades = @ + 1,
              !.fills = Append(@, Fill("sell", signal, at, price, b.position.quantity))]

Closed(b, signal, at, price) ==
    [b EXCEPT !.position = Flat,
              !.pnl = @ + price * b.position.quantity - b.position.cost - b.position.fees - Fee,
              !.trades = @ + 1,
              !.fills = Append(@, Fill("sell", signal, at, price, b.position.quantity))]

\* check_intrabar_exits: the stop before the take-profit, a gap at the open.
LevelPrice(p, c) ==
    IF p.stop # Absent /\ c.low <= p.stop
    THEN IF c.open <= p.stop THEN c.open ELSE p.stop
    ELSE IF p.take # Absent /\ c.high >= p.take THEN p.take ELSE Absent

LevelHit(b, c) == Held(b) /\ LevelPrice(b.position, c) # Absent

LevelReason(p, c) == IF p.stop # Absent /\ c.low <= p.stop THEN "STOP_LOSS" ELSE "LEVEL_PROFIT"

-----------------------------------------------------------------------------
(* One candle of one book.                                                 *)

\* The signal of the last candle executes at the open; the strategy is told.
Opened(k, b, c, refuse) ==
    LET clear == [b EXCEPT !.pending = NoSignal]
    IN  CASE b.pending.action = "close" ->
                [Closed(clear, b.pending, c.at, c.open) EXCEPT !.state = FilledSell(k, @, c)]
          [] b.pending.action = "open_long" /\ ~refuse ->
                [clear EXCEPT !.position = Bought(@, b.pending, c.open),
                              !.state = FilledBuy(k, @, b.pending, c),
                              !.fills = Append(@, Fill("buy", b.pending, c.at, c.open, 1))]
          [] OTHER -> clear

\* A level ends the candle: the strategy is neither told nor asked.
LevelClosed(b, c) ==
    Closed(b, Sell(c, LevelReason(b.position, c)), c.at, LevelPrice(b.position, c))

\* update_positions, then the strategy on the close.
Evaluated(k, b, c) ==
    LET marked == IF Held(b) THEN [b EXCEPT !.position.holding = @ + 1] ELSE b
        d == IF Held(b) THEN ShouldExit(k, b.state, marked.position, c) ELSE ShouldEnter(k, b.state, c)
    IN  [marked EXCEPT !.state = d.state, !.pending = d.signal]

Stepped(k, b, c, refuse) ==
    LET o == Opened(k, b, c, refuse)
    IN  IF LevelHit(o, c) THEN LevelClosed(o, c) ELSE Evaluated(k, o, c)

-----------------------------------------------------------------------------
(* The funnel: a subclass that watches should_enter from outside.          *)

\* _infer_cancel_reason: the first rule that applies, in this order.
CancelReason(s, c) ==
    IF c.regime # "TREND_UP" THEN "CANCEL_REGIME"
    ELSE IF c.close <= c.ema200 THEN "CANCEL_CLOSE_EMA200"
    ELSE IF c.ema50 <= c.ema200 THEN "CANCEL_EMA50_EMA200"
    ELSE IF s.bars + 1 >= SetupTimeout THEN "CANCEL_TIMEOUT"
    ELSE "CANCEL_UNKNOWN"

CrossSeen(s, c) ==
    s.phase = "ARMED" /\ c.rsi # Absent /\ Crossed(s, c)

AboveEma20(c) == c.ema20 # Absent /\ c.close > c.ema20

\* The event of one call, from the states before and after it.
TraceEvent(s, d, c) ==
    IF s.phase = "IDLE" THEN IF d.state.phase = "ARMED" THEN "SETUP_ARMED" ELSE "IDLE_NO_SETUP"
    ELSE IF d.signal # NoSignal THEN "CONFIRMED"
    ELSE IF d.state.phase = "IDLE" THEN CancelReason(s, c)
    ELSE IF ~CrossSeen(s, c) THEN "WAITING"
    ELSE IF ~AboveEma20(c) THEN "RSI_CROSS_NO_EMA20"
    ELSE IF ~c.calm THEN "RSI_CROSS_EMA20_VOL_BLOCK"
    ELSE "RSI_CROSS_CONFIRMATION_BLOCK_UNKNOWN"

Life(s, at, reason) == [armedAt |-> s.armedAt, at |-> at, reason |-> reason]

\* Mutant: a setup that is confirmed leaves no life behind.
TracedWithoutConfirmed(f, s, d, c) ==
    LET event == TraceEvent(s, d, c)
    IN  [f EXCEPT !.traces = Append(@, [at |-> c.at, event |-> event, crossed |-> CrossSeen(s, c),
                                        above |-> AboveEma20(c)]),
                  !.lives = IF s.phase = "ARMED" /\ d.state.phase = "IDLE" /\ d.signal = NoSignal
                            THEN Append(@, Life(s, c.at, event)) ELSE @]

Traced(f, s, d, c) ==
    LET event == TraceEvent(s, d, c)
    IN  [f EXCEPT !.traces = Append(@, [at |-> c.at, event |-> event, crossed |-> CrossSeen(s, c),
                                        above |-> AboveEma20(c)]),
                  !.lives = IF s.phase = "ARMED" /\ d.state.phase = "IDLE"
                            THEN Append(@, Life(s, c.at, event)) ELSE @]

BaseFilled(b, refuse) == b.pending.action = "open_long" /\ ~refuse /\ b.pending.dca = 0

FunnelStep(b, c, refuse) ==
    LET o == Opened("pullback", b, c, refuse)
        f == [funnel EXCEPT !.baseFills = IF BaseFilled(b, refuse) THEN @ + 1 ELSE @]
    IN  IF Held(o) THEN f ELSE Traced(f, o.state, ShouldEnter("pullback", o.state, c), c)

\* finalize_open_setup.
Finalized(f, s, at) ==
    IF s.phase = "ARMED" THEN [f EXCEPT !.lives = Append(@, Life(s, at, "OPEN_AT_END"))] ELSE f

-----------------------------------------------------------------------------
\* A candle of the series: a shape and its place.
Numbered(shape, n) == [f \in DOMAIN shape \cup {"at"} |-> IF f = "at" THEN n ELSE shape[f]]

Candle(shape, refuse) ==
    LET c == Numbered(shape, Len(series) + 1) IN
    /\ ~ended /\ Len(series) < Len(Shapes)
    /\ refuse => \E k \in Books : book[k].pending.action = "open_long"
    /\ series' = Append(series, c)
    /\ book' = [k \in Books |-> Stepped(k, book[k], c, refuse)]
    /\ funnel' = IF "pullback" \in Books THEN FunnelStep(book["pullback"], c, refuse) ELSE funnel
    /\ UNCHANGED ended

\* The candles are used up; what is open is sold at the last close.
Liquidated(b) ==
    IF Held(b) THEN Closed(b, Sell(Last(series), "END"), Len(series), Last(series).close) ELSE b

End ==
    /\ ~ended /\ series # <<>>
    /\ ended' = TRUE
    /\ book' = [k \in Books |-> Liquidated(book[k])]
    /\ funnel' = IF "pullback" \in Books
                 THEN Finalized(funnel, book["pullback"].state, Len(series) + 1) ELSE funnel
    /\ UNCHANGED series

Next ==
    \/ /\ Len(series) < Len(Shapes)
       /\ \E shape \in Shapes[Len(series) + 1], refuse \in BOOLEAN : Candle(shape, refuse)
    \/ End

Spec == Init /\ [][Next]_vars
=============================================================================
