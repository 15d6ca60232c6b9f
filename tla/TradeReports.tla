---------------------------- MODULE TradeReports ----------------------------
(***************************************************************************)
(* What the research reports compute from the candles and the audit trail  *)
(* of an ended run, and what ties the reports to the runs they are about.  *)
(*                                                                         *)
(* A report reads the fills in order, rebuilds the trades, and refuses to  *)
(* go on when they do not reconcile with the run.  Percentages are left    *)
(* as differences of prices; a report's features are the ones its groups   *)
(* and counts depend on.                                                   *)
(***************************************************************************)
EXTENDS Research

CONSTANTS
    SnapshotHours,      \* 24, of the snapshot and the failed structure
    HorizonHours        \* 24, of the early failure

ASSUME ReportAssumption == {SnapshotHours, HorizonHours} \subseteq Nat \ {0}

-----------------------------------------------------------------------------
(* Trades from fills.                                                      *)

NoEntry == [quantity |-> 0]

Entered(f) ==
    [quantity |-> f.quantity, cost |-> f.price * f.quantity, fees |-> f.fee,
     first |-> f, buys |-> 1]

Added(open, f) ==
    [open EXCEPT !.quantity = @ + f.quantity, !.cost = @ + f.price * f.quantity,
                 !.fees = @ + f.fee, !.buys = @ + 1]

Trade(open, f) ==
    [entry |-> open.first.signal, entryAt |-> open.first.at, entryPrice |-> open.first.price,
     buys |-> open.buys, quantity |-> open.quantity, cost |-> open.cost, fees |-> open.fees,
     exit |-> f.signal, exitAt |-> f.at, exitPrice |-> f.price, reason |-> f.signal.reason,
     pnl |-> f.price * open.quantity - open.cost - open.fees - f.fee]

\* One fill of the audit.  A sale has to close exactly what is open.
Replay(acc, f) ==
    IF f.side = "buy"
    THEN [acc EXCEPT !.open = IF @ = NoEntry THEN Entered(f) ELSE Added(@, f)]
    ELSE IF acc.open # NoEntry /\ f.quantity = acc.open.quantity
         THEN [acc EXCEPT !.trades = Append(@, Trade(acc.open, f)), !.open = NoEntry]
         ELSE [acc EXCEPT !.ok = FALSE]

Replayed(fills) == FoldLeft(Replay, [open |-> NoEntry, trades |-> <<>>, ok |-> TRUE], fills)

ClosedTrades(b) == Replayed(b.fills).trades

TotalPnl(trades) == FoldLeft(LAMBDA sum, t : sum + t.pnl, 0, trades)

\* build_backtest_attribution: the checks before a report is returned.
Reconciled(b) ==
    LET r == Replayed(b.fills)
    IN  /\ r.ok /\ r.open = NoEntry
        /\ Len(r.trades) = b.trades
        /\ TotalPnl(r.trades) = b.pnl

Selected(trades, Test(_)) == SelectSeq(trades, Test)

\* _bucket: wins and losses leave out the trades that end flat.
Bucket(trades, Key(_), key) ==
    LET group == Selected(trades, LAMBDA t : Key(t) = key)
    IN  [trades |-> Len(group), pnl |-> TotalPnl(group),
         wins   |-> Len(Selected(group, LAMBDA t : t.pnl > 0)),
         losses |-> Len(Selected(group, LAMBDA t : t.pnl < 0))]

Outcome(t) == IF t.pnl > 0 THEN "WINNER" ELSE IF t.pnl < 0 THEN "LOSER" ELSE "FLAT"

\* reconstruct_breakout_retest_trades: one purchase a trade, with the level of
\* its signal.
BreakoutReadable(b) ==
    /\ Reconciled(b)
    /\ \A t \in ToSet(ClosedTrades(b)) :
          /\ t.buys = 1 /\ t.entry.reason = "entry" /\ t.entry.level > 0
          /\ t.exitAt >= t.entryAt

-----------------------------------------------------------------------------
(* Statistics.  A percentile is scaled by four, so that it stays whole.    *)

Percentile4(values, quarters) ==
    LET ordered == SortSeq(values, <)
        scaled  == (Len(values) - 1) * quarters
        lower   == 1 + scaled \div 4
        upper   == IF lower < Len(values) THEN lower + 1 ELSE lower
    IN  4 * ordered[lower] + (ordered[upper] - ordered[lower]) * (scaled % 4)

Stats(values) ==
    IF values = <<>> THEN [count |-> 0]
    ELSE [count |-> Len(values), median |-> Percentile4(values, 2),
          p25 |-> Percentile4(values, 1), p75 |-> Percentile4(values, 3),
          minimum |-> Min(ToSet(values)), maximum |-> Max(ToSet(values))]

Values(items, Test(_), Feature(_)) ==
    FoldLeft(LAMBDA acc, i : Append(acc, Feature(i)), <<>>, SelectSeq(items, Test))

Outcomes == {"WINNER", "LOSER", "FLAT", "ALL"}

\* _feature_stats, for the candles from breakout to retest.
RetestStats(trades) ==
    [o \in Outcomes |->
        Stats(Values(trades, LAMBDA t : o = "ALL" \/ Outcome(t) = o, LAMBDA t : t.entry.bars))]

-----------------------------------------------------------------------------
(* The position after SnapshotHours completed candles.                     *)

SnapshotAt(t) == t.entryAt + SnapshotHours - 1

LossGroup(t) ==
    IF t.pnl > 0 THEN "FUTURE_WINNER"
    ELSE IF t.pnl = 0 THEN "NONE"
    ELSE IF t.reason \in {"TREND_DOWN", "MAX_HOLDING"} THEN t.reason \o "_LOSS" ELSE "OTHER_LOSS"

\* build_24h_snapshot: only for a position that is still open, and not for a
\* trade that ends flat.
HasSnapshot(t) == SnapshotAt(t) < t.exitAt /\ LossGroup(t) # "NONE"

Active(t, cs) == SubSeq(cs, t.entryAt, SnapshotAt(t))

Snapshot(t, cs) ==
    LET active == ToSet(Active(t, cs))
        close  == cs[SnapshotAt(t)].close
    IN  [at |-> SnapshotAt(t), group |-> LossGroup(t), close |-> close, pnl |-> t.pnl,
         gain |-> close - t.entryPrice,
         mfe  |-> Max({t.entryPrice} \cup {c.high : c \in active}) - t.entryPrice,
         mae  |-> Min({t.entryPrice} \cup {c.low : c \in active}) - t.entryPrice,
         regime |-> cs[SnapshotAt(t)].regime]

Snapshots(trades, cs) ==
    FoldLeft(LAMBDA acc, t : IF HasSnapshot(t) THEN Append(acc, Snapshot(t, cs)) ELSE acc, <<>>, trades)

SnapshotGroups == {"FUTURE_WINNER", "TREND_DOWN_LOSS", "MAX_HOLDING_LOSS", "ALL_LOSERS", "ALL"}

InGroup(s, g) == g = "ALL" \/ (g = "ALL_LOSERS" /\ s.pnl < 0) \/ s.group = g

SnapshotStats(snapshots) ==
    [g \in SnapshotGroups |-> Stats(Values(snapshots, LAMBDA s : InGroup(s, g), LAMBDA s : s.gain))]

-----------------------------------------------------------------------------
(* Counterfactual exits.  The sale would happen at the open after the      *)
(* candle that triggers it, and only a position that outlives that open.   *)

SoldAt(t, price) == price * t.quantity - t.cost - t.fees - Fee

Result(t, cs, at, triggered) ==
    LET pnl == IF triggered THEN SoldAt(t, cs[at].open) ELSE t.pnl
    IN  [triggered |-> triggered, pnl |-> pnl,
         sacrificed |-> t.pnl > 0 /\ pnl <= 0,
         saved |-> t.pnl < 0 /\ pnl > t.pnl]

\* evaluate_early_failure_trade.
EarlyFailure(t, cs) ==
    LET horizon == t.entryAt + HorizonHours
    IN  Result(t, cs, horizon + 1,
               /\ horizon + 1 <= Len(cs) /\ t.exitAt > horizon + 1
               /\ cs[horizon].close < t.entryPrice)

\* Mutant: a trade that leaves on the candle of the sale triggers.
FailedStructureAtExit(t, cs) ==
    LET at == SnapshotAt(t)
    IN  Result(t, cs, at + 1,
               /\ at + 1 <= Len(cs) /\ t.exitAt >= at + 1
               /\ StructureKnown(cs[at]) /\ BelowStructure(cs[at], t.entry.level))

\* The report raises if the snapshot candle of a trade, even of one that has
\* ended before, has no EMA20 or EMA50.
StructureReadable(trades, cs) ==
    \A t \in ToSet(trades) : SnapshotAt(t) <= Len(cs) => StructureKnown(cs[SnapshotAt(t)])

\* evaluate_failed_structure_trade, of a trade that can be read.
FailedStructure(t, cs) ==
    LET at == SnapshotAt(t)
    IN  Result(t, cs, at + 1,
               /\ at + 1 <= Len(cs) /\ t.exitAt > at + 1
               /\ StructureKnown(cs[at]) /\ BelowStructure(cs[at], t.entry.level))

Summary(results) ==
    [trades |-> Len(results), pnl |-> TotalPnl(results),
     triggered  |-> Len(SelectSeq(results, LAMBDA r : r.triggered)),
     sacrificed |-> Len(SelectSeq(results, LAMBDA r : r.sacrificed)),
     saved      |-> Len(SelectSeq(results, LAMBDA r : r.saved))]

EarlyFailureSummary(trades, cs) ==
    Summary(FoldLeft(LAMBDA acc, t : Append(acc, EarlyFailure(t, cs)), <<>>, trades))

FailedStructureSummary(trades, cs) ==
    Summary(FoldLeft(LAMBDA acc, t : Append(acc, FailedStructure(t, cs)), <<>>, trades))

TriggerGroup(r) ==
    IF r.sacrificed THEN "SACRIFICED_WINNER" ELSE IF r.saved THEN "SAVED_LOSER" ELSE "OTHER_TRIGGER"

\* _future_excursions: without the candle of the exit, but with its price.
FutureExcursion(t, cs) ==
    LET close == cs[SnapshotAt(t)].close
        after == ToSet(SubSeq(cs, SnapshotAt(t) + 1, t.exitAt - 1))
    IN  [best  |-> Max({close, t.exitPrice} \cup {c.high : c \in after}) - close,
         worst |-> Min({close, t.exitPrice} \cup {c.low : c \in after}) - close,
         bars  |-> t.exitAt - (SnapshotAt(t) + 1)]

TriggerGroups == {"SAVED_LOSER", "SACRIFICED_WINNER", "OTHER_TRIGGER", "ALL_TRIGGERED"}

TriggerStats(trades, cs) ==
    LET triggered == SelectSeq(trades, LAMBDA t : FailedStructure(t, cs).triggered)
        In(t, g) == g = "ALL_TRIGGERED" \/ TriggerGroup(FailedStructure(t, cs)) = g
    IN  [g \in TriggerGroups |->
            Stats(Values(triggered, LAMBDA t : In(t, g), LAMBDA t : FutureExcursion(t, cs).best))]
=============================================================================
