--------------------------- MODULE ResearchReports ---------------------------
(***************************************************************************)
(* The reports that follow a position through the candles, or compare two  *)
(* runs over the same candles; the gate that reproduces a frozen result;   *)
(* and the properties of the research backtests and their reports.         *)
(***************************************************************************)
EXTENDS TradeReports

-----------------------------------------------------------------------------
(* The path of a trade.                                                    *)

\* The candles of a trade without the one it leaves on, which may have gone on
\* after the exit.
Path(t, cs) == SubSeq(cs, t.entryAt, t.exitAt - 1)

FirstTrendDown(t, cs) ==
    SelectInSeq(Path(t, cs), LAMBDA c : c.regime = "TREND_DOWN")

\* analyze_exit_path: extremes with the exit's price, the first TREND_DOWN and
\* the best price up to it.
ExitPath(t, cs) ==
    LET path == ToSet(Path(t, cs))
        down == FirstTrendDown(t, cs)
        upTo == ToSet(SubSeq(Path(t, cs), 1, down))
    IN  [mfe |-> Max({t.entryPrice, t.exitPrice} \cup {c.high : c \in path}) - t.entryPrice,
         mae |-> Min({t.entryPrice, t.exitPrice} \cup {c.low : c \in path}) - t.entryPrice,
         barsToTrendDown |-> down,
         bestBefore |-> IF down = 0 THEN 0
                        ELSE Max({t.entryPrice} \cup {c.high : c \in upTo}) - t.entryPrice,
         outcome |-> Outcome(t), reason |-> t.reason, pnl |-> t.pnl]

\* _build_horizon_snapshot, for every horizon the position outlives; the report
\* takes four of them.
Horizons(t, cs) ==
    [h \in {n \in 1 .. Len(cs) : t.entryAt + n - 1 < t.exitAt} |->
        cs[t.entryAt + h - 1].close - t.entryPrice]

Paths(trades, cs) == FoldLeft(LAMBDA acc, t : Append(acc, ExitPath(t, cs)), <<>>, trades)

PathGroups == {"WINNER", "TREND_DOWN_LOSS", "MAX_HOLDING_LOSS", "ALL_LOSERS", "ALL"}

InPathGroup(p, g) ==
    \/ g = "ALL" \/ g = p.outcome
    \/ p.pnl < 0 /\ (g = "ALL_LOSERS" \/ g = p.reason \o "_LOSS")

ExitPathStats(paths) ==
    [g \in PathGroups |-> Stats(Values(paths, LAMBDA p : InPathGroup(p, g), LAMBDA p : p.mfe))]

\* reconstruct_trend_down_exits: the three candles after the signal, as far as
\* they exist; all of them have to be TREND_DOWN, any other one is a switch.
TrendDownExit(t, cs) ==
    LET future == {t.exit.at + i : i \in 1 .. 3}
        known  == future \cap 1 .. Len(cs)
    IN  [at |-> t.exit.at, dcaCount |-> t.buys - 1,
         pnlAtSignal |-> SoldAt(t, cs[t.exit.at].close),
         continued |-> known = future /\ \A i \in known : cs[i].regime = "TREND_DOWN",
         switched  |-> \E i \in known : cs[i].regime # "TREND_DOWN"]

TrendDownExits(trades, cs) ==
    {TrendDownExit(t, cs) : t \in {t \in ToSet(trades) : t.reason = "TREND_DOWN"}}

TrendDownReport(records) ==
    [total     |-> Cardinality(records),
     continued |-> Cardinality({r \in records : r.continued}),
     switched  |-> Cardinality({r \in records : r.switched})]

-----------------------------------------------------------------------------
(* The entry filter: the trades of the baseline against the slope of the   *)
(* filtered strategy.                                                      *)

OutcomeGroup(t) ==
    IF t.reason = "TREND_DOWN" /\ t.pnl < 0 THEN "TD_LOSS"
    ELSE IF t.reason \in {"TAKE_PROFIT", "LEVEL_PROFIT", "TRAILING"} /\ t.pnl > 0 THEN "WINNER"
    ELSE "OTHER"

\* Mutant: the slope is read from the candle the order filled on.
FilteredAtFill(t, cs) == \A slope \in cs[t.entryAt].slope : slope < SlopeThreshold

Filtered(t, cs) == \A slope \in cs[t.entry.at].slope : slope < SlopeThreshold

\* An entry without a slope stops the report.
SlopesKnown(trades, cs) == \A t \in ToSet(trades) : cs[t.entry.at].slope # {}

TrendUpAge(cs, at) ==
    CHOOSE n \in 0 .. at :
        /\ \A i \in at - n + 1 .. at : cs[i].regime = "TREND_UP"
        /\ n < at => cs[at - n].regime # "TREND_UP"

FilterCount(trades, cs, filtered, group) ==
    Len(SelectSeq(trades, LAMBDA t : Filtered(t, cs) = filtered /\ OutcomeGroup(t) = group))

-----------------------------------------------------------------------------
(* The entry funnel: the pullback run against the baseline.                *)

TraceAt(at) == SelectInSeq(funnel.traces, LAMBDA tr : tr.at = at)

\* _status_for_baseline_entry.
MissStatus(at, trades) ==
    IF TraceAt(at) # 0 THEN funnel.traces[TraceAt(at)].event
    ELSE IF \E t \in ToSet(trades) : t.entryAt <= at /\ at <= t.exitAt THEN "V2_POSITION_OPEN"
    ELSE "NO_V2_ENTRY_EVALUATION"

\* The trades of the baseline that the pullback did not signal on that candle.
Misses(baseline, pullback) ==
    {t \in ToSet(baseline) : MissStatus(t.entry.at, pullback) # "CONFIRMED"}

Lives(reasons) == {i \in DOMAIN funnel.lives : funnel.lives[i].reason \in reasons}
Traces(event)  == {i \in DOMAIN funnel.traces : funnel.traces[i].event = event}
Crosses        == {i \in DOMAIN funnel.traces : funnel.traces[i].crossed}
CrossesAbove   == {i \in Crosses : funnel.traces[i].above}

LifeCount(reasons) == Cardinality(Lives(reasons))
EventCount(event)  == Cardinality(Traces(event))

Cancels == {"CANCEL_REGIME", "CANCEL_CLOSE_EMA200", "CANCEL_EMA50_EMA200", "CANCEL_TIMEOUT"}

\* _window_funnel: the counts the report prints.
WindowFunnel ==
    [armed |-> EventCount("SETUP_ARMED"), confirmed |-> EventCount("CONFIRMED"),
     fills |-> funnel.baseFills, cancelled |-> LifeCount(Cancels),
     open |-> LifeCount({"OPEN_AT_END"}), waiting |-> EventCount("WAITING"),
     crosses |-> Cardinality(Crosses), crossesAbove |-> Cardinality(CrossesAbove),
     blocked |-> EventCount("RSI_CROSS_EMA20_VOL_BLOCK")]

-----------------------------------------------------------------------------
(* The reproduction gate runs the frozen windows twice.                    *)

EngineReasons == {"STOP_LOSS", "LEVEL_PROFIT", "END"}

\* audit_fingerprint: random signal ids are left out.  Signals of the engine,
\* unlike the strategy's, carry the random id of the run.
Fingerprint(b, runId) ==
    [trades |-> b.trades, pnl |-> b.pnl,
     fills  |-> [i \in DOMAIN b.fills |->
                    [fill |-> b.fills[i],
                     run  |-> IF b.fills[i].signal.reason \in EngineReasons THEN runId ELSE 0]]]

\* reproduce_symbol: first == second.
Deterministic(b) == Fingerprint(b, 1) = Fingerprint(b, 2)

\* build_gate_result: the frozen numbers as well.
GatePassed(b, trades, pnl) == Deterministic(b) /\ b.trades = trades /\ b.pnl = pnl

-----------------------------------------------------------------------------
(* Properties.                                                             *)

Trades(k) == ClosedTrades(book[k])

\* Whatever mix of base orders, safety orders, levels, refusals and the final
\* liquidation a run is made of, the trades the reports rebuild from its fills
\* are the portfolio's: as many, and with the same PnL; a breakout report can
\* read every one.  The reproduction gate passes on the numbers of those trades,
\* unless the engine itself, whose signals carry the random run_id, closed a
\* position: by a level or at the end of the window.
ReportsReconcile ==
    ended => \A k \in Books :
        /\ Reconciled(book[k])
        /\ GatePassed(book[k], Len(Trades(k)), TotalPnl(Trades(k)))
              <=> \A f \in ToSet(book[k].fills) : f.signal.reason \notin EngineReasons
        /\ k \in Breakouts => BreakoutReadable(book[k])

\* An entry of a breakout strategy comes from a breakout that is younger than
\* the timeout and was broken by a close, was never in doubt since, and was
\* tested on the candle of the signal (BreakoutRetestStrategy.should_enter).
\* An entry of the pullback strategy is a cross: the last RSI before it was low.
\* Its timeout counts only candles with all indicators, unlike the breakout's.
EntriesFollowSetups ==
    \A k \in Books : LET s == book[k].pending IN
        s.action = "open_long" /\ s.dca = 0 =>
            /\ k \in Breakouts =>
                  /\ s.at - s.armedAt \in 1 .. RetestTimeout - 1
                  /\ series[s.armedAt].close > s.level
                  /\ series[s.at].low <= s.level /\ s.level <= series[s.at].close
                  /\ \A i \in s.armedAt .. s.at : series[i].regime # "TREND_DOWN"
            /\ k = "pullback" =>
                  LET known == {i \in 1 .. s.at - 1 : series[i].rsi # Absent}
                      complete == {i \in s.armedAt + 1 .. s.at : PullbackKnown(series[i])}
                  IN  /\ Cardinality(complete) < SetupTimeout
                      /\ series[s.at].rsi > RsiEntry /\ series[Max(known)].rsi <= RsiEntry

\* Every setup the instrumented strategy armed ends in exactly one life, with a
\* reason the funnel knows, and a confirmed one fills at most once.  A cross that
\* should have confirmed and did not is only seen on an incomplete candle.  A
\* trade of the baseline that the pullback missed is explained: the pullback
\* looked at that candle, or was in a position (_status_for_baseline_entry).
FunnelAccounts ==
    ended /\ {"pullback", "baseline"} \subseteq Books =>
        LET w == WindowFunnel IN
        /\ w.armed = w.confirmed + w.cancelled + w.open
        /\ w.confirmed = LifeCount({"CONFIRMED"}) /\ w.fills <= w.confirmed
        /\ w.crosses >= w.crossesAbove /\ w.crossesAbove >= w.blocked + w.confirmed
        /\ \A i \in Traces("RSI_CROSS_CONFIRMATION_BLOCK_UNKNOWN") :
              ~PullbackKnown(series[funnel.traces[i].at])
        /\ \A t \in Misses(Trades("baseline"), Trades("pullback")) :
              MissStatus(t.entry.at, Trades("pullback")) # "NO_V2_ENTRY_EVALUATION"

WatchStartedAt(at) == \E e \in ToSet(book["breakout_v2"].state.events) :
                          e.at = at /\ e.event = "WATCH_STARTED"

\* V2 is V1 until a watch times out, watches a position at most once and never
\* before its age; and where the failed-structure report, which knows nothing
\* of the strategy's counters, sees a trade of V2 fail, that is the candle on
\* which the watch began.
OnlyWatchDiffers ==
    ended /\ Breakouts \subseteq Books =>
        LET events == book["breakout_v2"].state.events
        IN  /\ \/ \E t \in ToSet(Trades("breakout_v2")) : t.reason = "WATCH_TIMEOUT"
               \/ Trades("breakout") = Trades("breakout_v2")
            /\ \A i \in DOMAIN events : events[i].event = "WATCH_STARTED" =>
                  \E j \in 1 .. i - 1 :
                      /\ events[j].event = "STARTED"
                      /\ events[i].at >= events[j].at + DetectionAge - 1
                      /\ \A m \in j + 1 .. i - 1 :
                            events[m].event \notin {"STARTED", "WATCH_STARTED"}
            /\ SnapshotHours = DetectionAge =>
                  \A t \in ToSet(Trades("breakout_v2")) :
                      FailedStructure(t, series).triggered => WatchStartedAt(SnapshotAt(t))

\* V2 manages every position the engine holds: its counters are of that
\* position, although it is told of no exit by a level (on_fill, should_enter).
CountersFollowPosition ==
    "breakout_v2" \in Books /\ Held(book["breakout_v2"]) =>
        LET s == book["breakout_v2"].state
            bought == Last(book["breakout_v2"].fills)
        IN  /\ s.mode # "NONE" /\ s.heldLevel = bought.signal.level
            /\ s.age \in {Len(series) - bought.at, Len(series) - bought.at + 1}
            /\ book["breakout_v2"].pending = NoSignal => s.age = Len(series) - bought.at + 1
            /\ s.watchBars <= WatchMax

\* Both: what V2 adds to V1 is one watch a position, kept on that position.
WatchFollowsPosition == OnlyWatchDiffers /\ CountersFollowPosition

\* The filter report is exact: if it filters no trade of the baseline, the run
\* of the filtered strategy has the same trades; and no trade it looks at was
\* entered outside an uptrend.
FilterIsExact ==
    ended /\ {"baseline", "slope"} \subseteq Books =>
        LET trades == Trades("baseline") IN
        SlopesKnown(trades, series) =>
            /\ (\A t \in ToSet(trades) : ~Filtered(t, series)) => trades = Trades("slope")
            /\ \A t \in ToSet(trades) : TrendUpAge(series, t.entry.at) > 0

\* No strategy sits through a TREND_DOWN candle: the first one on a trade's path
\* (analyze_exit_path) is its last, and it is the one trend_down_diagnostics
\* reports.
FirstTrendDownEnds ==
    ended => \A k \in Books : LET trades == Trades(k) IN
        /\ \A t \in ToSet(trades) : LET path == ExitPath(t, series) IN
              /\ path.barsToTrendDown # 0 => t.entryAt + path.barsToTrendDown = t.exitAt
              /\ path.bestBefore <= path.mfe /\ path.mae <= t.exitPrice - t.entryPrice
              /\ t.reason = "TREND_DOWN" =>
                    TrendDownExit(t, series).at = t.entryAt + path.barsToTrendDown - 1
        /\ LET r == TrendDownReport(TrendDownExits(trades, series))
           IN  r.continued + r.switched <= r.total

\* The reports on early failures fit together: a trade the structure report
\* triggers on has the snapshot the false-positive report asks for, unless it
\* ended flat, and the exit-path report has the same price there; trades the
\* counterfactuals do not touch keep their PnL; no trade is both saved and
\* sacrificed, and none is counted twice.
CounterfactualsFit ==
    ended => \A k \in Books \cap Breakouts : LET trades == Trades(k) IN
        /\ \A t \in ToSet(trades) : LET r == FailedStructure(t, series) IN
              /\ r.triggered /\ t.pnl # 0 => HasSnapshot(t)
              /\ HasSnapshot(t) => Snapshot(t, series).gain = Horizons(t, series)[SnapshotHours]
              /\ r.triggered => FutureExcursion(t, series).bars > 0
              /\ ~(r.saved /\ r.sacrificed)
        /\ EarlyFailureSummary(trades, series).triggered = 0
              => EarlyFailureSummary(trades, series).pnl = book[k].pnl
        /\ StructureReadable(trades, series) =>
              TriggerStats(trades, series)["ALL_TRIGGERED"].count
                 = FailedStructureSummary(trades, series).triggered
        /\ LET s == SnapshotStats(Snapshots(trades, series))
           IN  s["ALL"].count = s["FUTURE_WINNER"].count + s["ALL_LOSERS"].count

\* The tables of the reports are those of the trades of the run: the buckets of
\* the attribution add up to its PnL and its wins and losses to the groups of
\* the retest statistics, whose percentiles are in order; the exit paths and the
\* cells of the filter table are as many as its trades.
TablesAddUp ==
    ended => \A k \in Books :
        LET trades == Trades(k)
            buckets == [r \in {t.reason : t \in ToSet(trades)} |-> Bucket(trades, LAMBDA t : t.reason, r)]
            stats == RetestStats(trades)["ALL"]
            groups == {"TD_LOSS", "WINNER", "OTHER"}
        IN  /\ MapThenSumSet(LAMBDA r : buckets[r].pnl, DOMAIN buckets) = book[k].pnl
            /\ MapThenSumSet(LAMBDA r : buckets[r].wins + buckets[r].losses, DOMAIN buckets)
                  = RetestStats(trades)["WINNER"].count + RetestStats(trades)["LOSER"].count
            /\ stats.count > 0 =>
                  /\ 4 * stats.minimum <= stats.p25 /\ stats.p25 <= stats.median
                  /\ stats.median <= stats.p75 /\ stats.p75 <= 4 * stats.maximum
            /\ ExitPathStats(Paths(trades, series))["ALL"].count = book[k].trades
            /\ k = "baseline" /\ SlopesKnown(trades, series) =>
                  MapThenSumSet(LAMBDA g : FilterCount(trades, series, TRUE, g)
                                            + FilterCount(trades, series, FALSE, g), groups)
                     = book[k].trades

\* Both: what the reports print fits together.
ReportsFit == CounterfactualsFit /\ TablesAddUp
=============================================================================
