----------------------------- MODULE RiskEngine -----------------------------
(***************************************************************************)
(* The pre-trade gate: RiskEngine.check_trade, called by RiskEngineAdapter *)
(* for every request, the book that approved requests build, the risk      *)
(* state its operations change and the store each of them writes before it *)
(* returns.                                                                *)
(*                                                                         *)
(* Money is counted in whole units and limits in thousandths of the        *)
(* capital.  A position is a quantity and a cost, quantity times average   *)
(* price; integer division stands for the rounding of Decimal.  The paper  *)
(* engine never changes its cash balance: it stays at the initial capital. *)
(*                                                                         *)
(* The adapter passes no stop-loss price and no order statuses, its        *)
(* requests are always well formed, and it ignores the quantity check_trade*)
(* would suggest: the rules about them never apply and are left out.       *)
(***************************************************************************)
EXTENDS Integers, FiniteSets, FiniteSetsExt

CONSTANTS
    Symbols, Quantities, Prices,
    Capital,                      \* total_capital, also the cash balance
    MaxPositionSize, MaxAssetExposure, MaxCapitalUtilization,
    DailyLossLimit, WeeklyLossLimit, MaxDrawdown,
    MaxOpenPositions,
    PnLs, Equities,               \* amounts the caller reports
    ErrorLimit,                   \* consecutive errors that stop trading
    MaxSaveFailures, MaxRestarts

ASSUME RiskAssumption ==
    /\ IsFiniteSet(Symbols)
    /\ Quantities \subseteq Nat \ {0}
    /\ Prices \subseteq Nat \ {0}
    /\ Capital \in Nat \ {0}
    /\ {MaxPositionSize, MaxAssetExposure, MaxCapitalUtilization} \subseteq Nat
    /\ {DailyLossLimit, WeeklyLossLimit, MaxDrawdown} \subseteq Nat
    /\ MaxOpenPositions \in Nat
    /\ PnLs \subseteq Int /\ 0 \in PnLs
    /\ Equities \subseteq Nat
    /\ ErrorLimit \in Nat \ {0}
    /\ MaxSaveFailures \in Nat /\ MaxRestarts \in Nat

VARIABLES
    quantity, cost,   \* PaperExecutionEngine.positions
    known,            \* symbols with an entry in positions, closed ones too
    risk,             \* the fields RiskEngine persists
    database, api, reconciled,   \* operational flags, not persisted
    data,             \* age of last_data_time
    stored,           \* the row of risk_engine_state; no row reads as Fresh
    saveFailures, restarts

book  == <<quantity, cost, known>>
flags == <<database, api, reconciled, data>>
vars  == <<book, risk, flags, stored, saveFailures, restarts>>

-----------------------------------------------------------------------------
Fresh == [daily |-> 0, weekly |-> 0, peak |-> 0, equity |-> 0, stopped |-> FALSE, errors |-> 0]

Risks == [daily : PnLs, weekly : PnLs, peak : Equities \cup {0}, equity : Equities \cup {0},
          stopped : BOOLEAN, errors : 0 .. ErrorLimit]

TypeOK ==
    /\ quantity \in [Symbols -> Nat]
    /\ cost \in [Symbols -> Nat]
    /\ known \subseteq Symbols
    /\ risk \in Risks
    /\ database \in BOOLEAN /\ api \in BOOLEAN /\ reconciled \in BOOLEAN
    /\ data \in {"never", "fresh", "stale"}
    /\ stored \in Risks
    /\ saveFailures \in Nat /\ restarts \in Nat

Init ==
    /\ quantity = [x \in Symbols |-> 0]
    /\ cost = [x \in Symbols |-> 0]
    /\ known = {}
    /\ risk = Fresh
    /\ database = TRUE /\ api = TRUE /\ reconciled = TRUE
    /\ data = "never"
    /\ stored = Fresh
    /\ saveFailures = 0 /\ restarts = 0

-----------------------------------------------------------------------------
(* check_trade.                                                            *)

Abs(n) == IF n < 0 THEN -n ELSE n

\* share of the capital, compared with a limit in thousandths
Above(amount, limit) == 1000 * amount > limit * Capital

Delta(side, q, p) == IF side = "BUY" THEN q * p ELSE - (q * p)

ExposureAfter(x, side, q, p) == cost[x] + Delta(side, q, p)

ExposureIncrease(x, side, q, p) ==
    Max({Abs(ExposureAfter(x, side, q, p)) - Abs(cost[x]), 0})

\* Mutant: a purchase below the average price counts as reducing.
ReducingCheap(x, side, q, p) ==
    side = "SELL" \/ p * quantity[x] < cost[x]

Reducing(x, side, q, p) == ExposureIncrease(x, side, q, p) = 0

\* The costs c of the symbols S together.
TotalCost(c, S) == MapThenSumSet(LAMBDA y : c[y], S)

OtherExposure(x) == TotalCost(cost, known \ {x})

OperationalEvents ==
    {e \in {"EMERGENCY_STOP", "DATABASE_UNAVAILABLE", "API_UNAVAILABLE",
            "RECONCILIATION_FAILED", "STALE_DATA"} :
        CASE e = "EMERGENCY_STOP"        -> risk.stopped
          [] e = "DATABASE_UNAVAILABLE"  -> ~database
          [] e = "API_UNAVAILABLE"       -> ~api
          [] e = "RECONCILIATION_FAILED" -> ~reconciled
          [] e = "STALE_DATA"            -> data = "stale"}

\* The loss limits that the figures r are beyond.
LossEventsOf(r) ==
    {e \in {"DAILY_LOSS_LIMIT", "WEEKLY_LOSS_LIMIT", "MAX_DRAWDOWN"} :
        CASE e = "DAILY_LOSS_LIMIT"  -> r.daily < 0 /\ Above(- r.daily, DailyLossLimit)
          [] e = "WEEKLY_LOSS_LIMIT" -> r.weekly < 0 /\ Above(- r.weekly, WeeklyLossLimit)
          [] e = "MAX_DRAWDOWN"      ->
                r.peak > 0 /\ 1000 * (r.peak - r.equity) > MaxDrawdown * r.peak}

LossEvents == LossEventsOf(risk)

\* Mutant: the utilization leaves out the other symbols.
LimitEventsAlone(x, side, q, p) ==
    LET after == Abs(ExposureAfter(x, side, q, p)) IN
    {e \in {"MAX_POSITION_SIZE", "INSUFFICIENT_BALANCE", "MAX_ASSET_EXPOSURE",
            "MAX_CAPITAL_UTILIZATION"} :
        CASE e = "MAX_POSITION_SIZE" ->
                \/ Above(after, MaxPositionSize)
                \/ x \notin known /\ Cardinality(known) >= MaxOpenPositions
          [] e = "INSUFFICIENT_BALANCE"    -> ExposureIncrease(x, side, q, p) > Capital
          [] e = "MAX_ASSET_EXPOSURE"      -> Above(after, MaxAssetExposure)
          [] e = "MAX_CAPITAL_UTILIZATION" -> Above(after, MaxCapitalUtilization)}

\* Mutant: one position more than the limit is let through.
LimitEventsOneMore(x, side, q, p) ==
    LET after == Abs(ExposureAfter(x, side, q, p)) IN
    {e \in {"MAX_POSITION_SIZE", "MAX_CAPITAL_UTILIZATION"} :
        CASE e = "MAX_POSITION_SIZE" ->
                \/ Above(after, MaxPositionSize)
                \/ x \notin known /\ Cardinality(known) > MaxOpenPositions
          [] e = "MAX_CAPITAL_UTILIZATION" ->
                Above(OtherExposure(x) + after, MaxCapitalUtilization)}

LimitEvents(x, side, q, p) ==
    LET after == Abs(ExposureAfter(x, side, q, p)) IN
    {e \in {"MAX_POSITION_SIZE", "INSUFFICIENT_BALANCE", "MAX_ASSET_EXPOSURE",
            "MAX_CAPITAL_UTILIZATION"} :
        CASE e = "MAX_POSITION_SIZE" ->
                \/ Above(after, MaxPositionSize)
                \/ x \notin known /\ Cardinality(known) >= MaxOpenPositions
          [] e = "INSUFFICIENT_BALANCE"    -> ExposureIncrease(x, side, q, p) > Capital
          [] e = "MAX_ASSET_EXPOSURE"      -> Above(after, MaxAssetExposure)
          [] e = "MAX_CAPITAL_UTILIZATION" ->
                Above(OtherExposure(x) + after, MaxCapitalUtilization)}

Approved(x, side, q, p) ==
    \/ Reducing(x, side, q, p)
    \/ OperationalEvents \cup LossEvents \cup LimitEvents(x, side, q, p) = {}

-----------------------------------------------------------------------------
(* An approved request, executed by the paper engine.                      *)

Buy(x, q, p) ==
    /\ Approved(x, "BUY", q, p)
    /\ quantity' = [quantity EXCEPT ![x] = @ + q]
    /\ cost' = [cost EXCEPT ![x] = @ + q * p]
    /\ known' = known \cup {x}
    /\ UNCHANGED <<risk, flags, stored, saveFailures, restarts>>

\* A partial sale keeps the average price; a complete one resets it to 0.  The
\* entry of the symbol stays in positions.
Sell(x, q, p) ==
    /\ Approved(x, "SELL", q, p)
    /\ q <= quantity[x]
    /\ quantity' = [quantity EXCEPT ![x] = @ - q]
    /\ cost' = [cost EXCEPT ![x] = (@ * (quantity[x] - q)) \div quantity[x]]
    /\ UNCHANGED <<known, risk, flags, stored, saveFailures, restarts>>

-----------------------------------------------------------------------------
(* Risk state.  An operation changes memory, then the store; when the      *)
(* store raises, the change in memory remains.                             *)

Persist(r) ==
    /\ risk' = r
    /\ \/ /\ stored' = r
          /\ UNCHANGED saveFailures
       \/ /\ saveFailures < MaxSaveFailures
          /\ saveFailures' = saveFailures + 1
          /\ UNCHANGED stored

UpdatePnl(daily, weekly) ==
    /\ Persist([risk EXCEPT !.daily = daily, !.weekly = weekly])
    /\ UNCHANGED <<book, flags, restarts>>

UpdateEquity(equity) ==
    /\ Persist([risk EXCEPT !.equity = equity, !.peak = Max({@, equity})])
    /\ UNCHANGED <<book, flags, restarts>>

SetEmergencyStop(active) ==
    /\ Persist([risk EXCEPT !.stopped = active])
    /\ UNCHANGED <<book, flags, restarts>>

RecordError ==
    /\ risk.errors < ErrorLimit    \* bound: the code counts on
    /\ LET n == risk.errors + 1 IN
          Persist([risk EXCEPT !.errors = n, !.stopped = @ \/ n >= ErrorLimit])
    /\ UNCHANGED <<book, flags, restarts>>

\* Mutant: a success after the errors lifts the stop.
ResetErrorsAndStop ==
    /\ Persist([risk EXCEPT !.errors = 0, !.stopped = FALSE])
    /\ UNCHANGED <<book, flags, restarts>>

ResetErrors ==
    /\ Persist([risk EXCEPT !.errors = 0])
    /\ UNCHANGED <<book, flags, restarts>>

ResetDaily ==
    /\ Persist([risk EXCEPT !.daily = 0])
    /\ UNCHANGED <<book, flags, restarts>>

ResetWeekly ==
    /\ Persist([risk EXCEPT !.weekly = 0])
    /\ UNCHANGED <<book, flags, restarts>>

UpdateSystemHealth(db, exchange) ==
    /\ database' = db /\ api' = exchange
    /\ UNCHANGED <<book, risk, reconciled, data, stored, saveFailures, restarts>>

UpdateReconciliation(ok) ==
    /\ reconciled' = ok
    /\ UNCHANGED <<book, risk, database, api, data, stored, saveFailures, restarts>>

UpdateDataTime ==
    /\ data' = "fresh"
    /\ UNCHANGED <<book, risk, database, api, reconciled, stored, saveFailures, restarts>>

DataAges ==
    /\ data = "fresh" /\ data' = "stale"
    /\ UNCHANGED <<book, risk, database, api, reconciled, stored, saveFailures, restarts>>

\* Mutant: the risk state is not read back.
RestartFresh ==
    /\ restarts < MaxRestarts
    /\ restarts' = restarts + 1
    /\ risk' = Fresh
    /\ database' = TRUE /\ api' = TRUE /\ reconciled' = TRUE /\ data' = "never"
    /\ UNCHANGED <<book, stored, saveFailures>>

\* Mutant: the peak is not read back, so the drawdown starts over.
RestartNoPeak ==
    /\ restarts < MaxRestarts
    /\ restarts' = restarts + 1
    /\ risk' = [stored EXCEPT !.peak = stored.equity]
    /\ database' = TRUE /\ api' = TRUE /\ reconciled' = TRUE /\ data' = "never"
    /\ UNCHANGED <<book, stored, saveFailures>>

\* A new process: the flags start optimistic, the risk state is read back.
Restart ==
    /\ restarts < MaxRestarts
    /\ restarts' = restarts + 1
    /\ risk' = stored
    /\ database' = TRUE /\ api' = TRUE /\ reconciled' = TRUE /\ data' = "never"
    /\ UNCHANGED <<book, stored, saveFailures>>

-----------------------------------------------------------------------------
Next ==
    \/ \E x \in Symbols, q \in Quantities, p \in Prices : Buy(x, q, p) \/ Sell(x, q, p)
    \/ \E daily \in PnLs, weekly \in PnLs : UpdatePnl(daily, weekly)
    \/ \E equity \in Equities : UpdateEquity(equity)
    \/ \E active \in BOOLEAN : SetEmergencyStop(active)
    \/ RecordError \/ ResetErrors \/ ResetDaily \/ ResetWeekly
    \/ \E db \in BOOLEAN, exchange \in BOOLEAN : UpdateSystemHealth(db, exchange)
    \/ \E ok \in BOOLEAN : UpdateReconciliation(ok)
    \/ UpdateDataTime \/ DataAges
    \/ Restart

Spec == Init /\ [][Next]_vars

-----------------------------------------------------------------------------
(* Properties.                                                             *)

\* Approved requests keep the cost of every position inside the position and
\* the asset limit, whatever prices did between them: a purchase is checked on
\* cost plus order value, and a sale never raises the cost that is left.
CostWithinLimits ==
    \A x \in Symbols :
        /\ ~Above(cost[x], MaxPositionSize)
        /\ ~Above(cost[x], MaxAssetExposure)

\* Over all symbols together the cost stays inside the capital utilization.
UtilizationWithinLimit ==
    ~Above(TotalCost(cost, Symbols), MaxCapitalUtilization)

\* Never more symbols are held than max_open_positions allows.
OpenPositionsBounded ==
    Cardinality({x \in Symbols : quantity[x] > 0}) <= MaxOpenPositions

\* Whatever sequence of approved purchases and sales at changing prices, store
\* failures and restarts built it, the book respects every limit of
\* check_trade at once, although each approval looks at one order.
BookWithinLimits == CostWithinLimits /\ UtilizationWithinLimit /\ OpenPositionsBounded

\* While the store records an emergency stop no position's cost grows, also in
\* a process started after the stop was set, if every change was stored.
StoppedNeverGrows ==
    [][stored.stopped /\ saveFailures = 0 => \A x \in Symbols : cost'[x] <= cost[x]]_vars

\* Only the operator lifts an emergency stop: neither a restart nor the end of
\* the errors that caused it does, if every change was stored.
StopIsLatched ==
    [][risk.stopped /\ ~risk'.stopped /\ saveFailures = 0 => SetEmergencyStop(FALSE)]_vars

\* While the figures in the store are beyond a loss limit, or the drawdown from
\* the stored peak is, no position's cost grows, also in a process started after
\* the loss was reported, if every change was stored.
LossesNeverGrow ==
    [][LossEventsOf(stored) # {} /\ saveFailures = 0 => \A x \in Symbols : cost'[x] <= cost[x]]_vars

\* What the comment of check_trade says of operational uncertainty: it must not
\* trap an existing spot position.  A sale of no more than is held is approved
\* whatever the flags are.  The code does not keep this: it does not approve a
\* sale that is worth more than twice the cost.
PositionsNeverTrapped ==
    \A x \in Symbols, q \in Quantities, p \in Prices :
        q <= quantity[x] /\ OperationalEvents # {} => Approved(x, "SELL", q, p)
=============================================================================
