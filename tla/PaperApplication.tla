-------------------------- MODULE PaperApplication --------------------------
(***************************************************************************)
(* The life of one paper trading process: PaperApplication.run() starts    *)
(* the application, waits for a signal or for the runtime task, and always *)
(* ends in stop().  Three coroutines share the state: run() itself (main), *)
(* the runtime task (task), and the timer that stops the runtime at the    *)
(* close of the session (closeTask).  A coroutine is interrupted only      *)
(* where it awaits, so each action goes from one await to the next.        *)
(*                                                                         *)
(* The runtime task is reduced to what the life cycle depends on; its      *)
(* writes are the subject of PaperRuntime.                                 *)
(***************************************************************************)
EXTENDS Integers

CONSTANTS
    MaxCandles,           \* bound on the candles the exchange delivers
    CheckpointInterval,
    Faults                \* the awaited operations that may raise

Operations == {"preflight", "restore", "warmup", "process", "checkpoint", "beat", "pnl", "close"}

ASSUME ApplicationAssumption ==
    /\ MaxCandles \in Nat
    /\ CheckpointInterval \in Nat \ {0}
    /\ Faults \subseteq Operations

VARIABLES
    lifecycle,   \* RuntimeLifecycle.state
    main,        \* where run() is: the operation it awaits
    task,        \* where the runtime task is
    failed,      \* an exception is on its way out of the runtime task
    enabled,     \* runtime.trading_enabled
    shutdown,    \* runtime._shutdown_event
    halted,      \* the market data source was told to stop
    closeTask,   \* the session close timer
    session,     \* SessionManager.current is not None
    clock,       \* the time of day against the trading window
    signalled,   \* SIGINT or SIGTERM was received
    certain,     \* RiskEngine.reconciliation_ok
    seq,         \* last sequence of the execution engine
    candles,     \* _candles_processed
    ckpt,        \* last_checkpoint_sequence
    saved,       \* the sequence in the database, 0 when there is no row
    hb,          \* Heartbeat.sequence
    hbStatus,    \* status of the last heartbeat row
    pnl,         \* the PnL checkpoint was written
    released,    \* dependencies.close() ran to the end
    admitted,    \* history: the life cycle state when the candle in progress passed
                 \* the trading_enabled check
    trades       \* history: for each order that state and the one it was placed in

lifeVars == <<lifecycle, main>>
switchVars == <<enabled, shutdown, halted, closeTask>>
tradeVars == <<admitted, trades>>
taskVars == <<task, failed, candles, tradeVars>>
seqVars == <<seq, ckpt, saved>>
beatVars == <<hb, hbStatus>>
endVars == <<pnl, released>>
worldVars == <<clock, signalled>>
vars == <<lifeVars, switchVars, certain, taskVars, seqVars, beatVars, endVars, worldVars, session>>

-----------------------------------------------------------------------------
States == {"CREATED", "PREFLIGHT", "RESTORING", "WARMUP", "RUNNING", "STOPPING", "STOPPED"}

TypeOK ==
    /\ lifecycle \in States
    /\ main \in {"start", "preflight", "abort", "restore", "warmup", "reconcile", "greet", "wait",
                 "join", "checkpoint", "pnl", "farewell", "close", "exited"}
    /\ task \in {"none", "ready", "idle", "deciding", "validating", "checkpoint", "beat",
                 "final", "done", "raised"}
    /\ {failed, enabled, shutdown, halted, session, signalled, certain, pnl, released}
         \subseteq BOOLEAN
    /\ closeTask \in {"none", "sleeping", "over"}
    /\ clock \in {"before", "open", "after"}
    /\ candles \in 0 .. MaxCandles
    /\ {seq, ckpt, saved, hb} \subseteq 0 .. MaxCandles + 1
    /\ hbStatus \in {"none", "RUNNING", "STOPPED"}
    /\ admitted \in States \cup {"none"}
    /\ trades \subseteq States \X States

Init ==
    /\ lifecycle = "CREATED" /\ main = "start"
    /\ task = "none" /\ failed = FALSE /\ candles = 0
    /\ admitted = "none" /\ trades = {}
    /\ enabled = FALSE /\ shutdown = FALSE /\ halted = FALSE
    /\ closeTask = "none" /\ session = FALSE
    /\ clock \in {"before", "open", "after"} /\ signalled = FALSE
    /\ certain = TRUE
    /\ seq = 0 /\ ckpt = 0 /\ saved \in 0 .. 1
    /\ hb = 0 /\ hbStatus = "none"
    /\ pnl = FALSE /\ released = FALSE

-----------------------------------------------------------------------------
(* stop(): called in the finally clause of run(), whatever ended it.       *)

\* Mutant: stop() only moves the life cycle and leaves the runtime going.
BeginStopQuietly ==
    /\ lifecycle' = "STOPPING"
    /\ main' = IF task = "none" THEN "checkpoint" ELSE "join"
    /\ UNCHANGED switchVars

BeginStop ==
    /\ lifecycle' = "STOPPING"
    /\ enabled' = FALSE
    /\ shutdown' = TRUE /\ halted' = TRUE
    /\ closeTask' = IF closeTask = "sleeping" THEN "over" ELSE closeTask
    /\ main' = IF task = "none" THEN "checkpoint" ELSE "join"

\* An exception that leaves stop() ends the process: nothing after it runs.
Escape == main' = "exited"

-----------------------------------------------------------------------------
(* start().                                                                *)

Start ==
    /\ main = "start"
    /\ lifecycle' = "PREFLIGHT" /\ main' = "preflight"
    /\ UNCHANGED <<switchVars, certain, taskVars, seqVars, beatVars, endVars, worldVars, session>>

PreflightPasses ==
    /\ main = "preflight"
    /\ lifecycle' = "RESTORING" /\ main' = "restore"
    /\ UNCHANGED <<switchVars, certain, taskVars, seqVars, beatVars, endVars, worldVars, session>>

PreflightFails ==
    /\ main = "preflight" /\ "preflight" \in Faults
    /\ lifecycle' = "STOPPING" /\ main' = "abort"
    /\ UNCHANGED <<switchVars, certain, taskVars, seqVars, beatVars, endVars, worldVars, session>>

\* start() raises after it closed everything; the stop() of run() returns at once.
Aborted ==
    /\ main = "abort"
    /\ released' = TRUE
    /\ lifecycle' = "STOPPED" /\ main' = "exited"
    /\ UNCHANGED <<switchVars, certain, taskVars, seqVars, beatVars, worldVars, session, pnl>>

AbortRaises ==
    /\ main = "abort" /\ "close" \in Faults
    /\ BeginStop
    /\ UNCHANGED <<certain, taskVars, seqVars, beatVars, endVars, worldVars, session>>

Restored ==
    /\ main = "restore"
    /\ seq' = saved /\ ckpt' = saved
    /\ lifecycle' = "WARMUP" /\ main' = "warmup"
    /\ UNCHANGED <<switchVars, certain, taskVars, beatVars, endVars, worldVars, session, saved>>

RestoreRaises ==
    /\ main = "restore" /\ "restore" \in Faults
    /\ BeginStop
    /\ UNCHANGED <<certain, taskVars, seqVars, beatVars, endVars, worldVars, session>>

\* Market data bootstrap and warmup: a failed bootstrap, missing history or a
\* closed window leave the runtime observable with trading disabled.
WarmedUp ==
    /\ main = "warmup"
    /\ \E warm \in BOOLEAN : enabled' = (warm /\ clock = "open")
    /\ session' = (clock = "open")
    /\ lifecycle' = "RUNNING" /\ main' = "reconcile"
    /\ task' = "ready"
    /\ UNCHANGED <<shutdown, halted, closeTask, certain, failed, candles, tradeVars, seqVars,
                   beatVars, endVars, worldVars>>

WarmupRaises ==
    /\ main = "warmup" /\ "warmup" \in Faults
    /\ BeginStop
    /\ UNCHANGED <<certain, taskVars, seqVars, beatVars, endVars, worldVars, session>>

\* SessionManager.seconds_until_close: None once the window is over.
HasCloseDelay == session /\ clock = "open"

\* Heartbeat.beat raises before it writes when the sequence moves backwards.
BeatAccepted(sequence) == sequence >= hb

\* The runtime task was queued first, so it has started when main resumes.
Reconciled ==
    /\ main = "reconcile" /\ task # "ready"
    /\ \E ok \in BOOLEAN : certain' = ok
    /\ IF BeatAccepted(ckpt)
         THEN /\ closeTask' = IF HasCloseDelay THEN "sleeping" ELSE "none"
              /\ hb' = ckpt /\ main' = "greet"
              /\ UNCHANGED <<lifecycle, enabled, shutdown, halted>>
         ELSE BeginStop /\ UNCHANGED hb
    /\ UNCHANGED <<taskVars, seqVars, hbStatus, endVars, worldVars, session>>

Greeted ==
    /\ main = "greet"
    /\ hbStatus' = "RUNNING" /\ main' = "wait"
    /\ UNCHANGED <<lifecycle, switchVars, certain, taskVars, seqVars, hb, endVars, worldVars, session>>

GreetingRaises ==
    /\ main = "greet" /\ "beat" \in Faults
    /\ BeginStop
    /\ UNCHANGED <<certain, taskVars, seqVars, beatVars, endVars, worldVars, session>>

-----------------------------------------------------------------------------
(* The rest of run(): wait for the first of signal and task, then stop().  *)

WaitEnds ==
    /\ main = "wait"
    /\ signalled \/ task \in {"done", "raised"}
    /\ BeginStop
    /\ UNCHANGED <<certain, taskVars, seqVars, beatVars, endVars, worldVars, session>>

\* Mutant: stop() does not wait for the runtime task.
JoinedAtOnce ==
    /\ main = "join"
    /\ main' = "pnl"
    /\ UNCHANGED <<lifecycle, switchVars, certain, taskVars, seqVars, beatVars, endVars, worldVars, session>>

Joined ==
    /\ main = "join" /\ task \in {"done", "raised"}
    /\ IF task = "done" THEN main' = "pnl" ELSE Escape
    /\ UNCHANGED <<lifecycle, switchVars, certain, taskVars, seqVars, beatVars, endVars, worldVars, session>>

\* The runtime task was never created: stop() writes the checkpoint itself.
CheckpointWritten ==
    /\ main = "checkpoint"
    /\ saved' = seq /\ ckpt' = seq
    /\ main' = "pnl"
    /\ UNCHANGED <<lifecycle, switchVars, certain, taskVars, seq, beatVars, endVars, worldVars, session>>

CheckpointRaises ==
    /\ main = "checkpoint" /\ "checkpoint" \in Faults
    /\ Escape
    /\ UNCHANGED <<lifecycle, switchVars, certain, taskVars, seqVars, beatVars, endVars, worldVars, session>>

PnlWritten ==
    /\ main = "pnl"
    /\ pnl' = TRUE
    /\ session' = FALSE
    /\ lifecycle' = "STOPPED"
    /\ IF BeatAccepted(ckpt) THEN hb' = ckpt /\ main' = "farewell" ELSE Escape /\ UNCHANGED hb
    /\ UNCHANGED <<switchVars, certain, taskVars, seqVars, hbStatus, released, worldVars>>

PnlRaises ==
    /\ main = "pnl" /\ "pnl" \in Faults
    /\ Escape
    /\ UNCHANGED <<lifecycle, switchVars, certain, taskVars, seqVars, beatVars, endVars, worldVars, session>>

FarewellWritten ==
    /\ main = "farewell"
    /\ hbStatus' = "STOPPED" /\ main' = "close"
    /\ UNCHANGED <<lifecycle, switchVars, certain, taskVars, seqVars, hb, endVars, worldVars, session>>

FarewellRaises ==
    /\ main = "farewell" /\ "beat" \in Faults
    /\ Escape
    /\ UNCHANGED <<lifecycle, switchVars, certain, taskVars, seqVars, beatVars, endVars, worldVars, session>>

Closed ==
    /\ main = "close"
    /\ released' = TRUE /\ main' = "exited"
    /\ UNCHANGED <<lifecycle, switchVars, certain, taskVars, seqVars, beatVars, pnl, worldVars, session>>

CloseRaises ==
    /\ main = "close" /\ "close" \in Faults
    /\ Escape
    /\ UNCHANGED <<lifecycle, switchVars, certain, taskVars, seqVars, beatVars, endVars, worldVars, session>>

-----------------------------------------------------------------------------
(* The runtime task, PaperTradingRuntime.run_async.                        *)

\* run_async clears the shutdown event when it begins.
TaskStarts ==
    /\ task = "ready"
    /\ task' = "idle"
    /\ shutdown' = FALSE
    /\ UNCHANGED <<lifeVars, enabled, halted, closeTask, certain, failed, candles, tradeVars, seqVars,
                   beatVars, endVars, worldVars, session>>

\* Mutant: the heartbeat of a candle is sent before its checkpoint.
BeatFirst(sequence) == hb' = sequence /\ UNCHANGED hbStatus

\* The heartbeat of a candle starts when its checkpoint, if one is due, is written.
BeatWhenSaved(sequence) ==
    /\ hb' = IF task' = "beat" THEN sequence ELSE hb
    /\ UNCHANGED hbStatus

\* The candle is through: its checkpoint, if one is due, or its heartbeat begins.
CandleDone(sequence) ==
    /\ candles' = candles + 1
    /\ task' = IF candles' % CheckpointInterval = 0 THEN "checkpoint" ELSE "beat"
    /\ BeatWhenSaved(sequence)

\* A candle arrives.  With trading enabled and the source ready the task awaits
\* strategy.on_candle, and stop() or the session timer may go on meanwhile.
Candle ==
    /\ task = "idle" /\ candles < MaxCandles
    /\ ~shutdown /\ ~halted
    /\ seq' = seq + 1
    /\ \/ CandleDone(seq') /\ UNCHANGED admitted
       \/ /\ enabled
          /\ task' = "deciding" /\ admitted' = lifecycle
          /\ UNCHANGED <<candles, beatVars>>
    /\ UNCHANGED <<lifeVars, switchVars, certain, failed, trades, ckpt, saved, endVars,
                   worldVars, session>>

\* The strategy answers; its first request, if any, awaits validate_request.
StrategyAnswers ==
    /\ task = "deciding"
    /\ \/ CandleDone(seq)
       \/ task' = "validating" /\ UNCHANGED <<candles, beatVars>>
    /\ UNCHANGED <<lifeVars, switchVars, certain, failed, tradeVars, seqVars, endVars,
                   worldVars, session>>

\* A request is rejected or executed, which does not look at trading_enabled
\* again, and the next one awaits its verdict.
RequestAnswered ==
    /\ task = "validating"
    /\ \/ UNCHANGED trades
       \/ certain /\ trades' = trades \cup {<<admitted, lifecycle>>}
    /\ \/ CandleDone(seq)
       \/ UNCHANGED <<task, candles, beatVars>>
    /\ UNCHANGED <<lifeVars, switchVars, certain, failed, admitted, seqVars, endVars,
                   worldVars, session>>

TaskCheckpoint ==
    /\ task = "checkpoint"
    /\ saved' = seq /\ ckpt' = seq
    /\ task' = "beat" /\ hb' = seq
    /\ UNCHANGED <<lifeVars, switchVars, certain, failed, candles, tradeVars, seq, hbStatus, endVars,
                   worldVars, session>>

TaskBeat ==
    /\ task = "beat"
    /\ hbStatus' = "RUNNING" /\ task' = "idle"
    /\ UNCHANGED <<lifeVars, switchVars, certain, failed, candles, tradeVars, seqVars, hb, endVars,
                   worldVars, session>>

\* Whatever raises in the loop goes through the final checkpoint.
TaskRaises ==
    /\ \/ task \in {"idle", "deciding", "validating"} /\ "process" \in Faults
       \/ task = "checkpoint" /\ "checkpoint" \in Faults
       \/ task = "beat" /\ "beat" \in Faults
    /\ task' = "final" /\ failed' = TRUE
    /\ UNCHANGED <<lifeVars, switchVars, certain, candles, tradeVars, seqVars, beatVars, endVars,
                   worldVars, session>>

StreamEnds ==
    /\ task = "idle" /\ (shutdown \/ halted)
    /\ task' = "final"
    /\ UNCHANGED <<lifeVars, switchVars, certain, failed, candles, tradeVars, seqVars, beatVars,
                   endVars, worldVars, session>>

FinalCheckpoint ==
    /\ task = "final"
    /\ saved' = seq /\ ckpt' = seq
    /\ task' = IF failed THEN "raised" ELSE "done"
    /\ UNCHANGED <<lifeVars, switchVars, certain, failed, candles, tradeVars, seq, beatVars, endVars,
                   worldVars, session>>

FinalRaises ==
    /\ task = "final" /\ "checkpoint" \in Faults
    /\ task' = "raised"
    /\ UNCHANGED <<lifeVars, switchVars, certain, failed, candles, tradeVars, seqVars, beatVars,
                   endVars, worldVars, session>>

-----------------------------------------------------------------------------
(* The session timer, the clock and the operator.                          *)

SessionCloses ==
    /\ closeTask = "sleeping" /\ clock = "after"
    /\ enabled' = FALSE /\ shutdown' = TRUE /\ halted' = TRUE
    /\ closeTask' = "over"
    /\ UNCHANGED <<lifeVars, certain, taskVars, seqVars, beatVars, endVars, worldVars, session>>

Tick ==
    /\ main # "exited"
    /\ \/ clock = "before" /\ clock' = "open"
       \/ clock = "open" /\ clock' = "after"
    /\ UNCHANGED <<lifeVars, switchVars, certain, taskVars, seqVars, beatVars, endVars, signalled, session>>

Signal ==
    /\ main \notin {"start", "exited"} /\ ~signalled
    /\ signalled' = TRUE
    /\ UNCHANGED <<lifeVars, switchVars, certain, taskVars, seqVars, beatVars, endVars, clock, session>>

-----------------------------------------------------------------------------
StartSteps ==
    \/ Start \/ PreflightPasses \/ PreflightFails \/ Aborted \/ AbortRaises
    \/ Restored \/ RestoreRaises \/ WarmedUp \/ WarmupRaises
    \/ Reconciled \/ Greeted \/ GreetingRaises

StopSteps ==
    \/ WaitEnds \/ Joined \/ CheckpointWritten \/ CheckpointRaises
    \/ PnlWritten \/ PnlRaises \/ FarewellWritten \/ FarewellRaises \/ Closed \/ CloseRaises

TaskSteps ==
    \/ TaskStarts \/ StrategyAnswers \/ RequestAnswered \/ TaskCheckpoint \/ TaskBeat
    \/ StreamEnds \/ FinalCheckpoint \/ FinalRaises

\* The process is gone.
Exited == main = "exited" /\ UNCHANGED vars

Next ==
    \/ StartSteps \/ StopSteps \/ TaskSteps \/ Candle \/ TaskRaises
    \/ SessionCloses \/ Tick \/ Signal \/ Exited

Spec == Init /\ [][Next]_vars

\* The event loop resumes every coroutine whose awaited operation has ended.
\* The strategy answers in the end, with finitely many requests.  Nothing is
\* assumed about candles, the clock, the operator, or faults of the loop.
Fairness ==
    /\ WF_vars(StartSteps \/ StopSteps)
    /\ WF_vars(TaskSteps)
    /\ WF_vars(SessionCloses)

FairSpec == Spec /\ Fairness

-----------------------------------------------------------------------------
(* Properties.                                                             *)

\* "Durable shutdown": the life cycle says STOPPED, or the connections are
\* closed, only when the runtime task has ended and the database holds the last
\* sequence the engine processed and its PnL.
StoppedCoversWork ==
    lifecycle = "STOPPED" \/ released =>
        /\ task \in {"none", "done"}
        /\ task = "done" => saved = seq /\ pnl

\* stop() does not interrupt a candle, whose requests are executed whatever
\* trading_enabled says by then.  But it is the last one that trades, and stop()
\* waits for it: each order is one of a candle that was admitted while RUNNING,
\* and is placed before STOPPED is reported and the connections are closed.
OrdersEndWithStop == trades \subseteq {"RUNNING"} \X {"RUNNING", "STOPPING"}

\* start() and stop() report last_checkpoint_sequence, the task reports the
\* candle's sequence: the former never falls behind the latter, so that
\* Heartbeat.beat never refuses a report of start() or stop().
HeartbeatWithinCheckpoint == hb <= ckpt

\* Once a STOPPED heartbeat is written no late RUNNING one overwrites it.
StoppedHeartbeatIsLast == [][hbStatus = "STOPPED" => hbStatus' = "STOPPED"]_hbStatus

\* After a signal the process comes to its end, whatever operation fails.
SignalEndsProcess == signalled ~> main = "exited"

\* What the life cycle tells an observer holds: no order but of candles that came
\* while RUNNING, and none, nor anything left to write, in STOPPED.
LifecycleIsTruthful == StoppedCoversWork /\ OrdersEndWithStop

\* The reports of start(), stop() and the runtime task, which do not wait for
\* each other, reach the heartbeat table in an order that makes sense.
HeartbeatsInOrder == []HeartbeatWithinCheckpoint /\ StoppedHeartbeatIsLast
=============================================================================
