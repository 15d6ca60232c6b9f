--------------------------- MODULE MarketPipeline ---------------------------
(***************************************************************************)
(* The managed market pipeline: process_market_event takes one closed      *)
(* candle under a lock from RAW through DDS, indicators, regime, strategy, *)
(* risk and execution to the durable checkpoint of its symbol.             *)
(*                                                                         *)
(* Events may be delivered more than once and out of order, any stage may  *)
(* raise, the process may be killed between two stages and restarted with  *)
(* restore_checkpoint, and stop(), which does not take the lock, may come  *)
(* at any time.                                                            *)
(***************************************************************************)
EXTENDS Naturals

CONSTANTS
    Symbols,           \* symbols of the delivered candles
    Configured,        \* the symbols the pipeline was constructed with
    RequiredCandles,
    MaxSequence,       \* bound on the sequence of each symbol
    MaxFailures, MaxRestarts

ASSUME PipelineAssumption ==
    /\ Configured \subseteq Symbols
    /\ RequiredCandles \in Nat
    /\ {MaxSequence, MaxFailures, MaxRestarts} \subseteq Nat

VARIABLES
    state,        \* PipelineStateTracker.state
    symbols,      \* the symbols whose readiness counts
    counts,       \* MarketReadiness.candle_counts
    indicators,   \* symbols whose last candle had EMA, RSI and ATR
    regimes,      \* symbols that have had a regime
    last,         \* last_sequences, the sequence guard in memory
    durable,      \* the checkpoint in the database
    event,        \* the event that holds the lock
    pc,           \* the stage it awaits
    mart,         \* _mart_task: none or done, running, or failed
    executed,     \* history: executions of each event
    completed,    \* history: events that went through all stages
    failures, restarts

readiness == <<symbols, counts, indicators, regimes>>
history == <<executed, completed>>
vars == <<state, readiness, last, durable, event, pc, mart, history, failures, restarts>>

-----------------------------------------------------------------------------
Events == [symbol : Symbols, sequence : 1 .. MaxSequence]
NoEvent == [symbol |-> "none", sequence |-> 0]
Stages == {"idle", "collect", "strategy", "execute", "persist", "checkpoint", "mark", "fallback"}

TypeOK ==
    /\ state \in {"STARTING", "WARMUP", "READY", "DEGRADED", "STOPPED"}
    /\ symbols \subseteq Symbols
    /\ counts \in [Symbols -> 0 .. RequiredCandles]
    /\ indicators \subseteq Symbols /\ regimes \subseteq Symbols
    /\ last \in [Symbols -> 0 .. MaxSequence]
    /\ durable \in [Symbols -> 0 .. MaxSequence]
    /\ pc \in Stages
    /\ IF pc = "idle" THEN event = NoEvent ELSE event \in Events
    /\ mart \in {"done", "running", "failed"}
    /\ executed \in [Events -> 0 .. MaxFailures + MaxRestarts + 1]
    /\ completed \subseteq Events
    /\ failures \in 0 .. MaxFailures /\ restarts \in 0 .. MaxRestarts

Init ==
    /\ state = "STARTING" /\ symbols = Configured
    /\ counts = [s \in Symbols |-> 0] /\ indicators = {} /\ regimes = {}
    /\ last = [s \in Symbols |-> 0] /\ durable = [s \in Symbols |-> 0]
    /\ event = NoEvent /\ pc = "idle" /\ mart = "done"
    /\ executed = [e \in Events |-> 0] /\ completed = {}
    /\ failures = 0 /\ restarts = 0

-----------------------------------------------------------------------------
(* MarketReadiness.                                                        *)

\* Counts beyond the required number are alike and not told apart.
Counted(n) == IF n < RequiredCandles THEN n + 1 ELSE n

IsReady(s) == counts[s] >= RequiredCandles /\ s \in indicators /\ s \in regimes

AllReady == symbols # {} /\ \A s \in symbols : IsReady(s)

-----------------------------------------------------------------------------
(* process_market_event.                                                   *)

\* "duplicate sequence"
Ignore(e) == pc = "idle" /\ e.sequence <= last[e.symbol] /\ UNCHANGED vars

\* Mutant: the sequence guard lets the last sequence through again.
AcceptAgain(e) ==
    /\ pc = "idle" /\ e.sequence >= last[e.symbol]
    /\ event' = e /\ pc' = "collect"
    /\ UNCHANGED <<state, readiness, last, durable, mart, history, failures, restarts>>

Accept(e) ==
    /\ pc = "idle" /\ e.sequence > last[e.symbol]
    /\ event' = e /\ pc' = "collect"
    /\ UNCHANGED <<state, readiness, last, durable, mart, history, failures, restarts>>

\* Mutant: the state is decided before the event's symbol joins the known ones.
DecideEarly ==
    state' = IF symbols # {} /\ \A s \in symbols : IsReady(s)' THEN "READY" ELSE "WARMUP"

Decide == state' = IF AllReady' THEN "READY" ELSE "WARMUP"

\* RAW, DDS, engine, indicators and regime succeeded; readiness takes note.
\* is_trading_ready then looks at the state just decided.
Collected(complete, regime) ==
    LET s == event.symbol IN
    /\ pc = "collect"
    /\ symbols' = symbols \cup {s}
    /\ counts' = [counts EXCEPT ![s] = Counted(@)]
    /\ indicators' = IF complete THEN indicators \cup {s} ELSE indicators \ {s}
    /\ regimes' = IF regime THEN regimes \cup {s} ELSE regimes
    /\ Decide
    /\ pc' = IF state' = "READY" THEN "strategy" ELSE "persist"
    /\ UNCHANGED <<last, durable, event, mart, history, failures, restarts>>

\* The strategy has no signal, or the risk engine rejects it, or approves it.
Evaluated(approved) ==
    /\ pc = "strategy"
    /\ pc' = IF approved THEN "execute" ELSE "persist"
    /\ UNCHANGED <<state, readiness, last, durable, event, mart, history, failures, restarts>>

Executed ==
    /\ pc = "execute"
    /\ executed' = [executed EXCEPT ![event] = @ + 1]
    /\ pc' = "persist"
    /\ UNCHANGED <<state, readiness, last, durable, event, mart, completed, failures, restarts>>

Persisted ==
    /\ pc = "persist"
    /\ pc' = "checkpoint"
    /\ UNCHANGED <<state, readiness, last, durable, event, mart, history, failures, restarts>>

\* Mutant: the checkpoint is left to the end of a later event.
CheckpointSkipped ==
    /\ pc = "checkpoint"
    /\ pc' = "mark"
    /\ UNCHANGED <<state, readiness, last, durable, event, mart, history, failures, restarts>>

Checkpointed ==
    /\ pc = "checkpoint"
    /\ durable' = [durable EXCEPT ![event.symbol] = event.sequence]
    /\ pc' = "mark"
    /\ UNCHANGED <<state, readiness, last, event, mart, history, failures, restarts>>

\* mark_processed and _schedule_mart, which skips a refresh while one runs.
Marked ==
    /\ pc = "mark"
    /\ last' = [last EXCEPT ![event.symbol] = event.sequence]
    /\ completed' = completed \cup {event}
    /\ mart' = "running"
    /\ event' = NoEvent /\ pc' = "idle"
    /\ UNCHANGED <<state, readiness, durable, executed, failures, restarts>>

\* Any awaited stage raises: DEGRADED, then a best-effort checkpoint.  An
\* execution or checkpoint that raises may have had its effect or not.
StageRaises ==
    /\ pc \in {"collect", "strategy", "execute", "persist", "checkpoint"}
    /\ failures < MaxFailures /\ failures' = failures + 1
    /\ state' = "DEGRADED" /\ pc' = "fallback"
    /\ \/ pc = "execute" /\ executed' = [executed EXCEPT ![event] = @ + 1]
       \/ UNCHANGED executed
    /\ UNCHANGED <<readiness, last, durable, event, mart, completed, restarts>>

BestEffortCheckpoint ==
    /\ pc = "fallback"
    /\ \/ durable' = [durable EXCEPT ![event.symbol] = event.sequence]
       \/ UNCHANGED durable
    /\ event' = NoEvent /\ pc' = "idle"
    /\ UNCHANGED <<state, readiness, last, mart, history, failures, restarts>>

-----------------------------------------------------------------------------
MartRefreshed ==
    /\ mart = "running"
    /\ mart' \in {"done", "failed"}
    /\ UNCHANGED <<state, readiness, last, durable, event, pc, history, failures, restarts>>

\* stop() waits for the mart refresh, not for the event under way.  After a
\* failed refresh it raises and leaves the state as it is.
Stop ==
    /\ mart = "done"
    /\ state' = "STOPPED"
    /\ UNCHANGED <<readiness, last, durable, event, pc, mart, history, failures, restarts>>

\* A new process restores the sequence guards, and may seed the candle counts.
Restart ==
    /\ restarts < MaxRestarts /\ restarts' = restarts + 1
    /\ state' = "STARTING" /\ symbols' = Configured
    /\ counts' \in [Symbols -> {0, RequiredCandles}]
    /\ indicators' = {} /\ regimes' = {}
    /\ last' = durable
    /\ event' = NoEvent /\ pc' = "idle" /\ mart' = "done"
    /\ UNCHANGED <<durable, history, failures>>

Next ==
    \/ \E e \in Events : Ignore(e) \/ Accept(e)
    \/ \E complete, regime \in BOOLEAN : Collected(complete, regime)
    \/ \E approved \in BOOLEAN : Evaluated(approved)
    \/ Executed \/ Persisted \/ Checkpointed \/ Marked
    \/ StageRaises \/ BestEffortCheckpoint
    \/ MartRefreshed \/ Stop \/ Restart

Spec == Init /\ [][Next]_vars

-----------------------------------------------------------------------------
(* Properties.                                                             *)

\* An event that went through all stages never executes again, whatever is
\* redelivered and wherever the process was killed: its checkpoint is durable
\* before the sequence guard moves.
CompletedNeverRepeats == [][\A e \in completed : executed'[e] = executed[e]]_vars

\* READY is earned by every known symbol, the one that has just appeared too.
ReadyMeansAllReady == state = "READY" => AllReady

\* "Duplicate or restored sequences are ignored before signal generation": an
\* event is executed again only after a stage of it raised or the process was
\* killed, once for each of them.
RepeatsNeedFaults == \A e \in Events : executed[e] <= 1 + failures + restarts

\* The sequence guard of process_market_event: a repeated execution needs a
\* fault, and no fault repeats an event that was completed.
ExecutesOnce == []RepeatsNeedFaults /\ CompletedNeverRepeats
=============================================================================
