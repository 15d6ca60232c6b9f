----------------------- MODULE PaperApplicationProofs -----------------------
(***************************************************************************)
(* The life cycle of PaperApplication for any number of candles and any    *)
(* set of operations that may raise: what the life cycle state says about  *)
(* orders and durable work is true, and the heartbeats of start(), stop()  *)
(* and the runtime task, which do not wait for each other, make sense in   *)
(* the order in which they are written.                                    *)
(*                                                                         *)
(* The argument is about where the two coroutines can be at the same time: *)
(* the life cycle state follows the place of run(), and beyond the join of *)
(* stop() the runtime task is over or was never created.                   *)
(***************************************************************************)
EXTENDS PaperApplication, TLAPS

Early == {"start", "preflight", "abort", "restore", "warmup"}
Going == {"reconcile", "greet", "wait"}

Shape ==
    /\ seq \in Nat /\ ckpt \in Nat /\ saved \in Nat /\ hb \in Nat /\ candles \in Nat
    /\ main \in Early \cup Going \cup {"join", "checkpoint", "pnl", "farewell", "close", "exited"}

\* The life cycle state is the one of the place of run().
LifecyclePlace ==
    /\ lifecycle \in States
    /\ lifecycle \in {"CREATED", "PREFLIGHT", "RESTORING", "WARMUP"} => main \in Early
    /\ lifecycle = "RUNNING" <=> main \in Going
    /\ lifecycle = "STOPPED" => main \in {"farewell", "close", "exited"}
    /\ main \in {"farewell", "close"} => lifecycle = "STOPPED"

\* The runtime task exists from the end of the warmup on, and is over, or was
\* never created, when stop() goes on to the PnL.
TaskPlace ==
    /\ main \in Early \cup {"checkpoint"} => task = "none"
    /\ main \in {"pnl", "farewell", "close"} \/ lifecycle = "STOPPED" => task \in {"none", "done"}

\* What a finished task and a finished stop() leave behind.
Ended ==
    /\ task = "done" => saved = seq
    /\ lifecycle = "STOPPED" /\ task = "done" => pnl
    /\ released => lifecycle = "STOPPED"

\* Trading is enabled at the end of the warmup and disabled when stop() begins.
Switched == enabled => lifecycle = "RUNNING"

\* The candle that trades was admitted while trading was enabled.
Admission == task \in {"deciding", "validating"} => admitted = "RUNNING"

\* The STOPPED heartbeat is written by stop() when the task is over.
Farewell == hbStatus = "STOPPED" => lifecycle = "STOPPED"

LifeInv ==
    /\ Shape /\ LifecyclePlace /\ TaskPlace /\ Ended /\ Switched /\ Farewell
    /\ Admission /\ OrdersEndWithStop

-----------------------------------------------------------------------------
\* Before start() nothing runs.
LEMMA LifeInit == Init => LifeInv
  BY DEF Init, LifeInv, Shape, LifecyclePlace, TaskPlace, Ended, Switched, Farewell,
         Admission, OrdersEndWithStop, States, Early, Going

\* stop(), up to its first wait, from any place where no stop() has begun.
LEMMA LifeBeginStop ==
    ASSUME LifeInv, main \in Early \cup Going, BeginStop,
           UNCHANGED <<taskVars, seqVars, hbStatus, endVars>>, hb' \in Nat
    PROVE  LifeInv'
<1>1. task = "none" \/ main \in Going
  BY DEF LifeInv, TaskPlace
<1>2. Shape' /\ LifecyclePlace' /\ TaskPlace'
  BY DEF LifeInv, BeginStop, Shape, LifecyclePlace, TaskPlace, States, Early, Going,
         seqVars, taskVars
<1>3. Ended' /\ Switched' /\ Admission' /\ OrdersEndWithStop'
  BY DEF LifeInv, BeginStop, Ended, Switched, LifecyclePlace, Admission, OrdersEndWithStop,
         Early, Going, seqVars, taskVars, tradeVars, endVars
<1>4. Farewell'
  BY DEF LifeInv, BeginStop, LifecyclePlace, Farewell, Early, Going
<1> QED
  BY <1>2, <1>3, <1>4 DEF LifeInv

\* start() keeps the invariant.
LEMMA LifeStart == LifeInv /\ StartSteps => LifeInv'
<1> SUFFICES ASSUME LifeInv, StartSteps PROVE LifeInv'
  OBVIOUS
<1> USE DEF LifeInv, Shape, LifecyclePlace, TaskPlace, Ended, Switched, Farewell,
            Admission, OrdersEndWithStop, States, Early, Going, switchVars, taskVars, tradeVars,
            seqVars, beatVars, endVars
<1>1. CASE Start
  BY <1>1 DEF Start
<1>2. CASE PreflightPasses
  BY <1>2 DEF PreflightPasses
<1>3. CASE PreflightFails
  BY <1>3 DEF PreflightFails
<1>4. CASE Aborted
  BY <1>4 DEF Aborted
<1>5. CASE Restored
  BY <1>5 DEF Restored
<1>6. CASE WarmedUp
  BY <1>6 DEF WarmedUp
<1>7. CASE Greeted
  BY <1>7 DEF Greeted
<1>8. CASE AbortRaises \/ RestoreRaises \/ WarmupRaises \/ GreetingRaises
  BY <1>8, LifeBeginStop DEF AbortRaises, RestoreRaises, WarmupRaises, GreetingRaises
<1>9. CASE Reconciled
  <2>1. CASE BeatAccepted(ckpt)
    BY <1>9, <2>1 DEF Reconciled
  <2>2. CASE ~BeatAccepted(ckpt)
    BY <1>9, <2>2, LifeBeginStop DEF Reconciled
  <2> QED
    BY <2>1, <2>2
<1> QED
  BY <1>1, <1>2, <1>3, <1>4, <1>5, <1>6, <1>7, <1>8, <1>9 DEF StartSteps

\* The waits of run() and stop() keep it.
LEMMA LifeStop == LifeInv /\ StopSteps => LifeInv'
<1> SUFFICES ASSUME LifeInv, StopSteps PROVE LifeInv'
  OBVIOUS
<1> USE DEF LifeInv, Shape, LifecyclePlace, TaskPlace, Ended, Switched, Farewell,
            Admission, OrdersEndWithStop, States, Early, Going, switchVars, taskVars, tradeVars,
            seqVars, beatVars, endVars
<1>1. CASE WaitEnds
  BY <1>1, LifeBeginStop DEF WaitEnds
<1>2. CASE Joined
  BY <1>2 DEF Joined, Escape
<1>3. CASE CheckpointWritten
  BY <1>3 DEF CheckpointWritten
<1>4. CASE CheckpointRaises \/ PnlRaises \/ FarewellRaises \/ CloseRaises
  <2>1. /\ main \in {"checkpoint", "pnl", "farewell", "close"} /\ main' = "exited"
        /\ UNCHANGED <<lifecycle, switchVars, taskVars, seqVars, beatVars, endVars>>
    BY <1>4 DEF CheckpointRaises, PnlRaises, FarewellRaises, CloseRaises, Escape
  <2> QED
    BY <2>1
<1>5. CASE PnlWritten
  BY <1>5 DEF PnlWritten, Escape
<1>6. CASE FarewellWritten
  BY <1>6 DEF FarewellWritten
<1>7. CASE Closed
  BY <1>7 DEF Closed
<1> QED
  BY <1>1, <1>2, <1>3, <1>4, <1>5, <1>6, <1>7 DEF StopSteps

\* The runtime task, the session timer and the world keep it.
LEMMA LifeTask ==
    LifeInv /\ (TaskSteps \/ Candle \/ TaskRaises \/ SessionCloses \/ Tick \/ Signal \/ UNCHANGED vars)
        => LifeInv'
<1> SUFFICES ASSUME LifeInv,
                    TaskSteps \/ Candle \/ TaskRaises \/ SessionCloses \/ Tick \/ Signal
                      \/ UNCHANGED vars
             PROVE  LifeInv'
  OBVIOUS
<1> USE DEF LifeInv, Shape, LifecyclePlace, TaskPlace, Ended, Switched, Farewell,
            Admission, OrdersEndWithStop, States, Early, Going, lifeVars, switchVars, taskVars,
            tradeVars, seqVars, beatVars, endVars
<1>1. CASE TaskStarts
  BY <1>1 DEF TaskStarts
<1>2. CASE TaskCheckpoint
  BY <1>2 DEF TaskCheckpoint
<1>3. CASE TaskBeat
  BY <1>3 DEF TaskBeat
<1>4. CASE StreamEnds
  BY <1>4 DEF StreamEnds
<1>5. CASE FinalCheckpoint \/ FinalRaises
  <2>1. /\ task = "final" /\ task' \in {"raised", "done"}
        /\ saved' \in Nat /\ ckpt' \in Nat /\ seq' = seq /\ candles' = candles
        /\ task' = "done" => saved' = seq
        /\ UNCHANGED <<lifeVars, switchVars, tradeVars, beatVars, endVars>>
    BY <1>5 DEF FinalCheckpoint, FinalRaises
  <2> QED
    BY <2>1
<1>6. CASE Candle \/ StrategyAnswers \/ RequestAnswered
  <2>1. /\ task \in {"idle", "deciding", "validating"}
        /\ task' \in {"deciding", "validating", "checkpoint", "beat"}
        /\ seq' \in {seq, seq + 1} /\ candles' \in {candles, candles + 1}
        /\ hb' \in {hb, seq, seq + 1}
        /\ UNCHANGED <<lifeVars, switchVars, hbStatus, ckpt, saved, endVars>>
    BY <1>6 DEF Candle, StrategyAnswers, RequestAnswered, CandleDone, BeatWhenSaved
  <2>2. Shape' /\ LifecyclePlace' /\ TaskPlace' /\ Ended' /\ Switched' /\ Farewell'
    BY <2>1
  <2>3. Admission'
    BY <1>6 DEF Candle, StrategyAnswers, RequestAnswered, CandleDone
  <2>4. task = "validating" => lifecycle \in {"RUNNING", "STOPPING"}
    OBVIOUS
  <2>5. trades' = trades \/ (task = "validating" /\ trades' = trades \cup {<<admitted, lifecycle>>})
    BY <1>6 DEF Candle, StrategyAnswers, RequestAnswered
  <2>6. OrdersEndWithStop'
    BY <2>4, <2>5
  <2> QED
    BY <2>2, <2>3, <2>6
<1>7. CASE TaskRaises
  BY <1>7 DEF TaskRaises
<1>8. CASE SessionCloses
  BY <1>8 DEF SessionCloses
<1>9. CASE Tick \/ Signal \/ UNCHANGED vars
  <2>1. UNCHANGED <<lifeVars, switchVars, taskVars, seqVars, beatVars, endVars>>
    BY <1>9 DEF Tick, Signal, vars
  <2> QED
    BY <2>1
<1> QED
  BY <1>1, <1>2, <1>3, <1>4, <1>5, <1>6, <1>7, <1>8, <1>9 DEF TaskSteps

\* Every step of the three coroutines keeps it.
LEMMA LifeStep == LifeInv /\ [Next]_vars => LifeInv'
  BY LifeStart, LifeStop, LifeTask DEF Next, Exited

\* PaperApplication, whatever operation raises and wherever stop() begins: an
\* order is one of a candle that came while RUNNING and is placed before STOPPED,
\* and STOPPED or closed connections mean that the runtime task is over and its
\* last sequence and the PnL are durable.
THEOREM LifecycleAlwaysTruthful == Spec => []LifecycleIsTruthful
<1>1. LifeInv => LifecycleIsTruthful
  BY DEF LifeInv, TaskPlace, Ended, LifecycleIsTruthful, StoppedCoversWork
<1> QED
  BY <1>1, LifeInit, LifeStep, PTL DEF Spec

-----------------------------------------------------------------------------
(* Heartbeats.                                                             *)

\* The runtime task is over when stop() writes its heartbeat, and start() has
\* returned, so nobody is left to overwrite it.
THEOREM StoppedHeartbeatStays == Spec => StoppedHeartbeatIsLast
<1>1. LifeInv /\ [Next]_vars => [hbStatus = "STOPPED" => hbStatus' = "STOPPED"]_hbStatus
  <2> SUFFICES ASSUME LifeInv, Next, hbStatus = "STOPPED"
               PROVE  hbStatus' = hbStatus
    BY DEF vars, beatVars
  <2>1. ~Greeted /\ ~TaskBeat
    BY DEF LifeInv, Farewell, LifecyclePlace, TaskPlace, Greeted, TaskBeat, Going
  <2>2. StartSteps => hbStatus' = hbStatus
    BY <2>1 DEF StartSteps, Start, PreflightPasses, PreflightFails, Aborted, AbortRaises, Restored,
                RestoreRaises, WarmedUp, WarmupRaises, Reconciled, GreetingRaises, beatVars
  <2>3. StopSteps => hbStatus' = hbStatus
    BY DEF StopSteps, WaitEnds, Joined, CheckpointWritten, CheckpointRaises, PnlWritten, PnlRaises,
           FarewellWritten, FarewellRaises, Closed, CloseRaises, beatVars
  <2>4. TaskSteps \/ Candle \/ TaskRaises => hbStatus' = hbStatus
    BY <2>1 DEF TaskSteps, TaskStarts, TaskCheckpoint, StreamEnds, FinalCheckpoint, FinalRaises,
                StrategyAnswers, RequestAnswered, Candle, CandleDone, BeatWhenSaved, TaskRaises,
                beatVars
  <2>5. SessionCloses \/ Tick \/ Signal \/ Exited => hbStatus' = hbStatus
    BY DEF SessionCloses, Tick, Signal, Exited, vars, beatVars
  <2> QED
    BY <2>2, <2>3, <2>4, <2>5 DEF Next
<1> QED
  BY <1>1, LifeInit, LifeStep, PTL DEF Spec, StoppedHeartbeatIsLast

\* Nothing was sent before start() has restored the sequence, and neither a
\* heartbeat nor a checkpoint is ahead of the engine.
BeatInv ==
    /\ LifeInv /\ HeartbeatWithinCheckpoint
    /\ ckpt <= seq
    /\ main \in Early => hb = 0

\* With a checkpoint for every candle the heartbeat of a candle follows its
\* checkpoint.
LEMMA BeatStep ==
    ASSUME CheckpointInterval = 1, BeatInv, [Next]_vars
    PROVE  BeatInv'
<1>0. /\ LifeInv' /\ seq \in Nat /\ ckpt \in Nat /\ saved \in Nat /\ hb \in Nat /\ candles \in Nat
      /\ hb <= ckpt /\ ckpt <= seq /\ (main \in Early => hb = 0)
  BY LifeStep DEF BeatInv, LifeInv, Shape, HeartbeatWithinCheckpoint
<1> USE DEF HeartbeatWithinCheckpoint, Early, lifeVars, seqVars, beatVars
<1>1. CASE StartSteps
  <2>1. CASE Restored
    BY <1>0, <2>1 DEF Restored, BeatInv
  <2>2. CASE Reconciled
    BY <1>0, <2>2 DEF Reconciled, BeginStop, BeatInv
  <2>3. CASE Start \/ PreflightPasses \/ PreflightFails \/ Aborted \/ WarmedUp \/ Greeted
    BY <1>0, <2>3
    DEF Start, PreflightPasses, PreflightFails, Aborted, WarmedUp, Greeted, BeatInv
  <2>4. CASE AbortRaises \/ RestoreRaises \/ WarmupRaises \/ GreetingRaises
    BY <1>0, <2>4 DEF AbortRaises, RestoreRaises, WarmupRaises, GreetingRaises, BeginStop, BeatInv
  <2> QED
    BY <1>1, <2>1, <2>2, <2>3, <2>4 DEF StartSteps
<1>2. CASE StopSteps
  <2>1. main' \notin Early
    BY <1>2 DEF StopSteps, WaitEnds, BeginStop, Joined, Escape, CheckpointWritten, CheckpointRaises,
                PnlWritten, PnlRaises, FarewellWritten, FarewellRaises, Closed, CloseRaises
  <2>2. hb' <= ckpt' /\ ckpt' <= seq'
    BY <1>0, <1>2
    DEF StopSteps, WaitEnds, Joined, CheckpointWritten, CheckpointRaises, PnlWritten, PnlRaises,
        FarewellWritten, FarewellRaises, Closed, CloseRaises
  <2> QED
    BY <1>0, <2>1, <2>2 DEF BeatInv
<1>3. CASE Candle \/ StrategyAnswers \/ RequestAnswered
  <2>1. ASSUME NEW sequence, CandleDone(sequence) PROVE hb' = hb
    <3>1. candles' \in Nat /\ candles' % 1 = 0
      BY <1>0, <2>1 DEF CandleDone
    <3> QED
      BY <2>1, <3>1 DEF CandleDone, BeatWhenSaved
  <2>2. hb' = hb /\ ckpt' = ckpt /\ seq' \in {seq, seq + 1} /\ main' = main
    BY <1>3, <2>1 DEF Candle, StrategyAnswers, RequestAnswered
  <2> QED
    BY <1>0, <2>2 DEF BeatInv
<1>4. CASE TaskCheckpoint
  BY <1>0, <1>4 DEF TaskCheckpoint, BeatInv, LifeInv, TaskPlace
<1>5. CASE FinalCheckpoint
  BY <1>0, <1>5 DEF FinalCheckpoint, BeatInv
<1>6. CASE TaskStarts \/ TaskBeat \/ StreamEnds \/ FinalRaises \/ TaskRaises
  BY <1>0, <1>6 DEF TaskStarts, TaskBeat, StreamEnds, FinalRaises, TaskRaises, BeatInv
<1>7. CASE SessionCloses \/ Tick \/ Signal \/ Exited \/ UNCHANGED vars
  BY <1>0, <1>7 DEF SessionCloses, Tick, Signal, Exited, vars, BeatInv
<1> QED
  BY <1>1, <1>2, <1>3, <1>4, <1>5, <1>6, <1>7 DEF Next, TaskSteps

\* With checkpoint_interval = 1, the default of the runtime and the value the
\* application is built with: Heartbeat.beat never refuses a report of start()
\* or stop(), and no RUNNING report follows the STOPPED one.
THEOREM HeartbeatsAlwaysInOrder ==
    ASSUME CheckpointInterval = 1
    PROVE  Spec => HeartbeatsInOrder
<1>1. Init => BeatInv
  BY LifeInit DEF Init, BeatInv, HeartbeatWithinCheckpoint
<1>2. BeatInv /\ [Next]_vars => BeatInv'
  BY BeatStep
<1>3. BeatInv => HeartbeatWithinCheckpoint
  BY DEF BeatInv
<1> QED
  BY <1>1, <1>2, <1>3, StoppedHeartbeatStays, PTL DEF Spec, HeartbeatsInOrder
=============================================================================
