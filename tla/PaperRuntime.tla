---------------------------- MODULE PaperRuntime ----------------------------
(***************************************************************************)
(* The paper trading core: PaperExecutionEngine (the in-memory book),      *)
(* PaperTradingRuntime (the loop over market events and its checkpoints),  *)
(* the persistence writes the engine schedules as asyncio tasks on one     *)
(* asyncpg connection, which raises on a second call while one is in       *)
(* progress, and the process that runs them: it can crash, stop or die of  *)
(* an exception at any await, and be started again.                        *)
(*                                                                         *)
(* Abstracted: prices, average prices and timestamps other than the open   *)
(* time of a candle, and cash_balance, which no operation of the engine    *)
(* ever changes.  The strategy and the risk manager are the environment:   *)
(* they choose any requests and any verdicts.                              *)
(***************************************************************************)
EXTENDS Integers, FiniteSets, FiniteSetsExt

CONSTANTS
    Symbols,             \* instruments
    Quantities,          \* quantities a strategy may request
    MaxSequence,         \* market sequences are 1..MaxSequence
    OpenTime,            \* open time of the candle carried by each sequence
    MaxRequests,         \* requests a strategy returns for one candle
    MaxSession,          \* trading days the model spans
    CheckpointInterval,  \* checkpoint every so many candles
    MaxLives,            \* process starts
    MaxCrashes, MaxWriteFailures, MaxLoadFailures

Sequences == 1 .. MaxSequence

ASSUME ConstantsAssumption ==
    /\ Quantities \subseteq Nat \ {0}
    /\ MaxSequence \in Nat \ {0}
    /\ OpenTime \in [Sequences -> Nat]
    /\ MaxRequests \in Nat
    /\ MaxSession \in Nat \ {0}
    /\ CheckpointInterval \in Nat \ {0}
    /\ MaxLives \in Nat
    /\ MaxCrashes \in Nat
    /\ MaxWriteFailures \in Nat
    /\ MaxLoadFailures \in Nat

VARIABLES
    \* PaperExecutionEngine: lost when the process ends
    lastSeq,        \* _last_sequence (and with it _last_processed_timestamp)
    positions,      \* quantity held of each symbol
    orders, fills,  \* the order ids and the fills it knows
    saves,          \* _pending_writes: candles whose _save_state task is pending
    persists,       \* _pending_writes: pending _persist_execution tasks
    \* PaperTradingRuntime: lost when the process ends
    pc,             \* where its coroutine waits
    index,          \* index of the next request of the current candle
    processed,      \* _candles_processed, modulo CheckpointInterval
    lastCheckpoint, \* _last_checkpoint_sequence
    stopping,       \* _shutdown_event
    session,        \* session_id
    life,           \* which process start this is
    conn,           \* the connection: who is using it, and for which state row
    \* PostgreSQL
    dbSeq,          \* paper_runtime_state.last_market_sequence, NoRow at first
    dbPositions, dbOrders, dbFills,
    \* faults so far
    crashes, writeFailures, loadFailures,
    \* history, which no action reads
    raised,         \* fills of this process whose task ended with an exception
    unsaved,        \* candles whose _save_state task raised, or which a checkpoint
                    \* of an engine that could not restore took back
    torn            \* symbols whose fills and position were not written together

engineVars == <<lastSeq, positions, orders, fills>>
taskVars   == <<saves, persists, conn>>
loopVars   == <<pc, index, processed, lastCheckpoint, stopping>>
dbVars     == <<dbSeq, dbPositions, dbOrders, dbFills>>
faultVars  == <<crashes, writeFailures, loadFailures>>
historyVars == <<raised, unsaved, torn>>
vars == <<engineVars, taskVars, loopVars, session, life, dbVars, faultVars, historyVars>>

-----------------------------------------------------------------------------
NoRow == -1    \* load_state returned None

Sides == {"BUY", "SELL"}

\* client_order_id, which the runtime also makes the order_id.
Orders == [session : 1 .. MaxSession, seq : Sequences, index : 1 .. MaxRequests,
           symbol : Symbols, side : Sides]

\* fill_id is a fresh uuid: one execution of an order in one process.
Fills == [order : Orders, quantity : Quantities, life : 1 .. MaxLives]

\* One _persist_execution task: the rows it was given and its next statement.
Statements == {"order", "fill", "position", "state"}
Persists == [fill : Fills, position : Nat, next : Statements]

\* A task is identified by its candle and, in the candle, its request index;
\* index 0 is the _save_state task of the candle itself.
TaskIds == Nat \X Nat
Nobody == <<0, 0>>
Checkpointer == <<0, 1>>   \* _checkpoint's own call to _save_state
PersistId(t) == <<t.fill.order.seq, t.fill.order.index>>
Idle == [by |-> Nobody, seq |-> 0]

\* _last_processed_timestamp is set together with _last_sequence.
After(s) == lastSeq # 0 => OpenTime[s] > OpenTime[lastSeq]

TypeOK ==
    /\ lastSeq \in 0 .. MaxSequence
    /\ positions \in [Symbols -> Nat]
    /\ orders \subseteq Orders
    /\ fills \subseteq Fills
    /\ saves \subseteq Sequences
    /\ persists \subseteq Persists
    /\ pc \in {"down", "restoring", "streaming", "trading", "flushing", "saving",
               "finalFlush", "finalSave", "stopped"}
    /\ index \in 1 .. MaxRequests + 1
    /\ processed \in Nat
    /\ lastCheckpoint \in 0 .. MaxSequence
    /\ stopping \in BOOLEAN
    /\ session \in 1 .. MaxSession
    /\ life \in 0 .. MaxLives
    /\ conn \in [by : TaskIds, seq : 0 .. MaxSequence]
    /\ dbSeq \in {NoRow} \cup 0 .. MaxSequence
    /\ dbPositions \in [Symbols -> Nat]
    /\ dbOrders \subseteq Orders
    /\ dbFills \subseteq Fills
    /\ crashes \in Nat /\ writeFailures \in Nat /\ loadFailures \in Nat
    /\ raised \subseteq Fills
    /\ unsaved \subseteq Sequences
    /\ torn \subseteq Symbols

-----------------------------------------------------------------------------
(* The state of a process that is not running.                             *)

Flat == [x \in Symbols |-> 0]

Init ==
    /\ lastSeq = 0 /\ positions = Flat
    /\ orders = {} /\ fills = {}
    /\ saves = {} /\ persists = {} /\ conn = Idle
    /\ pc = "down" /\ index = 1 /\ processed = 0
    /\ lastCheckpoint = 0 /\ stopping = FALSE
    /\ session = 1 /\ life = 0
    /\ dbSeq = NoRow
    /\ dbPositions = Flat
    /\ dbOrders = {} /\ dbFills = {}
    /\ crashes = 0 /\ writeFailures = 0 /\ loadFailures = 0
    /\ raised = {} /\ unsaved = {} /\ torn = {}

LoseMemory ==
    /\ lastSeq' = 0 /\ positions' = Flat
    /\ orders' = {} /\ fills' = {}
    /\ saves' = {} /\ persists' = {} /\ conn' = Idle
    /\ pc' = "down" /\ index' = 1 /\ processed' = 0
    /\ lastCheckpoint' = 0 /\ stopping' = FALSE
    /\ raised' = {}

-----------------------------------------------------------------------------
(* Start of the process and restore.                                       *)

Boot ==
    /\ pc = "down" /\ life < MaxLives
    /\ life' = life + 1
    /\ session' \in {s \in 1 .. MaxSession : s >= session}
    /\ pc' = "restoring"
    /\ UNCHANGED <<engineVars, taskVars, index, processed, lastCheckpoint, stopping,
                   dbVars, faultVars, historyVars>>

\* Mutant: the sequence is not read back.
FromDatabaseNoSequence ==
    /\ lastSeq' = 0
    /\ positions' = dbPositions
    /\ orders' = dbOrders
    /\ fills' = dbFills

\* Mutant: the positions are not read back.
FromDatabaseNoPositions ==
    /\ lastSeq' = dbSeq
    /\ positions' = Flat
    /\ orders' = dbOrders
    /\ fills' = dbFills

\* Mutant: only the positions are read back, so the source replays everything.
FromDatabaseOnlyPositions ==
    /\ lastSeq' = 0
    /\ positions' = dbPositions
    /\ orders' = {} /\ fills' = {}

\* A row of paper_runtime_state exists: the engine reads every table back.
FromDatabase ==
    /\ lastSeq' = dbSeq
    /\ positions' = dbPositions
    /\ orders' = dbOrders
    /\ fills' = dbFills

UnknownOrders == {f.order : f \in dbFills} \ dbOrders

\* Without a state row nothing is read back, whatever the other tables hold.
RestoreState ==
    /\ pc = "restoring"
    /\ \/ /\ dbSeq = NoRow
          /\ pc' = "streaming"
          /\ torn' = torn \cup {f.order.symbol : f \in dbFills}
          /\ UNCHANGED <<engineVars, lastCheckpoint>>
       \/ /\ dbSeq # NoRow
          /\ FromDatabase
          /\ UNCHANGED torn
          /\ IF UnknownOrders = {}
             THEN pc' = "streaming" /\ lastCheckpoint' = dbSeq
             ELSE pc' = "finalFlush" /\ UNCHANGED lastCheckpoint
    /\ UNCHANGED <<taskVars, index, processed, stopping, session, life, dbVars, faultVars,
                   raised, unsaved>>

\* A load raises: PaperApplication.run stops the application, and stop()
\* writes a checkpoint of whatever the engine holds by then.
RestoreFails ==
    /\ pc = "restoring" /\ loadFailures < MaxLoadFailures
    /\ loadFailures' = loadFailures + 1
    /\ pc' = "finalFlush"
    /\ \/ UNCHANGED engineVars                       \* load_state raises
       \/ /\ dbSeq # NoRow /\ lastSeq' = dbSeq        \* load_positions raises
          /\ UNCHANGED <<positions, orders, fills>>
       \/ /\ dbSeq # NoRow /\ lastSeq' = dbSeq        \* load_orders or load_fills raises
          /\ positions' = dbPositions
          /\ UNCHANGED <<orders, fills>>
    /\ UNCHANGED <<taskVars, index, processed, lastCheckpoint, stopping, session, life,
                   dbVars, crashes, writeFailures, historyVars>>

-----------------------------------------------------------------------------
(* One candle.  An event whose sequence or open time is not new is skipped *)
(* without any change.                                                     *)

\* Mutant: on_market_event does not schedule _save_state.
OnMarketEventNoSave(s) ==
    /\ pc = "streaming" /\ ~stopping
    /\ s > lastSeq /\ After(s)
    /\ lastSeq' = s
    /\ pc' = "trading" /\ index' = 1
    /\ UNCHANGED <<positions, orders, fills, saves, persists, conn, processed,
                   lastCheckpoint, stopping, session, life, dbVars, faultVars, historyVars>>

OnMarketEvent(s) ==
    /\ pc = "streaming" /\ ~stopping
    /\ s > lastSeq /\ After(s)
    /\ lastSeq' = s
    /\ saves' = saves \cup {s}
    /\ pc' = "trading" /\ index' = 1
    /\ UNCHANGED <<positions, orders, fills, persists, conn, processed, lastCheckpoint,
                   stopping, session, life, dbVars, faultVars, historyVars>>

OrderFor(symbol, side) ==
    [session |-> session, seq |-> lastSeq, index |-> index, symbol |-> symbol, side |-> side]

FilledQuantity(symbol, side, q) ==
    IF side = "BUY" THEN positions[symbol] + q ELSE positions[symbol] - q

\* A request the engine has not seen: book it and schedule its three rows.
Execute(symbol, side, q) ==
    LET o == OrderFor(symbol, side)
        f == [order |-> o, quantity |-> q, life |-> life]
    IN  /\ pc = "trading" /\ index <= MaxRequests
        /\ o \notin orders
        /\ side = "SELL" => q <= positions[symbol]
        /\ positions' = [positions EXCEPT ![symbol] = FilledQuantity(symbol, side, q)]
        /\ orders' = orders \cup {o}
        /\ fills' = fills \cup {f}
        /\ persists' = persists \cup
              {[fill |-> f, position |-> FilledQuantity(symbol, side, q), next |-> "order"]}
        /\ index' = index + 1
        /\ UNCHANGED <<lastSeq, saves, conn, pc, processed, lastCheckpoint, stopping,
                       session, life, dbVars, faultVars, historyVars>>

\* The risk manager rejects the request, or the order is already known and filled.
PassOver(symbol, side) ==
    /\ pc = "trading" /\ index <= MaxRequests
    /\ OrderFor(symbol, side) \in orders =>
          \E f \in fills : f.order = OrderFor(symbol, side)
    /\ index' = index + 1
    /\ UNCHANGED <<engineVars, taskVars, pc, processed, lastCheckpoint, stopping, session,
                   life, dbVars, faultVars, historyVars>>

\* The strategy raises, a sell exceeds the position, a quantity is not positive,
\* or a known order has no fill: the exception leaves run_async.
TradingRaises ==
    /\ pc = "trading"
    /\ pc' = "finalFlush"
    /\ UNCHANGED <<engineVars, taskVars, index, processed, lastCheckpoint, stopping, session,
                   life, dbVars, faultVars, historyVars>>

CandleDone ==
    /\ pc = "trading"
    /\ processed' = (processed + 1) % CheckpointInterval
    /\ pc' = IF processed' = 0 THEN "flushing" ELSE "streaming"
    /\ index' = 1
    /\ UNCHANGED <<engineVars, taskVars, lastCheckpoint, stopping, session, life, dbVars,
                   faultVars, historyVars>>

-----------------------------------------------------------------------------
(* Checkpoint and shutdown.                                                *)

\* Mutant: _checkpoint does not wait for the scheduled executions.
FlushDoneEarly ==
    /\ pc \in {"flushing", "finalFlush"}
    /\ saves = {} /\ conn = Idle
    /\ conn' = [by |-> Checkpointer, seq |-> lastSeq]
    /\ pc' = IF pc = "flushing" THEN "saving" ELSE "finalSave"
    /\ UNCHANGED <<engineVars, saves, persists, index, processed, lastCheckpoint, stopping,
                   session, life, dbVars, faultVars, historyVars>>

\* gather() has returned and _save_state issues its statement.
FlushDone ==
    /\ pc \in {"flushing", "finalFlush"}
    /\ saves = {} /\ persists = {}
    /\ conn' = [by |-> Checkpointer, seq |-> lastSeq]
    /\ pc' = IF pc = "flushing" THEN "saving" ELSE "finalSave"
    /\ UNCHANGED <<engineVars, saves, persists, index, processed, lastCheckpoint, stopping,
                   session, life, dbVars, faultVars, historyVars>>

\* Where an exception raised inside _checkpoint takes the runtime.
CheckpointRaised ==
    CASE pc \in {"flushing", "saving"}       -> "finalFlush"
      [] pc \in {"finalFlush", "finalSave"}  -> "stopped"
      [] OTHER                               -> pc

CheckpointCommits ==
    /\ conn.by = Checkpointer
    /\ dbSeq' = conn.seq
    /\ unsaved' = unsaved \cup {s \in Sequences : conn.seq < s /\ s <= dbSeq}
    /\ UNCHANGED <<dbPositions, dbOrders, dbFills>>

CheckpointSaved ==
    /\ pc \in {"saving", "finalSave"}
    /\ CheckpointCommits
    /\ conn' = Idle
    /\ lastCheckpoint' = lastSeq
    /\ pc' = IF pc = "saving" THEN "streaming" ELSE "stopped"
    /\ UNCHANGED <<engineVars, saves, persists, index, processed, stopping, session, life,
                   faultVars, raised, torn>>

CheckpointFails ==
    /\ pc \in {"saving", "finalSave"} /\ writeFailures < MaxWriteFailures
    /\ conn.by = Checkpointer
    /\ writeFailures' = writeFailures + 1
    /\ conn' = Idle
    /\ pc' = CheckpointRaised
    /\ UNCHANGED <<engineVars, saves, persists, index, processed, lastCheckpoint, stopping,
                   session, life, dbVars, crashes, loadFailures, historyVars>>

RequestStop ==
    /\ pc \notin {"down", "restoring", "stopped"} /\ ~stopping
    /\ stopping' = TRUE
    /\ UNCHANGED <<engineVars, taskVars, pc, index, processed, lastCheckpoint, session, life,
                   dbVars, faultVars, historyVars>>

\* Mutant: the loop does not look at the shutdown event.
StreamEndsDeaf ==
    /\ pc = "streaming" /\ ~stopping
    /\ pc' = "finalFlush"
    /\ UNCHANGED <<engineVars, taskVars, index, processed, lastCheckpoint, stopping, session,
                   life, dbVars, faultVars, historyVars>>

\* The loop ends: stop was requested, the source is exhausted, or it raised.
StreamEnds ==
    /\ pc = "streaming"
    /\ pc' = "finalFlush"
    /\ UNCHANGED <<engineVars, taskVars, index, processed, lastCheckpoint, stopping, session,
                   life, dbVars, faultVars, historyVars>>

-----------------------------------------------------------------------------
(* The scheduled writes.  The event loop starts the tasks in the order     *)
(* they were created and serves the connection first come first served, so *)
(* no task overtakes an earlier one at the same statement.                 *)

Waiting(statement) ==
    ({PersistId(t) : t \in {x \in persists : x.next = statement}}
        \cup {<<s, 0>> : s \in {x \in saves : statement = "order"}}) \ {conn.by}

Precedes(a, b) == a[1] < b[1] \/ (a[1] = b[1] /\ a[2] <= b[2])

MayIssue(id, statement) ==
    /\ id \in Waiting(statement)
    /\ \A other \in Waiting(statement) : Precedes(id, other)

\* connection.execute is called on a free connection.
BeginSave(s) ==
    /\ s \in saves /\ MayIssue(<<s, 0>>, "order") /\ conn = Idle
    /\ conn' = [by |-> <<s, 0>>, seq |-> lastSeq]
    /\ UNCHANGED <<engineVars, saves, persists, loopVars, session, life, dbVars, faultVars, historyVars>>

BeginPersist(t) ==
    /\ t \in persists /\ MayIssue(PersistId(t), t.next) /\ conn = Idle
    /\ conn' = [by |-> PersistId(t), seq |-> lastSeq]
    /\ UNCHANGED <<engineVars, saves, persists, loopVars, session, life, dbVars, faultVars, historyVars>>

\* A task ends with an exception: only a flush in progress notices it.
TaskRaised ==
    pc' = IF pc \in {"flushing", "finalFlush"} THEN CheckpointRaised ELSE pc

SaveRaised(s) ==
    /\ TaskRaised
    /\ saves' = saves \ {s}
    /\ unsaved' = unsaved \cup {s}
    /\ UNCHANGED <<raised, torn>>

PersistRaised(t) ==
    /\ TaskRaised
    /\ persists' = persists \ {t}
    /\ raised' = raised \cup {t.fill}
    /\ torn' = IF t.next = "state" THEN torn ELSE torn \cup {t.fill.order.symbol}
    /\ UNCHANGED unsaved

\* connection.execute is called while another operation is in progress.
BusySave(s) ==
    /\ s \in saves /\ MayIssue(<<s, 0>>, "order") /\ conn # Idle
    /\ SaveRaised(s)
    /\ UNCHANGED <<engineVars, persists, conn, index, processed, lastCheckpoint, stopping,
                   session, life, dbVars, faultVars>>

BusyPersist(t) ==
    /\ t \in persists /\ MayIssue(PersistId(t), t.next) /\ conn # Idle
    /\ PersistRaised(t)
    /\ UNCHANGED <<engineVars, saves, conn, index, processed, lastCheckpoint, stopping,
                   session, life, dbVars, faultVars>>

\* The upsert a task has in progress takes effect.
SaveCommits(s) ==
    /\ s \in saves /\ conn.by = <<s, 0>>
    /\ dbSeq' = conn.seq
    /\ UNCHANGED <<dbPositions, dbOrders, dbFills>>

\* Mutant: the fill is written before its order.
PersistCommitsFillFirst(t) ==
    /\ t \in persists /\ conn.by = PersistId(t)
    /\ \/ /\ t.next = "order"
          /\ dbFills' = dbFills \cup {t.fill}
          /\ UNCHANGED <<dbSeq, dbPositions, dbOrders>>
       \/ /\ t.next = "fill"
          /\ dbOrders' = dbOrders \cup {t.fill.order}
          /\ UNCHANGED <<dbSeq, dbPositions, dbFills>>
       \/ /\ t.next \in {"position", "state"}
          /\ UNCHANGED dbVars

PersistCommits(t) ==
    /\ t \in persists /\ conn.by = PersistId(t)
    /\ \/ /\ t.next = "order"
          /\ dbOrders' = dbOrders \cup {t.fill.order}
          /\ UNCHANGED <<dbSeq, dbPositions, dbFills>>
       \/ /\ t.next = "fill"
          /\ dbFills' = dbFills \cup {t.fill}
          /\ UNCHANGED <<dbSeq, dbPositions, dbOrders>>
       \/ /\ t.next = "position"
          /\ dbPositions' = [dbPositions EXCEPT ![t.fill.order.symbol] = t.position]
          /\ UNCHANGED <<dbSeq, dbOrders, dbFills>>
       \/ /\ t.next = "state"
          /\ dbSeq' = conn.seq
          /\ UNCHANGED <<dbPositions, dbOrders, dbFills>>

Following(statement) ==
    CASE statement = "order" -> "fill"
      [] statement = "fill" -> "position"
      [] statement = "position" -> "state"

\* The pending executions when the statement of t has returned.
Advanced(t) ==
    (persists \ {t}) \cup
        (IF t.next = "state" THEN {} ELSE {[t EXCEPT !.next = Following(t.next)]})

SaveDone(s) ==
    /\ SaveCommits(s)
    /\ saves' = saves \ {s}
    /\ conn' = Idle
    /\ UNCHANGED <<engineVars, persists, loopVars, session, life, faultVars, historyVars>>

PersistDone(t) ==
    /\ PersistCommits(t)
    /\ persists' = Advanced(t)
    /\ conn' = Idle
    /\ UNCHANGED <<engineVars, saves, loopVars, session, life, faultVars, historyVars>>

SaveFails(s) ==
    /\ s \in saves /\ conn.by = <<s, 0>> /\ writeFailures < MaxWriteFailures
    /\ writeFailures' = writeFailures + 1
    /\ SaveRaised(s)
    /\ conn' = Idle
    /\ UNCHANGED <<engineVars, persists, index, processed, lastCheckpoint, stopping, session,
                   life, dbVars, crashes, loadFailures>>

PersistFails(t) ==
    /\ t \in persists /\ conn.by = PersistId(t) /\ writeFailures < MaxWriteFailures
    /\ writeFailures' = writeFailures + 1
    /\ PersistRaised(t)
    /\ conn' = Idle
    /\ UNCHANGED <<engineVars, saves, index, processed, lastCheckpoint, stopping, session,
                   life, dbVars, crashes, loadFailures>>

-----------------------------------------------------------------------------
(* End of the process.  The statement in progress may still commit.        *)

\* Symbols of executions whose fill is written and whose position is not.
Between(tasks) == {t.fill.order.symbol : t \in {u \in tasks : u.next = "position"}}

InProgressCommits ==
    \/ UNCHANGED <<dbVars, unsaved>> /\ torn' = torn \cup Between(persists)
    \/ \E s \in saves :
          SaveCommits(s) /\ UNCHANGED unsaved /\ torn' = torn \cup Between(persists)
    \/ \E t \in persists :
          PersistCommits(t) /\ UNCHANGED unsaved /\ torn' = torn \cup Between(Advanced(t))
    \/ CheckpointCommits /\ torn' = torn \cup Between(persists)

Crash ==
    /\ pc # "down" /\ crashes < MaxCrashes
    /\ crashes' = crashes + 1
    /\ InProgressCommits
    /\ LoseMemory
    /\ UNCHANGED <<session, life, writeFailures, loadFailures>>

Exit ==
    /\ pc = "stopped"
    /\ InProgressCommits
    /\ LoseMemory
    /\ UNCHANGED <<session, life, faultVars>>

-----------------------------------------------------------------------------
Trade ==
    \E symbol \in Symbols, side \in Sides :
        \/ PassOver(symbol, side)
        \/ \E q \in Quantities : Execute(symbol, side, q)

SaveTask(s)    == BeginSave(s) \/ BusySave(s) \/ SaveDone(s) \/ SaveFails(s)
PersistTask(t) == BeginPersist(t) \/ BusyPersist(t) \/ PersistDone(t) \/ PersistFails(t)

Next ==
    \/ Boot \/ RestoreState \/ RestoreFails
    \/ \E s \in Sequences : OnMarketEvent(s)
    \/ Trade \/ TradingRaises \/ CandleDone
    \/ FlushDone \/ CheckpointSaved \/ CheckpointFails
    \/ RequestStop \/ StreamEnds
    \/ \E s \in saves : SaveTask(s)
    \/ \E t \in persists : PersistTask(t)
    \/ Crash \/ Exit

Spec == Init /\ [][Next]_vars

\* The event loop runs every ready coroutine and the database answers.  New
\* events, stop requests, faults and restarts are never forced.
FairSpec ==
    /\ Spec
    /\ WF_vars(RestoreState)
    /\ WF_vars(CandleDone)
    /\ WF_vars(stopping /\ StreamEnds)
    /\ WF_vars(FlushDone)
    /\ WF_vars(CheckpointSaved)
    /\ WF_vars(\E s \in saves : BeginSave(s) \/ SaveDone(s))
    /\ WF_vars(\E t \in persists : BeginPersist(t) \/ PersistDone(t))

-----------------------------------------------------------------------------
(* Properties.                                                             *)

\* _persist_execution writes the order before the fill, so whatever fails or
\* crashes in between, restore_state never finds a fill of a missing order
\* and refuses to start.
FillsHaveOrders == \A f \in dbFills : f.order \in dbOrders

\* When _checkpoint has recorded the engine's sequence, every execution the
\* engine knows is in the database, and so is the position of its symbol: flush
\* waited for all of them but those whose task raised before, which a busy
\* connection or a failing statement makes it do and nobody notices.
CheckpointCovers ==
    pc \in {"streaming", "stopped"} /\ lastCheckpoint = lastSeq =>
        \A f \in fills \ raised :
            /\ f.order \in dbOrders
            /\ f \in dbFills
            /\ f.order.symbol \notin torn =>
                  positions[f.order.symbol] = dbPositions[f.order.symbol]

\* A restart resumes after the durable sequence: an order is durable for a
\* candle that the durable sequence would let the source replay only if the
\* state of that candle could not be written.
SequenceCoversOrders == \A o \in dbOrders : o.seq <= dbSeq \/ o.seq \in unsaved

\* One request of one candle is filled once: a second fill takes another
\* process, and a candle whose state could not be written.
DurableFillUnique ==
    \A f, g \in dbFills :
        f.order.seq = g.order.seq /\ f.order.index = g.order.index =>
            f = g \/ (f.life # g.life /\ f.order.seq \in unsaved)

SignedQuantity(f) == IF f.order.side = "BUY" THEN f.quantity ELSE - f.quantity

NetFilled(symbol) ==
    MapThenSumSet(SignedQuantity, {f \in fills : f.order.symbol = symbol})

\* The position the engine trades on is the net of the fills it knows, also
\* after a restore from the three tables, which are written one by one.  What
\* separates them is a task that raises before it has written the position, a
\* kill between fill and position, or a start that finds no state row.
PositionsMatchFills ==
    pc \in {"streaming", "trading"} =>
        \A x \in Symbols \ torn : positions[x] = NetFilled(x)

\* The durable market sequence never moves backwards while restores succeed, so
\* a restart never replays a candle that an earlier run had confirmed.
DurableSeqMonotone == [][loadFailures = 0 => dbSeq' >= dbSeq]_dbSeq

\* A requested stop completes: the loop leaves the stream, flushes and stops,
\* whichever writes fail or find the connection busy.
StopCompletes == stopping ~> pc \in {"stopped", "down"}
=============================================================================
