------------------------- MODULE PaperRuntimeProofs -------------------------
(***************************************************************************)
(* For every set of symbols and every bound: what the paper runtime keeps  *)
(* in the database belongs together.  Fills have their orders and are made *)
(* once, a recorded checkpoint covers the book, and the engine trades on   *)
(* the net of its fills.                                                   *)
(*                                                                         *)
(* The theorems hold with the connection that raises on a second call,     *)
(* failing writes and loads, and kills: no premise restricts them, and     *)
(* what is lost is named by the history variables, which say what raised,  *)
(* went unsaved or was torn.                                               *)
(***************************************************************************)
EXTENDS PaperRuntime, FiniteSetTheorems, WellFoundedInduction, TLAPS

(***************************************************************************)
(* Type correctness.  TypeOK alone is not inductive: the id of a new order *)
(* is built from lastSeq and its fill from life, which have to be counted  *)
(* from 1 by then.                                                         *)
(***************************************************************************)
Counted ==
    /\ pc = "trading" => lastSeq # 0
    /\ pc # "down" => life # 0

TypeInv == TypeOK /\ Counted

LEMMA StartTypes ==
    /\ Flat \in [Symbols -> Nat]
    /\ Idle \in [by : TaskIds, seq : 0 .. MaxSequence]
    /\ 1 \in 1 .. MaxRequests + 1
    /\ 1 \in 1 .. MaxSession
BY ConstantsAssumption DEF Flat, Idle, Nobody, TaskIds

LEMMA TypeInit == Init => TypeInv
<1> SUFFICES ASSUME Init PROVE TypeInv
  OBVIOUS
<1>1. stopping \in BOOLEAN
  BY DEF Init
<1> QED
  BY <1>1, ConstantsAssumption, StartTypes DEF Init, TypeInv, TypeOK, Counted, NoRow

\* A process that ended leaves well-typed memory.
LEMMA TypeLoseMemory ==
    ASSUME TypeInv, LoseMemory, UNCHANGED <<session, life>>,
           dbSeq' \in {NoRow} \cup 0 .. MaxSequence,
           dbPositions' \in [Symbols -> Nat],
           dbOrders' \subseteq Orders, dbFills' \subseteq Fills,
           crashes' \in Nat, writeFailures' \in Nat, loadFailures' \in Nat,
           unsaved' \subseteq Sequences, torn' \subseteq Symbols
    PROVE  TypeInv'
<1>1. stopping' \in BOOLEAN
  BY DEF LoseMemory
<1> QED
  BY <1>1, ConstantsAssumption, StartTypes DEF LoseMemory, TypeInv, TypeOK, Counted

\* Whatever a statement commits keeps the tables well typed.
LEMMA TypeSaveCommits ==
    ASSUME TypeInv, NEW s \in saves, SaveCommits(s)
    PROVE  /\ dbSeq' \in {NoRow} \cup 0 .. MaxSequence
           /\ dbPositions' \in [Symbols -> Nat]
           /\ dbOrders' \subseteq Orders
           /\ dbFills' \subseteq Fills
BY DEF TypeInv, TypeOK, SaveCommits

LEMMA TypePersistCommits ==
    ASSUME TypeInv, NEW t \in persists, PersistCommits(t)
    PROVE  /\ dbSeq' \in {NoRow} \cup 0 .. MaxSequence
           /\ dbPositions' \in [Symbols -> Nat]
           /\ dbOrders' \subseteq Orders
           /\ dbFills' \subseteq Fills
<1>1. t \in Persists /\ t.fill.order \in Orders /\ t.fill \in Fills /\ t.position \in Nat
  BY DEF TypeInv, TypeOK, Persists, Fills
<1> QED
  BY <1>1 DEF TypeInv, TypeOK, PersistCommits

\* The tasks after a statement has returned, and the symbols between two.
LEMMA TypeAdvanced ==
    ASSUME TypeInv, NEW t \in persists
    PROVE  /\ Advanced(t) \subseteq Persists
           /\ Between(persists) \subseteq Symbols
           /\ Between(Advanced(t)) \subseteq Symbols
<1>1. persists \subseteq Persists
  BY DEF TypeInv, TypeOK
<1>2. t.next # "state" => [t EXCEPT !.next = Following(t.next)] \in Persists
  BY <1>1 DEF Persists, Statements, Following
<1>3. Advanced(t) \subseteq Persists
  BY <1>1, <1>2 DEF Advanced
<1>4. \A T \in SUBSET Persists : Between(T) \subseteq Symbols
  BY DEF Between, Persists, Fills, Orders
<1> QED
  BY <1>1, <1>3, <1>4

\* The types of what outlives a process.
Survivors ==
    /\ dbSeq \in {NoRow} \cup 0 .. MaxSequence
    /\ dbPositions \in [Symbols -> Nat]
    /\ dbOrders \subseteq Orders
    /\ dbFills \subseteq Fills
    /\ unsaved \subseteq Sequences
    /\ torn \subseteq Symbols

LEMMA TypeInProgress ==
    ASSUME TypeInv, InProgressCommits
    PROVE  Survivors'
<1>0. unsaved \subseteq Sequences /\ torn \subseteq Symbols
  BY DEF TypeInv, TypeOK
<1>b. Between(persists) \subseteq Symbols
  BY DEF Between, TypeInv, TypeOK, Persists, Fills, Orders
<1>1. CASE UNCHANGED <<dbVars, unsaved>> /\ torn' = torn \cup Between(persists)
  BY <1>0, <1>b, <1>1 DEF TypeInv, TypeOK, dbVars, Survivors
<1>2. ASSUME NEW s \in saves, SaveCommits(s), UNCHANGED unsaved,
             torn' = torn \cup Between(persists)
      PROVE  Survivors'
  BY <1>0, <1>b, <1>2, TypeSaveCommits DEF Survivors
<1>3. ASSUME NEW t \in persists, PersistCommits(t), UNCHANGED unsaved,
             torn' = torn \cup Between(Advanced(t))
      PROVE  Survivors'
  BY <1>0, <1>3, TypeAdvanced, TypePersistCommits DEF Survivors
<1>4. CASE CheckpointCommits /\ torn' = torn \cup Between(persists)
  BY <1>0, <1>b, <1>4 DEF CheckpointCommits, TypeInv, TypeOK, Survivors
<1> QED
  BY <1>1, <1>2, <1>3, <1>4 DEF InProgressCommits

\* The ids that the tasks use on the connection.
LEMMA TaskIdType ==
    ASSUME TypeInv
    PROVE  /\ \A s \in saves : s \in Nat \ {0} /\ <<s, 0>> \in TaskIds
           /\ \A t \in persists :
                 /\ t.fill.order.seq \in Sequences
                 /\ t.fill.order.index \in Nat \ {0}
                 /\ PersistId(t) = <<t.fill.order.seq, t.fill.order.index>>
                 /\ PersistId(t) \in TaskIds
           /\ Sequences \subseteq Nat \ {0}
           /\ Checkpointer \in TaskIds
<1>1. Sequences \subseteq Nat \ {0}
  BY ConstantsAssumption DEF Sequences
<1>2. \A s \in saves : s \in Nat \ {0} /\ <<s, 0>> \in TaskIds
  BY <1>1 DEF TypeInv, TypeOK, TaskIds
<1>3. ASSUME NEW t \in persists
      PROVE  /\ t.fill.order.seq \in Sequences
             /\ t.fill.order.index \in Nat \ {0}
  <2>1. t.fill.order \in Orders
    BY DEF TypeInv, TypeOK, Persists, Fills
  <2>2. t.fill.order.seq \in Sequences /\ t.fill.order.index \in 1 .. MaxRequests
    BY <2>1 DEF Orders
  <2> QED
    BY <2>2, ConstantsAssumption
<1>4. \A t \in persists : /\ PersistId(t) = <<t.fill.order.seq, t.fill.order.index>>
                          /\ PersistId(t) \in TaskIds
  BY <1>1, <1>3 DEF PersistId, TaskIds
<1>5. Checkpointer \in TaskIds
  BY DEF Checkpointer, TaskIds
<1> QED
  BY <1>1, <1>2, <1>3, <1>4, <1>5

LEMMA TypeNext == TypeInv /\ [Next]_vars => TypeInv'
<1> SUFFICES ASSUME TypeInv, [Next]_vars PROVE TypeInv'
  OBVIOUS
<1> USE ConstantsAssumption
<1>1. CASE Boot
  BY <1>1 DEF Boot, TypeInv, TypeOK, Counted, engineVars, taskVars, dbVars, faultVars, historyVars
<1>2. CASE RestoreState
  <2>1. {f.order.symbol : f \in dbFills} \subseteq Symbols
    BY DEF TypeInv, TypeOK, Fills, Orders
  <2> QED
    BY <1>2, <2>1 DEF RestoreState, FromDatabase, TypeInv, TypeOK, Counted, engineVars,
                      taskVars, dbVars, faultVars
<1>3. CASE RestoreFails
  BY <1>3 DEF RestoreFails, TypeInv, TypeOK, Counted, engineVars, taskVars, dbVars, historyVars
<1>4. CASE \E s \in Sequences : OnMarketEvent(s)
  BY <1>4 DEF OnMarketEvent, TypeInv, TypeOK, Counted, dbVars, faultVars, historyVars, Sequences
<1>5. CASE Trade
  <2> PICK symbol \in Symbols, side \in Sides :
         \/ PassOver(symbol, side)
         \/ \E q \in Quantities : Execute(symbol, side, q)
    BY <1>5 DEF Trade
  <2>1. CASE PassOver(symbol, side)
    BY <2>1 DEF PassOver, TypeInv, TypeOK, Counted, engineVars, taskVars, dbVars, faultVars, historyVars
  <2>2. ASSUME NEW q \in Quantities, Execute(symbol, side, q)
        PROVE  TypeInv'
    <3> DEFINE o == OrderFor(symbol, side)
               f == [order |-> o, quantity |-> q, life |-> life]
    <3>1. o \in Orders
      BY <2>2 DEF OrderFor, Orders, Execute, TypeInv, TypeOK, Counted, Sequences
    <3>2. f \in Fills
      BY <3>1, <2>2 DEF Fills, Execute, TypeInv, TypeOK, Counted
    <3>3. FilledQuantity(symbol, side, q) \in Nat
      BY <2>2 DEF FilledQuantity, Execute, TypeInv, TypeOK, Sides
    <3>4. [fill |-> f, position |-> FilledQuantity(symbol, side, q), next |-> "order"]
             \in Persists
      BY <3>2, <3>3 DEF Persists, Statements
    <3> HIDE DEF o, f
    <3>5. /\ positions' = [positions EXCEPT ![symbol] = FilledQuantity(symbol, side, q)]
          /\ orders' = orders \cup {o}
          /\ fills' = fills \cup {f}
          /\ persists' = persists \cup
               {[fill |-> f, position |-> FilledQuantity(symbol, side, q), next |-> "order"]}
          /\ index' = index + 1 /\ index <= MaxRequests
          /\ UNCHANGED <<lastSeq, saves, conn, pc, processed, lastCheckpoint, stopping,
                         session, life, dbVars, faultVars, historyVars>>
      BY <2>2 DEF Execute, o, f
    <3> QED
      BY <3>1, <3>2, <3>3, <3>4, <3>5 DEF TypeInv, TypeOK, Counted, dbVars, faultVars, historyVars
  <2> QED
    BY <2>1, <2>2
<1>6. CASE TradingRaises
  BY <1>6 DEF TradingRaises, TypeInv, TypeOK, Counted, engineVars, taskVars, dbVars, faultVars, historyVars
<1>7. CASE CandleDone
  <2>1. processed' \in Nat
    BY <1>7 DEF CandleDone, TypeInv, TypeOK
  <2> QED
    BY <1>7, <2>1 DEF CandleDone, TypeInv, TypeOK, Counted, engineVars, taskVars, dbVars,
                      faultVars, historyVars
<1>8. CASE FlushDone
  BY <1>8, TaskIdType DEF FlushDone, TypeInv, TypeOK, Counted, engineVars, dbVars, faultVars, historyVars
<1>9. CASE CheckpointSaved
  BY <1>9 DEF CheckpointSaved, CheckpointCommits, TypeInv, TypeOK, Counted, engineVars, Idle,
              Nobody, TaskIds, faultVars
<1>10. CASE CheckpointFails
  BY <1>10 DEF CheckpointFails, CheckpointRaised, TypeInv, TypeOK, Counted, engineVars, Idle,
               Nobody, TaskIds, dbVars, historyVars
<1>11. CASE RequestStop
  BY <1>11 DEF RequestStop, TypeInv, TypeOK, Counted, engineVars, taskVars, dbVars, faultVars, historyVars
<1>12. CASE StreamEnds
  BY <1>12 DEF StreamEnds, TypeInv, TypeOK, Counted, engineVars, taskVars, dbVars, faultVars, historyVars
<1>13. ASSUME NEW s \in saves, SaveTask(s)
       PROVE  TypeInv'
  <2>1. CASE BeginSave(s)
    BY <2>1, TaskIdType
       DEF BeginSave, TypeInv, TypeOK, Counted, engineVars, loopVars, dbVars, faultVars, historyVars
  <2>2. CASE BusySave(s)
    BY <2>2 DEF BusySave, SaveRaised, TaskRaised, CheckpointRaised, TypeInv, TypeOK, Counted,
                engineVars, dbVars, faultVars
  <2>3. CASE SaveDone(s)
    BY <2>3, TypeSaveCommits
       DEF SaveDone, TypeInv, TypeOK, Counted, engineVars, loopVars, Idle, Nobody, TaskIds,
           faultVars, historyVars
  <2>4. CASE SaveFails(s)
    BY <2>4 DEF SaveFails, SaveRaised, TaskRaised, CheckpointRaised, TypeInv, TypeOK, Counted,
                engineVars, dbVars, Idle, Nobody, TaskIds
  <2> QED
    BY <1>13, <2>1, <2>2, <2>3, <2>4 DEF SaveTask
<1>14. ASSUME NEW t \in persists, PersistTask(t)
       PROVE  TypeInv'
  <2>1. CASE BeginPersist(t)
    BY <2>1, TaskIdType
       DEF BeginPersist, TypeInv, TypeOK, Counted, engineVars, loopVars, dbVars, faultVars, historyVars
  <2>0. t.fill \in Fills /\ t.fill.order.symbol \in Symbols
    BY DEF TypeInv, TypeOK, Persists, Fills, Orders
  <2>2. CASE BusyPersist(t)
    BY <2>0, <2>2 DEF BusyPersist, PersistRaised, TaskRaised, CheckpointRaised, TypeInv,
                      TypeOK, Counted, engineVars, dbVars, faultVars
  <2>3. CASE PersistDone(t)
    BY <2>3, TypeAdvanced, TypePersistCommits
       DEF PersistDone, TypeInv, TypeOK, Counted, engineVars, loopVars, Idle, Nobody,
           TaskIds, faultVars, historyVars
  <2>4. CASE PersistFails(t)
    BY <2>0, <2>4 DEF PersistFails, PersistRaised, TaskRaised, CheckpointRaised, TypeInv,
                      TypeOK, Counted, engineVars, dbVars, Idle, Nobody, TaskIds
  <2> QED
    BY <1>14, <2>1, <2>2, <2>3, <2>4 DEF PersistTask
<1>15. CASE Crash
  <2>1. /\ InProgressCommits /\ LoseMemory
        /\ UNCHANGED <<session, life, writeFailures, loadFailures>>
        /\ crashes' \in Nat
    BY <1>15 DEF Crash, TypeInv, TypeOK
  <2> QED
    BY <2>1, TypeInProgress, TypeLoseMemory DEF Survivors, TypeInv, TypeOK
<1>16. CASE Exit
  <2>1. InProgressCommits /\ LoseMemory /\ UNCHANGED <<session, life, faultVars>>
    BY <1>16 DEF Exit
  <2> QED
    BY <2>1, TypeInProgress, TypeLoseMemory DEF Survivors, TypeInv, TypeOK, faultVars
<1>17. CASE UNCHANGED vars
  BY <1>17 DEF vars, TypeInv, TypeOK, Counted, engineVars, taskVars, loopVars, dbVars,
              faultVars, historyVars
<1> QED
  BY <1>1, <1>2, <1>3, <1>4, <1>5, <1>6, <1>7, <1>8, <1>9, <1>10, <1>11, <1>12, <1>13, <1>14,
     <1>15, <1>16, <1>17 DEF Next

\* Every reachable state of the runtime, its tasks and its tables is well typed;
\* in particular no sequence of sells makes a position negative.
THEOREM TypeCorrect == Spec => []TypeOK
<1>1. Init => TypeInv
  BY TypeInit
<1>2. TypeInv /\ [Next]_vars => TypeInv'
  BY TypeNext
<1>3. TypeInv => TypeOK
  BY DEF TypeInv
<1> QED
  BY <1>1, <1>2, <1>3, PTL DEF Spec

-----------------------------------------------------------------------------
(***************************************************************************)
(* No fill is durable without its order.  A task past its first statement  *)
(* has its order in the table; that is what makes the invariant inductive. *)
(***************************************************************************)
OrderFirst == \A t \in persists : t.next # "order" => t.fill.order \in dbOrders

FillInv == TypeInv /\ OrderFirst /\ FillsHaveOrders

LEMMA FillPersistCommits ==
    ASSUME FillInv, NEW t \in persists, PersistCommits(t)
    PROVE  /\ FillsHaveOrders'
           /\ dbOrders \subseteq dbOrders'
           /\ t.fill.order \in dbOrders'
BY DEF FillInv, OrderFirst, FillsHaveOrders, PersistCommits

LEMMA FillInProgress ==
    ASSUME FillInv, InProgressCommits
    PROVE  FillsHaveOrders'
<1>1. CASE UNCHANGED <<dbOrders, dbFills>>
  BY <1>1 DEF FillInv, FillsHaveOrders
<1>2. CASE \E t \in persists : PersistCommits(t)
  BY <1>2, FillPersistCommits
<1> QED
  BY <1>1, <1>2 DEF InProgressCommits, SaveCommits, CheckpointCommits, dbVars

\* The tasks that are left or go on when a statement has returned.
LEMMA AdvancedTasks ==
    ASSUME TypeInv, NEW t \in persists
    PROVE  \A u \in Advanced(t) : u \in persists \/ u.fill = t.fill
<1>1. t \in Persists
  BY DEF TypeInv, TypeOK
<1> QED
  BY <1>1 DEF Advanced, Persists

LEMMA FillNext == FillInv /\ [Next]_vars => FillInv'
<1> SUFFICES ASSUME FillInv, [Next]_vars PROVE FillInv'
  OBVIOUS
<1>0. TypeInv'
  BY TypeNext DEF FillInv
<1>1. CASE persists' \subseteq persists /\ UNCHANGED <<dbOrders, dbFills>>
  BY <1>0, <1>1 DEF FillInv, OrderFirst, FillsHaveOrders
<1>2. ASSUME NEW symbol \in Symbols, NEW side \in Sides, NEW q \in Quantities,
             Execute(symbol, side, q)
      PROVE  FillInv'
  BY <1>0, <1>2 DEF Execute, FillInv, OrderFirst, FillsHaveOrders, dbVars
<1>3. ASSUME NEW t \in persists, PersistDone(t)
      PROVE  FillInv'
  <2>1. PersistCommits(t) /\ persists' = Advanced(t)
    BY <1>3 DEF PersistDone
  <2>2. OrderFirst'
    BY <2>1, AdvancedTasks, FillPersistCommits DEF FillInv, OrderFirst
  <2> QED
    BY <1>0, <2>1, <2>2, FillPersistCommits DEF FillInv
<1>4. CASE InProgressCommits /\ LoseMemory
  <2>1. persists' = {}
    BY <1>4 DEF LoseMemory
  <2> QED
    BY <1>0, <1>4, <2>1, FillInProgress DEF FillInv, OrderFirst
<1>5. CASE Next
  <2>1. CASE Boot \/ RestoreState \/ RestoreFails
    BY <1>1, <2>1 DEF Boot, RestoreState, RestoreFails, taskVars, dbVars
  <2>2. CASE \E s \in Sequences : OnMarketEvent(s)
    BY <1>1, <2>2 DEF OnMarketEvent, dbVars
  <2>3. CASE Trade
    BY <1>1, <1>2, <2>3 DEF Trade, PassOver, taskVars, dbVars
  <2>4. CASE \/ TradingRaises \/ CandleDone \/ FlushDone \/ CheckpointSaved
             \/ CheckpointFails \/ RequestStop \/ StreamEnds
    BY <1>1, <2>4 DEF TradingRaises, CandleDone, FlushDone, CheckpointSaved,
                      CheckpointCommits, CheckpointFails, RequestStop, StreamEnds, taskVars,
                      dbVars
  <2>5. CASE \E s \in saves : SaveTask(s)
    BY <1>1, <2>5 DEF SaveTask, BeginSave, BusySave, SaveDone, SaveCommits, SaveFails, dbVars
  <2>6. CASE \E t \in persists : PersistTask(t)
    BY <1>1, <1>3, <2>6 DEF PersistTask, BeginPersist, BusyPersist, PersistFails,
                            PersistRaised, dbVars
  <2>7. CASE Crash \/ Exit
    BY <1>4, <2>7 DEF Crash, Exit
  <2> QED
    BY <1>5, <2>1, <2>2, <2>3, <2>4, <2>5, <2>6, <2>7 DEF Next
<1>6. CASE UNCHANGED vars
  BY <1>1, <1>6 DEF vars, taskVars, dbVars
<1> QED
  BY <1>5, <1>6

LEMMA FillInit == Init => FillInv
BY TypeInit DEF Init, FillInv, OrderFirst, FillsHaveOrders

\* Whatever crashes, write failures and busy connections do, a durable fill has
\* a durable order: restore_state never stops on fills of missing orders.
THEOREM FillsAlwaysHaveOrders == Spec => []FillsHaveOrders
<1>1. FillInv /\ [Next]_vars => FillInv'
  BY FillNext
<1>2. FillInv => FillsHaveOrders
  BY DEF FillInv
<1> QED
  BY <1>1, <1>2, FillInit, PTL DEF Spec

-----------------------------------------------------------------------------
(***************************************************************************)
(* The saved sequence.  A write in progress carries a sequence between the *)
(* saved one and the engine's, and an engine with tasks is never behind    *)
(* the database: the one that could not restore may be, and all it writes  *)
(* is its last checkpoint.                                                 *)
(***************************************************************************)
Booting == pc \in {"down", "restoring"}

Running == pc \in {"streaming", "trading", "flushing", "saving"}

SeqBound ==
    /\ Booting => saves = {} /\ persists = {} /\ conn.by = Nobody
    /\ Running \/ saves # {} \/ persists # {} => dbSeq <= lastSeq
    /\ loadFailures = 0 /\ ~Booting => dbSeq <= lastSeq
    /\ conn.by # Nobody => conn.seq <= lastSeq /\ (dbSeq <= lastSeq => dbSeq <= conn.seq)

SeqInv == TypeInv /\ SeqBound

\* Only a checkpoint can take the saved sequence back.
LEMMA SeqSaveCommits ==
    ASSUME SeqInv, NEW s \in saves, SaveCommits(s)
    PROVE  dbSeq' = conn.seq /\ dbSeq <= dbSeq' /\ dbSeq' <= lastSeq
<1>1. conn.by # Nobody
  BY TaskIdType DEF SeqInv, SaveCommits, Nobody
<1> QED
  BY <1>1 DEF SeqInv, SeqBound, SaveCommits

LEMMA SeqPersistCommits ==
    ASSUME SeqInv, NEW t \in persists, PersistCommits(t)
    PROVE  /\ dbSeq <= dbSeq' /\ dbSeq' <= lastSeq
           /\ conn.by # Nobody
<1>1. conn.by # Nobody /\ ~Booting
  BY TaskIdType DEF SeqInv, SeqBound, PersistCommits, Nobody
<1>2. dbSeq \in Int /\ conn.seq \in Int /\ lastSeq \in Int
  BY DEF SeqInv, TypeInv, TypeOK, NoRow
<1> QED
  BY <1>1, <1>2 DEF SeqInv, SeqBound, PersistCommits

LEMMA SeqCheckpointCommits ==
    ASSUME SeqInv, CheckpointCommits
    PROVE  /\ dbSeq' <= lastSeq /\ ~Booting
           /\ dbSeq <= lastSeq => dbSeq <= dbSeq'
BY DEF SeqInv, SeqBound, CheckpointCommits, Checkpointer, Nobody

LEMMA SeqNext ==
    ASSUME SeqInv, [Next]_vars
    PROVE  SeqInv' /\ (dbSeq <= dbSeq' \/ (CheckpointCommits /\ loadFailures # 0))
<1> USE ConstantsAssumption
<1>0. TypeInv'
  BY TypeNext DEF SeqInv
<1>n. /\ dbSeq \in Int /\ conn.seq \in Int /\ lastSeq \in Nat
      /\ Checkpointer # Nobody
      /\ \A s \in saves : <<s, 0>> # Nobody
      /\ \A t \in persists : PersistId(t) # Nobody
  BY TaskIdType DEF SeqInv, TypeInv, TypeOK, NoRow, Checkpointer, Nobody
<1>1. CASE Boot
  BY <1>0, <1>1, <1>n DEF Boot, SeqInv, SeqBound, Booting, Running, taskVars, engineVars,
                          dbVars, faultVars
<1>2. CASE RestoreState
  BY <1>0, <1>2, <1>n DEF RestoreState, FromDatabase, SeqInv, SeqBound, Booting, Running,
                          taskVars, engineVars, dbVars, faultVars, NoRow
<1>3. CASE RestoreFails
  <2>1. loadFailures' # 0
    BY <1>3 DEF RestoreFails, SeqInv, TypeInv, TypeOK
  <2> QED
    BY <1>0, <1>3, <1>n, <2>1 DEF RestoreFails, SeqInv, SeqBound, Booting, Running, taskVars,
                                  engineVars, dbVars
<1>4. CASE \E s \in Sequences : OnMarketEvent(s)
  BY <1>0, <1>4, <1>n DEF OnMarketEvent, SeqInv, SeqBound, Booting, Running, dbVars,
                          faultVars, Sequences
<1>5. CASE Trade
  BY <1>0, <1>5, <1>n DEF Trade, PassOver, Execute, SeqInv, SeqBound, Booting, Running,
                          taskVars, engineVars, dbVars, faultVars
<1>6. CASE \/ TradingRaises \/ CandleDone \/ RequestStop \/ StreamEnds
  BY <1>0, <1>6, <1>n DEF TradingRaises, CandleDone, RequestStop, StreamEnds, SeqInv, SeqBound,
                          Booting, Running, taskVars, engineVars, dbVars, faultVars
<1>7. CASE FlushDone
  BY <1>0, <1>7, <1>n DEF FlushDone, SeqInv, SeqBound, Booting, Running, engineVars, dbVars,
                          faultVars
<1>8. CASE CheckpointSaved
  <2>1. /\ CheckpointCommits /\ conn' = Idle /\ pc' \in {"streaming", "stopped"}
        /\ UNCHANGED <<lastSeq, saves, persists, loadFailures>>
    BY <1>8 DEF CheckpointSaved, engineVars, faultVars
  <2>2. dbSeq' <= lastSeq' /\ (loadFailures = 0 => dbSeq <= dbSeq')
    BY <2>1, SeqCheckpointCommits DEF SeqInv, SeqBound
  <2> QED
    BY <1>0, <2>1, <2>2 DEF SeqInv, SeqBound, Booting, Idle
<1>9. CASE CheckpointFails
  BY <1>0, <1>9, <1>n DEF CheckpointFails, CheckpointRaised, SeqInv, SeqBound, Booting,
                          Running, engineVars, dbVars, Idle
<1>10. ASSUME NEW s \in saves, SaveTask(s)
       PROVE  SeqInv' /\ dbSeq <= dbSeq'
  <2>1. CASE BeginSave(s)
    BY <1>0, <2>1, <1>n DEF BeginSave, SeqInv, SeqBound, Booting, Running, engineVars,
                            loopVars, dbVars, faultVars
  <2>2. CASE BusySave(s) \/ SaveFails(s)
    BY <1>0, <2>2, <1>n DEF BusySave, SaveFails, SaveRaised, TaskRaised, CheckpointRaised,
                            SeqInv, SeqBound, Booting, Running, engineVars, dbVars, faultVars,
                            Idle
  <2>3. CASE SaveDone(s)
    BY <1>0, <2>3, <1>n, SeqSaveCommits
       DEF SaveDone, SeqInv, SeqBound, Booting, Running, engineVars, loopVars, Idle
  <2> QED
    BY <1>10, <2>1, <2>2, <2>3 DEF SaveTask
<1>11. ASSUME NEW t \in persists, PersistTask(t)
       PROVE  SeqInv' /\ dbSeq <= dbSeq'
  <2>1. CASE BeginPersist(t)
    BY <1>0, <2>1, <1>n DEF BeginPersist, SeqInv, SeqBound, Booting, Running, engineVars,
                            loopVars, dbVars, faultVars
  <2>2. CASE BusyPersist(t) \/ PersistFails(t)
    BY <1>0, <2>2, <1>n DEF BusyPersist, PersistFails, PersistRaised, TaskRaised,
                            CheckpointRaised, SeqInv, SeqBound, Booting, Running, engineVars,
                            dbVars, faultVars, Idle
  <2>3. CASE PersistDone(t)
    <3>1. PersistCommits(t) /\ conn' = Idle /\ UNCHANGED <<lastSeq, pc, saves>>
      BY <2>3 DEF PersistDone, engineVars, loopVars
    <3>2. dbSeq <= dbSeq' /\ dbSeq' <= lastSeq /\ ~Booting
      BY <3>1, SeqPersistCommits DEF SeqInv, SeqBound
    <3> QED
      BY <1>0, <3>1, <3>2 DEF SeqInv, SeqBound, Booting, Idle
  <2> QED
    BY <1>11, <2>1, <2>2, <2>3 DEF PersistTask
<1>12. CASE Crash \/ Exit
  <2>1. InProgressCommits /\ LoseMemory
    BY <1>12 DEF Crash, Exit
  <2>2. dbSeq <= dbSeq' \/ (CheckpointCommits /\ loadFailures # 0)
    BY <2>1, <1>n, SeqSaveCommits, SeqPersistCommits, SeqCheckpointCommits
       DEF InProgressCommits, dbVars, SeqInv, SeqBound
  <2> QED
    BY <1>0, <2>1, <2>2 DEF LoseMemory, SeqInv, SeqBound, Booting, Running, Idle
<1>13. CASE UNCHANGED vars
  BY <1>0, <1>13, <1>n DEF vars, SeqInv, SeqBound, Booting, Running, engineVars, taskVars,
                           loopVars, dbVars, faultVars
<1> QED
  BY <1>1, <1>2, <1>3, <1>4, <1>5, <1>6, <1>7, <1>8, <1>9, <1>10, <1>11, <1>12, <1>13 DEF Next

LEMMA SeqInit == Init => SeqInv
BY TypeInit DEF Init, SeqInv, SeqBound, Booting, Running, Idle

\* As long as no load has failed during a start-up, the saved market sequence never
\* moves backwards: not by a crash, a late or failing write or a checkpoint.
THEOREM SavedSequenceMonotone == Spec => DurableSeqMonotone
<1>1. SeqInv /\ [Next]_vars => SeqInv'
  BY SeqNext
<1>2. SeqInv /\ [Next]_vars => [loadFailures = 0 => dbSeq' >= dbSeq]_dbSeq
  <2> SUFFICES ASSUME SeqInv, [Next]_vars, loadFailures = 0 PROVE dbSeq' >= dbSeq
    OBVIOUS
  <2>1. dbSeq \in Int /\ dbSeq' \in Int
    BY SeqNext DEF SeqInv, TypeInv, TypeOK, NoRow
  <2> QED
    BY <2>1, SeqNext
<1> QED
  BY <1>1, <1>2, SeqInit, PTL DEF Spec, DurableSeqMonotone

-----------------------------------------------------------------------------
(***************************************************************************)
(* An order is durable only below the saved sequence, or for a candle      *)
(* whose state is known to be unsaved.  The tasks start in the order of    *)
(* their creation, so a task that got the connection finds the state row   *)
(* of its candle written, or the task of that row has raised.              *)
(***************************************************************************)
Saved(n) == n <= dbSeq \/ n \in unsaved

SavedOrPending(n) == n \in saves \/ Saved(n)

Cover ==
    /\ \A s \in saves : s <= lastSeq
    /\ \A s \in Sequences : conn.by = <<s, 0>> => s <= conn.seq
    /\ \A n \in Sequences, i \in Nat \ {0} : conn.by = <<n, i>> => Saved(n)
    /\ \A t \in persists : /\ SavedOrPending(t.fill.order.seq)
                           /\ t.next # "order" => Saved(t.fill.order.seq)
    /\ pc = "trading" => SavedOrPending(lastSeq)

CoverInv == SeqInv /\ Cover /\ SequenceCoversOrders

LEMMA UnsavedGrows == ASSUME [Next]_vars PROVE unsaved \subseteq unsaved'
<1>1. CASE \E s \in saves : SaveTask(s)
  BY <1>1 DEF SaveTask, BeginSave, BusySave, SaveDone, SaveFails, SaveRaised, historyVars
<1>2. CASE \E t \in persists : PersistTask(t)
  BY <1>2 DEF PersistTask, BeginPersist, BusyPersist, PersistDone, PersistFails,
              PersistRaised, historyVars
<1>3. CASE Trade
  BY <1>3 DEF Trade, PassOver, Execute, historyVars
<1>4. CASE Crash \/ Exit
  BY <1>4 DEF Crash, Exit, InProgressCommits, CheckpointCommits
<1>5. CASE \/ TradingRaises \/ CandleDone \/ FlushDone \/ CheckpointSaved
           \/ CheckpointFails \/ RequestStop \/ StreamEnds
  BY <1>5 DEF TradingRaises, CandleDone, FlushDone, CheckpointSaved, CheckpointCommits,
              CheckpointFails, RequestStop, StreamEnds, historyVars
<1>6. CASE Boot \/ RestoreState \/ RestoreFails \/ \E s \in Sequences : OnMarketEvent(s)
  BY <1>6 DEF Boot, RestoreState, RestoreFails, OnMarketEvent, historyVars
<1> QED
  BY <1>1, <1>2, <1>3, <1>4, <1>5, <1>6 DEF Next, vars, historyVars

\* What a checkpoint takes back becomes unsaved, so nothing saved is forgotten.
LEMMA SavedStays ==
    ASSUME SeqInv, [Next]_vars, NEW n \in Sequences, Saved(n)
    PROVE  Saved(n)'
<1>0. dbSeq \in Int /\ dbSeq' \in Int /\ conn.seq \in Int /\ n \in Int
  BY SeqNext, ConstantsAssumption DEF SeqInv, TypeInv, TypeOK, NoRow, Sequences
<1>1. CASE CheckpointCommits
  BY <1>0, <1>1 DEF CheckpointCommits, Saved
<1>2. CASE dbSeq <= dbSeq' /\ unsaved \subseteq unsaved'
  BY <1>0, <1>2 DEF Saved
<1> QED
  BY <1>1, <1>2, UnsavedGrows, SeqNext

LEMMA OrdersStayCovered ==
    ASSUME CoverInv, [Next]_vars, dbOrders' \subseteq dbOrders
    PROVE  SequenceCoversOrders'
<1>1. \A o \in dbOrders : o.seq \in Sequences /\ Saved(o.seq)
  BY DEF CoverInv, SequenceCoversOrders, SeqInv, TypeInv, TypeOK, Orders, Saved
<1>2. \A o \in dbOrders : Saved(o.seq)'
  BY <1>1, SavedStays DEF CoverInv
<1> QED
  BY <1>2 DEF SequenceCoversOrders, Saved

\* The task holding the connection writes below the saved sequence.
LEMMA CoverPersistCommits ==
    ASSUME CoverInv, [Next]_vars, NEW t \in persists, PersistCommits(t)
    PROVE  Saved(t.fill.order.seq)' /\ SequenceCoversOrders'
<1>1. t.fill.order.seq \in Sequences /\ t.fill.order.index \in Nat \ {0}
      /\ conn.by = <<t.fill.order.seq, t.fill.order.index>>
  BY TaskIdType DEF CoverInv, SeqInv, PersistCommits
<1>2. Saved(t.fill.order.seq)
  BY <1>1 DEF CoverInv, Cover
<1>3. Saved(t.fill.order.seq)'
  BY <1>1, <1>2, SavedStays DEF CoverInv
<1>4. dbOrders' \subseteq dbOrders \cup {t.fill.order}
  BY DEF PersistCommits
<1>5. \A o \in dbOrders : o.seq \in Sequences /\ Saved(o.seq)
  BY DEF CoverInv, SequenceCoversOrders, SeqInv, TypeInv, TypeOK, Orders, Saved
<1>6. \A o \in dbOrders : Saved(o.seq)'
  BY <1>5, SavedStays DEF CoverInv
<1> QED
  BY <1>3, <1>4, <1>6 DEF SequenceCoversOrders, Saved

\* A task that is given the connection has no older task waiting, the save of
\* its own candle included.
LEMMA CoverBegin ==
    ASSUME CoverInv, NEW t \in persists, BeginPersist(t)
    PROVE  Saved(t.fill.order.seq)
<1> DEFINE n == t.fill.order.seq
<1> SUFFICES ASSUME ~Saved(n) PROVE FALSE
  OBVIOUS
<1>1. n \in saves /\ t.next = "order"
  BY DEF CoverInv, Cover, SavedOrPending
<1>2. n \in Nat \ {0} /\ t.fill.order.index \in Nat \ {0}
      /\ PersistId(t) = <<n, t.fill.order.index>>
  BY TaskIdType, <1>1 DEF CoverInv, SeqInv
<1>3. <<n, 0>> \in Waiting("order")
  BY <1>1, <1>2 DEF BeginPersist, Waiting, Idle, Nobody
<1>4. Precedes(PersistId(t), <<n, 0>>)
  BY <1>1, <1>3 DEF BeginPersist, MayIssue
<1> QED
  BY <1>2, <1>4 DEF Precedes

LEMMA CoverNext ==
    ASSUME CoverInv, [Next]_vars
    PROVE  CoverInv'
<1> USE ConstantsAssumption
<1>0. SeqInv'
  BY SeqNext DEF CoverInv
<1>t. /\ conn.seq \in Nat /\ lastSeq \in Nat
      /\ Sequences \subseteq Nat \ {0}
      /\ \A s \in saves : s \in Sequences
      /\ \A u \in persists : /\ u.fill.order.seq \in Sequences
                             /\ u.fill.order.index \in Nat \ {0}
                             /\ PersistId(u) = <<u.fill.order.seq, u.fill.order.index>>
  BY TaskIdType DEF CoverInv, SeqInv, TypeInv, TypeOK, NoRow
<1>l. /\ lastSeq # 0 => lastSeq \in Sequences
      /\ pc = "trading" => lastSeq # 0
  BY DEF CoverInv, SeqInv, TypeInv, TypeOK, Counted, Sequences
<1>i. /\ \A s \in Sequences : Idle.by # <<s, 0>> /\ Checkpointer # <<s, 0>>
      /\ \A n \in Sequences, i \in Nat \ {0} : Idle.by # <<n, i>> /\ Checkpointer # <<n, i>>
  BY <1>t DEF Idle, Nobody, Checkpointer
<1>m. \A n \in Sequences : Saved(n) => Saved(n)'
  BY SavedStays DEF CoverInv
<1>o. dbOrders' \subseteq dbOrders => SequenceCoversOrders'
  BY OrdersStayCovered
\* A step that ends no save, adds no task and does not start a candle.
<1>q. ASSUME UNCHANGED <<lastSeq, saves, dbOrders>>, persists' \subseteq persists,
             conn' = conn \/ conn'.by \in {Nobody, Checkpointer},
             pc' = "trading" => pc = "trading"
      PROVE  CoverInv'
  <2>1. \A n \in Sequences : SavedOrPending(n) => SavedOrPending(n)'
    BY <1>m, <1>q DEF SavedOrPending
  <2>2. /\ \A s \in Sequences : conn'.by = <<s, 0>> => s <= conn'.seq
        /\ \A n \in Sequences, i \in Nat \ {0} : conn'.by = <<n, i>> => Saved(n)'
    BY <1>q, <1>i, <1>m DEF CoverInv, Cover, Idle
  <2>3. \A u \in persists' : /\ SavedOrPending(u.fill.order.seq)'
                             /\ u.next # "order" => Saved(u.fill.order.seq)'
    BY <1>q, <1>m, <1>t, <2>1 DEF CoverInv, Cover
  <2>4. pc' = "trading" => SavedOrPending(lastSeq)'
    BY <1>q, <1>l, <2>1 DEF CoverInv, Cover, SavedOrPending, Saved
  <2>5. \A s \in saves' : s <= lastSeq'
    BY <1>q DEF CoverInv, Cover
  <2>6. Cover'
    BY <2>2, <2>3, <2>4, <2>5 DEF Cover
  <2> QED
    BY <1>0, <1>o, <1>q, <2>6 DEF CoverInv
<1>1. CASE Boot
  BY <1>1, <1>q DEF Boot, engineVars, taskVars, dbVars
<1>2. CASE RestoreState \/ RestoreFails
  <2>1. saves = {} /\ persists = {} /\ conn.by = Nobody
    BY <1>2 DEF RestoreState, RestoreFails, CoverInv, SeqInv, SeqBound, Booting
  <2> QED
    BY <1>0, <1>2, <1>i, <1>o, <2>1
       DEF RestoreState, RestoreFails, CoverInv, Cover, taskVars, dbVars, Idle
<1>3. ASSUME NEW s \in Sequences, OnMarketEvent(s)
      PROVE  CoverInv'
  <2>1. /\ UNCHANGED <<persists, conn, dbSeq, dbOrders, unsaved>>
        /\ saves' = saves \cup {s} /\ lastSeq' = s /\ lastSeq < s
    BY <1>3 DEF OnMarketEvent, dbVars, historyVars
  <2>2. \A x \in saves' : x <= lastSeq'
    <3>1. s \in Nat /\ \A x \in saves : x \in Nat /\ x <= lastSeq
      BY <1>t DEF CoverInv, Cover
    <3> QED
      BY <1>t, <2>1, <3>1
  <2>3. /\ SavedOrPending(lastSeq)' /\ \A n \in Nat : SavedOrPending(n) => SavedOrPending(n)'
        /\ \A n : Saved(n)' <=> Saved(n)
    BY <2>1 DEF SavedOrPending, Saved
  <2>4. \A u \in persists' : /\ SavedOrPending(u.fill.order.seq)'
                             /\ u.next # "order" => Saved(u.fill.order.seq)'
    BY <1>t, <2>1, <2>3 DEF CoverInv, Cover
  <2>5. /\ \A x \in Sequences : conn'.by = <<x, 0>> => x <= conn'.seq
        /\ \A n \in Sequences, i \in Nat \ {0} : conn'.by = <<n, i>> => Saved(n)'
    BY <2>1, <2>3 DEF CoverInv, Cover
  <2>6. Cover'
    BY <2>2, <2>3, <2>4, <2>5 DEF Cover
  <2> QED
    BY <1>0, <1>o, <2>1, <2>6 DEF CoverInv
<1>4. CASE Trade
  <2>1. ASSUME NEW symbol \in Symbols, NEW side \in Sides, PassOver(symbol, side)
        PROVE  CoverInv'
    BY <2>1, <1>q DEF PassOver, engineVars, taskVars, dbVars
  <2>2. ASSUME NEW symbol \in Symbols, NEW side \in Sides, NEW q \in Quantities,
               Execute(symbol, side, q)
        PROVE  CoverInv'
    <3> DEFINE f == [order |-> OrderFor(symbol, side), quantity |-> q, life |-> life]
               t == [fill |-> f, position |-> FilledQuantity(symbol, side, q),
                     next |-> "order"]
    <3>1. /\ persists' = persists \cup {t}
          /\ t.fill.order.seq = lastSeq /\ t.next = "order"
          /\ UNCHANGED <<lastSeq, saves, conn, pc, dbSeq, dbOrders, unsaved>>
      BY <2>2 DEF Execute, OrderFor, dbVars, historyVars
    <3> HIDE DEF t
    <3>2. SavedOrPending(lastSeq)
      BY <2>2 DEF Execute, CoverInv, Cover
    <3>3. \A n : (SavedOrPending(n)' <=> SavedOrPending(n)) /\ (Saved(n)' <=> Saved(n))
      BY <3>1 DEF SavedOrPending, Saved
    <3>4. \A u \in persists' : /\ SavedOrPending(u.fill.order.seq)'
                               /\ u.next # "order" => Saved(u.fill.order.seq)'
      BY <3>1, <3>2, <3>3 DEF CoverInv, Cover
    <3>5. pc' = "trading" => SavedOrPending(lastSeq)'
      BY <3>1, <3>2 DEF SavedOrPending, Saved
    <3>6. /\ \A s \in saves' : s <= lastSeq'
          /\ \A s \in Sequences : conn'.by = <<s, 0>> => s <= conn'.seq
          /\ \A n \in Sequences, i \in Nat \ {0} : conn'.by = <<n, i>> => Saved(n)'
      BY <3>1, <3>3 DEF CoverInv, Cover
    <3>7. Cover'
      BY <3>4, <3>5, <3>6 DEF Cover
    <3> QED
      BY <1>0, <1>o, <3>1, <3>7 DEF CoverInv
  <2> QED
    BY <1>4, <2>1, <2>2 DEF Trade
<1>5. CASE TradingRaises \/ CandleDone \/ RequestStop \/ StreamEnds
  BY <1>5, <1>q DEF TradingRaises, CandleDone, RequestStop, StreamEnds, engineVars, taskVars,
                    dbVars
<1>6. CASE FlushDone \/ CheckpointSaved \/ CheckpointFails
  BY <1>6, <1>q DEF FlushDone, CheckpointSaved, CheckpointCommits, CheckpointFails,
                    CheckpointRaised, engineVars, dbVars, Idle
\* The save of one candle ends: its state is written, or known to be unsaved.
<1>e. ASSUME NEW s \in saves, saves' = saves \ {s}, Saved(s)',
             UNCHANGED <<lastSeq, persists, dbOrders>>,
             conn' = conn \/ conn' = Idle, pc' = "trading" => pc = "trading"
      PROVE  CoverInv'
  <2>1. \A n \in Sequences : SavedOrPending(n) => SavedOrPending(n)'
    BY <1>m, <1>e DEF SavedOrPending
  <2>2. /\ \A x \in Sequences : conn'.by = <<x, 0>> => x <= conn'.seq
        /\ \A n \in Sequences, i \in Nat \ {0} : conn'.by = <<n, i>> => Saved(n)'
    BY <1>e, <1>i, <1>m DEF CoverInv, Cover
  <2>3. \A u \in persists' : /\ SavedOrPending(u.fill.order.seq)'
                             /\ u.next # "order" => Saved(u.fill.order.seq)'
    BY <1>e, <1>m, <1>t, <2>1 DEF CoverInv, Cover
  <2>4. pc' = "trading" => SavedOrPending(lastSeq)'
    BY <1>e, <1>l, <2>1 DEF CoverInv, Cover, SavedOrPending, Saved
  <2>5. \A x \in saves' : x <= lastSeq'
    BY <1>e DEF CoverInv, Cover
  <2>6. Cover'
    BY <2>2, <2>3, <2>4, <2>5 DEF Cover
  <2> QED
    BY <1>0, <1>o, <1>e, <2>6 DEF CoverInv
<1>7. ASSUME NEW s \in saves, SaveTask(s)
       PROVE  CoverInv'
  <2>1. CASE BeginSave(s)
    <3>1. /\ UNCHANGED <<lastSeq, saves, persists, pc, dbSeq, dbOrders, unsaved>>
          /\ conn'.by = <<s, 0>> /\ conn'.seq = lastSeq /\ s \in Sequences
      BY <2>1, <1>t DEF BeginSave, engineVars, loopVars, dbVars, historyVars
    <3>2. \A n : (SavedOrPending(n)' <=> SavedOrPending(n)) /\ (Saved(n)' <=> Saved(n))
      BY <3>1 DEF SavedOrPending, Saved
    <3>3. pc' = "trading" => SavedOrPending(lastSeq)'
      BY <3>1 DEF CoverInv, Cover, SavedOrPending, Saved
    <3> QED
      BY <1>0, <1>o, <3>1, <3>2, <3>3 DEF CoverInv, Cover
  <2>2. CASE BusySave(s) \/ SaveFails(s)
    <3>1. Saved(s)'
      BY <2>2 DEF BusySave, SaveFails, SaveRaised, Saved
    <3> QED
      BY <1>e, <2>2, <3>1 DEF BusySave, SaveFails, SaveRaised, TaskRaised, CheckpointRaised,
                              engineVars, dbVars
  <2>3. CASE SaveDone(s)
    <3>1. Saved(s)'
      BY <2>3, <1>t DEF SaveDone, SaveCommits, CoverInv, Cover, Saved
    <3> QED
      BY <1>e, <2>3, <3>1 DEF SaveDone, SaveCommits, engineVars, loopVars
  <2> QED
    BY <1>7, <2>1, <2>2, <2>3 DEF SaveTask
<1>8. ASSUME NEW t \in persists, PersistTask(t)
       PROVE  CoverInv'
  <2>1. CASE BeginPersist(t)
    <3>0. Saved(t.fill.order.seq)
      BY <2>1, CoverBegin
    <3>1. /\ UNCHANGED <<lastSeq, saves, persists, pc, dbSeq, dbOrders, unsaved>>
          /\ conn'.by = <<t.fill.order.seq, t.fill.order.index>>
          /\ t.fill.order.index \in Nat \ {0}
      BY <2>1, <1>t DEF BeginPersist, engineVars, loopVars, dbVars, historyVars
    <3>2. \A n : (SavedOrPending(n)' <=> SavedOrPending(n)) /\ (Saved(n)' <=> Saved(n))
      BY <3>1 DEF SavedOrPending, Saved
    <3>3. pc' = "trading" => SavedOrPending(lastSeq)'
      BY <3>1 DEF CoverInv, Cover, SavedOrPending, Saved
    <3> QED
      BY <1>0, <1>o, <3>0, <3>1, <3>2, <3>3 DEF CoverInv, Cover
  <2>2. CASE BusyPersist(t) \/ PersistFails(t)
    BY <1>q, <2>2 DEF BusyPersist, PersistFails, PersistRaised, TaskRaised, CheckpointRaised,
                      engineVars, dbVars, Idle
  <2>3. CASE PersistDone(t)
    <3>1. /\ Saved(t.fill.order.seq)' /\ SequenceCoversOrders'
          /\ persists' = Advanced(t) /\ conn' = Idle /\ UNCHANGED <<lastSeq, saves, pc>>
      BY <2>3, CoverPersistCommits DEF PersistDone, engineVars, loopVars
    <3>2. \A u \in persists' : u \in persists \/ u.fill = t.fill
      BY <3>1, AdvancedTasks DEF CoverInv, SeqInv
    <3>3. \A n \in Sequences : SavedOrPending(n) => SavedOrPending(n)'
      BY <1>m, <3>1 DEF SavedOrPending
    <3>4. \A u \in persists' : /\ SavedOrPending(u.fill.order.seq)'
                               /\ u.next # "order" => Saved(u.fill.order.seq)'
      BY <1>m, <1>t, <3>1, <3>2, <3>3 DEF CoverInv, Cover, SavedOrPending
    <3>5. pc' = "trading" => SavedOrPending(lastSeq)'
      BY <1>l, <3>1, <3>3 DEF CoverInv, Cover, SavedOrPending, Saved
    <3>6. Cover'
      BY <1>i, <3>1, <3>4, <3>5 DEF CoverInv, Cover
    <3> QED
      BY <1>0, <3>1, <3>6 DEF CoverInv
  <2> QED
    BY <1>8, <2>1, <2>2, <2>3 DEF PersistTask
<1>9. CASE Crash \/ Exit
  <2>1. InProgressCommits /\ LoseMemory
    BY <1>9 DEF Crash, Exit
  <2>2. SequenceCoversOrders'
    BY <2>1, <1>o, CoverPersistCommits
       DEF InProgressCommits, SaveCommits, CheckpointCommits, dbVars
  <2> QED
    BY <1>0, <1>i, <2>1, <2>2 DEF LoseMemory, CoverInv, Cover
<1>10. CASE UNCHANGED vars
  BY <1>10, <1>q DEF vars, engineVars, taskVars, loopVars, dbVars
<1> QED
  BY <1>1, <1>2, <1>3, <1>4, <1>5, <1>6, <1>7, <1>8, <1>9, <1>10 DEF Next

LEMMA CoverInit == Init => CoverInv
BY SeqInit, TaskIdType DEF Init, CoverInv, SeqInv, Idle, Nobody, Cover, SequenceCoversOrders

\* Whatever raises and whenever the process is killed, no order is durable beyond
\* the saved sequence but those of candles whose state could not be written: a
\* restart meets no other order of a candle that the source is going to deliver.
THEOREM SavedSequenceCoversOrders == Spec => []SequenceCoversOrders
<1>1. CoverInv /\ [Next]_vars => CoverInv'
  BY CoverNext
<1>2. CoverInv => SequenceCoversOrders
  BY DEF CoverInv
<1> QED
  BY <1>1, <1>2, CoverInit, PTL DEF Spec

-----------------------------------------------------------------------------
(***************************************************************************)
(* A request is filled once.  The requests of a process are ahead of every *)
(* fill that the engine or the database has, but for those which an earlier *)
(* process made of a candle whose state could not be written: a restart    *)
(* resumes after all others, because the saved sequence covers them.       *)
(***************************************************************************)
Passed(o) == o.seq <= lastSeq /\ (pc = "trading" /\ o.seq = lastSeq => o.index < index)

Known ==
    /\ Booting => fills = {} /\ positions = Flat
    /\ \A t \in persists : t.fill \in fills /\ t.fill.life = life
    /\ \A f \in fills \cup dbFills :
          /\ f.life <= life
          /\ pc = "restoring" => f.life < life
          /\ Running => Passed(f.order) \/ (f.life < life /\ f.order.seq \in unsaved)

Once ==
    \A f, g \in fills \cup dbFills :
        f.order.seq = g.order.seq /\ f.order.index = g.order.index =>
            f = g \/ (f.life # g.life /\ f.order.seq \in unsaved)

Unique == Known /\ Once

UniqueInv == CoverInv /\ FillInv /\ Unique

\* Steps that book nothing.
LEMMA UniqueQuiet ==
    ASSUME UniqueInv, [Next]_vars, UNCHANGED life,
           fills' \subseteq fills \cup dbFills, dbFills' \subseteq fills \cup dbFills,
           Booting' => fills' = {} /\ positions' = Flat,
           pc' = "restoring" => pc = "restoring",
           Running' => Running /\ UNCHANGED lastSeq,
           pc' = "trading" => pc = "trading" /\ (index' = index \/ index' = index + 1),
           \A t \in persists' : t.fill \in fills' /\ \E u \in persists : t.fill = u.fill
    PROVE  Unique'
<1>u. unsaved \subseteq unsaved'
  BY UnsavedGrows
<1>1. Once'
  BY <1>u DEF UniqueInv, Unique, Once
<1>2. \A t \in persists' : t.fill \in fills' /\ t.fill.life = life'
  BY DEF UniqueInv, Unique, Known
<1>3. ASSUME NEW f \in fills' \cup dbFills'
      PROVE  /\ f.life <= life'
             /\ pc' = "restoring" => f.life < life'
             /\ Running' => Passed(f.order)' \/ (f.life < life' /\ f.order.seq \in unsaved')
  <2>1. /\ f.life <= life
        /\ pc = "restoring" => f.life < life
        /\ Running => Passed(f.order) \/ (f.life < life /\ f.order.seq \in unsaved)
    BY <1>3 DEF UniqueInv, Unique, Known
  <2>2. f.order.index \in Int /\ index \in Int
    BY <1>3 DEF UniqueInv, FillInv, TypeInv, TypeOK, Fills, Orders
  <2>3. Running' /\ Passed(f.order) => Passed(f.order)'
    BY <2>2 DEF Passed
  <2> QED
    BY <1>u, <2>1, <2>3
<1>4. Known'
  BY <1>2, <1>3 DEF Known
<1> QED
  BY <1>1, <1>4 DEF Unique

LEMMA UniqueBoot ==
    ASSUME UniqueInv, Boot
    PROVE  Unique'
<1>1. /\ Booting /\ life' = life + 1 /\ pc' = "restoring" /\ ~Running'
      /\ UNCHANGED <<positions, fills, dbFills, persists, unsaved>>
  BY DEF Boot, Booting, Running, engineVars, taskVars, dbVars, historyVars
<1>2. persists = {}
  BY <1>1 DEF UniqueInv, CoverInv, SeqInv, SeqBound
<1>3. \A f \in fills \cup dbFills : f.life <= life /\ f.life \in Int /\ life \in Int
  BY DEF UniqueInv, Unique, Known, FillInv, TypeInv, TypeOK, Fills
<1>4. \A f \in fills \cup dbFills : f.life <= life' /\ f.life < life'
  BY <1>1, <1>3
<1> QED
  BY <1>1, <1>2, <1>4 DEF UniqueInv, Unique, Known, Once

LEMMA UniqueRestore ==
    ASSUME UniqueInv, RestoreState
    PROVE  Unique'
<1>0. /\ Booting /\ ~Booting' /\ pc = "restoring" /\ pc' # "restoring" /\ pc' # "trading"
      /\ persists' = {} /\ UNCHANGED <<life, dbFills, unsaved>>
  BY DEF RestoreState, Booting, taskVars, dbVars, UniqueInv, CoverInv, SeqInv, SeqBound
<1>1. fills' \subseteq dbFills
  BY <1>0 DEF RestoreState, FromDatabase, engineVars, UniqueInv, Unique, Known
<1>2. ASSUME NEW f \in dbFills
      PROVE  f.life < life /\ (f.order.seq <= lastSeq' \/ f.order.seq \in unsaved)
  <2>1. f.order \in dbOrders /\ f.order.seq \in Nat
    BY DEF UniqueInv, FillInv, FillsHaveOrders, TypeInv, TypeOK, Fills, Orders, Sequences
  <2>2. f.order.seq <= dbSeq \/ f.order.seq \in unsaved
    BY <2>1 DEF UniqueInv, CoverInv, SequenceCoversOrders
  <2>3. dbSeq = NoRow => ~(f.order.seq <= dbSeq)
    BY <2>1 DEF NoRow
  <2>4. dbSeq # NoRow => lastSeq' = dbSeq
    BY DEF RestoreState, FromDatabase
  <2>5. f.life < life
    BY <1>0 DEF UniqueInv, Unique, Known
  <2> QED
    BY <2>2, <2>3, <2>4, <2>5
<1>3. \A f \in dbFills : f.life < life => f.life <= life
  BY DEF UniqueInv, Unique, Known
<1> QED
  BY <1>0, <1>1, <1>2, <1>3 DEF UniqueInv, Unique, Known, Once, Passed

LEMMA UniqueMarketEvent ==
    ASSUME UniqueInv, NEW s \in Sequences, OnMarketEvent(s)
    PROVE  Unique'
<1>1. /\ UNCHANGED <<positions, fills, persists, dbFills, life, unsaved>>
      /\ lastSeq' = s /\ lastSeq < s /\ ~Booting' /\ pc' # "restoring" /\ Running
  BY DEF OnMarketEvent, dbVars, historyVars, Booting, Running
<1>2. \A f \in fills \cup dbFills : Passed(f.order) => Passed(f.order)'
  <2>1. s \in Int /\ lastSeq \in Int /\ \A f \in fills \cup dbFills : f.order.seq \in Int
    BY DEF Sequences, UniqueInv, FillInv, TypeInv, TypeOK, Fills, Orders
  <2> QED
    BY <1>1, <2>1 DEF Passed
<1> QED
  BY <1>1, <1>2 DEF UniqueInv, Unique, Known, Once

\* What a request that is executed changes.
Booked(o, f, t) ==
    /\ UNCHANGED <<lastSeq, saves, pc, conn, lastCheckpoint, life, dbVars, historyVars>>
    /\ orders' = orders \cup {o}
    /\ fills' = fills \cup {f}
    /\ persists' = persists \cup {t}
    /\ index' = index + 1
    /\ o.seq = lastSeq /\ o.index = index /\ pc = "trading"
    /\ o \in Orders /\ f \in Fills /\ t \in Persists
    /\ f.order = o /\ f.life = life /\ t.fill = f /\ t.next = "order"

LEMMA ExecuteBooks ==
    ASSUME TypeInv, NEW symbol \in Symbols, NEW side \in Sides, NEW q \in Quantities,
           Execute(symbol, side, q)
    PROVE  \E o, f, t :
              /\ Booked(o, f, t)
              /\ o.symbol = symbol /\ o.side = side /\ f.quantity = q
              /\ t.position = FilledQuantity(symbol, side, q)
              /\ positions' = [positions EXCEPT ![symbol] = FilledQuantity(symbol, side, q)]
<1> DEFINE o == OrderFor(symbol, side)
           f == [order |-> o, quantity |-> q, life |-> life]
           t == [fill |-> f, position |-> FilledQuantity(symbol, side, q), next |-> "order"]
<1>1. /\ o \in Orders /\ o.seq = lastSeq /\ o.index = index
      /\ o.symbol = symbol /\ o.side = side
  BY DEF OrderFor, Orders, Execute, TypeInv, TypeOK, Counted, Sequences
<1> HIDE DEF o
<1>2. f \in Fills /\ f.order = o /\ f.quantity = q /\ f.life = life
  BY <1>1 DEF Fills, Execute, TypeInv, TypeOK, Counted
<1>3. FilledQuantity(symbol, side, q) \in Nat
  BY ConstantsAssumption DEF FilledQuantity, Execute, TypeInv, TypeOK, Sides
<1>4. /\ t \in Persists /\ t.fill = f /\ t.next = "order"
      /\ t.position = FilledQuantity(symbol, side, q)
  BY <1>2, <1>3 DEF Persists, Statements
<1>5. /\ UNCHANGED <<lastSeq, saves, pc, conn, lastCheckpoint, life, dbVars, historyVars>>
      /\ orders' = orders \cup {o}
      /\ fills' = fills \cup {f}
      /\ persists' = persists \cup {t}
      /\ index' = index + 1 /\ pc = "trading"
      /\ positions' = [positions EXCEPT ![symbol] = FilledQuantity(symbol, side, q)]
  BY DEF Execute, o
<1> HIDE DEF f, t
<1>6. Booked(o, f, t)
  BY <1>1, <1>2, <1>4, <1>5 DEF Booked
<1> QED
  BY <1>1, <1>2, <1>4, <1>5, <1>6

\* A fill that is being booked: one of its request can only be an earlier process's.
LEMMA BookedIsNew ==
    ASSUME UniqueInv, NEW o, NEW f, NEW t, Booked(o, f, t)
    PROVE  /\ \A g \in fills \cup dbFills :
                 g.order.seq = o.seq /\ g.order.index = o.index =>
                     g.life # f.life /\ o.seq \in unsaved
           /\ f \notin fills \cup dbFills
           /\ \A u \in persists : /\ u.fill.order.seq <= o.seq
                                  /\ u.fill.order.seq = o.seq => u.fill.order.index < o.index
<1>0. /\ index \in Int /\ o.seq = lastSeq /\ o.index = index /\ f.order = o
      /\ f.life = life /\ pc = "trading" /\ Running /\ life \in Int
  BY DEF UniqueInv, FillInv, TypeInv, TypeOK, Booked, Running
<1>1. ASSUME NEW g \in fills \cup dbFills
      PROVE  Passed(g.order) \/ (g.life < life /\ g.order.seq \in unsaved)
  BY <1>0 DEF UniqueInv, Unique, Known
<1>2. \A g \in fills \cup dbFills : g.order.index \in Int /\ g.life \in Int
  BY DEF UniqueInv, FillInv, TypeInv, TypeOK, Fills, Orders
<1>3. ASSUME NEW g \in fills \cup dbFills, g.order.seq = o.seq, g.order.index = o.index
      PROVE  g.life # f.life /\ o.seq \in unsaved
  <2>1. ~Passed(g.order)
    BY <1>0, <1>2, <1>3 DEF Passed
  <2> QED
    BY <1>0, <1>1, <1>2, <1>3, <2>1
<1>4. f \notin fills \cup dbFills
  BY <1>0, <1>3
<1>5. ASSUME NEW u \in persists
      PROVE  /\ u.fill.order.seq <= o.seq
             /\ u.fill.order.seq = o.seq => u.fill.order.index < o.index
  <2>1. u.fill \in fills /\ u.fill.life = life
    BY DEF UniqueInv, Unique, Known
  <2>2. Passed(u.fill.order)
    BY <1>0, <1>1, <2>1
  <2> QED
    BY <1>0, <2>2 DEF Passed
<1> QED
  BY <1>3, <1>4, <1>5

LEMMA UniqueBooked ==
    ASSUME UniqueInv, NEW o, NEW f, NEW t, Booked(o, f, t)
    PROVE  Unique'
<1>0. /\ fills' = fills \cup {f} /\ persists' = persists \cup {t} /\ t.fill = f
      /\ f.order = o /\ f.life = life /\ o.seq = lastSeq /\ o.index = index
      /\ index' = index + 1 /\ pc = "trading" /\ Running
      /\ UNCHANGED <<lastSeq, pc, life, dbFills, unsaved>>
  BY DEF Booked, Running, dbVars, historyVars
<1>1. ~Booting' /\ pc' # "restoring"
  BY <1>0 DEF Booting
<1>t. /\ index \in Int /\ lastSeq \in Int /\ life \in Int
      /\ \A g \in fills \cup dbFills : g.order.index \in Int
  BY DEF UniqueInv, FillInv, TypeInv, TypeOK, Fills, Orders
<1>2. ASSUME NEW g \in fills' \cup dbFills'
      PROVE  /\ g.life <= life'
             /\ Passed(g.order)' \/ (g.life < life' /\ g.order.seq \in unsaved')
  <2>1. CASE g \in fills \cup dbFills
    <3>1. /\ g.life <= life
          /\ Passed(g.order) \/ (g.life < life /\ g.order.seq \in unsaved)
      BY <1>0, <2>1 DEF UniqueInv, Unique, Known
    <3>2. Passed(g.order) => Passed(g.order)'
      BY <1>0, <1>t, <2>1 DEF Passed
    <3> QED
      BY <1>0, <3>1, <3>2
  <2>2. CASE g = f
    BY <1>0, <1>t, <2>2 DEF Passed
  <2> QED
    BY <1>0, <1>2, <2>1, <2>2
<1>3. \A u \in persists' : u.fill \in fills' /\ u.fill.life = life'
  BY <1>0 DEF UniqueInv, Unique, Known
<1>4. Known'
  BY <1>1, <1>2, <1>3 DEF Known
<1>5. Once'
  <2> SUFFICES ASSUME NEW g \in fills' \cup dbFills', NEW h \in fills' \cup dbFills',
                      g.order.seq = h.order.seq, g.order.index = h.order.index
               PROVE  g = h \/ (g.life # h.life /\ g.order.seq \in unsaved')
    BY DEF Once
  <2>1. CASE g \in fills \cup dbFills /\ h \in fills \cup dbFills
    BY <1>0, <2>1 DEF UniqueInv, Unique, Once
  <2>2. CASE g = f /\ h \in fills \cup dbFills
    BY <1>0, <2>2, BookedIsNew
  <2>3. CASE h = f /\ g \in fills \cup dbFills
    BY <1>0, <2>3, BookedIsNew
  <2> QED
    BY <1>0, <2>1, <2>2, <2>3
<1> QED
  BY <1>4, <1>5 DEF Unique

LEMMA UniqueNext ==
    ASSUME UniqueInv, [Next]_vars
    PROVE  UniqueInv'
<1>0. CoverInv' /\ FillInv'
  BY CoverNext, FillNext DEF UniqueInv
<1> SUFFICES Unique'
  BY <1>0 DEF UniqueInv
<1>p. \A t \in persists : t.fill \in fills
  BY DEF UniqueInv, Unique, Known
<1>b. Booting => fills = {} /\ positions = Flat
  BY DEF UniqueInv, Unique, Known
\* A step that leaves the book alone and adds no fill but that of a task.
<1>q. ASSUME UNCHANGED <<lastSeq, positions, fills, life>>,
             dbFills' \subseteq fills \cup dbFills,
             Booting' => Booting, pc' = "restoring" => pc = "restoring",
             Running' => Running,
             pc' = "trading" => pc = "trading" /\ (index' = index \/ index' = index + 1),
             \A t \in persists' : \E u \in persists : t.fill = u.fill
      PROVE  Unique'
  BY <1>q, <1>p, <1>b, UniqueQuiet
<1>1. CASE Boot
  BY <1>1, UniqueBoot
<1>2. CASE RestoreState
  BY <1>2, UniqueRestore
<1>3. CASE RestoreFails
  <2>1. /\ fills' = fills /\ ~Booting' /\ ~Running' /\ pc' = "finalFlush"
        /\ UNCHANGED <<life, persists, dbFills>>
    BY <1>3 DEF RestoreFails, Booting, Running, engineVars, taskVars, dbVars
  <2> QED
    BY <1>p, <2>1, UniqueQuiet
<1>4. CASE \E s \in Sequences : OnMarketEvent(s)
  BY <1>4, UniqueMarketEvent
<1>5. CASE Trade
  <2>1. ASSUME NEW symbol \in Symbols, NEW side \in Sides, PassOver(symbol, side)
        PROVE  Unique'
    BY <1>q, <2>1 DEF PassOver, Booting, Running, engineVars, taskVars, dbVars
  <2>2. ASSUME NEW symbol \in Symbols, NEW side \in Sides, NEW q \in Quantities,
               Execute(symbol, side, q)
        PROVE  Unique'
    BY <2>2, ExecuteBooks, UniqueBooked DEF UniqueInv, FillInv
  <2> QED
    BY <1>5, <2>1, <2>2 DEF Trade
<1>6. CASE TradingRaises \/ CandleDone \/ StreamEnds \/ RequestStop
  BY <1>6, <1>q DEF TradingRaises, CandleDone, StreamEnds, RequestStop, Booting, Running,
                    engineVars, taskVars, dbVars
<1>7. CASE FlushDone \/ CheckpointSaved \/ CheckpointFails
  BY <1>7, <1>q DEF FlushDone, CheckpointSaved, CheckpointCommits, CheckpointFails,
                    CheckpointRaised, Booting, Running, engineVars, dbVars
<1>8. CASE \E s \in saves : SaveTask(s)
  <2>1. /\ UNCHANGED <<engineVars, life, persists, dbFills, index>>
        /\ pc' = pc \/ (pc \in {"flushing", "finalFlush"} /\ pc' \in {"finalFlush", "stopped"})
    BY <1>8 DEF SaveTask, BeginSave, BusySave, SaveDone, SaveCommits, SaveFails, SaveRaised,
                TaskRaised, CheckpointRaised, loopVars, dbVars
  <2> QED
    BY <2>1, <1>q DEF Booting, Running, engineVars
<1>9. ASSUME NEW t \in persists, PersistTask(t)
      PROVE  Unique'
  <2>1. CASE BeginPersist(t) \/ BusyPersist(t) \/ PersistFails(t)
    <3>1. /\ UNCHANGED <<engineVars, life, dbFills, index>>
          /\ pc' = pc \/ (pc \in {"flushing", "finalFlush"} /\ pc' \in {"finalFlush", "stopped"})
          /\ persists' \subseteq persists
      BY <2>1 DEF BeginPersist, BusyPersist, PersistFails, PersistRaised, TaskRaised,
                  CheckpointRaised, loopVars, dbVars
    <3> QED
      BY <3>1, <1>q DEF Booting, Running, engineVars
  <2>2. CASE PersistDone(t)
    <3>1. /\ PersistCommits(t) /\ UNCHANGED <<engineVars, life, pc, index>>
          /\ persists' = Advanced(t)
      BY <2>2 DEF PersistDone, loopVars
    <3>2. \A u \in persists' : u \in persists \/ u.fill = t.fill
      BY <3>1, AdvancedTasks DEF UniqueInv, FillInv
    <3>3. dbFills' \subseteq fills \cup dbFills
      BY <1>p, <3>1 DEF PersistCommits
    <3> QED
      BY <3>1, <3>2, <3>3, <1>q DEF Booting, Running, engineVars
  <2> QED
    BY <1>9, <2>1, <2>2 DEF PersistTask
<1>10. CASE Crash \/ Exit
  <2>1. InProgressCommits /\ LoseMemory /\ UNCHANGED life
    BY <1>10 DEF Crash, Exit
  <2>2. dbFills' \subseteq fills \cup dbFills
    BY <2>1, <1>p DEF InProgressCommits, SaveCommits, PersistCommits, CheckpointCommits, dbVars
  <2> QED
    BY <2>1, <2>2, UniqueQuiet DEF LoseMemory, Booting, Running
<1>11. CASE UNCHANGED vars
  BY <1>11, <1>q DEF vars, engineVars, taskVars, loopVars, dbVars, Booting, Running
<1> QED
  BY <1>1, <1>2, <1>3, <1>4, <1>5, <1>6, <1>7, <1>8, <1>9, <1>10, <1>11 DEF Next

LEMMA UniqueInit == Init => UniqueInv
BY CoverInit, FillInit DEF Init, UniqueInv, Unique, Known, Once, Booting, Running

\* Over all restarts, kills, failing writes and loads, one request of one candle is
\* filled at most once by a process, and a second process fills it again only if the
\* state of its candle could not be written, so that the source delivers it again.
THEOREM FilledAtMostOnce == Spec => []DurableFillUnique
<1>1. UniqueInv /\ [Next]_vars => UniqueInv'
  BY UniqueNext
<1>2. UniqueInv => DurableFillUnique
  BY DEF UniqueInv, Unique, Once, DurableFillUnique
<1> QED
  BY <1>1, <1>2, UniqueInit, PTL DEF Spec

-----------------------------------------------------------------------------
(***************************************************************************)
(* The tasks take turns.  A task that has the connection is behind every   *)
(* earlier task by a statement, so the tasks stay in the order in which    *)
(* they were created, statement by statement.                              *)
(***************************************************************************)
Rank(t) ==
    CASE t.next = "order" -> 0
      [] t.next = "fill" -> 1
      [] t.next = "position" -> 2
      [] t.next = "state" -> 3

Earlier(t, u) == PersistId(t) # PersistId(u) /\ Precedes(PersistId(t), PersistId(u))

Holder ==
    \/ conn.by \in {Nobody, Checkpointer}
    \/ \E s \in saves : conn.by = <<s, 0>>
    \/ \E t \in persists : conn.by = PersistId(t)

InTurn ==
    /\ Holder
    /\ \A t, u \in persists : PersistId(t) = PersistId(u) => t = u
    /\ \A t, u \in persists : Earlier(t, u) => Rank(t) >= Rank(u)
    /\ \A t, u \in persists : Earlier(t, u) /\ conn.by = PersistId(u) => Rank(t) > Rank(u)

TurnInv == UniqueInv /\ InTurn

LEMMA RankType ==
    ASSUME NEW t \in Persists
    PROVE  /\ Rank(t) \in 0 .. 3
           /\ \A u \in Persists : Rank(t) = Rank(u) => t.next = u.next
           /\ t.next # "state" =>
                 /\ [t EXCEPT !.next = Following(t.next)] \in Persists
                 /\ [t EXCEPT !.next = Following(t.next)].next = Following(t.next)
                 /\ [t EXCEPT !.next = Following(t.next)].fill = t.fill
                 /\ [t EXCEPT !.next = Following(t.next)].position = t.position
                 /\ Rank([t EXCEPT !.next = Following(t.next)]) = Rank(t) + 1
<1>1. \A u \in Persists : u.next \in {"order", "fill", "position", "state"}
  BY DEF Persists, Statements
<1>2. Rank(t) \in 0 .. 3 /\ \A u \in Persists : Rank(t) = Rank(u) => t.next = u.next
  BY <1>1 DEF Rank
<1>3. ASSUME t.next # "state"
      PROVE  /\ Following(t.next) \in {"fill", "position", "state"}
             /\ \A u : u.next = Following(t.next) => Rank(u) = Rank(t) + 1
  BY <1>1, <1>3 DEF Following, Rank
<1>4. ASSUME NEW n \in Statements
      PROVE  /\ [t EXCEPT !.next = n] \in Persists
             /\ [t EXCEPT !.next = n].next = n
             /\ [t EXCEPT !.next = n].fill = t.fill
             /\ [t EXCEPT !.next = n].position = t.position
  BY DEF Persists
<1> QED
  BY <1>2, <1>3, <1>4 DEF Statements

LEMMA RankNat == \A t \in Persists : Rank(t) \in Nat /\ Rank(t) \in Int /\ Rank(t) >= 0
<1> SUFFICES ASSUME NEW t \in Persists PROVE Rank(t) \in Nat
  OBVIOUS
<1>1. t.next \in {"order", "fill", "position", "state"}
  BY DEF Persists, Statements
<1> QED
  BY <1>1 DEF Rank

\* Ids are pairs of numbers, which Precedes orders.
LEMMA EarlierOrders ==
    ASSUME TypeInv, NEW t \in persists, NEW u \in persists
    PROVE  /\ ~(Earlier(t, u) /\ Earlier(u, t))
           /\ PersistId(t) = PersistId(u) \/ Earlier(t, u) \/ Earlier(u, t)
           /\ Precedes(PersistId(t), PersistId(u)) => ~Earlier(u, t)
<1>1. /\ PersistId(t) = <<t.fill.order.seq, t.fill.order.index>>
      /\ PersistId(u) = <<u.fill.order.seq, u.fill.order.index>>
      /\ t.fill.order.seq \in Nat /\ t.fill.order.index \in Nat
      /\ u.fill.order.seq \in Nat /\ u.fill.order.index \in Nat
  BY TaskIdType
<1> QED
  BY <1>1 DEF Earlier, Precedes

\* No task is added or moves on, and a task that has the connection keeps it.
LEMMA TurnQuiet ==
    ASSUME TurnInv, persists' \subseteq persists, Holder',
           \A t \in persists' : conn'.by = PersistId(t) => conn.by = PersistId(t)
    PROVE  InTurn'
BY DEF TurnInv, InTurn

\* Neither a save nor a checkpoint is an execution.
LEMMA TaskIdsDiffer ==
    ASSUME TypeInv
    PROVE  \A t \in persists : /\ PersistId(t) \notin {Nobody, Checkpointer}
                              /\ \A s : PersistId(t) # <<s, 0>>
<1>1. \A t \in persists : /\ PersistId(t) = <<t.fill.order.seq, t.fill.order.index>>
                          /\ t.fill.order.seq \in Nat \ {0}
                          /\ t.fill.order.index \in Nat \ {0}
  BY TaskIdType, ConstantsAssumption
<1> QED
  BY <1>1 DEF Nobody, Checkpointer

LEMMA TurnBegin ==
    ASSUME TurnInv, NEW t \in persists, BeginPersist(t)
    PROVE  InTurn'
<1>0. persists' = persists /\ conn'.by = PersistId(t) /\ conn.by = Nobody
  BY DEF BeginPersist, Idle
<1>t. TypeInv /\ persists \subseteq Persists
  BY DEF TurnInv, UniqueInv, FillInv, TypeInv, TypeOK
<1>1. ASSUME NEW v \in persists, NEW u \in persists, Earlier(v, u), PersistId(u) = PersistId(t)
      PROVE  Rank(v) > Rank(u)
  <2>1. u = t
    BY <1>1 DEF TurnInv, InTurn
  <2>2. Rank(v) >= Rank(t) /\ Rank(v) \in Int /\ Rank(t) \in Int
    BY <1>1, <1>t, <2>1, RankNat DEF TurnInv, InTurn
  <2>3. ASSUME Rank(v) = Rank(t) PROVE FALSE
    <3>1. v.next = t.next
      BY <1>t, <2>3, RankType
    <3>2. PersistId(v) # Nobody
      BY <1>t, TaskIdType DEF Nobody
    <3>3. PersistId(v) \in Waiting(t.next)
      BY <1>0, <3>1, <3>2 DEF Waiting
    <3>4. Precedes(PersistId(t), PersistId(v))
      BY <3>3 DEF BeginPersist, MayIssue
    <3>5. ~Earlier(v, t)
      BY <1>t, <3>4, EarlierOrders
    <3> QED
      BY <1>1, <2>1, <3>5
  <2> QED
    BY <2>1, <2>2, <2>3
<1> QED
  BY <1>0, <1>1 DEF TurnInv, InTurn, Holder

LEMMA TurnBooked ==
    ASSUME TurnInv, NEW o, NEW f, NEW t, Booked(o, f, t)
    PROVE  /\ InTurn'
           /\ \A u \in persists : Earlier(u, t) /\ ~Earlier(t, u)
<1>t. TypeInv /\ persists \subseteq Persists /\ t \in Persists
  BY DEF TurnInv, UniqueInv, FillInv, TypeInv, TypeOK, Booked
<1>0. /\ persists' = persists \cup {t} /\ conn' = conn /\ saves' = saves
      /\ PersistId(t) = <<o.seq, o.index>> /\ o.seq \in Nat \ {0} /\ o.index \in Nat \ {0}
      /\ Rank(t) = 0
  BY ConstantsAssumption DEF Booked, PersistId, Rank, Orders, Sequences
<1>1. ASSUME NEW u \in persists
      PROVE  Earlier(u, t) /\ ~Earlier(t, u)
  <2>2. /\ u.fill.order.seq <= o.seq
        /\ u.fill.order.seq = o.seq => u.fill.order.index < o.index
    BY BookedIsNew DEF TurnInv
  <2>3. /\ PersistId(u) = <<u.fill.order.seq, u.fill.order.index>>
        /\ u.fill.order.seq \in Nat /\ u.fill.order.index \in Nat
    BY <1>t, TaskIdType
  <2> QED
    BY <1>0, <2>2, <2>3 DEF Earlier, Precedes
<1>2. conn.by # PersistId(t)
  <2>1. \A u \in persists : PersistId(u) # PersistId(t)
    BY <1>1 DEF Earlier
  <2> QED
    BY <1>0, <2>1 DEF TurnInv, InTurn, Holder, Nobody, Checkpointer
<1>3. \A u \in persists : Rank(u) >= Rank(t)
  BY <1>0, <1>t, RankNat
<1>4. ~Earlier(t, t)
  BY DEF Earlier
<1>5. \A u \in persists : PersistId(u) # PersistId(t)
  BY <1>1 DEF Earlier
<1>6. Holder'
  BY <1>0 DEF TurnInv, InTurn, Holder
<1>7. InTurn'
  BY <1>0, <1>1, <1>2, <1>3, <1>4, <1>5, <1>6 DEF TurnInv, InTurn
<1> QED
  BY <1>1, <1>7

\* A task that goes on to its next statement.
Moved(t) == [t EXCEPT !.next = Following(t.next)]

LEMMA MovedId ==
    ASSUME NEW t \in Persists, t.next # "state"
    PROVE  /\ PersistId(Moved(t)) = PersistId(t)
           /\ \A u : /\ Earlier(u, Moved(t)) <=> Earlier(u, t)
                     /\ Earlier(Moved(t), u) <=> Earlier(t, u)
<1>1. Moved(t).fill = t.fill
  BY RankType DEF Moved
<1>2. PersistId(Moved(t)) = PersistId(t)
  BY <1>1 DEF PersistId
<1> QED
  BY <1>2 DEF Earlier

LEMMA TurnDone ==
    ASSUME TurnInv, NEW t \in persists, PersistDone(t)
    PROVE  InTurn'
<1>t. TypeInv /\ persists \subseteq Persists
  BY DEF TurnInv, UniqueInv, FillInv, TypeInv, TypeOK
<1>0. conn'.by = Nobody /\ conn.by = PersistId(t)
  BY DEF PersistDone, PersistCommits, Idle
<1>1. CASE t.next = "state"
  <2>1. persists' \subseteq persists
    BY <1>1 DEF PersistDone, Advanced
  <2>2. \A u \in persists : PersistId(u) # Nobody
    BY <1>t, TaskIdType DEF Nobody
  <2> QED
    BY <1>0, <2>1, <2>2 DEF TurnInv, InTurn, Holder
<1>2. CASE t.next # "state"
  <2> DEFINE w == Moved(t)
  <2>0. /\ persists' = (persists \ {t}) \cup {w}
        /\ PersistId(w) = PersistId(t) /\ w \in Persists
        /\ Rank(w) = Rank(t) + 1 /\ Rank(t) \in Int
        /\ \A u : (Earlier(u, w) <=> Earlier(u, t)) /\ (Earlier(w, u) <=> Earlier(t, u))
    BY <1>t, <1>2, RankType, MovedId DEF PersistDone, Advanced, Moved
  <2> HIDE DEF w
  <2>1. \A u \in persists : Rank(u) \in Int
    BY <1>t, RankNat
  <2>2. \A u \in persists : PersistId(u) = PersistId(w) => u = t
    BY <2>0 DEF TurnInv, InTurn
  <2>3. \A u \in persists : Earlier(u, w) => Rank(u) >= Rank(w)
    <3> TAKE u \in persists
    <3>1. Earlier(u, w) => Rank(u) > Rank(t)
      BY <1>0, <2>0 DEF TurnInv, InTurn
    <3> QED
      BY <2>0, <2>1, <3>1
  <2>4. \A u \in persists : Earlier(w, u) => Rank(w) >= Rank(u)
    <3> TAKE u \in persists
    <3>1. Earlier(w, u) => Rank(t) >= Rank(u)
      BY <2>0 DEF TurnInv, InTurn
    <3> QED
      BY <2>0, <2>1, <3>1
  <2>5. ~Earlier(w, w)
    BY DEF Earlier
  <2>6. \A u \in persists' : PersistId(u) # Nobody
    BY <1>t, <2>0, TaskIdType DEF Nobody
  <2>7. Holder'
    BY <1>0 DEF Holder
  <2>8. \A v, u \in persists' : PersistId(v) = PersistId(u) => v = u
    BY <2>0, <2>2 DEF TurnInv, InTurn
  <2>9. \A v, u \in persists' : Earlier(v, u) => Rank(v) >= Rank(u)
    BY <2>0, <2>3, <2>4, <2>5 DEF TurnInv, InTurn
  <2> QED
    BY <1>0, <2>6, <2>7, <2>8, <2>9 DEF InTurn
<1> QED
  BY <1>1, <1>2

LEMMA TurnNext ==
    ASSUME TurnInv, [Next]_vars
    PROVE  TurnInv'
<1>0. UniqueInv'
  BY UniqueNext DEF TurnInv
<1> SUFFICES InTurn'
  BY <1>0 DEF TurnInv
<1>t. TypeInv /\ TypeInv'
  BY <1>0 DEF TurnInv, UniqueInv, FillInv
<1>d. \A t \in persists : /\ PersistId(t) \notin {Nobody, Checkpointer}
                          /\ \A s : PersistId(t) # <<s, 0>>
  BY <1>t, TaskIdsDiffer
\* The connection is free, or not a task's.
<1>f. ASSUME persists' \subseteq persists,
             conn'.by \in {Nobody, Checkpointer} \/ \E s \in saves' : conn'.by = <<s, 0>>
      PROVE  InTurn'
  BY <1>f, <1>d, TurnQuiet DEF Holder
\* The connection stays with who has it.
<1>k. ASSUME persists' \subseteq persists, UNCHANGED conn,
             \A t \in persists \ persists' : conn.by # PersistId(t),
             \A s \in saves \ saves' : conn.by # <<s, 0>>
      PROVE  InTurn'
  <2>1. Holder'
    BY <1>k DEF TurnInv, InTurn, Holder
  <2> QED
    BY <1>k, <2>1, TurnQuiet
<1>1. CASE \/ Boot \/ RestoreState \/ RestoreFails \/ TradingRaises \/ CandleDone
           \/ RequestStop \/ StreamEnds
  BY <1>1, <1>k DEF Boot, RestoreState, RestoreFails, TradingRaises, CandleDone, RequestStop,
                    StreamEnds, taskVars
<1>2. CASE \E s \in Sequences : OnMarketEvent(s)
  BY <1>2, <1>k DEF OnMarketEvent
<1>3. CASE Trade
  <2>1. ASSUME NEW symbol \in Symbols, NEW side \in Sides, PassOver(symbol, side)
        PROVE  InTurn'
    BY <2>1, <1>k DEF PassOver, taskVars
  <2>2. ASSUME NEW symbol \in Symbols, NEW side \in Sides, NEW q \in Quantities,
               Execute(symbol, side, q)
        PROVE  InTurn'
    BY <1>t, <2>2, ExecuteBooks, TurnBooked
  <2> QED
    BY <1>3, <2>1, <2>2 DEF Trade
<1>4. CASE FlushDone \/ CheckpointSaved \/ CheckpointFails
  BY <1>4, <1>f DEF FlushDone, CheckpointSaved, CheckpointFails, Idle
<1>5. ASSUME NEW s \in saves, SaveTask(s)
      PROVE  InTurn'
  <2>1. CASE BeginSave(s)
    BY <2>1, <1>f DEF BeginSave
  <2>2. CASE BusySave(s)
    BY <2>2, <1>k DEF BusySave, SaveRaised, MayIssue, Waiting
  <2>3. CASE SaveDone(s) \/ SaveFails(s)
    BY <2>3, <1>f DEF SaveDone, SaveFails, Idle
  <2> QED
    BY <1>5, <2>1, <2>2, <2>3 DEF SaveTask
<1>6. ASSUME NEW t \in persists, PersistTask(t)
      PROVE  InTurn'
  <2>1. CASE BusyPersist(t)
    <3>1. conn.by # PersistId(t)
      BY <2>1 DEF BusyPersist, MayIssue, Waiting
    <3> QED
      BY <2>1, <3>1, <1>k DEF BusyPersist, PersistRaised
  <2>2. CASE PersistFails(t)
    BY <2>2, <1>f DEF PersistFails, PersistRaised, Idle
  <2> QED
    BY <1>6, <2>1, <2>2, TurnBegin, TurnDone DEF PersistTask
<1>7. CASE Crash \/ Exit
  BY <1>7, <1>f DEF Crash, Exit, LoseMemory, Idle
<1>8. CASE UNCHANGED vars
  BY <1>8, <1>k DEF vars, taskVars
<1> QED
  BY <1>1, <1>2, <1>3, <1>4, <1>5, <1>6, <1>7, <1>8 DEF Next

LEMMA TurnInit == Init => TurnInv
BY UniqueInit DEF Init, TurnInv, InTurn, Holder, Idle

-----------------------------------------------------------------------------
(* Induction, over sets instead of predicates.                             *)

\* A set of numbers with 0 and every successor has all numbers: the least
\* number outside of it would have a predecessor.
LEMMA SetInduction ==
    ASSUME NEW T \in SUBSET Nat, 0 \in T, \A n \in T : n + 1 \in T
    PROVE  T = Nat
<1> SUFFICES ASSUME Nat \ T # {} PROVE FALSE
  OBVIOUS
<1>1. PICK m \in Nat \ T : \A k \in Nat \ T : ~(<<k, m>> \in OpToRel(<, Nat))
  BY NatLessThanWellFounded, WFMin, Zenon
<1>2. m - 1 \in Nat /\ m - 1 \in T => m \in T
  OBVIOUS
<1>3. m - 1 \in Nat
  OBVIOUS
<1>4. <<m - 1, m>> \in OpToRel(<, Nat)
  BY <1>3 DEF OpToRel
<1> QED
  BY <1>1, <1>2, <1>3, <1>4

\* A set of subsets with the empty one, and with each subset whose parts
\* without one element it has, has all subsets.
LEMMA SubsetInduction ==
    ASSUME NEW S, IsFiniteSet(S), NEW T \in SUBSET (SUBSET S), {} \in T,
           \A s \in SUBSET S : s # {} /\ (\A x \in s : s \ {x} \in T) => s \in T
    PROVE  T = SUBSET S
<1> DEFINE N == {n \in Nat : \A s \in SUBSET S : Cardinality(s) <= n => s \in T}
<1>0. \A s \in SUBSET S : IsFiniteSet(s) /\ Cardinality(s) \in Nat
  BY FS_Subset, FS_CardinalityType
<1>1. 0 \in N
  <2>1. ASSUME NEW s \in SUBSET S, Cardinality(s) <= 0 PROVE s \in T
    <3>0. IsFiniteSet(s) /\ Cardinality(s) \in Nat
      BY <1>0
    <3>1. Cardinality(s) = 0
      BY <3>0, <2>1
    <3>2. s = {}
      BY <3>0, <3>1, FS_EmptySet, Zenon
    <3> QED
      BY <3>2
  <2> QED
    BY <2>1
<1>2. ASSUME NEW n \in N PROVE n + 1 \in N
  <2>1. ASSUME NEW s \in SUBSET S, Cardinality(s) <= n + 1 PROVE s \in T
    <3>0. IsFiniteSet(s) /\ Cardinality(s) \in Nat
      BY <1>0
    <3>1. ASSUME NEW x \in s PROVE s \ {x} \in T
      <4>1. Cardinality(s \ {x}) = Cardinality(s) - 1
        BY <3>0, FS_RemoveElement
      <4>2. Cardinality(s \ {x}) <= n
        BY <2>1, <3>0, <4>1
      <4> QED
        BY <4>2
    <3> QED
      BY <3>1
  <2> QED
    BY <2>1
<1>3. N = Nat
  <2> HIDE DEF N
  <2>1. N \in SUBSET Nat
    BY DEF N
  <2> QED
    BY <1>1, <1>2, <2>1, SetInduction
<1>4. ASSUME NEW s \in SUBSET S PROVE s \in T
  BY <1>0, <1>3
<1> QED
  BY <1>4

-----------------------------------------------------------------------------
(***************************************************************************)
(* The net of a set of fills is the fold of MapThenSumSet: its recursion   *)
(* equation, and that the fills can be taken out in any order.             *)
(***************************************************************************)
First(s) == CHOOSE x \in s : TRUE

\* One step of the summation over the subsets of a set.
Summed(f, s) == IF s = {} THEN 0 ELSE SignedQuantity(First(s)) + f[s \ {First(s)}]

Sums(S) == CHOOSE f : f = [s \in SUBSET S |-> Summed(f, s)]

LEMMA NetIsSums ==
    ASSUME NEW S PROVE MapThenSumSet(SignedQuantity, S) = Sums(S)[S]
  BY DEF MapThenSumSet, MapThenFoldSet, Sums, Summed, First

\* A set is summed after its elements were taken out one at a time; a function
\* that sums all subsets of up to n elements gives one for n + 1.
LEMMA SumsExist ==
    ASSUME NEW S, IsFiniteSet(S), \A x \in S : SignedQuantity(x) \in Int
    PROVE  \E f \in [SUBSET S -> Int] : f = [s \in SUBSET S |-> Summed(f, s)]
<1> DEFINE Upto(f, n) == \A s \in SUBSET S : Cardinality(s) <= n => f[s] = Summed(f, s)
           T == {n \in Nat : \E f \in [SUBSET S -> Int] : Upto(f, n)}
<1>0. \A s \in SUBSET S :
        /\ IsFiniteSet(s) /\ Cardinality(s) \in Nat
        /\ s # {} => /\ First(s) \in s /\ s \ {First(s)} \in SUBSET S
                     /\ Cardinality(s \ {First(s)}) = Cardinality(s) - 1
                     /\ SignedQuantity(First(s)) \in Int
  <2> TAKE s \in SUBSET S
  <2>1. IsFiniteSet(s) /\ Cardinality(s) \in Nat
    BY FS_Subset, FS_CardinalityType
  <2>2. s # {} => First(s) \in s
    BY DEF First
  <2>3. Cardinality(s \ {First(s)}) = IF First(s) \in s THEN Cardinality(s) - 1 ELSE Cardinality(s)
    BY <2>1, FS_RemoveElement
  <2> QED
    BY <2>1, <2>2, <2>3
<1>1. 0 \in T
  <2> DEFINE f == [s \in SUBSET S |-> 0]
  <2>1. f \in [SUBSET S -> Int]
    OBVIOUS
  <2>2. ASSUME NEW s \in SUBSET S, Cardinality(s) <= 0 PROVE f[s] = Summed(f, s)
    <3>1. s = {}
      <4>0. IsFiniteSet(s) /\ Cardinality(s) \in Nat
        BY <1>0
      <4>1. Cardinality(s) = 0
        BY <4>0, <2>2
      <4> QED
        BY <4>0, <4>1, FS_EmptySet, Zenon
    <3> QED
      BY <3>1 DEF Summed
  <2> QED
    BY <2>1, <2>2
<1>2. ASSUME NEW n \in T PROVE n + 1 \in T
  <2>1. PICK f \in [SUBSET S -> Int] : Upto(f, n)
    OBVIOUS
  <2> DEFINE g == [s \in SUBSET S |-> Summed(f, s)]
  <2>2. g \in [SUBSET S -> Int]
    <3>1. ASSUME NEW s \in SUBSET S PROVE Summed(f, s) \in Int
      <4>1. CASE s = {}
        BY <4>1 DEF Summed
      <4>2. CASE s # {}
        <5>1. SignedQuantity(First(s)) \in Int /\ f[s \ {First(s)}] \in Int
          BY <1>0, <4>2
        <5> QED
          BY <4>2, <5>1 DEF Summed
      <4> QED
        BY <4>1, <4>2
    <3> QED
      BY <3>1
  <2>3. ASSUME NEW s \in SUBSET S, Cardinality(s) <= n + 1 PROVE g[s] = Summed(g, s)
    <3>1. CASE s = {}
      BY <3>1 DEF Summed
    <3>2. CASE s # {}
      <4> DEFINE r == s \ {First(s)}
      <4>1. r \in SUBSET S /\ Cardinality(r) <= n
        BY <1>0, <2>3, <3>2
      <4>2. g[r] = f[r]
        BY <2>1, <4>1
      <4>3. g[s] = SignedQuantity(First(s)) + f[r]
        BY <3>2 DEF Summed
      <4> QED
        BY <3>2, <4>2, <4>3 DEF Summed
    <3> QED
      BY <3>1, <3>2
  <2>4. n + 1 \in Nat
    OBVIOUS
  <2> QED
    BY <2>2, <2>3, <2>4
<1>3. T = Nat
  <2> HIDE DEF T
  <2>1. T \in SUBSET Nat
    BY DEF T
  <2> QED
    BY <1>1, <1>2, <2>1, SetInduction
<1>4. PICK f \in [SUBSET S -> Int] : Upto(f, Cardinality(S))
  <2>1. Cardinality(S) \in T
    BY <1>3, FS_CardinalityType
  <2> QED
    BY <2>1
<1>5. \A s \in SUBSET S : f[s] = Summed(f, s)
  <2> TAKE s \in SUBSET S
  <2>1. Cardinality(s) <= Cardinality(S)
    BY FS_Subset
  <2> QED
    BY <1>4, <2>1
<1>6. f = [s \in SUBSET S |-> Summed(f, s)]
  BY <1>5
<1> QED
  BY <1>6

\* The recursion equation of the sum.
LEMMA SumsEquation ==
    ASSUME NEW S, IsFiniteSet(S), \A x \in S : SignedQuantity(x) \in Int
    PROVE  /\ Sums(S)[{}] = 0
           /\ \A s \in SUBSET S : s # {} =>
                Sums(S)[s] = SignedQuantity(First(s)) + Sums(S)[s \ {First(s)}]
<1> DEFINE g == Sums(S)
<1>1. g = [s \in SUBSET S |-> Summed(g, s)]
  BY SumsExist DEF Sums
<1> HIDE DEF g
<1>2. \A s \in SUBSET S : g[s] = Summed(g, s)
  BY <1>1
<1>3. g[{}] = 0
  BY <1>2 DEF Summed
<1>4. \A s \in SUBSET S : s # {} => g[s] = SignedQuantity(First(s)) + g[s \ {First(s)}]
  BY <1>2 DEF Summed
<1> QED
  BY <1>3, <1>4 DEF g

\* The sum is a number, and any element can be taken out of it.
LEMMA SumsRemove ==
    ASSUME NEW S, IsFiniteSet(S), \A x \in S : SignedQuantity(x) \in Int
    PROVE  /\ \A s \in SUBSET S : Sums(S)[s] \in Int
           /\ \A s \in SUBSET S : \A x \in s : Sums(S)[s] = SignedQuantity(x) + Sums(S)[s \ {x}]
<1> DEFINE g == Sums(S)
           T == {s \in SUBSET S : g[s] \in Int}
           U == {s \in SUBSET S : \A x \in s : g[s] = SignedQuantity(x) + g[s \ {x}]}
<1>0. /\ g[{}] = 0
      /\ \A s \in SUBSET S : s # {} => First(s) \in s /\ g[s] = SignedQuantity(First(s)) + g[s \ {First(s)}]
  BY SumsEquation DEF First
<1> HIDE DEF g
<1>1. T = SUBSET S
  <2>1. {} \in T
    BY <1>0
  <2>2. ASSUME NEW s \in SUBSET S, s # {}, \A x \in s : s \ {x} \in T PROVE s \in T
    <3>1. First(s) \in s /\ SignedQuantity(First(s)) \in Int /\ g[s \ {First(s)}] \in Int
      BY <1>0, <2>2
    <3>2. g[s] = SignedQuantity(First(s)) + g[s \ {First(s)}]
      BY <1>0, <2>2
    <3>3. g[s] \in Int
      BY <3>1, <3>2
    <3> QED
      BY <3>3
  <2>3. T \in SUBSET (SUBSET S)
    OBVIOUS
  <2> HIDE DEF T
  <2> QED
    BY <2>1, <2>2, <2>3, SubsetInduction
<1>2. U = SUBSET S
  <2>1. {} \in U
    OBVIOUS
  <2>2. ASSUME NEW s \in SUBSET S, s # {}, \A x \in s : s \ {x} \in U PROVE s \in U
    <3>1. ASSUME NEW x \in s PROVE g[s] = SignedQuantity(x) + g[s \ {x}]
      <4> DEFINE p == First(s)
                 r == s \ {x, p}
      <4>0. p \in s /\ g[s] = SignedQuantity(p) + g[s \ {p}]
        BY <1>0, <2>2
      <4> HIDE DEF p
      <4>1. CASE x = p
        BY <4>0, <4>1
      <4>2. CASE x # p
        <5>1. (s \ {p}) \ {x} = r /\ (s \ {x}) \ {p} = r
          OBVIOUS
        <5>2. g[s \ {p}] = SignedQuantity(x) + g[r]
          BY <2>2, <4>0, <4>2, <5>1
        <5>3. g[s \ {x}] = SignedQuantity(p) + g[r]
          BY <2>2, <4>0, <4>2, <5>1
        <5>4. SignedQuantity(x) \in Int /\ SignedQuantity(p) \in Int /\ g[r] \in Int
          <6>1. r \in SUBSET S
            OBVIOUS
          <6> QED
            BY <4>0, <1>1, <6>1
        <5> HIDE DEF r
        <5> QED
          BY <4>0, <5>2, <5>3, <5>4
      <4> QED
        BY <4>1, <4>2
    <3> QED
      BY <3>1
  <2>3. U \in SUBSET (SUBSET S)
    OBVIOUS
  <2> HIDE DEF U
  <2> QED
    BY <2>1, <2>2, <2>3, SubsetInduction
<1> QED
  BY <1>1, <1>2 DEF g

\* The sum of a set does not depend on the set it was taken from.
LEMMA SumsAgree ==
    ASSUME NEW S, IsFiniteSet(S), \A x \in S : SignedQuantity(x) \in Int, NEW R \in SUBSET S
    PROVE  Sums(S)[R] = Sums(R)[R]
<1> DEFINE f == Sums(S)
           g == Sums(R)
           T == {s \in SUBSET R : f[s] = g[s]}
<1>0. IsFiniteSet(R)
  BY FS_Subset
<1>1. /\ f[{}] = 0
      /\ \A s \in SUBSET S : s # {} => f[s] = SignedQuantity(First(s)) + f[s \ {First(s)}]
  BY SumsEquation
<1>2. /\ g[{}] = 0
      /\ \A s \in SUBSET R : s # {} => g[s] = SignedQuantity(First(s)) + g[s \ {First(s)}]
  BY <1>0, SumsEquation
<1> HIDE DEF f, g
<1>3. {} \in T
  BY <1>1, <1>2
<1>4. ASSUME NEW s \in SUBSET R, s # {}, \A x \in s : s \ {x} \in T PROVE s \in T
  <2>1. First(s) \in s
    BY <1>4 DEF First
  <2>2. f[s \ {First(s)}] = g[s \ {First(s)}]
    BY <1>4, <2>1
  <2>3. f[s] = SignedQuantity(First(s)) + f[s \ {First(s)}]
    BY <1>1, <1>4
  <2>4. g[s] = SignedQuantity(First(s)) + g[s \ {First(s)}]
    BY <1>2, <1>4
  <2> QED
    BY <2>2, <2>3, <2>4
<1>5. T \in SUBSET (SUBSET R)
  OBVIOUS
<1>6. T = SUBSET R
  <2> HIDE DEF T
  <2> QED
    BY <1>0, <1>3, <1>4, <1>5, SubsetInduction
<1> QED
  BY <1>6 DEF f, g

-----------------------------------------------------------------------------
(***************************************************************************)
(* What is written.  A fill that the engine booked is in its table or      *)
(* still with a task, unless that task raised.  No task is left when a     *)
(* checkpoint is recorded, and none is added before the next candle.       *)
(***************************************************************************)
BooksWritten ==
    /\ \A f \in fills \ raised : f \in dbFills \/ \E t \in persists : t.fill = f
    /\ \A t \in persists : t.fill \in dbFills <=> t.next \in {"position", "state"}

Flushed ==
    /\ Booting => lastCheckpoint = 0
    /\ lastCheckpoint <= lastSeq
    /\ pc = "trading" => lastCheckpoint < lastSeq
    /\ lastCheckpoint = lastSeq => persists = {}
    /\ pc \in {"saving", "finalSave"} => persists = {}

WrittenInv == TurnInv /\ BooksWritten /\ Flushed

\* A fill has one task.
LEMMA OneTask ==
    ASSUME TurnInv, NEW t \in persists, NEW u \in persists, t.fill = u.fill
    PROVE  t = u
BY DEF TurnInv, InTurn, PersistId

\* The tasks after the statement of t has returned.
LEMMA AfterDone ==
    ASSUME TypeInv, NEW t \in persists
    PROVE  /\ t.next = "state" => Advanced(t) = persists \ {t}
           /\ t.next # "state" =>
                \E w \in Persists : /\ Advanced(t) = (persists \ {t}) \cup {w}
                                    /\ w.fill = t.fill /\ w.position = t.position
                                    /\ w.next = Following(t.next)
           /\ t.next \in {"order", "fill", "position", "state"}
           /\ t \in Persists
           /\ Following("order") = "fill"
           /\ Following("fill") = "position"
           /\ Following("position") = "state"
<1>1. t \in Persists
  BY DEF TypeInv, TypeOK
<1>2. ASSUME t.next # "state"
      PROVE  \E w \in Persists : /\ Advanced(t) = (persists \ {t}) \cup {w}
                                 /\ w.fill = t.fill /\ w.position = t.position
                                 /\ w.next = Following(t.next)
  <2> DEFINE w == [t EXCEPT !.next = Following(t.next)]
  <2>1. /\ w \in Persists /\ w.fill = t.fill /\ w.position = t.position
        /\ w.next = Following(t.next)
    BY <1>1, <1>2, RankType
  <2>2. Advanced(t) = (persists \ {t}) \cup {w}
    BY <1>2 DEF Advanced
  <2> QED
    BY <2>1, <2>2
<1> QED
  BY <1>1, <1>2 DEF Advanced, Following, Persists, Statements

LEMMA BooksBooked ==
    ASSUME WrittenInv, NEW o, NEW f, NEW t, Booked(o, f, t)
    PROVE  BooksWritten' /\ Flushed'
<1>1. f \notin fills \cup dbFills
  BY BookedIsNew DEF WrittenInv, TurnInv
<1>2. /\ fills' = fills \cup {f} /\ persists' = persists \cup {t}
      /\ t.fill = f /\ t.next = "order" /\ pc = "trading"
      /\ UNCHANGED <<raised, dbFills, lastSeq, lastCheckpoint, pc>>
  BY DEF Booked, dbVars, historyVars
<1>3. BooksWritten'
  BY <1>1, <1>2 DEF WrittenInv, BooksWritten
<1>4. lastCheckpoint \in Int /\ lastSeq \in Int
  BY DEF WrittenInv, TurnInv, UniqueInv, FillInv, TypeInv, TypeOK
<1> QED
  BY <1>2, <1>3, <1>4 DEF WrittenInv, Flushed, Booting

\* When a statement has taken effect, the tasks still tell what is written.
LEMMA BooksCommitted ==
    ASSUME WrittenInv, NEW t \in persists, PersistCommits(t)
    PROVE  /\ \A u \in Advanced(t) : u.fill \in dbFills' <=> u.next \in {"position", "state"}
           /\ \A f \in fills \ raised : f \in dbFills' \/ \E u \in Advanced(t) : u.fill = f
<1>t. TypeInv
  BY DEF WrittenInv, TurnInv, UniqueInv, FillInv
<1>1. \A u \in persists : u.fill = t.fill => u = t
  BY OneTask DEF WrittenInv
<1>2. CASE t.next = "state"
  BY <1>t, <1>2, AfterDone DEF PersistCommits, WrittenInv, BooksWritten
<1>3. CASE t.next # "state"
  <2> PICK w \in Persists :
         /\ Advanced(t) = (persists \ {t}) \cup {w}
         /\ w.fill = t.fill /\ w.next = Following(t.next)
    BY <1>t, <1>3, AfterDone
  <2>1. CASE t.next = "order"
    <3>1. dbFills' = dbFills /\ w.next = "fill"
      BY <1>t, <2>1, AfterDone DEF PersistCommits
    <3> QED
      BY <2>1, <3>1 DEF WrittenInv, BooksWritten
  <2>2. CASE t.next = "fill"
    <3>1. dbFills' = dbFills \cup {t.fill} /\ w.next = "position"
      BY <1>t, <2>2, AfterDone DEF PersistCommits
    <3> QED
      BY <1>1, <2>2, <3>1 DEF WrittenInv, BooksWritten
  <2>3. CASE t.next = "position"
    <3>1. dbFills' = dbFills /\ w.next = "state"
      BY <1>t, <2>3, AfterDone DEF PersistCommits
    <3> QED
      BY <2>3, <3>1 DEF WrittenInv, BooksWritten
  <2> QED
    BY <1>t, <1>3, <2>1, <2>2, <2>3, AfterDone
<1> QED
  BY <1>2, <1>3

LEMMA BooksDone ==
    ASSUME WrittenInv, NEW t \in persists, PersistDone(t)
    PROVE  BooksWritten'
<1>0. /\ PersistCommits(t) /\ persists' = Advanced(t) /\ UNCHANGED <<fills, raised>>
  BY DEF PersistDone, engineVars, historyVars
<1> QED
  BY <1>0, BooksCommitted DEF BooksWritten

LEMMA BooksRaised ==
    ASSUME WrittenInv, NEW t \in persists, PersistRaised(t), UNCHANGED <<fills, dbFills>>
    PROVE  BooksWritten'
<1>1. persists' = persists \ {t} /\ raised' = raised \cup {t.fill}
  BY DEF PersistRaised
<1> QED
  BY <1>1 DEF WrittenInv, BooksWritten

\* What a step does to the checkpoint, unless it starts a candle or records one.
LEMMA FlushedQuiet ==
    ASSUME WrittenInv, UNCHANGED <<lastSeq, lastCheckpoint>>,
           persists = {} => persists' = {}, Booting' => Booting,
           pc' = "trading" => pc = "trading",
           pc' \in {"saving", "finalSave"} => persists' = {} \/ pc' = pc
    PROVE  Flushed'
BY DEF WrittenInv, Flushed

LEMMA WrittenNext ==
    ASSUME WrittenInv, [Next]_vars
    PROVE  WrittenInv'
<1>0. TurnInv'
  BY TurnNext DEF WrittenInv
<1>s. lastSeq \in Int /\ lastSeq' \in Int /\ lastCheckpoint \in Int
  BY <1>0 DEF WrittenInv, TurnInv, UniqueInv, FillInv, TypeInv, TypeOK
<1>b. Booting => persists = {} /\ fills = {} /\ lastCheckpoint = 0 /\ lastSeq >= 0
  BY DEF WrittenInv, Flushed, TurnInv, UniqueInv, CoverInv, SeqInv, SeqBound, Unique, Known,
         TypeInv, TypeOK
<1>q. ASSUME UNCHANGED <<fills, persists, raised, dbFills>> PROVE BooksWritten'
  BY <1>q DEF WrittenInv, BooksWritten
<1> SUFFICES BooksWritten' /\ Flushed'
  BY <1>0 DEF WrittenInv
<1>1. CASE Boot
  BY <1>1, <1>q, FlushedQuiet DEF Boot, Booting, engineVars, taskVars, dbVars, historyVars
<1>2. CASE RestoreState
  <2>1. /\ persists' = {} /\ ~Booting' /\ pc' \in {"streaming", "finalFlush"}
        /\ fills' = {} \/ fills' \subseteq dbFills'
    BY <1>2, <1>b DEF RestoreState, FromDatabase, Booting, engineVars, taskVars, dbVars
  <2>2. lastCheckpoint' <= lastSeq'
    BY <1>2, <1>b DEF RestoreState, FromDatabase, Booting, engineVars, WrittenInv, TurnInv,
                      UniqueInv, FillInv, TypeInv, TypeOK, NoRow
  <2> QED
    BY <2>1, <2>2 DEF BooksWritten, Flushed
<1>3. CASE RestoreFails
  <2>1. /\ persists' = {} /\ fills' = {} /\ ~Booting' /\ pc' = "finalFlush"
    BY <1>3, <1>b DEF RestoreFails, Booting, engineVars, taskVars
  <2>2. lastCheckpoint' <= lastSeq'
    BY <1>3, <1>b DEF RestoreFails, Booting, engineVars, WrittenInv, TurnInv, UniqueInv,
                      FillInv, TypeInv, TypeOK, NoRow
  <2> QED
    BY <2>1, <2>2 DEF BooksWritten, Flushed
<1>4. ASSUME NEW s \in Sequences, OnMarketEvent(s)
      PROVE  BooksWritten' /\ Flushed'
  <2>1. /\ UNCHANGED <<fills, persists, raised, dbFills, lastCheckpoint>>
        /\ lastSeq < lastSeq' /\ pc' = "trading"
    BY <1>4 DEF OnMarketEvent, dbVars, historyVars
  <2>2. lastCheckpoint' < lastSeq' /\ lastCheckpoint' <= lastSeq' /\ lastCheckpoint' # lastSeq'
    BY <1>s, <2>1 DEF WrittenInv, Flushed
  <2> QED
    BY <1>q, <2>1, <2>2 DEF Flushed, Booting
<1>5. CASE Trade
  <2>1. ASSUME NEW symbol \in Symbols, NEW side \in Sides, PassOver(symbol, side)
        PROVE  BooksWritten' /\ Flushed'
    BY <1>q, <2>1, FlushedQuiet DEF PassOver, Booting, engineVars, taskVars, dbVars,
                                    historyVars
  <2>2. ASSUME NEW symbol \in Symbols, NEW side \in Sides, NEW q \in Quantities,
               Execute(symbol, side, q)
        PROVE  BooksWritten' /\ Flushed'
    BY <2>2, ExecuteBooks, BooksBooked DEF WrittenInv, TurnInv, UniqueInv, FillInv
  <2> QED
    BY <1>5, <2>1, <2>2 DEF Trade
<1>6. CASE TradingRaises \/ CandleDone \/ RequestStop \/ StreamEnds
  BY <1>6, <1>q, FlushedQuiet
     DEF TradingRaises, CandleDone, RequestStop, StreamEnds, Booting, engineVars, taskVars,
         dbVars, historyVars
<1>7. CASE FlushDone
  BY <1>7, <1>q, FlushedQuiet DEF FlushDone, Booting, engineVars, dbVars, historyVars
<1>8. CASE CheckpointSaved
  <2>1. /\ UNCHANGED <<fills, persists, raised, dbFills, lastSeq>>
        /\ persists = {} /\ lastCheckpoint' = lastSeq /\ pc' \in {"streaming", "stopped"}
    BY <1>8 DEF CheckpointSaved, CheckpointCommits, WrittenInv, Flushed, engineVars
  <2> QED
    BY <1>s, <1>q, <2>1 DEF Flushed, Booting
<1>9. CASE CheckpointFails
  BY <1>9, <1>q, FlushedQuiet DEF CheckpointFails, CheckpointRaised, Booting, engineVars,
                                  dbVars, historyVars
<1>10. ASSUME NEW s \in saves, SaveTask(s)
       PROVE  BooksWritten' /\ Flushed'
  <2>1. /\ UNCHANGED <<fills, persists, raised, dbFills, lastSeq, lastCheckpoint>>
        /\ pc' = pc \/ pc' \in {"finalFlush", "stopped"}
    BY <1>10 DEF SaveTask, BeginSave, BusySave, SaveDone, SaveCommits, SaveFails, SaveRaised,
                 TaskRaised, CheckpointRaised, engineVars, loopVars, dbVars, historyVars
  <2> QED
    BY <1>q, <2>1, FlushedQuiet DEF Booting
<1>11. ASSUME NEW t \in persists, PersistTask(t)
       PROVE  BooksWritten' /\ Flushed'
  <2>1. CASE BeginPersist(t)
    BY <2>1, <1>q, FlushedQuiet
       DEF BeginPersist, Booting, engineVars, loopVars, dbVars, historyVars
  <2>2. CASE BusyPersist(t) \/ PersistFails(t)
    <3>1. /\ PersistRaised(t) /\ UNCHANGED <<fills, dbFills, lastSeq, lastCheckpoint>>
      BY <2>2 DEF BusyPersist, PersistFails, engineVars, dbVars
    <3>2. /\ persists' \subseteq persists
          /\ pc' = pc \/ pc' \in {"finalFlush", "stopped"}
      BY <3>1 DEF PersistRaised, TaskRaised, CheckpointRaised
    <3> QED
      BY <3>1, <3>2, BooksRaised, FlushedQuiet DEF Booting
  <2>3. CASE PersistDone(t)
    BY <2>3, BooksDone, FlushedQuiet DEF PersistDone, Booting, engineVars, loopVars
  <2> QED
    BY <1>11, <2>1, <2>2, <2>3 DEF PersistTask
<1>12. CASE Crash \/ Exit
  BY <1>12 DEF Crash, Exit, LoseMemory, BooksWritten, Flushed
<1>13. CASE UNCHANGED vars
  BY <1>13, <1>q, FlushedQuiet DEF vars, engineVars, taskVars, loopVars, dbVars, historyVars,
                                   Booting
<1> QED
  BY <1>1, <1>2, <1>3, <1>4, <1>5, <1>6, <1>7, <1>8, <1>9, <1>10, <1>11, <1>12, <1>13 DEF Next

LEMMA WrittenInit == Init => WrittenInv
BY TurnInit DEF Init, WrittenInv, BooksWritten, Flushed


-----------------------------------------------------------------------------
(***************************************************************************)
(* Positions and fills.  The position that the database has of a symbol is *)
(* the net of the fills that are settled: written, and with no task that   *)
(* has the position still to write.  Each such task carries the net up to  *)
(* its fill, and the engine trades on the net of them all.  A symbol is    *)
(* torn, and said nothing about, when one of its tasks raised before it    *)
(* wrote the position or was killed between the fill and the position.     *)
(***************************************************************************)
Of(S, x) == {f \in S : f.order.symbol = x}

Total(S) == MapThenSumSet(SignedQuantity, S)

\* The tasks T that have yet to write the position of x, and their fills.
Unwritten(T, x) == {t \in T : t.fill.order.symbol = x /\ t.next # "state"}

Missing(T, x) == {t.fill : t \in Unwritten(T, x)}

Settled(S, T, x) == Of(S, x) \ Missing(T, x)

\* A fill was made before another: by an earlier candle, or an earlier request.
Comes(f, g) ==
    \/ f.order.seq < g.order.seq
    \/ (f.order.seq = g.order.seq /\ f.order.index < g.order.index)

Upto(S, T, x, f) == Settled(S, T, x) \cup {g \in Missing(T, x) : ~Comes(f, g)}

\* The engine has read the tables back, or has found none.
Sees == Running \/ fills # {}

NetOf(x) ==
    /\ dbPositions[x] = Total(Settled(dbFills, persists, x))
    /\ \A t \in Unwritten(persists, x) :
          t.position = Total(Upto(dbFills, persists, x, t.fill))
    /\ Sees => /\ Of(fills, x) = Settled(dbFills, persists, x) \cup Missing(persists, x)
               /\ positions[x] = Total(Of(fills, x))

Netted ==
    /\ IsFiniteSet(fills) /\ IsFiniteSet(dbFills)
    /\ \A x \in Symbols \ torn : NetOf(x)

NetInv == WrittenInv /\ Netted

LEMMA SignedType ==
    ASSUME NEW f \in Fills PROVE SignedQuantity(f) \in Int
<1>1. f.quantity \in Quantities
  BY DEF Fills
<1>2. f.quantity \in Int /\ - f.quantity \in Int
  <2> DEFINE q == f.quantity
  <2>1. q \in Nat
    BY <1>1, ConstantsAssumption
  <2> HIDE DEF q
  <2>2. q \in Int /\ - q \in Int
    BY <2>1
  <2> QED
    BY <2>2 DEF q
<1> QED
  BY <1>2 DEF SignedQuantity

LEMMA TotalEmpty == Total({}) = 0
<1>1. IsFiniteSet({})
  BY FS_EmptySet
<1>2. Sums({})[{}] = 0
  BY <1>1, SumsEquation
<1> QED
  BY <1>2, NetIsSums DEF Total

\* A new fill moves the total by its signed quantity.
LEMMA TotalAdds ==
    ASSUME NEW A \in SUBSET Fills, IsFiniteSet(A), NEW f \in Fills, f \notin A
    PROVE  /\ Total(A) \in Int
           /\ Total(A \cup {f}) = SignedQuantity(f) + Total(A)
<1> DEFINE B == A \cup {f}
<1>1. IsFiniteSet(B) /\ B \in SUBSET Fills /\ A \in SUBSET B /\ f \in B /\ B \ {f} = A
  BY FS_AddElement
<1>2. Total(A) = Sums(A)[A] /\ Total(B) = Sums(B)[B]
  BY NetIsSums DEF Total
<1> HIDE DEF B
<1>3. Sums(A)[A] \in Int
  BY SignedType, SumsRemove
<1>4. Sums(B)[B] = SignedQuantity(f) + Sums(B)[B \ {f}]
  BY <1>1, SignedType, SumsRemove
<1>5. Sums(B)[A] = Sums(A)[A]
  BY <1>1, SignedType, SumsAgree
<1> QED
  BY <1>1, <1>2, <1>3, <1>4, <1>5 DEF B

\* The order of the fills is the order of their tasks.
LEMMA ComesEarlier ==
    ASSUME TypeInv, NEW t \in persists, NEW u \in persists
    PROVE  Comes(t.fill, u.fill) <=> Earlier(t, u)
<1>1. /\ PersistId(t) = <<t.fill.order.seq, t.fill.order.index>>
      /\ PersistId(u) = <<u.fill.order.seq, u.fill.order.index>>
      /\ t.fill.order.seq \in Nat /\ t.fill.order.index \in Nat
      /\ u.fill.order.seq \in Nat /\ u.fill.order.index \in Nat
  BY TaskIdType
<1> QED
  BY <1>1 DEF Earlier, Precedes, Comes

\* A step that leaves one symbol's books alone.
LEMMA NetFrame ==
    ASSUME NEW x, NetOf(x),
           Missing(persists', x) = Missing(persists, x),
           Settled(dbFills', persists', x) = Settled(dbFills, persists, x),
           dbPositions'[x] = dbPositions[x],
           \A u \in Unwritten(persists', x) : \E t \in Unwritten(persists, x) :
              u.fill = t.fill /\ u.position = t.position,
           Sees' => Sees /\ Of(fills', x) = Of(fills, x) /\ positions'[x] = positions[x]
    PROVE  NetOf(x)'
BY DEF NetOf, Upto

\* A step that leaves all of the books alone.
LEMMA NetQuiet ==
    ASSUME NetInv, UNCHANGED <<positions, fills, persists, dbPositions, dbFills>>,
           Running' => Running, torn \subseteq torn'
    PROVE  Netted'
<1>1. \A x \in Symbols \ torn' : NetOf(x)'
  BY NetFrame DEF NetInv, Netted, Sees
<1> QED
  BY <1>1 DEF NetInv, Netted

LEMMA NetBooked ==
    ASSUME NetInv, NEW symbol \in Symbols, NEW side \in Sides, NEW q \in Quantities,
           Execute(symbol, side, q)
    PROVE  Netted'
<1>t. TypeInv
  BY DEF NetInv, WrittenInv, TurnInv, UniqueInv, FillInv
<1> PICK o, f, t :
       /\ Booked(o, f, t)
       /\ o.symbol = symbol /\ o.side = side /\ f.quantity = q
       /\ t.position = FilledQuantity(symbol, side, q)
       /\ positions' = [positions EXCEPT ![symbol] = FilledQuantity(symbol, side, q)]
  BY <1>t, ExecuteBooks
<1>0. /\ fills' = fills \cup {f} /\ persists' = persists \cup {t}
      /\ t.fill = f /\ t.next = "order" /\ f.order = o /\ f \in Fills /\ t \in Persists
      /\ UNCHANGED <<dbFills, dbPositions, torn, pc>> /\ pc = "trading"
  BY DEF Booked, dbVars, historyVars
<1>1. /\ f \notin fills \cup dbFills
      /\ \A u \in persists : Comes(u.fill, f) /\ ~Comes(f, u.fill)
  <2>1. /\ f \notin fills \cup dbFills
        /\ \A u \in persists : /\ u.fill.order.seq <= o.seq
                               /\ u.fill.order.seq = o.seq => u.fill.order.index < o.index
    BY BookedIsNew DEF NetInv, WrittenInv, TurnInv
  <2>2. o.seq \in Nat /\ o.index \in Nat
    BY ConstantsAssumption DEF Booked, Orders, Sequences
  <2>3. \A u \in persists : u.fill.order.seq \in Nat /\ u.fill.order.index \in Nat
    BY <1>t, TaskIdType
  <2> QED
    BY <1>0, <2>1, <2>2, <2>3 DEF Comes
<1>2. Sees /\ ~Comes(f, f) /\ Running'
  <2>1. o.seq \in Nat /\ o.index \in Nat
    BY ConstantsAssumption DEF Booked, Orders, Sequences
  <2> QED
    BY <1>0, <2>1 DEF Sees, Running, Comes
<1>3. IsFiniteSet(fills') /\ IsFiniteSet(dbFills')
  BY <1>0, FS_AddElement DEF NetInv, Netted
<1>4. ASSUME NEW x \in Symbols \ torn, x # symbol PROVE NetOf(x)'
  <2>1. /\ Unwritten(persists', x) = Unwritten(persists, x)
        /\ Of(fills', x) = Of(fills, x)
    BY <1>0, <1>4 DEF Unwritten, Of
  <2>2. positions'[x] = positions[x]
    BY <1>t, <1>4 DEF TypeInv, TypeOK
  <2> QED
    BY <1>0, <1>2, <1>4, <2>1, <2>2, NetFrame DEF NetInv, Netted, Missing, Settled
<1>5. ASSUME symbol \notin torn PROVE NetOf(symbol)'
  <2> DEFINE x == symbol
             M == Missing(persists, x)
             Z == Settled(dbFills, persists, x)
  <2>1. NetOf(x)
    BY <1>5 DEF NetInv, Netted
  <2>2. /\ Unwritten(persists', x) = Unwritten(persists, x) \cup {t}
        /\ Missing(persists', x) = M \cup {f}
        /\ Of(fills', x) = Of(fills, x) \cup {f}
    BY <1>0 DEF Unwritten, Missing, Of
  <2>3. Settled(dbFills', persists', x) = Z
    BY <1>0, <1>1, <2>2 DEF Settled, Of
  <2>4. Of(fills, x) = Z \cup M /\ positions[x] = Total(Of(fills, x))
    BY <1>2, <2>1 DEF NetOf
  <2>5. FilledQuantity(x, side, q) = Total(Of(fills', x))
    <3>1. IsFiniteSet(Of(fills, x)) /\ Of(fills, x) \in SUBSET Fills /\ f \notin Of(fills, x)
      <4>1. Of(fills, x) \in SUBSET fills
        BY DEF Of
      <4> QED
        BY <1>1, <1>t, <4>1, FS_Subset DEF NetInv, Netted, TypeInv, TypeOK
    <3>2. Total(Of(fills, x) \cup {f}) = SignedQuantity(f) + positions[x]
      BY <1>0, <2>4, <3>1, TotalAdds
    <3>3. positions[x] \in Int /\ q \in Int
      BY <1>t, ConstantsAssumption DEF TypeInv, TypeOK
    <3>4. SignedQuantity(f) = IF side = "BUY" THEN q ELSE - q
      BY <1>0 DEF SignedQuantity
    <3> QED
      BY <2>2, <3>2, <3>3, <3>4 DEF FilledQuantity
  <2> HIDE DEF M, Z
  <2>6. \A u \in Unwritten(persists, x) :
           /\ u \in persists /\ Comes(u.fill, f)
           /\ u.position = Total(Z \cup {g \in M : ~Comes(u.fill, g)})
    BY <1>1, <2>1 DEF NetOf, Upto, Unwritten, M, Z
  <2>7. \A g \in M : ~Comes(f, g)
    BY <1>1 DEF M, Missing, Unwritten
  <2>8. ASSUME NEW u \in Unwritten(persists', x)
        PROVE  u.position = Total(Upto(dbFills', persists', x, u.fill))
    <3>1. CASE u \in Unwritten(persists, x)
      <4>1. {g \in M \cup {f} : ~Comes(u.fill, g)} = {g \in M : ~Comes(u.fill, g)}
        BY <2>6, <3>1
      <4> QED
        BY <2>2, <2>3, <2>6, <3>1, <4>1 DEF Upto
    <3>2. CASE u = t
      <4>1. {g \in M \cup {f} : ~Comes(f, g)} = M \cup {f}
        BY <1>2, <2>7
      <4>2. Upto(dbFills', persists', x, f) = Of(fills', x)
        BY <2>2, <2>3, <2>4, <4>1 DEF Upto
      <4> QED
        BY <1>0, <2>5, <3>2, <4>2
    <3> QED
      BY <2>2, <2>8, <3>1, <3>2
  <2>9. positions'[x] = Total(Of(fills', x))
    BY <1>t, <2>5 DEF TypeInv, TypeOK
  <2>10. dbPositions'[x] = Total(Settled(dbFills', persists', x))
    BY <1>0, <2>1, <2>3 DEF NetOf, Z
  <2>11. Of(fills', x) = Settled(dbFills', persists', x) \cup Missing(persists', x)
    BY <2>2, <2>3, <2>4
  <2> QED
    BY <2>8, <2>9, <2>10, <2>11 DEF NetOf
<1>6. torn' = torn
  BY <1>0
<1> QED
  BY <1>3, <1>4, <1>5, <1>6 DEF Netted

\* The position that a task writes is the net up to its fill: it is the first
\* of its symbol that has its position to write.
LEMMA NetPositionWritten ==
    ASSUME NetInv, NEW t \in persists, conn.by = PersistId(t), t.next = "position",
           NEW x \in Symbols \ torn, t.fill.order.symbol = x,
           NEW T, Unwritten(T, x) = Unwritten(persists, x) \ {t}
    PROVE  /\ Missing(T, x) = Missing(persists, x) \ {t.fill}
           /\ Settled(dbFills, T, x) = Settled(dbFills, persists, x) \cup {t.fill}
           /\ t.position = Total(Settled(dbFills, T, x))
           /\ \A u \in Unwritten(T, x) : u.position = Total(Upto(dbFills, T, x, u.fill))
<1> DEFINE M == Missing(persists, x)
           Z == Settled(dbFills, persists, x)
<1>t. TypeInv /\ TurnInv /\ NetOf(x)
  BY DEF NetInv, Netted, WrittenInv, TurnInv, UniqueInv, FillInv
<1>0. t \in Unwritten(persists, x) /\ t.fill \in dbFills /\ t.fill \in Of(dbFills, x)
  BY DEF Unwritten, NetInv, WrittenInv, BooksWritten, Of
<1>1. \A u \in persists : u.fill = t.fill => u = t
  BY <1>t, OneTask
<1>2. ASSUME NEW u \in Unwritten(persists, x), u # t
      PROVE  Comes(t.fill, u.fill) /\ ~Comes(u.fill, t.fill)
  <2>1. u \in persists /\ u.next # "state" /\ u \in Persists /\ t \in Persists
    BY <1>t DEF Unwritten, TypeInv, TypeOK
  <2>2. ~Earlier(u, t)
    <3>1. Rank(t) = 2 /\ Rank(u) \in 0 .. 3 /\ Rank(u) # 3
      BY <2>1 DEF Rank, Persists, Statements
    <3> QED
      BY <1>t, <2>1, <3>1 DEF TurnInv, InTurn
  <2>3. PersistId(u) # PersistId(t)
    BY <1>2, <1>t, <2>1 DEF TurnInv, InTurn
  <2>4. Earlier(t, u)
    BY <1>t, <2>1, <2>2, <2>3, EarlierOrders
  <2> QED
    BY <1>t, <2>1, <2>2, <2>4, ComesEarlier
<1>3. ~Comes(t.fill, t.fill)
  BY <1>t, ComesEarlier DEF Earlier
<1>4. Missing(T, x) = M \ {t.fill}
  BY <1>1 DEF Missing, Unwritten
<1>5. Settled(dbFills, T, x) = Z \cup {t.fill}
  BY <1>0, <1>4 DEF Settled
<1>6. /\ t.fill \in M
      /\ \A g \in M : g # t.fill => Comes(t.fill, g)
  BY <1>0, <1>2 DEF Missing
<1>7. \A u \in Unwritten(persists, x) : u.position = Total(Z \cup {g \in M : ~Comes(u.fill, g)})
  BY <1>t DEF NetOf, Upto
<1> HIDE DEF M, Z
<1>8. {g \in M : ~Comes(t.fill, g)} = {t.fill}
  BY <1>3, <1>6
<1>9. t.position = Total(Settled(dbFills, T, x))
  BY <1>0, <1>5, <1>7, <1>8
<1>10. ASSUME NEW u \in Unwritten(T, x)
       PROVE  u.position = Total(Upto(dbFills, T, x, u.fill))
  <2>1. u \in Unwritten(persists, x) /\ ~Comes(u.fill, t.fill)
    BY <1>2
  <2>2. {g \in M : ~Comes(u.fill, g)} = {t.fill} \cup {g \in M \ {t.fill} : ~Comes(u.fill, g)}
    BY <1>6, <2>1
  <2>3. Upto(dbFills, T, x, u.fill) = Z \cup {g \in M : ~Comes(u.fill, g)}
    BY <1>4, <1>5, <2>2 DEF Upto
  <2> QED
    BY <1>7, <2>1, <2>3
<1> QED
  BY <1>4, <1>5, <1>9, <1>10 DEF M, Z

\* A statement of an execution takes effect.
LEMMA NetCommitted ==
    ASSUME NetInv, NEW t \in persists, PersistCommits(t), NEW x \in Symbols \ torn
    PROVE  /\ Missing(Advanced(t), x) \cup Settled(dbFills', Advanced(t), x)
                 = Missing(persists, x) \cup Settled(dbFills, persists, x)
           /\ dbPositions'[x] = Total(Settled(dbFills', Advanced(t), x))
           /\ \A u \in Unwritten(Advanced(t), x) :
                 u.position = Total(Upto(dbFills', Advanced(t), x, u.fill))
<1>t. TypeInv /\ TurnInv /\ NetOf(x)
  BY DEF NetInv, Netted, WrittenInv, TurnInv, UniqueInv, FillInv
<1>f. \A u \in persists : u.fill = t.fill => u = t
  BY <1>t, OneTask
<1>a. /\ t.next \in {"order", "fill", "position", "state"}
      /\ Following("order") = "fill" /\ Following("fill") = "position"
      /\ Following("position") = "state"
  BY <1>t, AfterDone
\* The tasks have the same positions to write.
<1>s. ASSUME Missing(Advanced(t), x) = Missing(persists, x),
             Settled(dbFills', Advanced(t), x) = Settled(dbFills, persists, x),
             dbPositions'[x] = dbPositions[x],
             \A u \in Unwritten(Advanced(t), x) : \E v \in Unwritten(persists, x) :
                u.fill = v.fill /\ u.position = v.position
      PROVE  /\ dbPositions'[x] = Total(Settled(dbFills', Advanced(t), x))
             /\ \A u \in Unwritten(Advanced(t), x) :
                   u.position = Total(Upto(dbFills', Advanced(t), x, u.fill))
  BY <1>t, <1>s DEF NetOf, Upto
<1>1. CASE t.fill.order.symbol # x
  <2>1. Unwritten(Advanced(t), x) = Unwritten(persists, x)
    BY <1>t, <1>1, <1>a, AfterDone DEF Unwritten
  <2>2. Of(dbFills', x) = Of(dbFills, x) /\ dbPositions'[x] = dbPositions[x]
    BY <1>t, <1>1 DEF PersistCommits, Of, TypeInv, TypeOK
  <2> QED
    BY <1>s, <2>1, <2>2 DEF Missing, Settled
<1>2. CASE t.fill.order.symbol = x /\ t.next = "state"
  <2>1. Unwritten(Advanced(t), x) = Unwritten(persists, x)
    BY <1>t, <1>2, AfterDone DEF Unwritten
  <2>2. dbFills' = dbFills /\ dbPositions' = dbPositions
    BY <1>2 DEF PersistCommits
  <2> QED
    BY <1>s, <2>1, <2>2 DEF Missing, Settled
<1>3. CASE t.fill.order.symbol = x /\ t.next \in {"order", "fill"}
  <2> PICK w \in Persists :
         /\ Advanced(t) = (persists \ {t}) \cup {w}
         /\ w.fill = t.fill /\ w.position = t.position /\ w.next = Following(t.next)
    BY <1>t, <1>3, AfterDone
  <2>1. /\ Unwritten(Advanced(t), x) = (Unwritten(persists, x) \ {t}) \cup {w}
        /\ t \in Unwritten(persists, x)
    BY <1>3, <1>a DEF Unwritten
  <2>2. Missing(Advanced(t), x) = Missing(persists, x) /\ t.fill \in Missing(persists, x)
    BY <2>1 DEF Missing
  <2>3. dbPositions' = dbPositions /\ (dbFills' = dbFills \/ dbFills' = dbFills \cup {t.fill})
    BY <1>3 DEF PersistCommits
  <2>4. Settled(dbFills', Advanced(t), x) = Settled(dbFills, persists, x)
    BY <2>2, <2>3 DEF Settled, Of
  <2> QED
    BY <1>s, <2>1, <2>2, <2>3, <2>4
<1>4. CASE t.fill.order.symbol = x /\ t.next = "position"
  <2> PICK w \in Persists :
         /\ Advanced(t) = (persists \ {t}) \cup {w}
         /\ w.fill = t.fill /\ w.next = "state"
    BY <1>t, <1>4, <1>a, AfterDone
  <2>1. Unwritten(Advanced(t), x) = Unwritten(persists, x) \ {t}
    BY DEF Unwritten
  <2>2. dbFills' = dbFills /\ dbPositions'[x] = t.position /\ conn.by = PersistId(t)
    BY <1>t, <1>4 DEF PersistCommits, TypeInv, TypeOK
  <2>3. t.fill \in Missing(persists, x)
    BY <1>4 DEF Missing, Unwritten
  <2> DEFINE A == Advanced(t)
  <2>0. Unwritten(A, x) = Unwritten(persists, x) \ {t}
    BY <2>1
  <2> HIDE DEF A
  <2>4. /\ Missing(A, x) = Missing(persists, x) \ {t.fill}
        /\ Settled(dbFills, A, x) = Settled(dbFills, persists, x) \cup {t.fill}
        /\ t.position = Total(Settled(dbFills, A, x))
        /\ \A u \in Unwritten(A, x) : u.position = Total(Upto(dbFills, A, x, u.fill))
    <3>1. t.next = "position" /\ t.fill.order.symbol = x /\ conn.by = PersistId(t)
      BY <1>4, <2>2
    <3> QED
      <4>1. x \in Symbols \ torn /\ t \in persists
        OBVIOUS
      <4>2. \A T : Unwritten(T, x) = Unwritten(persists, x) \ {t} =>
            /\ Missing(T, x) = Missing(persists, x) \ {t.fill}
            /\ Settled(dbFills, T, x) = Settled(dbFills, persists, x) \cup {t.fill}
            /\ t.position = Total(Settled(dbFills, T, x))
            /\ \A u \in Unwritten(T, x) : u.position = Total(Upto(dbFills, T, x, u.fill))
        BY <3>1, <4>1, NetPositionWritten
      <4> QED
        BY <2>0, <4>2
  <2>5. Missing(A, x) \cup Settled(dbFills, A, x)
           = Missing(persists, x) \cup Settled(dbFills, persists, x)
    BY <2>3, <2>4
  <2> QED
    BY <2>2, <2>4, <2>5 DEF A
<1> QED
  BY <1>a, <1>1, <1>2, <1>3, <1>4

LEMMA NetDone ==
    ASSUME NetInv, NEW t \in persists, PersistDone(t)
    PROVE  Netted'
<1>0. /\ PersistCommits(t) /\ persists' = Advanced(t)
      /\ UNCHANGED <<positions, fills, pc, torn>>
  BY DEF PersistDone, engineVars, loopVars, historyVars
<1>1. dbFills' = dbFills \/ dbFills' = dbFills \cup {t.fill}
  BY <1>0 DEF PersistCommits
<1>2. IsFiniteSet(fills') /\ IsFiniteSet(dbFills')
  BY <1>0, <1>1, FS_AddElement DEF NetInv, Netted
<1>3. ASSUME NEW x \in Symbols \ torn PROVE NetOf(x)'
  <2>1. Sees' = Sees /\ NetOf(x)
    BY <1>0 DEF Sees, Running, NetInv, Netted
  <2> QED
    BY <1>0, <2>1, NetCommitted DEF NetOf
<1> QED
  BY <1>0, <1>2, <1>3 DEF Netted

\* A task that raises leaves its symbol torn, unless the position was written.
LEMMA NetRaised ==
    ASSUME NetInv, NEW t \in persists, PersistRaised(t),
           UNCHANGED <<positions, fills, dbPositions, dbFills>>, Running' => Running
    PROVE  Netted'
<1>0. /\ persists' = persists \ {t}
      /\ torn \subseteq torn'
      /\ t.next # "state" => t.fill.order.symbol \in torn'
  BY DEF PersistRaised
<1>1. ASSUME NEW x \in Symbols \ torn' PROVE NetOf(x)'
  <2>1. Unwritten(persists', x) = Unwritten(persists, x)
    BY <1>0, <1>1 DEF Unwritten
  <2>2. NetOf(x)
    BY <1>0, <1>1 DEF NetInv, Netted
  <2> QED
    BY <2>1, <2>2, NetFrame DEF Missing, Settled, Sees
<1> QED
  BY <1>1 DEF NetInv, Netted

\* Of a process that ended, the symbols that are not torn have no fill written
\* whose position is not.
LEMMA NothingBetween ==
    ASSUME NEW S, NEW T, NEW x, x \notin Between(T),
           \A u \in T : u.fill \in S => u.next \in {"position", "state"}
    PROVE  Settled(S, T, x) = Of(S, x)
<1>1. \A u \in Unwritten(T, x) : u.fill \notin S
  BY DEF Unwritten, Between
<1> QED
  BY <1>1 DEF Settled, Missing, Of

LEMMA NetKilled ==
    ASSUME NetInv, InProgressCommits, LoseMemory
    PROVE  Netted'
<1>0. /\ persists' = {} /\ fills' = {} /\ ~Sees'
      /\ torn \subseteq torn'
  BY DEF LoseMemory, InProgressCommits, Sees, Running
<1>f. IsFiniteSet({}) /\ \A f : IsFiniteSet(dbFills \cup {f})
  BY FS_EmptySet, FS_AddElement DEF NetInv, Netted
<1>b. \A u \in persists : u.fill \in dbFills => u.next \in {"position", "state"}
  BY DEF NetInv, WrittenInv, BooksWritten
<1>n. \A x \in Symbols \ torn : dbPositions[x] = Total(Settled(dbFills, persists, x))
  BY DEF NetInv, Netted, NetOf
<1>1. /\ IsFiniteSet(dbFills')
      /\ \A x \in Symbols \ torn' : dbPositions'[x] = Total(Of(dbFills', x))
  <2>1. CASE UNCHANGED <<dbPositions, dbFills>> /\ torn' = torn \cup Between(persists)
    <3>1. \A x \in Symbols \ torn' : Settled(dbFills, persists, x) = Of(dbFills, x)
      BY <1>b, <2>1, NothingBetween
    <3> QED
      BY <1>n, <2>1, <3>1 DEF NetInv, Netted
  <2>2. ASSUME NEW t \in persists, PersistCommits(t),
               torn' = torn \cup Between(Advanced(t))
        PROVE  /\ IsFiniteSet(dbFills')
               /\ \A x \in Symbols \ torn' : dbPositions'[x] = Total(Of(dbFills', x))
    <3>1. dbFills' = dbFills \/ dbFills' = dbFills \cup {t.fill}
      BY <2>2 DEF PersistCommits
    <3>2. \A u \in Advanced(t) : u.fill \in dbFills' => u.next \in {"position", "state"}
      BY <2>2, BooksCommitted DEF NetInv
    <3>3. \A x \in Symbols \ torn' : Settled(dbFills', Advanced(t), x) = Of(dbFills', x)
      BY <2>2, <3>2, NothingBetween
    <3>4. \A x \in Symbols \ torn' :
             dbPositions'[x] = Total(Settled(dbFills', Advanced(t), x))
      BY <2>2, NetCommitted
    <3> QED
      BY <1>f, <3>1, <3>3, <3>4 DEF NetInv, Netted
  <2> QED
    BY <2>1, <2>2 DEF InProgressCommits, SaveCommits, CheckpointCommits, dbVars
<1>2. ASSUME NEW x \in Symbols \ torn' PROVE NetOf(x)'
  <2>1. Unwritten(persists', x) = {} /\ Missing(persists', x) = {}
    BY <1>0 DEF Unwritten, Missing
  <2>2. Settled(dbFills', persists', x) = Of(dbFills', x)
    BY <2>1 DEF Settled
  <2> QED
    BY <1>0, <1>1, <2>1, <2>2 DEF NetOf
<1> QED
  BY <1>0, <1>f, <1>1, <1>2 DEF Netted

LEMMA NetRestored ==
    ASSUME NetInv, RestoreState
    PROVE  Netted'
<1>0. /\ persists = {} /\ persists' = {} /\ fills = {} /\ positions = Flat
      /\ UNCHANGED <<dbFills, dbPositions>>
  BY DEF RestoreState, Booting, taskVars, dbVars, NetInv, WrittenInv, TurnInv, UniqueInv,
         CoverInv, SeqInv, SeqBound, Unique, Known
<1>n. /\ \A x : Missing({}, x) = {}
      /\ \A S, x : Settled(S, {}, x) = Of(S, x)
      /\ \A x : Unwritten({}, x) = {}
  BY DEF Missing, Unwritten, Settled
<1>f. IsFiniteSet({})
  BY FS_EmptySet
<1>1. CASE dbSeq = NoRow /\ torn' = torn \cup {f.order.symbol : f \in dbFills}
           /\ UNCHANGED engineVars
  <2>1. ASSUME NEW x \in Symbols \ torn' PROVE NetOf(x)'
    <3>1. Of(dbFills, x) = {} /\ Of(fills, x) = {} /\ positions[x] = 0
      BY <1>0, <1>1, <2>1 DEF Of, Flat
    <3>2. dbPositions[x] = Total(Of(dbFills, x))
      BY <1>0, <1>1, <1>n, <2>1 DEF NetInv, Netted, NetOf
    <3> QED
      BY <1>0, <1>1, <1>n, <3>1, <3>2, TotalEmpty DEF NetOf, engineVars
  <2> QED
    BY <1>0, <1>1, <2>1 DEF NetInv, Netted, engineVars
<1>2. CASE FromDatabase /\ UNCHANGED torn
  <2>1. ASSUME NEW x \in Symbols \ torn' PROVE NetOf(x)'
    <3>1. dbPositions[x] = Total(Of(dbFills, x))
      BY <1>0, <1>2, <1>n, <2>1 DEF NetInv, Netted, NetOf
    <3> QED
      BY <1>0, <1>2, <1>n, <3>1 DEF NetOf, FromDatabase
  <2> QED
    BY <1>0, <1>2, <2>1 DEF NetInv, Netted, FromDatabase
<1> QED
  BY <1>1, <1>2 DEF RestoreState

LEMMA NetNext ==
    ASSUME NetInv, [Next]_vars
    PROVE  NetInv'
<1>0. WrittenInv'
  BY WrittenNext DEF NetInv
<1> SUFFICES Netted'
  BY <1>0 DEF NetInv
<1>1. CASE Boot
  BY <1>1, NetQuiet DEF Boot, Running, engineVars, taskVars, dbVars, historyVars
<1>2. CASE RestoreState
  BY <1>2, NetRestored
<1>3. CASE RestoreFails
  <2>1. /\ UNCHANGED <<fills, persists, dbFills, dbPositions, torn>> /\ ~Running' /\ fills = {}
    BY <1>3 DEF RestoreFails, Running, Booting, engineVars, taskVars, dbVars, historyVars,
                NetInv, WrittenInv, TurnInv, UniqueInv, Unique, Known
  <2>2. \A x \in Symbols \ torn' : NetOf(x)'
    BY <2>1, NetFrame DEF NetInv, Netted, Sees
  <2> QED
    BY <2>1, <2>2 DEF NetInv, Netted
<1>4. CASE \E s \in Sequences : OnMarketEvent(s)
  BY <1>4, NetQuiet DEF OnMarketEvent, Running, dbVars, historyVars
<1>5. CASE Trade
  <2>1. ASSUME NEW symbol \in Symbols, NEW side \in Sides, PassOver(symbol, side)
        PROVE  Netted'
    BY <2>1, NetQuiet DEF PassOver, Running, engineVars, taskVars, dbVars, historyVars
  <2> QED
    BY <1>5, <2>1, NetBooked DEF Trade
<1>6. CASE TradingRaises \/ CandleDone \/ RequestStop \/ StreamEnds
  BY <1>6, NetQuiet DEF TradingRaises, CandleDone, RequestStop, StreamEnds, Running,
                        engineVars, taskVars, dbVars, historyVars
<1>7. CASE FlushDone \/ CheckpointSaved \/ CheckpointFails
  BY <1>7, NetQuiet DEF FlushDone, CheckpointSaved, CheckpointCommits, CheckpointFails,
                        CheckpointRaised, Running, engineVars, dbVars, historyVars
<1>8. ASSUME NEW s \in saves, SaveTask(s)
      PROVE  Netted'
  BY <1>8, NetQuiet
     DEF SaveTask, BeginSave, BusySave, SaveDone, SaveCommits, SaveFails, SaveRaised,
         TaskRaised, CheckpointRaised, Running, engineVars, loopVars, dbVars, historyVars
<1>9. ASSUME NEW t \in persists, PersistTask(t)
      PROVE  Netted'
  <2>1. CASE BeginPersist(t)
    BY <2>1, NetQuiet DEF BeginPersist, Running, engineVars, loopVars, dbVars, historyVars
  <2>2. CASE BusyPersist(t) \/ PersistFails(t)
    <3>1. /\ PersistRaised(t) /\ UNCHANGED <<positions, fills, dbPositions, dbFills>>
          /\ Running' => Running
      BY <2>2 DEF BusyPersist, PersistFails, PersistRaised, TaskRaised, CheckpointRaised,
                  Running, engineVars, dbVars
    <3> QED
      BY <3>1, NetRaised
  <2>3. CASE PersistDone(t)
    BY <2>3, NetDone
  <2> QED
    BY <1>9, <2>1, <2>2, <2>3 DEF PersistTask
<1>10. CASE Crash \/ Exit
  BY <1>10, NetKilled DEF Crash, Exit
<1>11. CASE UNCHANGED vars
  BY <1>11, NetQuiet DEF vars, engineVars, taskVars, loopVars, dbVars, historyVars, Running
<1> QED
  BY <1>1, <1>2, <1>3, <1>4, <1>5, <1>6, <1>7, <1>8, <1>9, <1>10, <1>11 DEF Next

LEMMA NetInit == Init => NetInv
<1> SUFFICES ASSUME Init PROVE Netted
  BY WrittenInit DEF NetInv
<1>0. fills = {} /\ dbFills = {} /\ persists = {} /\ dbPositions = Flat /\ ~Sees
  BY DEF Init, Sees, Running
<1>1. IsFiniteSet({})
  BY FS_EmptySet
<1>2. ASSUME NEW x \in Symbols PROVE NetOf(x)
  <2>1. Unwritten(persists, x) = {} /\ Settled(dbFills, persists, x) = {}
    BY <1>0 DEF Unwritten, Settled, Of
  <2> QED
    BY <1>0, <2>1, TotalEmpty DEF NetOf, Flat
<1> QED
  BY <1>0, <1>1, <1>2 DEF Netted

\* When a checkpoint has recorded the sequence of the engine, the database has every
\* execution that the engine knows, with its order and the position of its symbol,
\* but for the tasks that raised: _flush_pending_writes left none behind.
THEOREM CheckpointAlwaysCovers == Spec => []CheckpointCovers
<1>1. NetInv /\ [Next]_vars => NetInv'
  BY NetNext
<1>2. NetInv => CheckpointCovers
  <2> SUFFICES ASSUME NetInv, lastCheckpoint = lastSeq, NEW f \in fills \ raised
               PROVE  /\ f.order \in dbOrders
                      /\ f \in dbFills
                      /\ f.order.symbol \notin torn =>
                            positions[f.order.symbol] = dbPositions[f.order.symbol]
    BY DEF CheckpointCovers
  <2>1. persists = {}
    BY DEF NetInv, WrittenInv, Flushed
  <2>2. f \in dbFills
    BY <2>1 DEF NetInv, WrittenInv, BooksWritten
  <2>3. f.order \in dbOrders
    BY <2>2 DEF NetInv, WrittenInv, TurnInv, UniqueInv, FillInv, FillsHaveOrders
  <2>4. ASSUME f.order.symbol \notin torn
        PROVE  positions[f.order.symbol] = dbPositions[f.order.symbol]
    <3> DEFINE x == f.order.symbol
    <3>1. x \in Symbols \ torn
      BY <2>2, <2>4 DEF NetInv, WrittenInv, TurnInv, UniqueInv, FillInv, TypeInv, TypeOK,
                        Fills, Orders
    <3>2. NetOf(x) /\ Sees
      BY <3>1 DEF NetInv, Netted, Sees
    <3>3. Missing(persists, x) = {}
      BY <2>1 DEF Missing, Unwritten
    <3> QED
      BY <3>2, <3>3 DEF NetOf
  <2> QED
    BY <2>2, <2>3, <2>4
<1> QED
  BY <1>1, <1>2, NetInit, PTL DEF Spec

\* Through kills, failing writes and restores, the engine trades on the net of the
\* fills it knows, of every symbol whose fills and position were not torn apart.
THEOREM PositionsAlwaysMatchFills == Spec => []PositionsMatchFills
<1>1. NetInv /\ [Next]_vars => NetInv'
  BY NetNext
<1>2. NetInv => PositionsMatchFills
  <2> SUFFICES ASSUME NetInv, pc \in {"streaming", "trading"}, NEW x \in Symbols \ torn
               PROVE  positions[x] = NetFilled(x)
    BY DEF PositionsMatchFills
  <2>1. NetOf(x) /\ Sees
    BY DEF NetInv, Netted, Sees, Running
  <2> QED
    BY <2>1 DEF NetOf, NetFilled, Total, Of
<1> QED
  BY <1>1, <1>2, NetInit, PTL DEF Spec
=============================================================================
