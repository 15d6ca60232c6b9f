------------------------ MODULE MarketPipelineProofs ------------------------
(***************************************************************************)
(* For every set of symbols and every bound: an event that went through    *)
(* the whole pipeline never executes again, and the pipeline is ready only *)
(* when every symbol earned it.  The last part is about the stream that    *)
(* brings candles in: it passes none over.                                 *)
(*                                                                         *)
(* The sequence guard in memory and the durable checkpoint both have to    *)
(* cover the completed events: the first keeps a living process from       *)
(* repeating them, the second the process that is restored from it.  That  *)
(* the durable checkpoint, which may move backwards, still covers them     *)
(* rests on the guard of the event that moves it.                          *)
(***************************************************************************)
EXTENDS MarketPipeline, Integers, FiniteSetTheorems, WellFoundedInduction, TLAPS

Shape ==
    /\ last \in [Symbols -> Nat]
    /\ durable \in [Symbols -> Nat]
    /\ executed \in [Events -> Nat]
    /\ completed \subseteq Events
    /\ failures \in Nat /\ restarts \in Nat
    /\ pc # "idle" => event \in Events

\* The event that holds the lock is beyond the guard of its symbol.
Guarded == pc # "idle" => event.sequence > last[event.symbol]

\* The guard only moves for an event whose checkpoint is durable.
Saved == pc = "mark" => durable[event.symbol] = event.sequence

Covered ==
    \A e \in completed : e.sequence <= last[e.symbol] /\ e.sequence <= durable[e.symbol]

GuardInv == Shape /\ Guarded /\ Saved /\ Covered

-----------------------------------------------------------------------------
\* Nothing is completed when the pipeline is constructed.
LEMMA GuardInit == Init => GuardInv
  BY DEF Init, GuardInv, Shape, Guarded, Saved, Covered

\* Every stage, failure and restart keeps completed events covered.
LEMMA GuardStep == GuardInv /\ [Next]_vars => GuardInv'
<1> SUFFICES ASSUME GuardInv, [Next]_vars PROVE GuardInv'
  OBVIOUS
<1>0. \A e \in Events : e.symbol \in Symbols /\ e.sequence \in Nat
  BY PipelineAssumption DEF Events
<1>1. ASSUME NEW e \in Events, Accept(e) PROVE GuardInv'
  BY <1>1, <1>0 DEF Accept, GuardInv, Shape, Guarded, Saved, Covered, history
<1>2. ASSUME NEW complete \in BOOLEAN, NEW regime \in BOOLEAN, Collected(complete, regime)
      PROVE GuardInv'
  BY <1>2, <1>0 DEF Collected, GuardInv, Shape, Guarded, Saved, Covered, history
<1>3. ASSUME NEW approved \in BOOLEAN, Evaluated(approved) PROVE GuardInv'
  BY <1>3, <1>0 DEF Evaluated, GuardInv, Shape, Guarded, Saved, Covered, history
<1>4. CASE Executed
  BY <1>4, <1>0 DEF Executed, GuardInv, Shape, Guarded, Saved, Covered
<1>5. CASE Persisted
  BY <1>5, <1>0 DEF Persisted, GuardInv, Shape, Guarded, Saved, Covered, history
<1>6. CASE Checkpointed
  BY <1>6, <1>0 DEF Checkpointed, GuardInv, Shape, Guarded, Saved, Covered, history
<1>7. CASE Marked
  BY <1>7, <1>0 DEF Marked, GuardInv, Shape, Guarded, Saved, Covered
<1>8. CASE StageRaises
  BY <1>8, <1>0 DEF StageRaises, GuardInv, Shape, Guarded, Saved, Covered
<1>9. CASE BestEffortCheckpoint
  BY <1>9, <1>0 DEF BestEffortCheckpoint, GuardInv, Shape, Guarded, Saved, Covered, history
<1>10. CASE Restart
  BY <1>10, <1>0 DEF Restart, GuardInv, Shape, Guarded, Saved, Covered, history
<1>11. CASE MartRefreshed \/ Stop \/ UNCHANGED vars \/ \E e \in Events : Ignore(e)
  BY <1>11 DEF MartRefreshed, Stop, Ignore, vars, GuardInv, Shape, Guarded, Saved, Covered, history
<1> QED
  BY <1>1, <1>2, <1>3, <1>4, <1>5, <1>6, <1>7, <1>8, <1>9, <1>10, <1>11 DEF Next

\* Only the event that holds the lock executes, and it is not completed.
LEMMA ExecutesOnlyNew ==
    GuardInv /\ [Next]_vars => \A e \in completed : executed'[e] = executed[e]
<1> SUFFICES ASSUME GuardInv, [Next]_vars, NEW e \in completed
             PROVE  executed'[e] = executed[e]
  OBVIOUS
<1>0. e \in Events /\ e.symbol \in Symbols /\ e.sequence \in Nat
  BY PipelineAssumption DEF Events, GuardInv, Shape
<1>1. ASSUME pc # "idle" PROVE e # event
  BY <1>0, <1>1 DEF GuardInv, Shape, Guarded, Covered
<1>2. CASE Executed
  BY <1>0, <1>1, <1>2 DEF Executed, GuardInv, Shape
<1>3. CASE StageRaises
  BY <1>0, <1>1, <1>3 DEF StageRaises, GuardInv, Shape
<1>4. CASE UNCHANGED executed
  BY <1>4
<1> QED
  BY <1>2, <1>3, <1>4
  DEF Next, vars, history, Ignore, Accept, Collected, Evaluated, Persisted, Checkpointed, Marked,
      BestEffortCheckpoint, MartRefreshed, Stop, Restart

\* A completed event of process_market_event never executes again, over any
\* redelivery, failure, kill and restart.
THEOREM CompletedEventsNeverRepeat == Spec => CompletedNeverRepeats
<1>1. Init => GuardInv
  BY GuardInit
<1>2. GuardInv /\ [Next]_vars => GuardInv'
  BY GuardStep
<1>3. GuardInv /\ [Next]_vars => [\A e \in completed : executed'[e] = executed[e]]_vars
  BY ExecutesOnlyNew
<1> QED
  BY <1>1, <1>2, <1>3, PTL DEF Spec, CompletedNeverRepeats

-----------------------------------------------------------------------------
(* Repeated executions are paid for by faults: a failure or a kill, or the *)
(* one execution that is under way or completed.                           *)

Under(e) == e = event /\ pc \in {"persist", "checkpoint", "mark"}

Paid ==
    \A e \in Events :
        \/ executed[e] <= failures + restarts
        \/ executed[e] <= 1 + failures + restarts /\ (e \in completed \/ Under(e))

PaidInv == GuardInv /\ Paid

\* Executions are only added by the event that holds the lock.
LEMMA PaidStep == PaidInv /\ [Next]_vars => Paid'
<1> SUFFICES ASSUME PaidInv, [Next]_vars, NEW e \in Events
             PROVE  \/ executed'[e] <= failures' + restarts'
                    \/ /\ executed'[e] <= 1 + failures' + restarts'
                       /\ e \in completed' \/ Under(e)'
  BY DEF Paid
<1>0. /\ executed[e] \in Nat /\ failures \in Nat /\ restarts \in Nat
      /\ executed \in [Events -> Nat] /\ completed \subseteq Events
      /\ \/ executed[e] <= failures + restarts
         \/ executed[e] <= 1 + failures + restarts /\ (e \in completed \/ Under(e))
  BY DEF PaidInv, GuardInv, Shape, Paid
<1>1. ASSUME pc # "idle", e \in completed PROVE e # event
  BY <1>1, PipelineAssumption DEF Events, PaidInv, GuardInv, Shape, Guarded, Covered
<1>2. CASE Executed
  BY <1>0, <1>1, <1>2 DEF Executed, Under
<1>3. CASE StageRaises
  BY <1>0, <1>1, <1>3 DEF StageRaises, Under
<1>4. CASE Restart
  BY <1>0, <1>4 DEF Restart, history, Under
<1>5. CASE Marked
  BY <1>0, <1>5 DEF Marked, Under
<1>6. CASE /\ UNCHANGED <<executed, completed, failures, restarts>>
           /\ Under(e) => Under(e)'
  BY <1>0, <1>6
<1>7. ASSUME NEW f \in Events, Accept(f) \/ Ignore(f) PROVE Under(e) => Under(e)'
  BY <1>7 DEF Accept, Ignore, Under, vars
<1>8. ASSUME Persisted \/ Checkpointed \/ BestEffortCheckpoint PROVE Under(e) => Under(e)'
  BY <1>8 DEF Persisted, Checkpointed, BestEffortCheckpoint, Under
<1>9. ASSUME MartRefreshed \/ Stop \/ UNCHANGED vars PROVE Under(e) => Under(e)'
  BY <1>9 DEF MartRefreshed, Stop, Under, vars
<1>10. ASSUME NEW p \in BOOLEAN, NEW q \in BOOLEAN, Collected(p, q) \/ Evaluated(p)
       PROVE  Under(e) => Under(e)'
  BY <1>10 DEF Collected, Evaluated, Under
<1> QED
  BY <1>2, <1>3, <1>4, <1>5, <1>6, <1>7, <1>8, <1>9, <1>10
  DEF Next, vars, history, Ignore, Accept, Collected, Evaluated, Persisted, Checkpointed,
      BestEffortCheckpoint, MartRefreshed, Stop

\* process_market_event executes an event once, and once more for each failed
\* stage or kill at most; a completed event never again.
THEOREM EventsExecuteOnce == Spec => ExecutesOnce
<1>1. Init => PaidInv
  BY GuardInit DEF Init, PaidInv, Paid
<1>2. PaidInv /\ [Next]_vars => PaidInv'
  BY GuardStep, PaidStep DEF PaidInv
<1>3. PaidInv => RepeatsNeedFaults
  BY DEF PaidInv, GuardInv, Shape, Paid, RepeatsNeedFaults
<1> QED
  BY <1>1, <1>2, <1>3, CompletedEventsNeverRepeat, PTL DEF Spec, ExecutesOnce

-----------------------------------------------------------------------------
(* Readiness.  The tracker's state and the readiness facts are moved by    *)
(* different operations; only the end of a collection moves both.          *)

\* PipelineStateTracker shows READY only while every known symbol is ready,
\* the one that appeared with the last event too.
THEOREM ReadyIsEarned == Spec => []ReadyMeansAllReady
<1>1. Init => ReadyMeansAllReady
  BY DEF Init, ReadyMeansAllReady
<1>2. ReadyMeansAllReady /\ [Next]_vars => ReadyMeansAllReady'
  <2> SUFFICES ASSUME ReadyMeansAllReady, [Next]_vars, state' = "READY" PROVE AllReady'
    BY DEF ReadyMeansAllReady
  <2>1. ASSUME NEW complete \in BOOLEAN, NEW regime \in BOOLEAN, Collected(complete, regime)
        PROVE  AllReady'
    BY <2>1 DEF Collected, Decide
  <2>2. CASE UNCHANGED <<state, readiness>>
    BY <2>2 DEF ReadyMeansAllReady, AllReady, IsReady, readiness
  <2>3. ~StageRaises /\ ~Stop /\ ~Restart
    BY DEF StageRaises, Stop, Restart
  <2> QED
    BY <2>1, <2>2, <2>3
    DEF Next, vars, Ignore, Accept, Evaluated, Executed, Persisted, Checkpointed, Marked,
        BestEffortCheckpoint, MartRefreshed
<1> QED
  BY <1>1, <1>2, PTL DEF Spec

-----------------------------------------------------------------------------
(***************************************************************************)
(* The stream of candles in front of the runtime.  BybitPaperMarketData is *)
(* an instance here, with its own names for what both models have.  The    *)
(* argument is about one symbol: with two, candles that close at the same  *)
(* time share the replay guard of the engine, and one of them is dropped.  *)
(***************************************************************************)
CONSTANTS SymbolCount, Alphabetical, FirstClock, MaxClock, WarmupCandles, BackfillBuffer, MaxStarts

VARIABLES clock, dds, lastEmitted, ready, rows, at, engine, saved, start, accepted, starts

Feed == INSTANCE MarketFeed WITH MaxRestarts <- MaxStarts, pc <- at, restarts <- starts

OneSymbol == Feed!FeedAssumption /\ SymbolCount = 1

\* Open times are finitely many and positive.
LEMMA HoursFinite ==
    ASSUME Feed!FeedAssumption
    PROVE  /\ IsFiniteSet(Feed!Hours)
           /\ Feed!Hours \subseteq Nat \ {0}
           /\ \A S \in SUBSET Feed!Hours : IsFiniteSet(S) /\ Cardinality(S) \in Nat
<1>1. MaxClock - 1 \in Int /\ 1 \in Int
  BY DEF Feed!FeedAssumption
<1>2. IsFiniteSet(Feed!Hours)
  BY <1>1, FS_Interval DEF Feed!Hours
<1>3. Feed!Hours \subseteq Nat \ {0}
  BY <1>1 DEF Feed!Hours
<1> QED
  BY <1>2, <1>3, FS_Subset, FS_CardinalityType

\* The operator of the instance is the one the library's theorems are about.
LEMMA SameCardinality == ASSUME NEW S PROVE Feed!Cardinality(S) = Cardinality(S)
  BY DEF Feed!Cardinality, Cardinality

\* The first and the last of some open times.
LEMMA FirstAndLast ==
    ASSUME Feed!FeedAssumption, NEW S \in SUBSET Feed!Hours, S # {}
    PROVE  /\ Feed!Min(S) \in S /\ \A h \in S : Feed!Min(S) <= h
           /\ Feed!Max(S) \in S /\ \A h \in S : h <= Feed!Max(S)
<1>0. S \subseteq Nat /\ S \subseteq 1 .. MaxClock - 1 /\ MaxClock \in Nat
  BY HoursFinite DEF Feed!Hours, Feed!FeedAssumption
<1>1. PICK m \in S : \A h \in S : ~(<<h, m>> \in OpToRel(<, Nat))
  <2>1. S \subseteq Nat /\ S # {}
    BY <1>0
  <2> QED
    BY <2>1, NatLessThanWellFounded, WFMin, Zenon
<1>2. \A h \in S : m <= h
  <2> TAKE h \in S
  <2>1. h \in Nat /\ m \in Nat
    BY <1>0
  <2>2. ~(h < m)
    BY <1>1, <2>1 DEF OpToRel
  <2> QED
    BY <2>1, <2>2
<1> DEFINE T == {MaxClock - h : h \in S}
<1>3. T \subseteq Nat /\ T # {}
  BY <1>0
<1>4. PICK k \in T : \A h \in T : ~(<<h, k>> \in OpToRel(<, Nat))
  <2> HIDE DEF T
  <2> QED
    BY <1>3, NatLessThanWellFounded, WFMin, Zenon
<1>5. PICK l \in S : k = MaxClock - l
  BY <1>4
<1>6. \A h \in S : h <= l
  <2> TAKE h \in S
  <2>1. MaxClock - h \in T
    OBVIOUS
  <2>2. MaxClock - h \in Nat /\ k \in Nat
    BY <2>1, <1>3
  <2>3. ~(MaxClock - h < k)
    BY <2>1, <2>2, <1>4 DEF OpToRel
  <2> QED
    BY <2>3, <1>5, <1>0
<1>7. Feed!Min(S) \in S /\ \A h \in S : Feed!Min(S) <= h
  BY <1>2 DEF Feed!Min
<1>8. Feed!Max(S) \in S /\ \A h \in S : h <= Feed!Max(S)
  BY <1>6 DEF Feed!Max
<1> QED
  BY <1>7, <1>8

-----------------------------------------------------------------------------
(* The boundary, where the stream began, and the candles of the symbol.    *)
Emitted == lastEmitted[0]
Began == start[0]
Stored == dds[0]

\* From the first candle of the table up to t nothing is missing.
Solid(d, t) ==
    /\ t \in d /\ Cardinality(d) >= WarmupCandles
    /\ \A g \in d, h \in Feed!Hours : g <= h /\ h <= t => h \in d

FeedShape ==
    /\ dds \in [Feed!Symbols -> SUBSET Feed!Hours]
    /\ lastEmitted \in [Feed!Symbols -> {Feed!NoEntry, 0} \cup Feed!Hours]
    /\ start \in [Feed!Symbols -> {Feed!NoEntry, 0} \cup Feed!Hours]
    /\ rows \subseteq Feed!Symbols \X Feed!Hours
    /\ clock \in Nat

\* The boundary moved on from the start only over candles of a table without gaps.
Streamed ==
    /\ Began <= Emitted
    /\ Began = Feed!NoEntry => Emitted = Feed!NoEntry
    /\ Emitted > Began => Solid(Stored, Emitted)

\* A poll that emits has read every candle after the boundary.
Reading ==
    at = "emit" =>
        /\ Began # Feed!NoEntry
        /\ \A r \in rows : r[2] \in Stored
        /\ \A h \in Stored : Solid(Stored, h) /\ (h > Emitted => <<0, h>> \in rows)

\* What the engine remembers and saves is the candle at a boundary.
Remembers(pair) ==
    pair # Feed!Nothing =>
        /\ pair.time \in Feed!Hours /\ pair.seq = pair.time * 10
        /\ pair.time \in Stored /\ Began # Feed!NoEntry
        /\ Began < pair.time /\ pair.time <= Emitted

\* Everything the stream passed over reached the engine, because it only goes on
\* over a solid table, and goes back only to a candle the engine had.
FeedInv ==
    FeedShape /\ Streamed /\ Reading /\ Remembers(engine) /\ Remembers(saved)
        /\ Feed!NoCandleSkipped

\* The values of one symbol are hours, or the marks before them.
LEMMA FeedValues ==
    ASSUME OneSymbol, FeedShape
    PROVE  /\ Feed!Symbols = {0} /\ Feed!NoEntry = -1
           /\ Emitted \in {-1, 0} \cup Feed!Hours /\ Began \in {-1, 0} \cup Feed!Hours
           /\ Emitted \in Int /\ Began \in Int
           /\ Stored \in SUBSET Feed!Hours /\ Stored \subseteq Nat
<1>1. Feed!Symbols = {0}
  BY DEF OneSymbol, Feed!Symbols
<1>2. Feed!Hours \subseteq Nat \ {0}
  BY HoursFinite DEF OneSymbol
<1>3. Feed!NoEntry = -1
  BY DEF Feed!NoEntry
<1>4. /\ Emitted \in {-1, 0} \cup Feed!Hours /\ Began \in {-1, 0} \cup Feed!Hours
      /\ Stored \in SUBSET Feed!Hours
  BY <1>1, <1>3 DEF FeedShape, Emitted, Began, Stored
<1>5. Emitted \in Int /\ Began \in Int
  BY <1>2, <1>4
<1>6. Stored \subseteq Nat
  BY <1>2, <1>4
<1> QED
  BY <1>1, <1>3, <1>4, <1>5, <1>6

\* Nothing is stored, emitted or remembered at first.
LEMMA FeedInit ==
    ASSUME OneSymbol, Feed!Init
    PROVE  FeedInv
<1>1. Feed!Symbols = {0}
  BY DEF OneSymbol, Feed!Symbols
<1>2. FeedShape
  BY DEF OneSymbol, Feed!FeedAssumption, Feed!Init, FeedShape
<1>3. Emitted = Feed!NoEntry /\ Began = Feed!NoEntry /\ Stored = {}
  BY <1>1 DEF Feed!Init, Emitted, Began, Stored
<1> QED
  BY <1>1, <1>2, <1>3
  DEF Feed!Init, FeedInv, Streamed, Reading, Remembers, Feed!NoCandleSkipped, Feed!NoEntry,
      Feed!Nothing

\* What bootstrap adds to a table without gaps comes after the boundary.
LEMMA FeedLoads ==
    ASSUME OneSymbol, FeedInv, NEW d \in Feed!Loaded, Emitted # Feed!NoEntry
    PROVE  /\ d \in [Feed!Symbols -> SUBSET Feed!Hours] /\ Stored \subseteq d[0]
           /\ Emitted > Began => Solid(d[0], Emitted)
           /\ \A h \in d[0] : Began < h /\ h <= Emitted => h \in Stored
<1>0. /\ Feed!Symbols = {0} /\ Emitted \in Int /\ Began \in Int
      /\ Stored \in SUBSET Feed!Hours /\ Feed!Hours \subseteq Nat \ {0}
  BY FeedValues, HoursFinite DEF FeedInv, OneSymbol
<1>1. d \in [Feed!Symbols -> SUBSET Feed!Hours] /\ Stored \subseteq d[0]
      /\ d[0] \ Stored \subseteq Feed!Requested(Stored)
  BY <1>0 DEF Feed!Loaded, Stored
<1>2. d[0] \in SUBSET Feed!Hours
  BY <1>0, <1>1
<1>3. ASSUME Emitted > Began
      PROVE  /\ Solid(d[0], Emitted)
             /\ \A h \in d[0] : h <= Emitted => h \in Stored
  <2>1. Solid(Stored, Emitted)
    BY <1>3 DEF FeedInv, Streamed
  <2>2. /\ Feed!Min(Stored) \in Stored /\ \A h \in Stored : Feed!Min(Stored) <= h
        /\ Feed!Max(Stored) \in Stored /\ \A h \in Stored : h <= Feed!Max(Stored)
    BY <1>0, <2>1, FirstAndLast DEF Solid, OneSymbol
  <2>3. ~Feed!Few(Stored)
    <3>1. Cardinality(Stored) \in Nat /\ WarmupCandles \in Nat
      BY <1>0, HoursFinite DEF OneSymbol, Feed!FeedAssumption
    <3> QED
      BY <3>1, <2>1, SameCardinality DEF Solid, Feed!Few
  <2>4. \A h \in Feed!Requested(Stored) : h \in Feed!Hours /\ h >= Feed!Min(Stored)
    <3>1. clock \in Int
      BY DEF FeedInv, FeedShape
    <3>2. Feed!Min(Stored) \in Nat /\ Feed!Max(Stored) \in Nat
          /\ Feed!Min(Stored) <= Feed!Max(Stored)
      BY <2>2, <1>0
    <3> HIDE DEF Feed!Min, Feed!Max
    <3> QED
      BY <2>3, <3>1, <3>2 DEF Feed!Requested
  <2>5. \A h \in d[0] : h \in Nat /\ h >= Feed!Min(Stored) /\ h \in Feed!Hours
    BY <1>0, <1>1, <1>2, <2>2, <2>4
  <2>6. \A h \in Feed!Hours : Feed!Min(Stored) <= h /\ h <= Emitted => h \in Stored
    BY <2>1, <2>2 DEF Solid
  <2>7. Cardinality(d[0]) >= WarmupCandles
    <3>1. IsFiniteSet(d[0]) /\ Cardinality(d[0]) \in Nat /\ Cardinality(Stored) \in Nat
          /\ WarmupCandles \in Nat
      BY <1>0, <1>2, HoursFinite DEF OneSymbol, Feed!FeedAssumption
    <3>2. Cardinality(Stored) <= Cardinality(d[0])
      BY <1>1, <3>1, FS_Subset
    <3> QED
      BY <3>1, <3>2, <2>1 DEF Solid
  <2>8. ASSUME NEW g \in d[0], NEW h \in Feed!Hours, g <= h, h <= Emitted PROVE h \in Stored
    <3>1. Feed!Min(Stored) <= h
      <4>1. Feed!Min(Stored) \in Nat /\ g \in Nat /\ h \in Nat /\ g >= Feed!Min(Stored)
        BY <1>0, <2>2, <2>5
      <4> QED
        BY <4>1, <2>8
    <3> QED
      BY <3>1, <2>6, <2>8
  <2>9. Emitted \in d[0]
    BY <1>1, <2>1 DEF Solid
  <2>10. \A h \in d[0] : h <= Emitted => h \in Stored
    BY <2>5, <2>6
  <2> QED
    BY <1>1, <2>7, <2>8, <2>9, <2>10 DEF Solid
<1>4. ASSUME NEW h \in d[0], Began < h, h <= Emitted PROVE h \in Stored
  <2>1. Emitted > Began
    <3>1. h \in Nat /\ Emitted \in Int /\ Began \in Int
      BY <1>0, <1>2
    <3> QED
      BY <3>1, <1>4
  <2> QED
    BY <2>1, <1>3, <1>4
<1> QED
  BY <1>1, <1>3, <1>4

\* A table without gaps has everything between its first and any other candle.
LEMMA FeedReady ==
    ASSUME OneSymbol, NEW d \in [Feed!Symbols -> SUBSET Feed!Hours], Feed!Ready(d)
    PROVE  d[0] # {} /\ \A h \in d[0] : Solid(d[0], h)
<1>0. Feed!Symbols = {0} /\ Feed!Hours \subseteq Nat
  BY HoursFinite DEF OneSymbol, Feed!Symbols
<1>1. /\ d[0] \in SUBSET Feed!Hours /\ d[0] # {}
      /\ ~Feed!Few(d[0]) /\ d[0] = Feed!Min(d[0]) .. Feed!Max(d[0])
  BY <1>0 DEF Feed!Ready, Feed!HasGap
<1>2. /\ Feed!Min(d[0]) \in d[0] /\ \A h \in d[0] : Feed!Min(d[0]) <= h
      /\ Feed!Max(d[0]) \in d[0] /\ \A h \in d[0] : h <= Feed!Max(d[0])
  BY <1>1, FirstAndLast DEF OneSymbol
<1>3. Cardinality(d[0]) >= WarmupCandles
  <2>1. Cardinality(d[0]) \in Nat /\ WarmupCandles \in Nat
    BY <1>1, HoursFinite DEF OneSymbol, Feed!FeedAssumption
  <2> QED
    BY <2>1, <1>1, SameCardinality DEF Feed!Few
<1>4. ASSUME NEW g \in d[0], NEW t \in d[0], NEW h \in Feed!Hours, g <= h, h <= t
      PROVE  h \in d[0]
  <2>1. /\ Feed!Min(d[0]) \in Nat /\ Feed!Max(d[0]) \in Nat
        /\ g \in Nat /\ t \in Nat /\ h \in Nat
    BY <1>0, <1>1, <1>2
  <2>2. h \in Feed!Min(d[0]) .. Feed!Max(d[0])
    <3>1. Feed!Min(d[0]) <= g /\ t <= Feed!Max(d[0])
      BY <1>2
    <3> HIDE DEF Feed!Min, Feed!Max
    <3> QED
      BY <2>1, <3>1, <1>4
  <2> QED
    BY <2>2, <1>1
<1> QED
  BY <1>1, <1>3, <1>4 DEF Solid

\* The boundary of one symbol is the only one.
LEMMA FeedEntries ==
    ASSUME OneSymbol, FeedInv
    PROVE  Feed!Entries = IF Emitted = Feed!NoEntry THEN {} ELSE {Emitted}
BY FeedValues DEF FeedInv, Feed!Entries, Emitted

\* Steps that load candles, keep the boundary and do not emit.
LEMMA FeedKeeps ==
    ASSUME OneSymbol, FeedInv, NEW d \in Feed!Loaded, dds' = d, Emitted # Feed!NoEntry,
           UNCHANGED <<lastEmitted, start, engine, saved, accepted>>
    PROVE  Streamed' /\ Remembers(engine)' /\ Remembers(saved)' /\ Feed!NoCandleSkipped'
<1>0. /\ Feed!Symbols = {0} /\ Emitted \in Int /\ Began \in Int
      /\ Emitted' = Emitted /\ Began' = Began /\ Stored' = d[0]
  BY FeedValues DEF FeedInv, Emitted, Began, Stored
<1>1. /\ Stored \subseteq d[0] /\ (Emitted > Began => Solid(d[0], Emitted))
      /\ \A h \in d[0] : Began < h /\ h <= Emitted => h \in Stored
  BY FeedLoads
<1>2. Streamed'
  BY <1>0, <1>1 DEF FeedInv, Streamed
<1>3. Remembers(engine)' /\ Remembers(saved)'
  BY <1>0, <1>1 DEF FeedInv, Remembers
<1>4. Feed!NoCandleSkipped'
  BY <1>0, <1>1 DEF FeedInv, Feed!NoCandleSkipped, Emitted, Began, Stored
<1> QED
  BY <1>2, <1>3, <1>4

\* Without a boundary the engine has seen nothing.
LEMMA FeedFresh ==
    ASSUME OneSymbol, FeedInv, Emitted = Feed!NoEntry
    PROVE  engine = Feed!Nothing /\ saved = Feed!Nothing /\ Began = Feed!NoEntry
<1>1. /\ Feed!NoEntry = -1 /\ Began \in {-1, 0} \cup Feed!Hours
      /\ Began <= -1 /\ Feed!Hours \subseteq Nat
  BY FeedValues, HoursFinite DEF FeedInv, Streamed, OneSymbol
<1>2. Began = Feed!NoEntry
  BY <1>1
<1> QED
  BY <1>2 DEF FeedInv, Remembers

\* bootstrap and _new_candles.  The first boundary is where the stream begins.
LEMMA FeedPoll ==
    ASSUME OneSymbol, FeedInv, Feed!Poll
    PROVE  FeedInv'
<1>0. /\ Feed!Symbols = {0} /\ Feed!NoEntry = -1
      /\ Emitted \in {-1, 0} \cup Feed!Hours /\ Began \in {-1, 0} \cup Feed!Hours
      /\ Emitted \in Int /\ Began \in Int /\ Feed!Hours \subseteq Nat \ {0}
  BY FeedValues, HoursFinite DEF FeedInv, OneSymbol
<1>1. PICK d \in Feed!Loaded :
        /\ dds' = d
        /\ lastEmitted' = Feed!EmittedAfter(d)
        /\ start' = IF Feed!Entries = {} THEN Feed!EmittedAfter(d) ELSE start
        /\ IF at = "poll" /\ Feed!Ready(d)
           THEN rows' = Feed!NewCandles(d, Feed!EmittedAfter(d)) /\ at' = "emit"
           ELSE rows' = {} /\ at' = "poll"
  BY DEF Feed!Poll
<1>2. UNCHANGED <<clock, engine, saved, accepted, starts>>
  BY DEF Feed!Poll
<1>3. d \in [Feed!Symbols -> SUBSET Feed!Hours] /\ d[0] \in SUBSET Feed!Hours
  BY <1>0 DEF Feed!Loaded
<1>4. Feed!EmittedAfter(d) \in [Feed!Symbols -> {Feed!NoEntry, 0} \cup Feed!Hours]
  <2>1. d[0] # {} => Feed!Max(d[0]) \in Feed!Hours
    BY <1>3, FirstAndLast DEF OneSymbol
  <2> QED
    BY <1>0, <2>1 DEF Feed!EmittedAfter, FeedInv, FeedShape
<1>5. rows' \subseteq Feed!Symbols \X Feed!Hours
  BY <1>1 DEF Feed!NewCandles
<1>6. FeedShape'
  BY <1>1, <1>2, <1>3, <1>4, <1>5 DEF FeedInv, FeedShape
<1>7. Stored' = d[0] /\ Emitted' = Feed!EmittedAfter(d)[0]
  BY <1>1 DEF Stored, Emitted
<1>8. /\ Streamed' /\ Remembers(engine)' /\ Remembers(saved)' /\ Feed!NoCandleSkipped'
      /\ d[0] # {} => Began' # Feed!NoEntry
  <2>1. CASE Emitted = Feed!NoEntry
    <3>1. Feed!Entries = {} /\ engine' = Feed!Nothing /\ saved' = Feed!Nothing
      BY <1>2, <2>1, FeedEntries, FeedFresh
    <3>2. /\ Emitted' = IF d[0] = {} THEN Feed!NoEntry ELSE Feed!Max(d[0])
          /\ Began' = Emitted' /\ start' = lastEmitted'
      BY <1>0, <1>1, <3>1 DEF Feed!EmittedAfter, Emitted, Began
    <3>3. d[0] # {} => Feed!Max(d[0]) \in Feed!Hours
      BY <1>3, FirstAndLast DEF OneSymbol
    <3>4. Began' \in Int /\ (d[0] # {} => Began' # Feed!NoEntry)
      <4>1. CASE d[0] = {}
        BY <1>0, <3>2, <4>1
      <4>2. CASE d[0] # {}
        <5>1. Feed!Max(d[0]) \in Nat \ {0} /\ Began' = Feed!Max(d[0])
          BY <1>0, <3>2, <3>3, <4>2
        <5> HIDE DEF Feed!Max
        <5> QED
          BY <1>0, <5>1
      <4> QED
        BY <4>1, <4>2
    <3>5. Streamed'
      BY <3>2, <3>4 DEF Streamed
    <3>6. Feed!NoCandleSkipped'
      <4> SUFFICES ASSUME NEW x \in Feed!Symbols, NEW h \in d[x],
                          start'[x] < h, h <= lastEmitted'[x]
                   PROVE  FALSE
        BY <1>1 DEF Feed!NoCandleSkipped
      <4>1. x = 0 /\ h \in Nat /\ start'[0] \in Int /\ start'[0] = lastEmitted'[0]
        BY <1>0, <1>3, <3>2, <3>4 DEF Began
      <4> QED
        BY <4>1
    <3> QED
      BY <3>1, <3>4, <3>5, <3>6 DEF Remembers
  <2>2. CASE Emitted # Feed!NoEntry
    <3>1. Feed!Entries # {}
      BY <2>2, FeedEntries
    <3>2. UNCHANGED <<lastEmitted, start>>
      BY <1>1, <3>1 DEF Feed!EmittedAfter
    <3>3. Began # Feed!NoEntry /\ Began' = Began
      BY <2>2, <3>2 DEF FeedInv, Streamed, Began
    <3> QED
      BY <1>1, <1>2, <2>2, <3>2, <3>3, FeedKeeps
  <2> QED
    BY <2>1, <2>2
<1>9. Reading'
  <2> SUFFICES ASSUME at' = "emit" PROVE Reading'
    BY DEF Reading
  <2>1. /\ Feed!Ready(d) /\ rows' = Feed!NewCandles(d, lastEmitted')
    BY <1>1
  <2>2. d[0] # {} /\ \A h \in d[0] : Solid(d[0], h)
    BY <1>3, <2>1, FeedReady
  <2>3. Began' # Feed!NoEntry
    BY <1>8, <2>2
  <2>4. Emitted' # Feed!NoEntry /\ Emitted' \in {-1, 0} \cup Feed!Hours
    <3>1. /\ Emitted' \in {-1, 0} \cup Feed!Hours /\ Began' \in {-1, 0} \cup Feed!Hours
          /\ Began' <= Emitted'
      BY <1>0, <1>6, <1>8 DEF Streamed, FeedShape, Emitted, Began
    <3>2. Began' >= 0
      BY <1>0, <2>3, <3>1
    <3> QED
      BY <1>0, <3>1, <3>2
  <2>5. {lastEmitted'[x] : x \in Feed!Symbols} \ {Feed!NoEntry} = {Emitted'}
    BY <1>0, <2>4 DEF Emitted
  <2>6. Feed!Min({Emitted'}) = Emitted'
    BY <1>0, <2>4 DEF Feed!Min
  <2>7. rows' = {r \in Feed!Symbols \X Feed!Hours : r[2] \in d[r[1]] /\ r[2] > Emitted'}
    BY <2>1, <2>5, <2>6 DEF Feed!NewCandles
  <2>8. \A r \in rows' : r[2] \in d[0]
    BY <1>0, <2>7
  <2>9. \A h \in d[0] : h > Emitted' => <<0, h>> \in rows'
    BY <1>0, <1>3, <2>7
  <2> QED
    BY <1>7, <2>2, <2>3, <2>8, <2>9 DEF Reading
<1> QED
  BY <1>6, <1>8, <1>9 DEF FeedInv

\* A poll that fails half-way has stored candles, as a complete one would.
LEMMA FeedPollFails ==
    ASSUME OneSymbol, FeedInv, Feed!PollFails
    PROVE  FeedInv'
<1>0. /\ Feed!Symbols = {0} /\ Feed!NoEntry = -1 /\ Feed!Hours \subseteq Nat
      /\ Emitted \in Int /\ Began \in Int
  BY FeedValues, HoursFinite DEF FeedInv, OneSymbol
<1>1. /\ dds' \in Feed!Loaded /\ at' = "poll"
      /\ UNCHANGED <<clock, lastEmitted, rows, engine, saved, start, accepted>>
  BY DEF Feed!PollFails
<1>2. dds' \in [Feed!Symbols -> SUBSET Feed!Hours]
  BY <1>1 DEF Feed!Loaded
<1>3. FeedShape' /\ Reading'
  BY <1>1, <1>2 DEF FeedInv, FeedShape, Reading
<1>4. Streamed' /\ Remembers(engine)' /\ Remembers(saved)' /\ Feed!NoCandleSkipped'
  <2>1. CASE Emitted = Feed!NoEntry
    <3>1. engine = Feed!Nothing /\ saved = Feed!Nothing /\ Began = Feed!NoEntry
      BY <2>1, FeedFresh
    <3>2. Emitted' = Emitted /\ Began' = Began /\ start'[0] = Feed!NoEntry
      BY <1>1, <3>1 DEF Emitted, Began
    <3> QED
      BY <1>0, <1>1, <2>1, <3>1, <3>2 DEF Streamed, Remembers, Feed!NoCandleSkipped
  <2>2. CASE Emitted # Feed!NoEntry
    BY <1>1, <2>2, FeedKeeps
  <2> QED
    BY <2>1, <2>2
<1> QED
  BY <1>3, <1>4 DEF FeedInv

\* The rows of one symbol come in the order of their open times.
LEMMA FeedFirstRow ==
    ASSUME OneSymbol, FeedInv, rows # {}
    PROVE  LET r == CHOOSE r \in rows : \A s \in rows : Feed!InOrder(r, s) IN
           r \in rows /\ \A s \in rows : r[2] <= s[2]
<1>0. /\ Feed!Symbols = {0} /\ rows \subseteq {0} \X Feed!Hours /\ Alphabetical[0] \in Nat
      /\ Feed!Hours \subseteq Nat
  BY FeedValues, HoursFinite DEF FeedInv, FeedShape, OneSymbol, Feed!FeedAssumption
<1> DEFINE S == {s[2] : s \in rows}
<1>1. S \in SUBSET Feed!Hours /\ S # {}
  BY <1>0
<1>2. Feed!Min(S) \in S /\ \A h \in S : Feed!Min(S) <= h
  <2> HIDE DEF S
  <2> QED
    BY <1>1, FirstAndLast DEF OneSymbol
<1>3. PICK r \in rows : r[2] = Feed!Min(S)
  BY <1>2
<1>4. \A s \in rows : /\ s[1] = 0 /\ s[2] \in S /\ s[2] \in Nat
                      /\ Feed!Min(S) \in Nat /\ Feed!Min(S) <= s[2]
  BY <1>0, <1>2
<1> HIDE DEF S
<1>5. \A s \in rows : Feed!InOrder(r, s)
  BY <1>0, <1>3, <1>4 DEF Feed!InOrder
<1> DEFINE first == CHOOSE t \in rows : \A s \in rows : Feed!InOrder(t, s)
<1>6. first \in rows /\ \A s \in rows : Feed!InOrder(first, s)
  BY <1>5
<1> HIDE DEF first
<1>7. \A s \in rows : first[2] <= s[2]
  BY <1>4, <1>6 DEF Feed!InOrder
<1> QED
  BY <1>6, <1>7 DEF first

\* A row of the only symbol.
LEMMA RowOfOne ==
    ASSUME NEW H, NEW r \in {0} \X H
    PROVE  \E h \in H : r = <<0, h>>
  OBVIOUS

\* The next row is the next candle of a solid table, and newer than all the
\* engine has seen.
LEMMA FeedEmit ==
    ASSUME OneSymbol, FeedInv, Feed!Emit
    PROVE  FeedInv'
<1>0. /\ Feed!Symbols = {0} /\ Feed!NoEntry = -1 /\ Feed!Hours \subseteq Nat \ {0}
      /\ Emitted \in {-1, 0} \cup Feed!Hours /\ Began \in {-1, 0} \cup Feed!Hours
      /\ Emitted \in Int /\ Began \in Int
      /\ Stored \in SUBSET Feed!Hours /\ rows \subseteq {0} \X Feed!Hours
      /\ lastEmitted \in [{0} -> {-1, 0} \cup Feed!Hours]
  BY FeedValues, HoursFinite DEF FeedInv, FeedShape, OneSymbol
<1> DEFINE r == CHOOSE r \in rows : \A s \in rows : Feed!InOrder(r, s)
<1>1. r \in rows /\ \A s \in rows : r[2] <= s[2]
  BY FeedFirstRow DEF Feed!Emit
<1>2. /\ at = "emit" /\ UNCHANGED <<clock, dds, at, saved, start>>
      /\ rows' = rows \ {r}
      /\ IF r[2] <= lastEmitted[r[1]]
         THEN UNCHANGED <<lastEmitted, engine, accepted>>
         ELSE /\ lastEmitted' = [lastEmitted EXCEPT ![r[1]] = r[2]]
              /\ IF Feed!Fresh(r[1], r[2])
                 THEN /\ engine' = [seq |-> Feed!Sequence(r[1], r[2]), time |-> r[2]]
                      /\ accepted' = accepted \cup {r}
                 ELSE UNCHANGED <<engine, accepted>>
  BY DEF Feed!Emit
<1> HIDE DEF r
<1> DEFINE h == r[2]
<1>3. r = <<0, h>> /\ h \in Feed!Hours /\ h \in Nat \ {0} /\ r[1] = 0
  <2>1. r \in {0} \X Feed!Hours /\ Feed!Hours \subseteq Nat \ {0}
    BY <1>0, <1>1
  <2> HIDE DEF h
  <2>2. PICK g \in Feed!Hours : r = <<0, g>>
    BY <2>1, RowOfOne, Zenon
  <2>3. h = g
    BY <2>2 DEF h
  <2> QED
    BY <2>1, <2>2, <2>3
<1> HIDE DEF h
<1>4. /\ h \in Stored /\ Began # Feed!NoEntry
      /\ \A g \in Stored : Solid(Stored, g) /\ (g > Emitted => <<0, g>> \in rows)
      /\ \A s \in rows : s[2] \in Stored
  BY <1>1, <1>2 DEF FeedInv, Reading, h
<1>5. Stored' = Stored /\ Began' = Began
  BY <1>2 DEF Stored, Began
<1>6. CASE h <= Emitted
  <2>1. UNCHANGED <<lastEmitted, engine, accepted>> /\ Emitted' = Emitted
    BY <1>2, <1>3, <1>6 DEF h, Emitted
  <2>2. FeedShape' /\ Streamed' /\ Remembers(engine)' /\ Remembers(saved)'
        /\ Feed!NoCandleSkipped'
    BY <1>2, <1>5, <2>1
    DEF FeedInv, FeedShape, Streamed, Remembers, Feed!NoCandleSkipped
  <2>3. Reading'
    <3>1. ASSUME NEW g \in Stored, g > Emitted PROVE <<0, g>> \in rows'
      <4>1. g \in Nat /\ g # h
        BY <1>0, <1>3, <1>6, <3>1
      <4>2. <<0, g>> # r
        BY <1>3, <4>1
      <4> QED
        BY <1>2, <1>4, <3>1, <4>2
    <3> QED
      BY <1>2, <1>4, <1>5, <2>1, <3>1 DEF Reading
  <2> QED
    BY <2>2, <2>3 DEF FeedInv
<1>7. CASE ~(h <= Emitted)
  <2>0. h > Emitted
    BY <1>0, <1>3, <1>7
  <2>1. lastEmitted' = [lastEmitted EXCEPT ![0] = h] /\ Emitted' = h
    BY <1>0, <1>2, <1>3, <1>7 DEF h, Emitted
  <2>2. Began < h /\ Began <= Emitted
    BY <1>0, <1>3, <2>0 DEF FeedInv, Streamed
  <2>3. Feed!Fresh(0, h)
    <3>1. CASE engine = Feed!Nothing
      BY <1>3, <3>1 DEF Feed!Fresh, Feed!Sequence, Feed!Nothing
    <3>2. CASE engine # Feed!Nothing
      <4>1. engine.seq = engine.time * 10 /\ engine.time <= Emitted /\ engine.time \in Nat
        BY <1>0, <3>2 DEF FeedInv, Remembers
      <4> QED
        BY <1>0, <1>3, <2>0, <4>1 DEF Feed!Fresh, Feed!Sequence
    <3> QED
      BY <3>1, <3>2
  <2>4. /\ engine' = [seq |-> h * 10, time |-> h] /\ accepted' = accepted \cup {<<0, h>>}
    <3>1. Feed!Fresh(r[1], r[2]) /\ Feed!Sequence(r[1], r[2]) = h * 10
      BY <1>3, <2>3 DEF h, Feed!Sequence
    <3>2. ~(r[2] <= lastEmitted[r[1]])
      BY <1>3, <1>7 DEF h, Emitted
    <3>3. engine' = [seq |-> h * 10, time |-> r[2]] /\ accepted' = accepted \cup {r}
      BY <1>2, <3>1, <3>2
    <3> QED
      BY <1>3, <3>3 DEF h
  <2>5. FeedShape'
    BY <1>0, <1>2, <1>3, <2>1 DEF FeedInv, FeedShape
  <2>6. Streamed'
    <3>1. Began <= h /\ Solid(Stored, h)
      BY <1>0, <1>3, <1>4, <2>2
    <3> QED
      BY <1>4, <1>5, <2>1, <3>1 DEF Streamed
  <2>7. Reading'
    <3>1. ASSUME NEW g \in Stored, g > h PROVE <<0, g>> \in rows'
      <4>1. g \in Nat /\ g # h /\ g > Emitted
        BY <1>0, <1>3, <2>0, <3>1
      <4>2. <<0, g>> # r
        BY <1>3, <4>1
      <4> QED
        BY <1>2, <1>4, <4>1, <4>2
    <3> QED
      BY <1>2, <1>4, <1>5, <2>1, <3>1 DEF Reading
  <2>8. Remembers(engine)'
    <3>1. engine'.time = h /\ engine'.seq = h * 10
      BY <2>4
    <3> QED
      BY <1>3, <1>4, <1>5, <2>1, <2>2, <3>1 DEF Remembers
  <2>9. Remembers(saved)'
    <3> SUFFICES ASSUME saved # Feed!Nothing PROVE saved.time <= h
      BY <1>2, <1>5, <2>1 DEF FeedInv, Remembers
    <3>1. saved.time \in Nat /\ saved.time <= Emitted
      BY <1>0 DEF FeedInv, Remembers
    <3> QED
      BY <1>0, <1>3, <2>0, <3>1
  <2>10. Feed!NoCandleSkipped'
    <3> SUFFICES ASSUME NEW g \in Stored, Began < g, g <= h PROVE <<0, g>> \in accepted'
      BY <1>0, <1>2, <1>5, <2>1 DEF Feed!NoCandleSkipped, Stored, Began, Emitted
    <3>0. g \in Nat
      BY <1>0
    <3>1. CASE g <= Emitted
      BY <1>0, <1>4, <2>4, <3>1 DEF FeedInv, Feed!NoCandleSkipped, Stored, Began, Emitted
    <3>2. CASE g > Emitted
      <4>1. h <= g
        BY <1>1, <1>4, <3>2 DEF h
      <4> QED
        BY <1>3, <2>4, <3>0, <4>1
    <3> QED
      BY <1>0, <3>0, <3>1, <3>2
  <2> QED
    BY <2>5, <2>6, <2>7, <2>8, <2>9, <2>10 DEF FeedInv
<1> QED
  BY <1>6, <1>7

\* A kill goes back to a saved candle, which the table has.
LEMMA FeedRestart ==
    ASSUME OneSymbol, FeedInv, Feed!Restart
    PROVE  FeedInv'
<1>0. /\ Feed!Symbols = {0} /\ Feed!NoEntry = -1 /\ Feed!Hours \subseteq Nat \ {0}
      /\ Emitted \in Int /\ Began \in Int
  BY FeedValues, HoursFinite DEF FeedInv, OneSymbol
<1>1. /\ engine' = saved /\ lastEmitted' = Feed!RestoreBoundary
      /\ start' = IF saved.seq = 0 THEN [x \in Feed!Symbols |-> Feed!NoEntry] ELSE start
      /\ rows' = {} /\ at' = "boot" /\ UNCHANGED <<clock, dds, saved, accepted>>
  BY DEF Feed!Restart
<1>2. Stored' = Stored
  BY <1>1 DEF Stored
<1>3. CASE saved = Feed!Nothing
  <2>1. Emitted' = Feed!NoEntry /\ Began' = Feed!NoEntry
        /\ start' = [x \in Feed!Symbols |-> Feed!NoEntry]
        /\ lastEmitted' = [x \in Feed!Symbols |-> Feed!NoEntry]
    BY <1>0, <1>1, <1>3 DEF Feed!RestoreBoundary, Feed!Nothing, Emitted, Began
  <2>2. FeedShape'
    BY <1>1, <2>1 DEF FeedInv, FeedShape
  <2>3. Streamed' /\ Reading' /\ Remembers(engine)' /\ Remembers(saved)'
        /\ Feed!NoCandleSkipped'
    BY <1>0, <1>1, <1>3, <2>1 DEF Streamed, Reading, Remembers, Feed!NoCandleSkipped
  <2> QED
    BY <2>2, <2>3 DEF FeedInv
<1>4. CASE saved # Feed!Nothing
  <2> DEFINE t == saved.time
  <2>1. /\ t \in Feed!Hours /\ saved.seq = t * 10 /\ t \in Stored /\ Began # Feed!NoEntry
        /\ Began < t /\ t <= Emitted /\ t \in Nat \ {0}
    BY <1>0, <1>4 DEF FeedInv, Remembers
  <2> HIDE DEF t
  <2>2. saved.seq # 0 /\ Feed!Sequence(0, t) <= saved.seq
    BY <2>1 DEF Feed!Sequence
  <2>3. start' = start /\ lastEmitted' = [x \in Feed!Symbols |-> t]
    BY <1>0, <1>1, <2>2 DEF Feed!RestoreBoundary, t
  <2>4. Began' = Began /\ Emitted' = t
    BY <1>0, <2>3 DEF Began, Emitted
  <2>5. FeedShape' /\ Reading'
    BY <1>1, <2>1, <2>3 DEF FeedInv, FeedShape, Reading
  <2>6. Streamed'
    <3>1. Emitted > Began
      BY <1>0, <2>1
    <3>2. Solid(Stored, Emitted)
      BY <3>1 DEF FeedInv, Streamed
    <3>3. \A h \in Feed!Hours : h <= t => h <= Emitted
      BY <1>0, <2>1
    <3>4. Solid(Stored, t)
      BY <2>1, <3>2, <3>3 DEF Solid
    <3> QED
      BY <1>0, <1>2, <2>1, <2>4, <3>4 DEF Streamed
  <2>7. Remembers(engine)' /\ Remembers(saved)'
    BY <1>1, <1>2, <2>1, <2>4 DEF Remembers, t
  <2>8. Feed!NoCandleSkipped'
    <3> SUFFICES ASSUME NEW h \in Stored, Began < h, h <= t PROVE <<0, h>> \in accepted
      BY <1>0, <1>1, <2>3 DEF Feed!NoCandleSkipped, Stored, Began
    <3>1. h <= Emitted
      BY <1>0, <2>1, FeedValues DEF FeedInv
    <3> QED
      BY <1>0, <2>1, <3>1 DEF FeedInv, Feed!NoCandleSkipped, Stored, Began, Emitted
  <2> QED
    BY <2>5, <2>6, <2>7, <2>8 DEF FeedInv
<1> QED
  BY <1>3, <1>4

\* The other steps leave boundary, table and engine alone.
LEMMA FeedStep ==
    ASSUME OneSymbol, FeedInv, [Feed!Next]_(Feed!vars)
    PROVE  FeedInv'
<1> USE DEF FeedInv, FeedShape, Streamed, Reading, Remembers, Feed!NoCandleSkipped,
            Emitted, Began, Stored
<1>1. CASE Feed!PollEnds
  BY <1>1 DEF Feed!PollEnds
<1>2. CASE Feed!HourCloses
  BY <1>2 DEF Feed!HourCloses
<1>3. CASE Feed!SaveState
  BY <1>3 DEF Feed!SaveState
<1>4. CASE UNCHANGED Feed!vars
  BY <1>4 DEF Feed!vars
<1> QED
  BY <1>1, <1>2, <1>3, <1>4, FeedPoll, FeedPollFails, FeedEmit, FeedRestart DEF Feed!Next

\* For one symbol, whatever part of the candles the exchange answers with and
\* wherever polls fail or the process is killed: no stored candle is passed over
\* by the stream or taken for a replay by the engine.
THEOREM NoCandleIsSkipped ==
    ASSUME Feed!FeedAssumption, SymbolCount = 1
    PROVE  Feed!Spec => []Feed!NoCandleSkipped
<1>0. OneSymbol
  BY DEF OneSymbol
<1>1. Feed!Init => FeedInv
  BY <1>0, FeedInit
<1>2. FeedInv /\ [Feed!Next]_(Feed!vars) => FeedInv'
  BY <1>0, FeedStep
<1>3. FeedInv => Feed!NoCandleSkipped
  BY DEF FeedInv
<1> QED
  BY <1>1, <1>2, <1>3, PTL DEF Feed!Spec
=============================================================================
