----------------------------- MODULE MarketFeed -----------------------------
(***************************************************************************)
(* The market data path of the paper runtime: BybitPaperMarketData polls   *)
(* the exchange, repairs the candle table, and streams the new closed      *)
(* candles to the execution engine, which drops what it takes for a        *)
(* replay.  A restart resumes from the sequence and open time the engine   *)
(* saved last.                                                             *)
(*                                                                         *)
(* Time is counted in hours, the candle interval.  The stale grace of ten  *)
(* minutes is below one hour and therefore 0 here.                         *)
(***************************************************************************)
EXTENDS Integers, FiniteSets, FiniteSetsExt

CONSTANTS
    SymbolCount,    \* symbols are their index in the configured list
    Alphabetical,   \* rank of each symbol in ORDER BY symbol
    FirstClock, MaxClock,
    WarmupCandles, BackfillBuffer,
    MaxRestarts

Symbols == 0 .. SymbolCount - 1
Hours == 1 .. MaxClock - 1        \* open times of the candles that may close

ASSUME FeedAssumption ==
    /\ SymbolCount \in 1 .. 10    \* ten sequence numbers per open time
    /\ Alphabetical \in [Symbols -> Nat]
    /\ FirstClock \in Nat \ {0} /\ MaxClock \in Nat /\ FirstClock < MaxClock
    /\ WarmupCandles \in Nat \ {0}
    /\ BackfillBuffer \in Nat
    /\ MaxRestarts \in Nat

VARIABLES
    clock,        \* the latest closed boundary
    dds,          \* open times of the valid candles stored for each symbol
    lastEmitted,  \* _last_emitted, NoEntry for a symbol that has none
    ready,
    rows,         \* rows of the current poll that are still to be visited
    pc,           \* "boot": before bootstrap; "poll": between polls; "emit"
    engine,       \* the engine's _last_sequence and _last_processed_timestamp
    saved,        \* the same pair in paper_runtime_state
    start,        \* history: where the stream of each symbol began
    accepted,     \* history: candles the engine took
    restarts

vars == <<clock, dds, lastEmitted, ready, rows, pc, engine, saved, start, accepted, restarts>>

-----------------------------------------------------------------------------
NoEntry == -1
Nothing == [seq |-> 0, time |-> 0]

Sequence(x, h) == h * 10 + x

TypeOK ==
    /\ clock \in FirstClock .. MaxClock
    /\ dds \in [Symbols -> SUBSET Hours]
    /\ lastEmitted \in [Symbols -> {NoEntry, 0} \cup Hours]
    /\ ready \in BOOLEAN
    /\ rows \subseteq Symbols \X Hours
    /\ pc \in {"boot", "poll", "emit"}
    /\ engine \in [seq : Nat, time : {0} \cup Hours]
    /\ saved \in [seq : Nat, time : {0} \cup Hours]
    /\ start \in [Symbols -> {NoEntry, 0} \cup Hours]
    /\ accepted \subseteq Symbols \X Hours
    /\ restarts \in Nat

Init ==
    /\ clock = FirstClock
    /\ dds = [x \in Symbols |-> {}]
    /\ lastEmitted = [x \in Symbols |-> NoEntry]
    /\ ready = FALSE /\ rows = {} /\ pc = "boot"
    /\ engine = Nothing /\ saved = Nothing
    /\ start = [x \in Symbols |-> NoEntry]
    /\ accepted = {} /\ restarts = 0

-----------------------------------------------------------------------------
(* bootstrap, at start-up and at the beginning of every poll.              *)

Few(d) == Cardinality(d) < WarmupCandles

HasGap(d) == d # {} /\ d # Min(d) .. Max(d)

\* The open times that bootstrap requests for a symbol: a backfill when there
\* are too few candles, everything from the first candle when there is a gap,
\* and otherwise what is missing at the end.
Requested(d) ==
    Hours \cap
        IF Few(d) THEN Min(d \cup {clock - (WarmupCandles + BackfillBuffer)}) .. clock - 1
        ELSE IF HasGap(d) THEN Min(d) .. clock - 1
        ELSE Max(d) + 1 .. clock - 1

\* What the tables may hold afterwards: the exchange answers with any part.
Loaded ==
    {d \in [Symbols -> SUBSET Hours] :
        \A x \in Symbols : dds[x] \subseteq d[x] /\ d[x] \ dds[x] \subseteq Requested(dds[x])}

\* Mutant: gaps do not hold the stream back.
ReadyDespiteGaps(d) ==
    \A x \in Symbols : d[x] # {} /\ ~Few(d[x]) /\ Max(d[x]) + 1 >= clock

Ready(d) ==
    \A x \in Symbols :
        /\ d[x] # {} /\ ~Few(d[x]) /\ ~HasGap(d[x])
        /\ Max(d[x]) + 1 >= clock

Entries == {lastEmitted[x] : x \in Symbols} \ {NoEntry}

\* Mutant: the stored history replaces a restored boundary.
EmittedAfterAlways(d) ==
    [x \in Symbols |-> IF d[x] = {} THEN lastEmitted[x] ELSE Max(d[x])]

\* On the first start the stored history is warmup, not a backlog.
EmittedAfter(d) ==
    IF Entries # {} THEN lastEmitted
    ELSE [x \in Symbols |-> IF d[x] = {} THEN NoEntry ELSE Max(d[x])]

\* _new_candles: everything after the oldest boundary.
NewCandles(d, emitted) ==
    LET known == {emitted[x] : x \in Symbols} \ {NoEntry} IN
    {r \in Symbols \X Hours :
        r[2] \in d[r[1]] /\ (known # {} => r[2] > Min(known))}

Poll ==
    /\ pc \in {"boot", "poll"}
    /\ \E d \in Loaded :
          /\ dds' = d
          /\ ready' = Ready(d)
          /\ lastEmitted' = EmittedAfter(d)
          /\ start' = IF Entries = {} THEN EmittedAfter(d) ELSE start
          /\ IF pc = "poll" /\ Ready(d)
             THEN rows' = NewCandles(d, EmittedAfter(d)) /\ pc' = "emit"
             ELSE rows' = {} /\ pc' = "poll"
    /\ UNCHANGED <<clock, engine, saved, accepted, restarts>>

\* bootstrap raises after some symbols were loaded.
PollFails ==
    /\ pc \in {"boot", "poll"}
    /\ dds' \in Loaded
    /\ ready' = FALSE /\ pc' = "poll"
    /\ UNCHANGED <<clock, lastEmitted, rows, engine, saved, start, accepted, restarts>>

-----------------------------------------------------------------------------
(* The stream and the engine's replay check.                               *)

InOrder(r, s) ==
    r[2] < s[2] \/ (r[2] = s[2] /\ Alphabetical[r[1]] <= Alphabetical[s[1]])

\* on_market_event: neither the sequence nor the open time was seen before.
Fresh(x, h) ==
    Sequence(x, h) > engine.seq /\ (engine.time # 0 => h > engine.time)

Emit ==
    /\ pc = "emit" /\ rows # {}
    /\ LET r == CHOOSE r \in rows : \A s \in rows : InOrder(r, s)
           x == r[1]
           h == r[2]
       IN  /\ rows' = rows \ {r}
           /\ IF h <= lastEmitted[x]
              THEN UNCHANGED <<lastEmitted, engine, accepted>>
              ELSE /\ lastEmitted' = [lastEmitted EXCEPT ![x] = h]
                   /\ IF Fresh(x, h)
                      THEN /\ engine' = [seq |-> Sequence(x, h), time |-> h]
                           /\ accepted' = accepted \cup {r}
                      ELSE UNCHANGED <<engine, accepted>>
    /\ UNCHANGED <<clock, dds, ready, pc, saved, start, restarts>>

PollEnds ==
    /\ pc = "emit" /\ rows = {}
    /\ pc' = "poll"
    /\ UNCHANGED <<clock, dds, lastEmitted, ready, rows, engine, saved, start, accepted,
                   restarts>>

-----------------------------------------------------------------------------
(* The rest of the system, as far as the stream depends on it.             *)

HourCloses ==
    /\ clock < MaxClock
    /\ clock' = clock + 1
    /\ UNCHANGED <<dds, lastEmitted, ready, rows, pc, engine, saved, start, accepted, restarts>>

SaveState ==
    /\ saved # engine
    /\ saved' = engine
    /\ UNCHANGED <<clock, dds, lastEmitted, ready, rows, pc, engine, start, accepted, restarts>>

RestoreBoundary ==
    [x \in Symbols |->
        IF saved.seq = 0 THEN NoEntry
        ELSE IF Sequence(x, saved.time) <= saved.seq THEN saved.time
        ELSE saved.time - 1]

\* The process is killed and started again.
Restart ==
    /\ restarts < MaxRestarts
    /\ restarts' = restarts + 1
    /\ engine' = saved
    /\ lastEmitted' = RestoreBoundary
    /\ start' = IF saved.seq = 0 THEN [x \in Symbols |-> NoEntry] ELSE start
    /\ ready' = FALSE /\ rows' = {} /\ pc' = "boot"
    /\ UNCHANGED <<clock, dds, saved, accepted>>

-----------------------------------------------------------------------------
Next ==
    \/ Poll \/ PollFails \/ Emit \/ PollEnds
    \/ HourCloses \/ SaveState \/ Restart

Spec == Init /\ [][Next]_vars

\* A poll in which the exchange delivers all that was requested.
GoodPoll ==
    /\ Poll
    /\ \A x \in Symbols : dds'[x] = dds[x] \cup Requested(dds[x])

\* The loop keeps polling, the exchange answers in full again and again, and
\* the consumer takes every event.
FairSpec ==
    /\ Spec
    /\ SF_vars(GoodPoll)
    /\ WF_vars(Emit)
    /\ WF_vars(PollEnds)

-----------------------------------------------------------------------------
(* Properties.                                                             *)

\* No candle is lost on the way to the engine: of the stored candles after the
\* start of the stream, every one up to the emission boundary of its symbol was
\* accepted by the engine, across polls, late deliveries and restarts.
NoCandleSkipped ==
    \A x \in Symbols : \A h \in dds[x] :
        start[x] # NoEntry /\ start[x] < h /\ h <= lastEmitted[x] => <<x, h>> \in accepted

\* Every closed candle after the start of the stream reaches the engine.
CandlesReachEngine ==
    \A x \in Symbols, h \in Hours :
        (start[x] # NoEntry /\ start[x] < h /\ h < clock)
            ~> (<<x, h>> \in accepted \/ start[x] = NoEntry \/ start[x] >= h)
=============================================================================
