---------------------------- MODULE DerivedStore ----------------------------
(***************************************************************************)
(* Indicators and regimes of the candles in DDS.  They are recursive: a    *)
(* value depends on every candle it was computed from, so the model keeps, *)
(* for a stored value, the hours of that history in the order they were    *)
(* used.  Indicators with a short period appear once ShortBars candles are *)
(* known, the long average and the regime once LongBars are.               *)
(*                                                                         *)
(* A calculation reads its candles once and writes them in batches, so     *)
(* others can store, copy and calculate in between.                        *)
(***************************************************************************)
EXTENDS CandleStore, Indicators

CONSTANTS
    ShortBars,      \* candles the first indicators need, 15
    LongBars,       \* candles of the long average, 200
    WarmUp,         \* candles calculate_missing reads before the new ones, 200
    BatchSize       \* candles of a transaction, 100 or 500

ASSUME DerivedAssumption ==
    /\ ShortBars \in Nat \ {0} /\ LongBars \in Nat /\ ShortBars <= LongBars
    /\ WarmUp \in Nat /\ BatchSize \in Nat \ {0}

VARIABLES
    derived,    \* derived[h]: the histories of the stored values of candle h
    todo        \* what scripts/calculate_indicators.py has left to write

\* Candles by open_time: the i-th has i - 1 before it.
Ascending(hours) ==
    [i \in 1 .. Cardinality(hours) |->
        CHOOSE h \in hours : Cardinality({g \in hours : g < h}) = i - 1]
ByTime(ids) == Ascending({dds[i].hour : i \in ids})

Ids == DOMAIN dds
IdOf(h) == CHOOSE i \in Ids : dds[i].hour = h

\* The histories of the candles from place first on.
Histories(candles, first) ==
    [i \in 1 .. Len(candles) - first + 1 |-> SubSeq(candles, 1, first + i - 1)]

Candle(history) == history[Len(history)]

\* calculate_and_store_indicators: all candles.
AllWork == Histories(ByTime(Ids), 1)

\* MAX(candle_id) over the indicators, whichever version they are of.
LastDerived == Max({0} \cup {i \in Ids : dds[i].hour \in DOMAIN derived})

\* Mutant: the warm-up is not cut off at the first new candle.
WarmUpBeforeAll(id) ==
    LET older == ByTime(Ids)
    IN  SubSeq(older, Max({1, Len(older) - WarmUp + 1}), Len(older))

\* _get_warmup_candles: the latest WarmUp candles with a smaller id.
WarmUpBefore(id) ==
    LET older == ByTime(1 .. id - 1)
    IN  SubSeq(older, Max({1, Len(older) - WarmUp + 1}), Len(older))

\* calculate_missing: the candles with a greater id, after their warm-up.
MissingWork ==
    LET new    == ByTime({i \in Ids : i > LastDerived})
        before == IF new = <<>> THEN <<>> ELSE WarmUpBefore(IdOf(new[1]))
    IN  Histories(before \o new, Len(before) + 1)

\* All six indicators and the regime are there.
Complete(h) == h \in DOMAIN derived /\ derived[h].long # <<>>

\* calculate_and_store_missing_indicators: the incomplete candles of a window,
\* computed over the whole history.
WindowWork(start, end) ==
    {p \in Range(AllWork) : Candle(p) \in start .. end - 1 /\ ~Complete(Candle(p))}

\* The candles with enough history for a value.
Computable(work) == {p \in work : Len(p) >= ShortBars}

\* Mutant: the rows of a candle are replaced as a whole.
WrittenWhole(work) ==
    LET long(h) == {p \in work : Candle(p) = h}
        hours   == {Candle(p) : p \in Computable(work)}
    IN  [h \in DOMAIN derived \cup hours |->
            IF h \notin hours THEN derived[h]
            ELSE LET p == CHOOSE q \in long(h) : TRUE
                 IN  [short |-> p, long |-> IF Len(p) >= LongBars THEN p ELSE <<>>]]

\* _store_indicator and _store_regime: ON CONFLICT DO UPDATE, value by value;
\* what cannot be computed leaves the stored value alone.
Written(work) ==
    LET of(h) == CHOOSE p \in work : Candle(p) = h
        hours == {Candle(p) : p \in Computable(work)}
        old(h) == IF h \in DOMAIN derived THEN derived[h] ELSE [short |-> <<>>, long |-> <<>>]
    IN  [h \in DOMAIN derived \cup hours |->
            IF h \notin hours THEN derived[h]
            ELSE [short |-> of(h), long |-> IF Len(of(h)) >= LongBars THEN of(h) ELSE old(h).long]]

-----------------------------------------------------------------------------
DerivedInit == derived = <<>> /\ todo = <<>>

StartCalculation(work) ==
    /\ todo = <<>> /\ work # <<>>
    /\ todo' = work
    /\ UNCHANGED <<storeVars, derived>>

\* Every BatchSize candles the transaction is committed.
CalculateBatch ==
    /\ todo # <<>>
    /\ derived' = Written(Range(SubSeq(todo, 1, Min({BatchSize, Len(todo)}))))
    /\ todo' = SubSeq(todo, BatchSize + 1, Len(todo))
    /\ UNCHANGED storeVars

\* The candles of the last batch that was committed stay.
CalculationFails ==
    /\ todo # <<>>
    /\ todo' = <<>>
    /\ UNCHANGED <<storeVars, derived>>
=============================================================================
