------------------------------ MODULE DataOps ------------------------------
(***************************************************************************)
(* The operator's programs around the candle tables, any of which can run  *)
(* while the others do: scripts/load_history.py, load_dds.py and           *)
(* calculate_indicators.py, MarketPipeline.process_new_candles, the        *)
(* ingestion of the paper feed, the maintenance of the sealed holdout      *)
(* (update_holdout_data.py), and the checks that say whether the data is   *)
(* fit for use: holdout_validation.py, verify_market_data.py, the data     *)
(* quality checker and diagnose_readiness.py.                              *)
(***************************************************************************)
EXTENDS DerivedStore

CONSTANTS
    PeriodStart, PeriodEnd,     \* the holdout is [PeriodStart, PeriodEnd)
    UnlockAt,                   \* unlock_at of the holdout
    DerivedWarmUp               \* DERIVED_WARMUP_BARS, 208

ASSUME HoldoutAssumption ==
    /\ PeriodStart \in Nat /\ PeriodEnd \in Nat /\ PeriodStart < PeriodEnd
    /\ DerivedWarmUp \in 0 .. PeriodStart /\ UnlockAt \in Nat /\ UnlockAt >= PeriodEnd
    /\ {"history", "holdout"} \subseteq Loaders

VARIABLE update     \* update_holdout_data.py

vars == <<storeVars, derived, todo, update>>

IdleUpdate == [pc |-> "idle", asOf |-> 0, work |-> {}]

Init ==
    /\ StoreInit /\ DerivedInit
    /\ update = IdleUpdate

-----------------------------------------------------------------------------
(* The scripts that load, copy and calculate.                              *)

\* load_history.py: from a date, or with --resume from the checkpoint.  Without
\* --end the range runs up to this moment, and includes the forming candle.
LoadHistory(from, end) ==
    /\ from \in Hours \/ (journal # Never /\ from = journal + 1)
    /\ end \in {now, now + 1}
    /\ Load("history", from, end)
    /\ UNCHANGED <<now, raw, journal, dds, events, etl, runs, derived, todo, update>>

\* load_dds.py, and the ingestion of the feed after its own load.
LoadDds ==
    /\ LoadRawCandles(now)
    /\ UNCHANGED <<now, raw, journal, loader, derived, todo, update>>

CalculateAll     == StartCalculation(AllWork) /\ UNCHANGED update
CalculateMissing == StartCalculation(MissingWork) /\ UNCHANGED update
Calculate        == (CalculateBatch \/ CalculationFails) /\ UNCHANGED update

-----------------------------------------------------------------------------
(* The checks.                                                             *)

\* completed_interval_end
CompletedEnd(asOf) == Max({PeriodStart, Min({asOf, PeriodEnd})})

\* expected_completed_candles
Expected(asOf) == PeriodStart .. CompletedEnd(asOf) - 1

\* SymbolDataHealth.healthy: as many candles as hours, each with a full set of
\* derived rows.
Healthy(asOf) == \A h \in Expected(asOf) : h \in InDds /\ Complete(h)

\* evaluate_open_gate: the time alone decides, and the strategy module being there.
HoldoutOpen(implemented) == now >= UnlockAt /\ implemented

Contiguous(hours) == \A g, h \in hours : g .. h \subseteq hours

\* verify_market_data.py over [start, end), with --layer all.
Verified(start, end) ==
    /\ start .. end - 1 \subseteq DOMAIN raw \cap InDds
    /\ \A h \in start .. end - 1 : Flaws[h] = {}
    /\ {e \in events : e.hour \in start .. end - 1} = {}
    /\ runs.count > 0

\* DataQualityChecker: prices and volume of the candles in DDS.
QualityChecks == {"non_positive_price", "invalid_ohlc", "negative_activity"}
QualityPassed == \A h \in InDds : Flaws[h] \cap QualityChecks = {}

\* The Booleans of sql/diagnostic_readiness.sql.
RawCheck ==
    /\ DOMAIN raw # {} /\ Contiguous(DOMAIN raw) /\ (\A h \in DOMAIN raw : Flaws[h] = {})
    /\ journal # Never
RepeatIsClean == runs.count = 2 /\ runs.clean
FinalCheck    == runs.count > 0 /\ events = {} /\ dds # <<>>

DatabaseReady == RawCheck /\ RepeatIsClean /\ etl.loadedAt # Never /\ FinalCheck

\* diagnose_readiness.py: the commands it runs with --run-active-checks, and what it
\* asks of GitHub and git.
ActiveChecks == <<"migration_first", "migration_second", "test_database", "integration_tests",
                  "raw_to_dds_first", "raw_to_dds_repeat">>
CiChecks == {"Ruff", "Unit tests", "PostgreSQL 17 integration", "ci_commit_matches_local",
             "tracked_worktree_clean"}
AllPassed == [c \in Range(ActiveChecks) \cup CiChecks |-> TRUE]

\* What fails stops the flow.
ActiveStatus(ok, i) ==
    IF \E j \in 1 .. i - 1 : ~ok[ActiveChecks[j]] THEN "blocked"
    ELSE IF ok[ActiveChecks[i]] THEN "success" ELSE "failed"

CiPassed(ok) == \A c \in CiChecks : ok[c]

\* Every mandatory check has status success.
FullLoadAllowed(active, ok) ==
    /\ active /\ \A i \in DOMAIN ActiveChecks : ActiveStatus(ok, i) = "success"
    /\ DatabaseReady
    /\ CiPassed(ok)

-----------------------------------------------------------------------------
(* update_holdout_data.py.                                                 *)

\* next_collection_start
CollectionStart ==
    IF journal = Never THEN PeriodStart - DerivedWarmUp
    ELSE Max({PeriodStart - DerivedWarmUp, journal + 1})

\* collect_closed_raw
StartUpdate ==
    /\ update.pc = "idle"
    /\ update' = [IdleUpdate EXCEPT !.pc = "collect", !.asOf = now]
    /\ \/ /\ CollectionStart < CompletedEnd(now)
          /\ Load("holdout", CollectionStart, CompletedEnd(now))
       \/ /\ CollectionStart >= CompletedEnd(now)
          /\ UNCHANGED loader
    /\ UNCHANGED <<now, raw, journal, dds, events, etl, runs, derived, todo>>

\* load_raw_to_dds.  A run that is not clean raises, after its commit.
UpdateDds ==
    /\ update.pc = "collect" /\ loader["holdout"].pc = "idle"
    /\ LoadRawCandles(update.asOf)
    /\ LET run == EtlFinds(update.asOf)
       IN  update' = IF run.rejected \/ run.deferred THEN IdleUpdate ELSE [update EXCEPT !.pc = "derive"]
    /\ UNCHANGED <<now, raw, journal, loader, derived, todo>>

\* calculate_missing_derived: the candles and the gaps are read, ...
UpdateReads ==
    /\ update.pc = "derive"
    /\ update' = [update EXCEPT !.pc = "write", !.work = WindowWork(PeriodStart, CompletedEnd(update.asOf))]
    /\ UNCHANGED <<storeVars, derived, todo>>

\* ... and written in one transaction.
UpdateWrites ==
    /\ update.pc = "write"
    /\ derived' = Written(update.work)
    /\ update' = [update EXCEPT !.pc = "gate", !.work = {}]
    /\ UNCHANGED <<storeVars, todo>>

\* run_health_gate: PASS, or the exit code of the health script.
UpdateGate ==
    /\ update.pc = "gate"
    /\ \/ Healthy(update.asOf)
       \/ ~Healthy(update.asOf)
    /\ update' = IdleUpdate
    /\ UNCHANGED <<storeVars, derived, todo>>

\* An exception or the end of the process; with it goes a load that is under way.
UpdateFails ==
    /\ update.pc # "idle"
    /\ update' = IdleUpdate
    /\ IF loader["holdout"].pc = "idle" THEN UNCHANGED storeVars ELSE LoadFails("holdout")
    /\ UNCHANGED <<derived, todo>>

-----------------------------------------------------------------------------
Collecting(l) == (\E last \in Hours : Fetch(l, last)) \/ Store(l)

HistoryCollects ==
    (Collecting("history") \/ LoadFails("history")) /\ UNCHANGED <<derived, todo, update>>
HoldoutCollects ==
    Collecting("holdout") /\ UNCHANGED <<derived, todo, update>>

UpdateStep ==
    \/ NothingToFetch("holdout") /\ UpdateFails
    \/ UpdateDds \/ UpdateReads \/ UpdateWrites \/ UpdateGate

Next ==
    \/ Clock /\ UNCHANGED <<derived, todo, update>>
    \/ \E from \in Hours, end \in 1 .. LastHour + 1 : LoadHistory(from, end)
    \/ HistoryCollects \/ HoldoutCollects
    \/ LoadDds
    \/ CalculateAll \/ CalculateMissing \/ Calculate
    \/ StartUpdate \/ UpdateStep \/ UpdateFails

\* Requests have a timeout, and statements run to their end: an update that has
\* begun goes on.
Spec == Init /\ [][Next]_vars /\ WF_vars(HoldoutCollects) /\ WF_vars(UpdateStep)

-----------------------------------------------------------------------------
(* Properties.                                                             *)

Ledger == INSTANCE AppendOnly WITH
    source <- [h \in DOMAIN raw |-> raw[h].final],
    copy   <- [h \in InDds |-> dds[IdOf(h)].final]

\* RAW and DDS implement a ledger and its copy: whoever collects and copies at
\* the same time, a candle that is stored never changes or disappears, and DDS
\* has no candle, and no version of a candle, that RAW does not have.
RawToDds == Ledger!Spec

\* The two cutoffs of dds.load_raw_candles leave no row behind: one stored up to
\* its checkpoint and closed by its last run is in DDS, or each of its flaws is
\* on record, however often it was deferred, unless it was committed behind the
\* checkpoint.  No flawed candle is in DDS.
RawIsSettled ==
    /\ \A h \in DOMAIN raw :
            raw[h].at <= etl.loadedAt /\ Closes(h) <= etl.lastRun /\ ~raw[h].late =>
                IF Flaws[h] = {} THEN h \in InDds
                ELSE \A c \in Flaws[h] : [hour |-> h, check |-> c] \in events
    /\ \A h \in InDds : Flaws[h] = {}

\* Candles get their ids in the order of time, as long as nothing is backfilled.
IdsAscend == \A i, j \in Ids : i < j => dds[i].hour < dds[j].hour

\* As long as nothing is backfilled, whichever calculation wrote last and wherever
\* it was interrupted, a stored value was computed from the candles just before
\* its own, without a hole and without one from the future, and from enough of
\* them.
DerivedLooksBack ==
    IdsAscend =>
        \A h \in DOMAIN derived :
            LET past == ByTime({i \in Ids : dds[i].hour <= h}) IN
            /\ IsSuffix(derived[h].short, past) /\ Len(derived[h].short) >= ShortBars
            /\ derived[h].long # <<>> =>
                IsSuffix(derived[h].long, past) /\ Len(derived[h].long) >= LongBars

\* It does not matter which collector derived a candle, or how many later candles
\* it had read: from a history as long as those that are stored, both give the same
\* indicators and the same regime, for any positive prices.  (The comments of
\* calculate_historical_volatility_series and classify_regime say so.)
CalculatorsAgree ==
    /\ \A h \in DOMAIN derived : Len(derived[h].short) <= MaxSample
    /\ SamplesAgree

\* What the checks attest.  A period that is healthy, or a range that is verified,
\* stays so whatever the other programs do.  An open holdout with healthy data is
\* complete up to its end.  When the readiness check allows the full load, every
\* candle in RAW has been copied, except those stored or closed since the last run and
\* those committed behind the checkpoint.  The data quality checker finds no fault in
\* DDS that the ETL let through.
GatesHold ==
    [][/\ \A asOf \in PeriodStart + 1 .. PeriodEnd : Healthy(asOf) => Healthy(asOf)'
       /\ \A h \in Hours : Verified(h, h + 1) => Verified(h, h + 1)'
       /\ HoldoutOpen(TRUE) /\ Healthy(now) => \A h \in PeriodStart .. PeriodEnd - 1 : Complete(h)
       /\ QualityPassed
       /\ FullLoadAllowed(TRUE, AllPassed) =>
            \A h \in DOMAIN raw :
                h \in InDds \/ raw[h].late \/ raw[h].at > etl.loadedAt \/ Closes(h) > etl.lastRun]_vars

\* A holdout update ends, with PASS or without: requests are tried a bounded
\* number of times, and every page moves on.
UpdateEnds == update.pc # "idle" ~> update.pc = "idle"
=============================================================================
