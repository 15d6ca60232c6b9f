---------------------------- MODULE CandleStore ----------------------------
(***************************************************************************)
(* The candles of one symbol and interval on their way into the database:  *)
(*                                                                         *)
(*   exchange --CandleCollector--> RAW --dds.load_raw_candles--> DDS       *)
(*                                                                         *)
(* Candle h opens at hour h and closes at hour h + 1.  Every hour has one; *)
(* the one that is still forming can be fetched as well, and holds other   *)
(* values than it will have at its close.  A row says which of the two it  *)
(* is, and the prices are abstracted to the checks they fail.              *)
(*                                                                         *)
(* Collectors are processes of their own (a history load, the paper feed,  *)
(* the maintenance of the holdout) and can run at the same time.  A page   *)
(* is stored in one transaction, whose rows carry the time it began at.    *)
(***************************************************************************)
EXTENDS Integers, SequencesExt

CONSTANTS
    LastHour,       \* the last hour
    Loaders,        \* processes with a CandleCollector
    PageSize,       \* candles of a request, 1000
    Flaws,          \* Flaws[h]: the checks candle h fails
    MaxPages        \* bound on the transactions that store candles

Hours  == 0 .. LastHour
Checks == {"invalid_close_time", "non_positive_price", "invalid_ohlc", "negative_activity"}

ASSUME StoreAssumption ==
    /\ LastHour \in Nat /\ MaxPages \in Nat /\ PageSize \in Nat \ {0}
    /\ IsFiniteSet(Loaders)
    /\ Flaws \in [Hours -> SUBSET Checks]

VARIABLES
    now,        \* the hour that is forming
    raw,        \* raw_market.candles, by open_time
    journal,    \* raw_system.loading_journal: max(end_time) of the pages stored
    dds,        \* dds.candle, in the order of candle_id
    events,     \* dds.data_quality_event, by open_time and check
    etl,        \* dds.etl_checkpoint
    runs,       \* dds.etl_run: how many (two stands for more), and whether the
                \* last inserted, rejected and deferred nothing
    loader      \* loader[l]: where a collector is

storeVars == <<now, raw, journal, dds, events, etl, runs, loader>>

Closes(h) == h + 1
Never == -1

IdleLoader == [pc |-> "idle", from |-> 0, end |-> 0, page |-> {}, closed |-> {}, at |-> 0]

StoreInit ==
    /\ now = 0
    /\ raw = <<>> /\ journal = Never /\ dds = <<>> /\ events = {}
    /\ etl = [loadedAt |-> Never, lastRun |-> Never]
    /\ runs = [count |-> 0, clean |-> FALSE]
    /\ loader = [l \in Loaders |-> IdleLoader]

Clock ==
    /\ now < LastHour
    /\ now' = now + 1
    /\ UNCHANGED <<raw, journal, dds, events, etl, runs, loader>>

-----------------------------------------------------------------------------
(* Collecting.                                                             *)

\* loaded_at of the transaction that begins now.
LoadedAt == 1 + Max({0} \cup {raw[h].at : h \in DOMAIN raw} \cup {loader[l].at : l \in Loaders})

\* Candles a running load may still store.
Remaining(l) ==
    IF loader[l].pc = "idle" THEN 0 ELSE loader[l].end - loader[l].from

\* load_historical_candles, before its loop.  An empty range is no load.
Load(l, from, end) ==
    /\ loader[l].pc = "idle"
    /\ LoadedAt + MapThenSumSet(Remaining, Loaders) + end - from <= MaxPages + 1
    /\ from < end
    /\ loader' = [loader EXCEPT ![l] = [IdleLoader EXCEPT !.pc = "fetch", !.from = from, !.end = end]]

\* What the next request asks for: a bounded inclusive window, and of the
\* answer only what lies before the end of the range.
Window(l) ==
    {h \in loader[l].from .. loader[l].from + PageSize - 1 : h < loader[l].end /\ h <= now}

\* An answer passes _validate_batch if it is not empty, has no gap and starts
\* where the page does.  It may stop short.  The transaction begins.
Fetch(l, last) ==
    /\ loader[l].pc = "fetch"
    /\ last \in Window(l)
    /\ loader' = [loader EXCEPT ![l].pc = "store", ![l].page = loader[l].from .. last,
                                ![l].closed = {h \in loader[l].from .. last : Closes(h) <= now}, ![l].at = LoadedAt]
    /\ UNCHANGED <<now, raw, journal, dds, events, etl, runs>>

\* An answer without a candle of the range raises: nothing has opened yet.
NothingToFetch(l) == loader[l].pc = "fetch" /\ Window(l) = {}

\* _get_raw has tried MAX_GET_ATTEMPTS times; an authentication error, a rejected
\* request, an empty answer, one with a gap or a duplicate, a failing insert, or
\* the end of the process: the transaction is rolled back.
LoadFails(l) ==
    /\ loader[l].pc # "idle"
    /\ loader' = [loader EXCEPT ![l] = IdleLoader]
    /\ UNCHANGED <<now, raw, journal, dds, events, etl, runs>>

\* A row committed behind the checkpoint of the ETL is marked: nothing in the
\* database tells it apart.
RawRow(l, h) ==
    [at |-> loader[l].at, final |-> h \in loader[l].closed, late |-> loader[l].at <= etl.loadedAt]

\* Mutant: a candle that is already there is overwritten.
StoredOver(l) ==
    [h \in DOMAIN raw \cup loader[l].page |-> IF h \in loader[l].page THEN RawRow(l, h) ELSE raw[h]]

\* _store_candles: ON CONFLICT DO NOTHING.
Stored(l) ==
    [h \in DOMAIN raw \cup loader[l].page |-> IF h \in DOMAIN raw THEN raw[h] ELSE RawRow(l, h)]

\* Mutant: the next page starts at the last candle of this one.
NextPageOverlaps(l) ==
    LET next == Max(loader[l].page)
    IN  IF next < loader[l].end THEN [IdleLoader EXCEPT !.pc = "fetch", !.from = next, !.end = loader[l].end]
        ELSE IdleLoader

NextPage(l) ==
    LET next == Max(loader[l].page) + 1
    IN  IF next < loader[l].end THEN [IdleLoader EXCEPT !.pc = "fetch", !.from = next, !.end = loader[l].end]
        ELSE IdleLoader

\* _update_checkpoint and get_last_checkpoint: max(end_time) of the pages stored.
JournalAfter(l) == Max({journal} \cup loader[l].page)

\* The rows and the entry of the journal are committed together.
Store(l) ==
    /\ loader[l].pc = "store"
    /\ raw' = Stored(l)
    /\ journal' = JournalAfter(l)
    /\ loader' = [loader EXCEPT ![l] = NextPage(l)]
    /\ UNCHANGED <<now, dds, events, etl, runs>>

-----------------------------------------------------------------------------
(* dds.load_raw_candles, one transaction that locks its checkpoint.        *)

InDds == {dds[i].hour : i \in DOMAIN dds}

\* Mutant: a row that was deferred is not looked at again.
CandidatesOnce(asOf) == {h \in DOMAIN raw : raw[h].at > etl.loadedAt}

\* Rows that are new, and rows that have closed since the last run.
Candidates(asOf) ==
    {h \in DOMAIN raw :
        raw[h].at > etl.loadedAt \/ (Closes(h) > etl.lastRun /\ Closes(h) <= asOf)}

ClosedBy(hours, asOf) == {h \in hours : Closes(h) <= asOf}

Rejected(hours) == {h \in hours : Flaws[h] # {}}
Accepted(hours) == {h \in hours : Flaws[h] = {} /\ h \notin InDds}

\* New rows get their ids in the order RAW holds them in.
Older(g, h) == raw[g].at < raw[h].at \/ (raw[g].at = raw[h].at /\ g < h)
InOrder(hours) ==
    CHOOSE s \in [1 .. Cardinality(hours) -> hours] : \A i, j \in DOMAIN s : i < j => Older(s[i], s[j])
DdsRows(hours) ==
    LET ordered == InOrder(hours)
    IN  [i \in DOMAIN ordered |-> [hour |-> ordered[i], final |-> raw[ordered[i]].final]]

\* The counts of the row in dds.etl_run that are compared with 0.
EtlFinds(asOf) ==
    LET closed == ClosedBy(Candidates(asOf), asOf)
    IN  [inserted |-> Accepted(closed) # {}, rejected |-> Rejected(closed) # {},
         deferred |-> Candidates(asOf) # closed]

Upper == Max({etl.loadedAt} \cup {raw[h].at : h \in DOMAIN raw})

\* Without a row in RAW there is no stream, and nothing happens.
LoadRawCandles(asOf) ==
    LET closed == ClosedBy(Candidates(asOf), asOf) IN
    IF DOMAIN raw = {} THEN UNCHANGED <<dds, events, etl, runs>>
    ELSE /\ dds' = dds \o DdsRows(Accepted(closed))
         /\ events' = events \cup UNION {{[hour |-> h, check |-> c] : c \in Flaws[h]} : h \in closed}
         /\ etl' = [loadedAt |-> Upper, lastRun |-> asOf]
         /\ runs' = [count |-> Min({runs.count + 1, 2}),
                     clean |-> LET run == EtlFinds(asOf) IN ~run.inserted /\ ~run.rejected /\ ~run.deferred]
=============================================================================
