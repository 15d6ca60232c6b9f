----------------------------- MODULE Reconciler -----------------------------
(***************************************************************************)
(* PaperReconciler compares the books of the running engine with the       *)
(* database, one table after the other, while the engine goes on trading   *)
(* and persisting.  PaperApplication feeds the verdict to the RiskEngine.  *)
(*                                                                         *)
(* One symbol is bought one unit at a time; order and fill n belong to the *)
(* n-th purchase.  The engine never changes its cash, so the balance check *)
(* only tells whether a state row exists.  The runtime awaits its writes   *)
(* before the next candle, so at most one purchase is being persisted.     *)
(***************************************************************************)
EXTENDS Naturals, Sequences

CONSTANTS
    MaxOrders,      \* bound on the purchases
    Rows,           \* what a repository may return: "dict", "dataclass" or both
    WritesFail,     \* a write may raise and end the persistence of its purchase
    MaxRestarts, MaxCycles

ASSUME ReconcilerAssumption ==
    /\ {MaxOrders, MaxRestarts, MaxCycles} \subseteq Nat
    /\ Rows \subseteq {"dict", "dataclass"}
    /\ WritesFail \in BOOLEAN

VARIABLES
    books,       \* the engine's orders, fills and position
    tables,      \* the same in the database; row: a runtime state row exists
    write,       \* the next write of the purchase that is being persisted
    next,        \* number of the next purchase
    pc,          \* what reconcile() loads next, "idle" between two cycles
    loaded,      \* what it has loaded
    verdict,     \* of the last cycle
    trusted,     \* RiskEngine.reconciliation_ok
    streak,      \* consecutive_fatal
    cycles, restarts,
    rows         \* the kind of rows this deployment's repository returns

cycleVars == <<pc, loaded, verdict, trusted, streak, cycles>>
vars == <<books, tables, write, next, cycleVars, restarts, rows>>

-----------------------------------------------------------------------------
Numbers == 1 .. MaxOrders
Parts == <<"order", "fill", "position", "state">>
NoWrite == [number |-> 0, part |-> 1]
EmptyBooks == [orders |-> {}, fills |-> {}, position |-> 0]
EmptyTables == [orders |-> {}, fills |-> {}, position |-> 0, row |-> FALSE]

TypeOK ==
    /\ books \in [orders : SUBSET Numbers, fills : SUBSET Numbers, position : 0 .. MaxOrders]
    /\ tables \in [orders : SUBSET Numbers, fills : SUBSET Numbers, position : 0 .. MaxOrders,
                   row : BOOLEAN]
    /\ loaded \in [orders : SUBSET Numbers, fills : SUBSET Numbers, position : 0 .. MaxOrders,
                   row : BOOLEAN]
    /\ write \in [number : 0 .. MaxOrders, part : 1 .. 4]
    /\ next \in 1 .. MaxOrders + 1
    /\ pc \in {"idle", "orders", "fills", "positions", "state"}
    /\ verdict \in {"none", "clean", "fatal", "raised"}
    /\ trusted \in BOOLEAN
    /\ streak \in 0 .. cycles
    /\ cycles \in 0 .. MaxCycles /\ restarts \in 0 .. MaxRestarts
    /\ rows \in Rows

Init ==
    /\ books = EmptyBooks /\ tables = EmptyTables /\ loaded = EmptyTables
    /\ write = NoWrite /\ next = 1
    /\ pc = "idle" /\ verdict = "none" /\ trusted = TRUE /\ streak = 0
    /\ cycles = 0 /\ restarts = 0
    /\ rows \in Rows

-----------------------------------------------------------------------------
(* The engine.                                                             *)

Buy ==
    /\ next <= MaxOrders /\ write = NoWrite
    /\ books' = [orders |-> books.orders \cup {next}, fills |-> books.fills \cup {next},
                 position |-> books.position + 1]
    /\ write' = [number |-> next, part |-> 1]
    /\ next' = next + 1
    /\ UNCHANGED <<tables, cycleVars, restarts, rows>>

\* _persist_execution: order, fill, position, then the runtime state.
Persist ==
    LET n == write.number IN
    /\ write # NoWrite
    /\ tables' = CASE Parts[write.part] = "order" -> [tables EXCEPT !.orders = @ \cup {n}]
                   [] Parts[write.part] = "fill" -> [tables EXCEPT !.fills = @ \cup {n}]
                   [] Parts[write.part] = "position" -> [tables EXCEPT !.position = books.position]
                   [] OTHER -> [tables EXCEPT !.row = TRUE]
    /\ write' = IF write.part = 4 THEN NoWrite ELSE [write EXCEPT !.part = @ + 1]
    /\ UNCHANGED <<books, next, cycleVars, restarts, rows>>

PersistRaises ==
    /\ WritesFail /\ write # NoWrite
    /\ write' = NoWrite
    /\ UNCHANGED <<books, tables, next, cycleVars, restarts, rows>>

\* A state row is also written for a candle without a purchase.
SaveState ==
    /\ write = NoWrite
    /\ tables' = [tables EXCEPT !.row = TRUE]
    /\ UNCHANGED <<books, write, next, cycleVars, restarts, rows>>

\* The process ends; the next one restores the engine only if a state row exists.
Restart ==
    /\ restarts < MaxRestarts /\ restarts' = restarts + 1
    /\ books' = IF tables.row
                  THEN [orders |-> tables.orders, fills |-> tables.fills,
                        position |-> tables.position]
                  ELSE EmptyBooks
    /\ write' = NoWrite
    /\ pc' = "idle" /\ verdict' = "none" /\ trusted' = TRUE /\ streak' = 0
    /\ UNCHANGED <<tables, next, loaded, cycles, rows>>

-----------------------------------------------------------------------------
(* reconcile(): four loads, then the comparison with the live books.       *)

Begin ==
    /\ pc = "idle" /\ cycles < MaxCycles /\ cycles' = cycles + 1
    /\ pc' = "orders"
    /\ UNCHANGED <<books, tables, write, next, loaded, verdict, trusted, streak, restarts, rows>>

LoadOrders ==
    /\ pc = "orders"
    /\ loaded' = [loaded EXCEPT !.orders = tables.orders]
    /\ pc' = "fills"
    /\ UNCHANGED <<books, tables, write, next, verdict, trusted, streak, cycles, restarts, rows>>

LoadFills ==
    /\ pc = "fills"
    /\ loaded' = [loaded EXCEPT !.fills = tables.fills]
    /\ pc' = "positions"
    /\ UNCHANGED <<books, tables, write, next, verdict, trusted, streak, cycles, restarts, rows>>

LoadPositions ==
    /\ pc = "positions"
    /\ loaded' = [loaded EXCEPT !.position = tables.position]
    /\ pc' = "state"
    /\ UNCHANGED <<books, tables, write, next, verdict, trusted, streak, cycles, restarts, rows>>

\* Orders and fills are indexed with row.get(...), which only a dict has.
Indexable(view) == rows = "dict" \/ (view.orders = {} /\ view.fills = {})

\* Mutant: only rows that are missing in the database count.
FatalDiscrepancyOneWay(view) ==
    \/ books.position # view.position
    \/ ~view.row

\* Mutant: positions are not compared.
FatalDiscrepancyRowsOnly(view) ==
    \/ view.orders \ books.orders # {}
    \/ view.fills \ books.fills # {}
    \/ ~view.row

\* Mutant: a position difference of zero is beyond the tolerance.
FatalDiscrepancyAtTolerance(view) ==
    \/ view.orders \ books.orders # {}
    \/ view.fills \ books.fills # {}
    \/ books.position >= view.position
    \/ ~view.row

\* Rows the runtime does not know, a position that differs, and a balance that
\* differs are FATAL; rows the database does not have yet are RECOVERABLE.
FatalDiscrepancy(view) ==
    \/ view.orders \ books.orders # {}
    \/ view.fills \ books.fills # {}
    \/ books.position # view.position
    \/ ~view.row

Settle(v) ==
    /\ verdict' = v /\ trusted' = (v = "clean")
    /\ pc' = "idle"

Compare ==
    LET view == [loaded EXCEPT !.row = tables.row] IN
    /\ pc = "state"
    /\ loaded' = view
    /\ IF ~Indexable(view) THEN Settle("raised") /\ UNCHANGED streak
       ELSE IF FatalDiscrepancy(view) THEN Settle("fatal") /\ streak' = streak + 1
       ELSE Settle("clean") /\ streak' = 0
    /\ UNCHANGED <<books, tables, write, next, cycles, restarts, rows>>

\* A load fails, for instance because the shared connection is writing.
LoadRaises ==
    /\ pc # "idle" /\ (WritesFail \/ write # NoWrite)
    /\ Settle("raised")
    /\ UNCHANGED <<books, tables, write, next, loaded, streak, cycles, restarts, rows>>

Next ==
    \/ Buy \/ Persist \/ PersistRaises \/ SaveState \/ Restart
    \/ Begin \/ LoadOrders \/ LoadFills \/ LoadPositions \/ Compare \/ LoadRaises

Spec == Init /\ [][Next]_vars

-----------------------------------------------------------------------------
(* Properties.                                                             *)

Equal ==
    /\ tables.row /\ books.orders = tables.orders /\ books.fills = tables.fills
    /\ books.position = tables.position

CycleEnds == pc = "state" /\ pc' = "idle" /\ restarts' = restarts

\* A process that lost track of durable orders or fills (its restore was
\* skipped) is never trusted once it has reconciled, however its own trading
\* and writing interleave with the loads.
BlindRestartIsCaught ==
    verdict # "none" /\ (~(tables.orders \subseteq books.orders) \/ ~(tables.fills \subseteq books.fills))
        => ~trusted

\* A clean verdict on a quiet engine means that the durable position is right.
CleanMeansPosition ==
    [][CycleEnds /\ verdict' = "clean" /\ write = NoWrite
         => tables.row /\ tables.position = books.position]_vars

\* Books that agree with the database, in rows of the kind the reconciler is written for
\* ("async def load_orders(self) -> list[dict[str, Any]]"), with nothing under
\* way, leave trading allowed: "FATAL: missing orders in DB, position exists in
\* DB but not in runtime (or vice versa), balance mismatch beyond tolerance" do
\* not apply to them.  The rows of the PostgreSQL repository are of the other
\* kind.
EqualBooksAreTrusted ==
    [][Compare /\ rows = "dict" /\ write = NoWrite /\ Equal
         /\ loaded.orders = tables.orders /\ loaded.fills = tables.fills
         /\ loaded.position = tables.position
         => verdict' = "clean"]_vars

\* A verdict of reconcile() on a quiet engine can be relied on both ways: clean
\* is right about the position, and agreeing books are not blocked.
VerdictsAreSound == CleanMeansPosition /\ EqualBooksAreTrusted
=============================================================================
