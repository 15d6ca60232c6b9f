-------------------------- MODULE ReconcilerProofs --------------------------
(***************************************************************************)
(* For any number of purchases, cycles and restarts, with failing writes   *)
(* and failing loads and with either kind of rows: a process that does not *)
(* know durable orders is not trusted once it has reconciled, and a        *)
(* verdict on a quiet engine can be relied on.                             *)
(*                                                                         *)
(* The loads see the tables at different times.  What makes them agree     *)
(* with the comparison is that nothing the process does changes the rows   *)
(* it is blind to: it only stores rows it has booked, and it books numbers *)
(* that were never used.  So the rows that are unknown at the comparison   *)
(* were already there, and unknown, at the load.                           *)
(***************************************************************************)
EXTENDS Reconciler, TLAPS

Tables == [orders : SUBSET Nat, fills : SUBSET Nat, position : Nat, row : BOOLEAN]

Shape ==
    /\ books \in [orders : SUBSET Nat, fills : SUBSET Nat, position : Nat]
    /\ tables \in Tables
    /\ loaded \in Tables
    /\ write \in [number : Nat, part : 1 .. 4]
    /\ next \in Nat \ {0}

\* A purchase being stored is in the books, and its order is stored first.
WriteBooked ==
    write # NoWrite =>
        /\ write.number \in books.orders /\ write.number \in books.fills
        /\ write.part > 1 => write.number \in tables.orders

\* Numbers are used once.
Used == \A n \in tables.orders \cup books.orders : n < next

\* A load has seen every row that the process does not know.
LoadedUnknown ==
    /\ pc \in {"fills", "positions", "state"} => tables.orders \ books.orders \subseteq loaded.orders
    /\ pc \in {"positions", "state"} => tables.fills \ books.fills \subseteq loaded.fills

\* Positions only grow, in the books and, while every order is known, in the
\* table behind them.
PositionsGrow ==
    /\ tables.orders = {} => tables.position = 0
    /\ tables.orders \subseteq books.orders => tables.position <= books.position
    /\ pc = "state" /\ tables.orders \subseteq books.orders => loaded.position <= tables.position

BlindInv ==
    Shape /\ WriteBooked /\ Used /\ LoadedUnknown /\ PositionsGrow /\ BlindRestartIsCaught

-----------------------------------------------------------------------------
\* Nothing is stored, booked or loaded at first.
LEMMA BlindInit == Init => BlindInv
  BY DEF Init, BlindInv, Shape, Tables, WriteBooked, Used, LoadedUnknown, PositionsGrow,
         BlindRestartIsCaught, EmptyBooks, EmptyTables, NoWrite

\* Buy books the next number, and the tables do not have it.
LEMMA BlindBuy == BlindInv /\ Buy => BlindInv'
<1> SUFFICES ASSUME BlindInv, Buy PROVE BlindInv'
  OBVIOUS
<1> USE DEF BlindInv, Buy, cycleVars
<1>1. Shape'
  BY DEF Shape, Tables, NoWrite
<1>2. WriteBooked'
  BY DEF Shape, WriteBooked, NoWrite
<1>3. Used'
  BY DEF Shape, Tables, Used
<1>4. LoadedUnknown'
  BY DEF Shape, LoadedUnknown
<1>5. PositionsGrow'
  <2>1. next \notin tables.orders
    BY DEF Shape, Tables, Used
  <2>2. tables.orders \subseteq books'.orders => tables.orders \subseteq books.orders
    BY <2>1 DEF Shape
  <2> QED
    BY <2>2 DEF Shape, Tables, PositionsGrow
<1>6. BlindRestartIsCaught'
  BY DEF Shape, BlindRestartIsCaught
<1> QED
  BY <1>1, <1>2, <1>3, <1>4, <1>5, <1>6

\* _persist_execution stores what is booked.
LEMMA BlindPersist == BlindInv /\ Persist => BlindInv'
<1> SUFFICES ASSUME BlindInv, Persist PROVE BlindInv'
  OBVIOUS
<1>0. /\ write \in [number : Nat, part : 1 .. 4] /\ tables \in Tables
      /\ write.number \in books.orders /\ write.number \in books.fills
      /\ write.part > 1 => write.number \in tables.orders
      /\ UNCHANGED <<books, next, pc, loaded, verdict, trusted>>
      /\ books.position \in Nat
  BY DEF BlindInv, Shape, WriteBooked, Persist, cycleVars
<1>1. CASE write.part = 1
  <2>1. /\ tables' = [tables EXCEPT !.orders = @ \cup {write.number}]
        /\ write' = [write EXCEPT !.part = 2]
    BY <1>0, <1>1 DEF Persist, Parts
  <2> QED
    BY <1>0, <1>1, <2>1
    DEF BlindInv, Shape, Tables, WriteBooked, Used, LoadedUnknown, PositionsGrow,
        BlindRestartIsCaught, NoWrite
<1>2. CASE write.part = 2
  <2>1. /\ tables' = [tables EXCEPT !.fills = @ \cup {write.number}]
        /\ write' = [write EXCEPT !.part = 3]
    BY <1>0, <1>2 DEF Persist, Parts
  <2> QED
    BY <1>0, <1>2, <2>1
    DEF BlindInv, Shape, Tables, WriteBooked, Used, LoadedUnknown, PositionsGrow,
        BlindRestartIsCaught, NoWrite
<1>3. CASE write.part = 3
  <2>1. /\ tables' = [tables EXCEPT !.position = books.position]
        /\ write' = [write EXCEPT !.part = 4]
    BY <1>0, <1>3 DEF Persist, Parts
  <2> QED
    BY <1>0, <1>3, <2>1
    DEF BlindInv, Shape, Tables, WriteBooked, Used, LoadedUnknown, PositionsGrow,
        BlindRestartIsCaught, NoWrite
<1>4. CASE write.part = 4
  <2>1. tables' = [tables EXCEPT !.row = TRUE] /\ write' = NoWrite
    BY <1>0, <1>4 DEF Persist, Parts
  <2>2. /\ tables'.orders = tables.orders /\ tables'.fills = tables.fills
        /\ tables'.position = tables.position /\ tables' \in Tables
    BY <1>0, <2>1 DEF Tables
  <2>3. Shape' /\ WriteBooked'
    BY <1>0, <2>1, <2>2 DEF BlindInv, Shape, WriteBooked, NoWrite
  <2>4. Used' /\ LoadedUnknown' /\ PositionsGrow' /\ BlindRestartIsCaught'
    BY <1>0, <2>2 DEF BlindInv, Used, LoadedUnknown, PositionsGrow, BlindRestartIsCaught
  <2> QED
    BY <2>3, <2>4 DEF BlindInv
<1> QED
  BY <1>0, <1>1, <1>2, <1>3, <1>4

\* restore_state reads the tables, or finds no state row and starts empty.
LEMMA BlindRestart == BlindInv /\ Restart => BlindInv'
<1> SUFFICES ASSUME BlindInv, Restart PROVE BlindInv'
  OBVIOUS
<1> USE DEF BlindInv, Restart, Shape, Tables, EmptyBooks, NoWrite
<1>1. CASE tables.row
  BY <1>1 DEF WriteBooked, Used, LoadedUnknown, PositionsGrow, BlindRestartIsCaught
<1>2. CASE ~tables.row
  BY <1>2 DEF WriteBooked, Used, LoadedUnknown, PositionsGrow, BlindRestartIsCaught
<1> QED
  BY <1>1, <1>2

\* The comparison of reconcile() looks at books and loads together: unknown
\* rows are among the loaded ones, and make the verdict fatal.
LEMMA BlindCompare == BlindInv /\ Compare => BlindInv'
<1> SUFFICES ASSUME BlindInv, Compare PROVE BlindInv'
  OBVIOUS
<1> USE DEF BlindInv
<1>1. /\ pc = "state" /\ pc' = "idle"
      /\ loaded' = [loaded EXCEPT !.row = tables.row]
      /\ UNCHANGED <<books, tables, write, next>>
  BY DEF Compare, Settle
<1>2. Shape' /\ WriteBooked' /\ Used' /\ LoadedUnknown' /\ PositionsGrow'
  BY <1>1 DEF Shape, Tables, WriteBooked, Used, LoadedUnknown, PositionsGrow
<1>3. trusted' => ~FatalDiscrepancy([loaded EXCEPT !.row = tables.row])
  BY DEF Compare, Settle
<1>4. trusted' => tables.orders \subseteq books.orders /\ tables.fills \subseteq books.fills
  BY <1>1, <1>3 DEF Shape, Tables, LoadedUnknown, FatalDiscrepancy
<1> QED
  BY <1>1, <1>2, <1>4 DEF BlindRestartIsCaught

\* Every step of engine and reconciler keeps the invariant.
LEMMA BlindStep == BlindInv /\ [Next]_vars => BlindInv'
<1> SUFFICES ASSUME BlindInv, [Next]_vars PROVE BlindInv'
  OBVIOUS
<1>1. CASE PersistRaises
  BY <1>1 DEF PersistRaises, BlindInv, Shape, Tables, WriteBooked, Used, LoadedUnknown, PositionsGrow,
              BlindRestartIsCaught, NoWrite, cycleVars
<1>2. CASE SaveState
  BY <1>2 DEF SaveState, BlindInv, Shape, Tables, WriteBooked, Used, LoadedUnknown, PositionsGrow,
              BlindRestartIsCaught, cycleVars
<1>3. CASE Begin
  BY <1>3 DEF Begin, BlindInv, Shape, Tables, WriteBooked, Used, LoadedUnknown, PositionsGrow,
              BlindRestartIsCaught
<1>4. CASE LoadOrders
  BY <1>4 DEF LoadOrders, BlindInv, Shape, Tables, WriteBooked, Used, LoadedUnknown, PositionsGrow,
              BlindRestartIsCaught
<1>5. CASE LoadFills
  BY <1>5 DEF LoadFills, BlindInv, Shape, Tables, WriteBooked, Used, LoadedUnknown, PositionsGrow,
              BlindRestartIsCaught
<1>6. CASE LoadPositions
  BY <1>6 DEF LoadPositions, BlindInv, Shape, Tables, WriteBooked, Used, LoadedUnknown,
              PositionsGrow, BlindRestartIsCaught
<1>7. CASE LoadRaises
  BY <1>7 DEF LoadRaises, Settle, BlindInv, Shape, Tables, WriteBooked, Used, LoadedUnknown,
              PositionsGrow, BlindRestartIsCaught
<1>8. CASE UNCHANGED vars
  BY <1>8 DEF vars, cycleVars, BlindInv, Shape, Tables, WriteBooked, Used, LoadedUnknown,
              PositionsGrow, BlindRestartIsCaught
<1> QED
  BY <1>1, <1>2, <1>3, <1>4, <1>5, <1>6, <1>7, <1>8, BlindBuy, BlindPersist, BlindRestart,
     BlindCompare DEF Next

\* PaperReconciler never lets a process trade on that lost track of durable
\* orders or fills, however its loads interleave with trading and writing.
THEOREM BlindRestartAlwaysCaught == Spec => []BlindRestartIsCaught
<1>1. BlindInv => BlindRestartIsCaught
  BY DEF BlindInv
<1> QED
  BY <1>1, BlindInit, BlindStep, PTL DEF Spec

-----------------------------------------------------------------------------
(* Verdicts.                                                               *)

\* A clean comparison on books of which all rows are known: the loaded
\* position is the booked one, and the table lies between the two.
LEMMA CleanStep ==
    BlindInv /\ [Next]_vars =>
        (CycleEnds /\ verdict' = "clean" /\ write = NoWrite
            => tables.row /\ tables.position = books.position)
<1> SUFFICES ASSUME BlindInv, [Next]_vars, CycleEnds, verdict' = "clean"
             PROVE  tables.row /\ tables.position = books.position
  OBVIOUS
<1>1. Compare
  BY DEF CycleEnds, Next, vars, cycleVars, Buy, Persist, PersistRaises, SaveState, Restart, Begin,
         LoadOrders, LoadFills, LoadPositions, LoadRaises, Settle, BlindInv, Shape
<1>2. ~FatalDiscrepancy([loaded EXCEPT !.row = tables.row])
  BY <1>1 DEF Compare, Settle
<1>3. /\ tables.row /\ loaded.position = books.position
      /\ tables.orders \subseteq books.orders
  BY <1>1, <1>2 DEF Compare, FatalDiscrepancy, BlindInv, Shape, Tables, LoadedUnknown
<1> QED
  BY <1>1, <1>3 DEF Compare, BlindInv, Shape, Tables, PositionsGrow

\* Books that equal tables and loads, in rows that can be indexed, have no
\* discrepancy.
LEMMA EqualStep ==
    BlindInv /\ Compare /\ rows = "dict" /\ Equal
      /\ loaded.orders = tables.orders /\ loaded.fills = tables.fills
      /\ loaded.position = tables.position
      => verdict' = "clean"
  BY DEF BlindInv, Shape, Tables, Compare, Settle, Indexable, FatalDiscrepancy, Equal

\* A clean verdict of reconcile() on a quiet engine is right about the durable
\* position, and books that agree with the database are not blocked.
THEOREM VerdictsAlwaysSound == Spec => VerdictsAreSound
<1>1. BlindInv /\ [Next]_vars =>
        [CycleEnds /\ verdict' = "clean" /\ write = NoWrite
            => tables.row /\ tables.position = books.position]_vars
  BY CleanStep
<1>2. BlindInv /\ [Next]_vars =>
        [Compare /\ rows = "dict" /\ write = NoWrite /\ Equal
           /\ loaded.orders = tables.orders /\ loaded.fills = tables.fills
           /\ loaded.position = tables.position
           => verdict' = "clean"]_vars
  BY EqualStep
<1> QED
  BY <1>1, <1>2, BlindInit, BlindStep, PTL
  DEF Spec, VerdictsAreSound, CleanMeansPosition, EqualBooksAreTrusted
=============================================================================
