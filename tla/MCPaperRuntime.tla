--------------------------- MODULE MCPaperRuntime ---------------------------
(* Instances of PaperRuntime for TLC. *)
EXTENDS PaperRuntime

\* Candles an hour apart, one symbol.
HourlyOpenTime == [s \in Sequences |-> s]
=============================================================================
