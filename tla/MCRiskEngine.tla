---------------------------- MODULE MCRiskEngine ----------------------------
(* Instances of RiskEngine for TLC. *)
EXTENDS RiskEngine, TLC

SymbolSymmetry == Permutations(Symbols)

\* No loss, and one beyond the daily and the weekly limit.
NoLossAndLargeLoss == {0, -60}
=============================================================================
