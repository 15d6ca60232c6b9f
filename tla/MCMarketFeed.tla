---------------------------- MODULE MCMarketFeed ----------------------------
(* Instances of MarketFeed for TLC. *)
EXTENDS MarketFeed

\* The symbols are configured in alphabetical order, as in the default setting.
ConfiguredOrder == [x \in Symbols |-> x]
=============================================================================
