-------------------------- MODULE MCMarketPipeline --------------------------
(* Instances of MarketPipeline for TLC: one configured symbol, and one that *)
(* appears only with its first candle.                                      *)
EXTENDS MarketPipeline

Both == {"BTC", "ETH"}
OnlyBTC == {"BTC"}
=============================================================================
