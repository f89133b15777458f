----------------------------- MODULE MCPriceOracle -----------------------------
(***************************************************************************)
(* One cycle's call next to two overlapping polls; a tick is ten seconds:  *)
(* a TTL and a poll interval of three ticks, an abort after one.           *)
(***************************************************************************)
EXTENDS PriceOracle
=============================================================================
