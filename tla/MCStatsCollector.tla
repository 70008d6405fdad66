-------------------------- MODULE MCStatsCollector --------------------------
(* The windows and the eviction bound are scaled down: 2 and 1 seconds, and  *)
(* the least bound that holds two samples for each second of the window.     *)
EXTENDS StatsCollector

CONSTANTS d1, c1, c2
MCDevices == {d1}
MCClients == {c1, c2}
MCRates == {1, 2}
=============================================================================
