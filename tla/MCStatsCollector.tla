--------------------------- MODULE MCStatsCollector ---------------------------
(* Model checking of StatsCollector: the configurations give the bounds.   *)
(* The threads that request statistics do not differ in what they do.      *)
EXTENDS StatsAssembly, TLC

CONSTANTS handshake, timer

BothThreads == {handshake, timer}
OneThread   == {timer}
Symmetry    == Permutations(BothThreads)
===============================================================================
