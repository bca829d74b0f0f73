--------------------------- MODULE MCTeamMonitor ---------------------------
(* TeamMonitor for TLC. The workers are interchangeable: the safety runs        *)
(* identify states up to a permutation of them, the liveness run does not.      *)
EXTENDS TeamMonitor, TLC

WorkerSymmetry == Permutations(Worker)
=============================================================================
