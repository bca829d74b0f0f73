---------------------------- MODULE MCTeamTasks ----------------------------
(* TeamTasks for TLC. The workers are interchangeable and every property here  *)
(* is a safety property, so states are identified up to a permutation of them. *)
EXTENDS TeamTasks, TLC

WorkerSymmetry == Permutations(Worker)
=============================================================================
