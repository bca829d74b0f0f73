-------------------------- MODULE MCRuntimeEngine --------------------------
(* RuntimeEngine for TLC. Requests and teams are interchangeable.               *)
EXTENDS RuntimeEngine, TLC

EngineSymmetry == Permutations(Request) \cup Permutations(Team)
=============================================================================
