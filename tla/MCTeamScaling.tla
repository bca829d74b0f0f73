--------------------------- MODULE MCTeamScaling ---------------------------
(* TeamScaling for TLC. The workers that join later are interchangeable. Any write   *)
(* may fail late, but one: the removal of its journal by a shutdown's change of the   *)
(* config, after which the journal's promise is not kept (see ImplementsStore).       *)
EXTENDS TeamScaling, TLC

WorkerSymmetry == Permutations(Worker \ FirstWorkers)
EveryStep == Step \X {"recover", "restore"}
AllButTheLast == EveryStep \ {<<"clear", "restore">>}
=============================================================================
