----------------------------- MODULE MCTeamLock -----------------------------
(* TeamLock for TLC: three contenders, of whom one may die with the lock.       *)
EXTENDS TeamLock
=============================================================================
