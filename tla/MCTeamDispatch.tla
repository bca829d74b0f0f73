--------------------------- MODULE MCTeamDispatch ---------------------------
(* The instance of TeamDispatch that TLC checks.                              *)
EXTENDS TeamDispatch
=============================================================================
