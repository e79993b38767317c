------------------------------- MODULE MCJoin -------------------------------
(* The instance of Join that TLC checks.                                   *)
EXTENDS Join
=============================================================================
