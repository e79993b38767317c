---------------------------- MODULE MCDateCache -----------------------------
(* The instance of DateCache that TLC checks.                             *)
EXTENDS DateCache
=============================================================================
