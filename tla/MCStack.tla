------------------------------ MODULE MCStack -------------------------------
(* The instance of Stack that TLC checks: pages of two words.            *)
EXTENDS Stack
=============================================================================
