---------------------------- MODULE MCCoroutine -----------------------------
(* The instance of Coroutine that TLC checks.                              *)
EXTENDS Coroutine
=============================================================================
