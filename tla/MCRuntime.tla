----------------------------- MODULE MCRuntime ------------------------------
(* The instance of Runtime that TLC checks.                               *)
EXTENDS Runtime

BothSignals == <<"SIGSEGV", "SIGBUS">>
=============================================================================
