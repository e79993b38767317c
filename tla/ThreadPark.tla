----------------------------- MODULE ThreadPark -----------------------------
(***************************************************************************)
(* src/coroutine/src/sync/thread_park.rs: every thread has a parker, a     *)
(* token behind a mutex and a condition variable.  What happens while the  *)
(* mutex is held is one step; waiting on the condition variable releases   *)
(* it, and a wait ends by notify_one or by itself, after which the mutex   *)
(* is taken again.  The only caller in src/, Join, passes no duration.     *)
(* (The source moves its guard into the wait and does not bind the one it  *)
(* returns; the model takes it back.)                                      *)
(***************************************************************************)
EXTENDS Naturals

CONSTANT Threads

VARIABLES
  token,   \* *guard of every thread's parker
  cond     \* where its park_timeout is: "out", "waiting", "woken"

parkVars == <<token, cond>>

ParkInit ==
  /\ token = [t \in Threads |-> 0]
  /\ cond = [t \in Threads |-> "out"]

\* park_timeout returns Ok and clears the status.
Return(t) ==
  /\ token' = [token EXCEPT ![t] = 0]
  /\ cond' = [cond EXCEPT ![t] = "out"]

\* The head of the loop: `*guard == 0 && result.is_ok()`.
Loop(t) ==
  \/ token[t] = 1 /\ Return(t)
  \/ token[t] = 0 /\ cond' = [cond EXCEPT ![t] = "waiting"] /\ UNCHANGED token

park_timeout(t) == cond[t] = "out" /\ Loop(t)

\* Condvar: a wait may end without a notification.
spurious(t) ==
  /\ cond[t] = "waiting"
  /\ cond' = [cond EXCEPT ![t] = "woken"]
  /\ UNCHANGED token

\* Mutant of relock: every end of the wait is taken for an unpark.
relock_once(t) == cond[t] = "woken" /\ Return(t)

\* The mutex is taken again after the wait.
relock(t) == cond[t] = "woken" /\ Loop(t)

unpark(t) ==
  \/ token[t] = 1 /\ UNCHANGED parkVars
  \/ /\ token[t] = 0
     /\ token' = [token EXCEPT ![t] = 1]
     /\ cond' = [cond EXCEPT ![t] = IF @ = "waiting" THEN "woken" ELSE @]

\* The token is binary, whatever the number of unparks (thread_park.rs:50).
ParkTypeOK ==
  /\ token \in [Threads -> 0 .. 1]
  /\ cond \in [Threads -> {"out", "waiting", "woken"}]
=============================================================================
