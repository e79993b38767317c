-------------------------------- MODULE Join --------------------------------
(***************************************************************************)
(* src/coroutine/src/join.rs and join_handle.rs: threads wait for one      *)
(* coroutine.  The coroutine stores its result or its panic, then calls    *)
(* trigger; a waiter registers its blocker in the one slot to_wake, checks *)
(* the state again and parks.  JoinHandle is Sync and wait takes &self, so *)
(* any number of threads may wait at once; join takes the handle itself.   *)
(* A step is one atomic operation, or one critical section of ThreadPark.  *)
(***************************************************************************)
EXTENDS ThreadPark

CONSTANT NoThread

ASSUME JoinAssumption == NoThread \notin Threads

VARIABLES
  state,     \* Join.state: the coroutine is not finished
  to_wake,   \* Join.to_wake: whose blocker is registered
  packet,    \* whether JoinHandle.packet holds the result
  panic,     \* whether JoinHandle.panic holds panic data
  co,        \* where the coroutine is
  how,       \* how its function ended
  taken,     \* the blocker trigger took
  pc,        \* where every thread is in wait or join
  joiner,    \* the thread that consumed the handle
  result,    \* what join returned
  crowd      \* auxiliary: two threads have been in wait at once

vars == <<token, cond, state, to_wake, packet, panic, co, how, taken, pc, joiner, result, crowd>>

handleVars == <<packet, panic, how, joiner, result>>

Init ==
  /\ ParkInit
  /\ state = TRUE /\ to_wake = NoThread
  /\ packet = FALSE /\ panic = FALSE
  /\ co = "run" /\ how = "none" /\ taken = NoThread
  /\ pc = [t \in Threads |-> "idle"]
  /\ joiner = NoThread /\ result = "none"
  /\ crowd = FALSE

-----------------------------------------------------------------------------
(* The coroutine: the closure of spawn_impl, run_coroutine, trigger.       *)

\* The function returned: their_packet.store(f()).
store_packet ==
  /\ co = "run"
  /\ packet' = TRUE /\ how' = "ok" /\ co' = "ended"
  /\ UNCHANGED <<parkVars, state, to_wake, panic, taken, pc, joiner, result>>

\* The function unwound: run_coroutine sets the panic data, if there is any.
set_panic_data(data) ==
  /\ co = "run"
  /\ panic' = data /\ how' = (IF data THEN "panic" ELSE "cancel") /\ co' = "ended"
  /\ UNCHANGED <<parkVars, state, to_wake, packet, taken, pc, joiner, result>>

\* Mutant of trigger_store: trigger before the result is stored.
trigger_early ==
  /\ co = "run" /\ state
  /\ state' = FALSE
  /\ UNCHANGED <<parkVars, handleVars, to_wake, co, taken, pc>>

trigger_store ==
  /\ co = "ended"
  /\ state' = FALSE /\ co' = "stored"
  /\ UNCHANGED <<parkVars, handleVars, to_wake, taken, pc>>

trigger_take ==
  /\ co = "stored"
  /\ taken' = to_wake /\ to_wake' = NoThread /\ co' = "taken"
  /\ UNCHANGED <<parkVars, handleVars, state, pc>>

trigger_unpark ==
  /\ co = "taken"
  /\ IF taken = NoThread THEN UNCHANGED parkVars ELSE unpark(taken)
  /\ taken' = NoThread /\ co' = "done"
  /\ UNCHANGED <<handleVars, state, to_wake, pc>>

Coroutine ==
  store_packet \/ (\E data \in BOOLEAN : set_panic_data(data)) \/ trigger_store \/ trigger_take \/ trigger_unpark

-----------------------------------------------------------------------------
(* The threads.                                                            *)

Goto(t, l) == pc' = [pc EXCEPT ![t] = l]

\* The first load of the state, by wait(&self).
wait(t) ==
  /\ pc[t] = "idle" /\ joiner = NoThread
  /\ Goto(t, IF state THEN "loaded" ELSE "back")
  /\ UNCHANGED <<parkVars, handleVars, state, to_wake, co, taken>>

\* The same by join(self), which nobody can borrow meanwhile.
join(t) ==
  /\ joiner = NoThread /\ \A u \in Threads : pc[u] = "idle"
  /\ joiner' = t
  /\ Goto(t, IF state THEN "loaded" ELSE "back")
  /\ UNCHANGED <<parkVars, packet, panic, how, result, state, to_wake, co, taken>>

register(t) ==
  /\ pc[t] = "loaded"
  /\ to_wake' = t /\ Goto(t, "registered")
  /\ UNCHANGED <<parkVars, handleVars, state, co, taken>>

\* Mutant of recheck: parks without a second look at the state.
recheck_skipped(t) ==
  /\ pc[t] = "registered"
  /\ Goto(t, "parking")
  /\ UNCHANGED <<parkVars, handleVars, state, to_wake, co, taken>>

recheck(t) ==
  /\ pc[t] = "registered"
  /\ Goto(t, IF state THEN "parking" ELSE "leaving")
  /\ UNCHANGED <<parkVars, handleVars, state, to_wake, co, taken>>

\* current_blocker.park(None): wait returns when park_timeout does.
Parks(t) == Goto(t, IF cond'[t] = "out" THEN "back" ELSE "parked")

park(t) ==
  /\ pc[t] = "parking" /\ park_timeout(t) /\ Parks(t)
  /\ UNCHANGED <<handleVars, state, to_wake, co, taken>>

unparked(t) ==
  /\ pc[t] = "parked" /\ relock(t) /\ Parks(t)
  /\ UNCHANGED <<handleVars, state, to_wake, co, taken>>

wakes_up(t) ==
  /\ pc[t] = "parked" /\ spurious(t)
  /\ UNCHANGED <<handleVars, state, to_wake, co, taken, pc>>

\* The else branch: to_wake.take(), whoever it holds.
unregister(t) ==
  /\ pc[t] = "leaving"
  /\ to_wake' = NoThread /\ Goto(t, "back")
  /\ UNCHANGED <<parkVars, handleVars, state, co, taken>>

\* wait returned; join goes on to take the packet, or else the panic data.
returns(t) ==
  /\ pc[t] = "back" /\ joiner # t
  /\ Goto(t, "idle")
  /\ UNCHANGED <<parkVars, handleVars, state, to_wake, co, taken>>

take_packet(t) ==
  /\ pc[t] = "back" /\ joiner = t
  /\ IF packet THEN result' = "ok" /\ Goto(t, "joined") ELSE Goto(t, "failed") /\ UNCHANGED result
  /\ packet' = FALSE
  /\ UNCHANGED <<parkVars, panic, how, joiner, state, to_wake, co, taken>>

take_panic(t) ==
  /\ pc[t] = "failed"
  /\ result' = (IF panic THEN "panic" ELSE "cancel")
  /\ panic' = FALSE /\ Goto(t, "joined")
  /\ UNCHANGED <<parkVars, packet, how, joiner, state, to_wake, co, taken>>

\* What a thread inside wait or join does next.
Step(t) ==
  register(t) \/ recheck(t) \/ park(t) \/ unparked(t) \/ unregister(t) \/ returns(t) \/ take_packet(t) \/ take_panic(t)

\* Some thread is inside wait.
Waiting == \E t \in Threads : pc[t] # "idle"

Next ==
  \/ Coroutine /\ UNCHANGED crowd
  \/ \E t \in Threads :
       \/ wait(t) /\ crowd' = (crowd \/ Waiting)
       \/ (join(t) \/ wakes_up(t) \/ Step(t)) /\ UNCHANGED crowd

\* The scheduler runs the coroutine, whose function ends; every thread is
\* scheduled.  No thread has to call wait, no wait has to end by itself.
Fairness ==
  /\ WF_vars(Coroutine /\ UNCHANGED crowd)
  /\ \A t \in Threads : WF_vars(Step(t) /\ UNCHANGED crowd)

Spec == Init /\ [][Next]_vars /\ Fairness

-----------------------------------------------------------------------------
(* Properties.                                                             *)

TypeOK ==
  /\ ParkTypeOK
  /\ state \in BOOLEAN /\ packet \in BOOLEAN /\ panic \in BOOLEAN /\ crowd \in BOOLEAN
  /\ to_wake \in Threads \cup {NoThread} /\ taken \in Threads \cup {NoThread} /\ joiner \in Threads \cup {NoThread}
  /\ co \in {"run", "ended", "stored", "taken", "done"}
  /\ how \in {"none", "ok", "panic", "cancel"} /\ result \in {"none", "ok", "panic", "cancel"}
  /\ pc \in [Threads -> {"idle", "loaded", "registered", "parking", "parked", "leaving", "back", "failed", "joined"}]

\* wait and join do not return before the coroutine is done, although wait parks
\* once and does not look at the state again (join.rs:55-57).
NeverEarly == \A t \in Threads : pc[t] \in {"back", "failed", "joined"} => ~state

\* join returns the value of a function that returned, the panic data of one that
\* panicked, and Error::Cancel for one that ended without either
\* (join_handle.rs:56-58): the result is there before the state says so.
JoinAnswers == result # "none" => result = how

\* A waiter that sleeps will be woken: its blocker is registered, or on its way
\* to unpark, or has been unparked (join.rs:51-59).  As long as one thread at a
\* time waits: the one slot to_wake holds one blocker.
NoLostWakeup ==
  ~crowd => \A t \in Threads :
    pc[t] = "parked" /\ cond[t] = "waiting" =>
      token[t] = 0 /\ (taken = t \/ (to_wake = t /\ co \in {"run", "ended", "stored"}))

\* What the proofs carry through a step, for any use of the handle.
IInv ==
  /\ TypeOK
  /\ state <=> (co \in {"run", "ended"})
  /\ (how = "none") <=> (co = "run")
  /\ \A t \in Threads :
       /\ token[t] = 1 => ~state
       /\ (cond[t] # "out") <=> (pc[t] = "parked")
       /\ pc[t] \in {"leaving", "back", "failed", "joined"} => ~state
       /\ pc[t] \in {"failed", "joined"} => joiner = t
       /\ pc[t] = "failed" => how # "ok" /\ result = "none"
       /\ pc[t] # "joined" /\ joiner = t => result = "none"
       /\ pc[t] \notin {"failed", "joined"} /\ joiner = t => (packet <=> how = "ok")
       /\ pc[t] # "joined" /\ joiner = t => (panic <=> how = "panic")
  /\ joiner = NoThread => result = "none" /\ (packet <=> how = "ok") /\ (panic <=> how = "panic")
  /\ JoinAnswers

\* ... and for one thread at a time.
Solo ==
  /\ \A t, u \in Threads : pc[t] # "idle" /\ pc[u] # "idle" => t = u
  /\ \A t \in Threads :
       /\ cond[t] = "waiting" => token[t] = 0
       /\ pc[t] \in {"registered", "parking", "parked"} => to_wake = t \/ taken = t \/ token[t] = 1
       /\ pc[t] \in {"parking", "parked"} /\ to_wake = t => co \in {"run", "ended", "stored"}
  /\ taken # NoThread => co = "taken"

SoloInv == ~crowd => Solo

\* "Block until the coroutine is done" (join_handle.rs:46): once it is done, a wait
\* returns, unless two threads have waited at once and one of them is forgotten.
WaitReturns == \A t \in Threads : pc[t] # "idle" ~> pc[t] \in {"idle", "joined"} \/ crowd
=============================================================================
