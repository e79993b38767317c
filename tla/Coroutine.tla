----------------------------- MODULE Coroutine ------------------------------
(***************************************************************************)
(* The life of coroutines in src/coroutine/src: CoroutineBuilder creates   *)
(* one on a pooled instance (CoroutineImpl) and schedules it; a worker     *)
(* resumes it (run_coroutine); it parks, returns or panics; unpark and     *)
(* cancel, called from any thread, put a parked one back; Done returns the *)
(* instance to the pool.  The scheduler's queue and pool, resume and the   *)
(* parking side of Park (park, subscribe) are not in src/: they are        *)
(* modelled from how src/ uses them.  An actor (a worker, a calling        *)
(* thread, the spawning thread) holds at most one instance in a variable.  *)
(***************************************************************************)
EXTENDS Naturals, FiniteSets

CONSTANTS
  Tasks,       \* the coroutines to spawn
  Impls,       \* the instances
  Workers, Callers, Spawner,
  None,
  MaxCalls     \* bound: unpark and cancel calls of a thread

ASSUME CoroutineAssumption ==
  None \notin Tasks \cup Impls /\ Spawner \notin Workers \cup Callers /\ MaxCalls \in Nat

VARIABLES
  pool,      \* the instances in the scheduler's pool, and those it is yet to create
  queue,     \* how often every instance is in the ready queue
  code,      \* whose closure an instance runs
  cont,      \* where an instance continues: at its start or after a park
  local,     \* whose CoroutineLocal an instance points to
  para,      \* an instance carries the parameter "Cancelled"
  boxed,     \* the coroutines whose CoroutineLocal is allocated
  state,     \* Park.state
  slot,      \* Park.wait_coroutine
  cancelled, \* Cancel.state
  reg,       \* Cancel.coroutine holds the Park's slot
  done,      \* how often the Join of a coroutine was triggered
  act,       \* every actor: its step, the coroutine it works on, the instance it holds
  calls,     \* the calls a thread has begun
  masked,    \* auxiliary: some coroutine has disabled its cancellation
  exited     \* process::exit

implVars == <<pool, queue, code, cont, local, para>>
taskVars == <<boxed, state, slot, cancelled, reg, done>>
vars == <<implVars, taskVars, act, calls, masked, exited>>

Actors == Workers \cup Callers \cup {Spawner}
Idle == [pc |-> "idle", task |-> None, impl |-> None]

Init ==
  /\ pool = Impls
  /\ queue = [i \in Impls |-> 0]
  /\ code = [i \in Impls |-> None]
  /\ cont = [i \in Impls |-> "start"]
  /\ local = [i \in Impls |-> None]
  /\ para = [i \in Impls |-> FALSE]
  /\ boxed = {}
  /\ state = [c \in Tasks |-> FALSE]
  /\ slot = [c \in Tasks |-> None]
  /\ cancelled = [c \in Tasks |-> 0]
  /\ reg = [c \in Tasks |-> FALSE]
  /\ done = [c \in Tasks |-> 0]
  /\ act = [a \in Actors |-> Idle]
  /\ calls = [a \in Callers |-> 0]
  /\ masked = FALSE
  /\ exited = FALSE

At(a, l) == ~exited /\ act[a].pc = l
Task(a) == act[a].task
Impl(a) == act[a].impl
Goto(a, l) == act' = [act EXCEPT ![a].pc = l]
Go(a, l, c, i) == act' = [act EXCEPT ![a] = [pc |-> l, task |-> c, impl |-> i]]
Rest(a) == act' = [act EXCEPT ![a] = Idle]
Enqueue(i) == queue' = [queue EXCEPT ![i] = @ + 1]

\* The coroutines the spawner has begun.
Spawned == {c \in Tasks : \E i \in Impls : code[i] = c} \cup {c \in Tasks : done[c] > 0}

-----------------------------------------------------------------------------
\* spawn_impl: an instance of the pool gets the closure ...
init_code(c, i) ==
  /\ At(Spawner, "idle") /\ c \notin Spawned /\ i \in pool
  /\ pool' = pool \ {i}
  /\ code' = [code EXCEPT ![i] = c]
  /\ cont' = [cont EXCEPT ![i] = "start"]
  /\ Go(Spawner, "local", c, i)
  /\ UNCHANGED <<queue, local, para, taskVars, calls, masked, exited>>

\* Mutant of set_local_data: the instance is scheduled before it has its local storage.
set_local_data_late ==
  \/ /\ At(Spawner, "local")
     /\ Enqueue(Impl(Spawner))
     /\ Goto(Spawner, "late")
     /\ UNCHANGED <<pool, code, cont, local, para, taskVars, calls, masked, exited>>
  \/ /\ At(Spawner, "late")
     /\ local' = [local EXCEPT ![Impl(Spawner)] = Task(Spawner)]
     /\ boxed' = boxed \cup {Task(Spawner)}
     /\ Rest(Spawner)
     /\ UNCHANGED <<pool, queue, code, cont, para, state, slot, cancelled, reg, done, calls, masked, exited>>

\* ... and its local storage, ...
set_local_data ==
  /\ At(Spawner, "local")
  /\ local' = [local EXCEPT ![Impl(Spawner)] = Task(Spawner)]
  /\ boxed' = boxed \cup {Task(Spawner)}
  /\ Goto(Spawner, "schedule")
  /\ UNCHANGED <<pool, queue, code, cont, para, state, slot, cancelled, reg, done, calls, masked, exited>>

\* ... and is scheduled.
spawn_schedule ==
  /\ At(Spawner, "schedule")
  /\ Enqueue(Impl(Spawner))
  /\ Rest(Spawner)
  /\ UNCHANGED <<pool, code, cont, local, para, taskVars, calls, masked, exited>>

-----------------------------------------------------------------------------
\* run_coroutine on an instance of the ready queue.
run_coroutine(w, i) ==
  /\ At(w, "idle") /\ queue[i] > 0
  /\ queue' = [queue EXCEPT ![i] = @ - 1]
  /\ Go(w, IF cont[i] = "start" THEN "running" ELSE "yield_back", code[i], i)
  /\ UNCHANGED <<pool, code, cont, local, para, taskVars, calls, masked, exited>>

\* Mutant of yield_back: check_cancel leaves the parameter.
yield_back_leaves(w) ==
  /\ At(w, "yield_back")
  /\ state' = [state EXCEPT ![Task(w)] = FALSE]
  /\ Goto(w, "running")
  /\ UNCHANGED <<implVars, boxed, slot, cancelled, reg, done, calls, masked, exited>>

\* After a park: check_cancel takes the parameter if the cancel state is exactly 1;
\* the token is consumed.
yield_back(w) ==
  /\ At(w, "yield_back")
  /\ LET c == Task(w)
     IN /\ para' = IF cancelled[c] = 1 THEN [para EXCEPT ![Impl(w)] = FALSE] ELSE para
        /\ state' = [state EXCEPT ![c] = FALSE]
  /\ Goto(w, "running")
  /\ UNCHANGED <<pool, queue, code, cont, local, boxed, slot, cancelled, reg, done, calls, masked, exited>>

\* The coroutine parks: a token lets it go on, else it yields to the worker ...
park(w) ==
  /\ At(w, "running")
  /\ IF state[Task(w)]
     THEN /\ state' = [state EXCEPT ![Task(w)] = FALSE]
          /\ UNCHANGED <<cont, act>>
     ELSE /\ cont' = [cont EXCEPT ![Impl(w)] = "park"]
          /\ Goto(w, "store")
          /\ UNCHANGED state
  /\ UNCHANGED <<pool, queue, code, local, para, boxed, slot, cancelled, reg, done, calls, masked, exited>>

\* ... which calls Park's subscribe: the instance goes into the slot, ...
subscribe_store(w) ==
  /\ At(w, "store")
  /\ slot' = [slot EXCEPT ![Task(w)] = Impl(w)]
  /\ Go(w, "recheck", Task(w), None)
  /\ UNCHANGED <<implVars, boxed, state, cancelled, reg, done, calls, masked, exited>>

\* ... the token is read again (wake_up(true) runs the coroutine at once), ...
subscribe_recheck(w) ==
  /\ At(w, "recheck")
  /\ LET c == Task(w)
     IN IF ~state[c] THEN Goto(w, "register") /\ UNCHANGED slot
        ELSE /\ slot' = [slot EXCEPT ![c] = None]
             /\ IF slot[c] = None THEN Rest(w) ELSE Go(w, "yield_back", c, slot[c])
  /\ UNCHANGED <<implVars, boxed, state, cancelled, reg, done, calls, masked, exited>>

\* ... the slot is registered for cancellation ...
subscribe_register(w) ==
  /\ At(w, "register")
  /\ reg' = [reg EXCEPT ![Task(w)] = TRUE]
  /\ Goto(w, "is_cancelled")
  /\ UNCHANGED <<implVars, boxed, state, slot, cancelled, done, calls, masked, exited>>

\* ... and a cancellation that came before is carried out.
subscribe_cancel(w) ==
  /\ At(w, "is_cancelled")
  /\ IF cancelled[Task(w)] = 1 THEN Goto(w, "cancel") ELSE Rest(w)
  /\ UNCHANGED <<implVars, taskVars, calls, masked, exited>>

\* Cancel::disable_cancel and enable_cancel, called by the coroutine.
disable_cancel(w) ==
  /\ At(w, "running") /\ cancelled[Task(w)] < 2
  /\ cancelled' = [cancelled EXCEPT ![Task(w)] = @ + 2]
  /\ masked' = TRUE
  /\ UNCHANGED <<implVars, boxed, state, slot, reg, done, act, calls, exited>>

enable_cancel(w) ==
  /\ At(w, "running") /\ cancelled[Task(w)] >= 2
  /\ cancelled' = [cancelled EXCEPT ![Task(w)] = @ - 2]
  /\ UNCHANGED <<implVars, boxed, state, slot, reg, done, act, calls, masked, exited>>

\* The closure returns or panics: either way the Join is triggered, then Done drops it.
finish(w) ==
  /\ At(w, "running")
  /\ done' = [done EXCEPT ![Task(w)] = @ + 1]
  /\ Goto(w, "drop")
  /\ UNCHANGED <<implVars, boxed, state, slot, cancelled, reg, calls, masked, exited>>

\* An instance that is dropped: the pool may create it anew.
Fresh(i) ==
  /\ code' = [code EXCEPT ![i] = None]
  /\ cont' = [cont EXCEPT ![i] = "start"]
  /\ local' = [local EXCEPT ![i] = None]
  /\ para' = [para EXCEPT ![i] = FALSE]

\* Done::drop_coroutine: exits on a full stack, returns the instance to the pool, or
\* drops it when its size is no longer the configured one; ...
drop_coroutine(w) ==
  /\ At(w, "drop")
  /\ \/ exited' = TRUE /\ UNCHANGED <<pool, code, cont, local, para, act>>
     \/ /\ pool' = pool \cup {Impl(w)}
        /\ UNCHANGED <<code, cont, local, para>> \/ Fresh(Impl(w))
        /\ Go(w, "free", Task(w), None)
        /\ UNCHANGED exited
  /\ UNCHANGED <<queue, taskVars, calls, masked>>

\* ... the CoroutineLocal it took at its start is dropped when it returns.
drop_local(w) ==
  /\ At(w, "free")
  /\ boxed' = boxed \ {Task(w)}
  /\ Rest(w)
  /\ UNCHANGED <<implVars, state, slot, cancelled, reg, done, calls, masked, exited>>

-----------------------------------------------------------------------------
Begins(u) == At(u, "idle") /\ calls[u] < MaxCalls /\ calls' = [calls EXCEPT ![u] = @ + 1]

\* Mutant of unpark: who finds the token set looks for a waiting coroutine.
unpark_inverted(u, c) ==
  /\ Begins(u) /\ c \in Spawned
  /\ state' = [state EXCEPT ![c] = TRUE]
  /\ IF state[c] THEN Go(u, "wake_up", c, None) ELSE UNCHANGED act
  /\ UNCHANGED <<implVars, boxed, slot, cancelled, reg, done, masked, exited>>

\* Park::unpark: only who sets the token looks for a waiting coroutine.
unpark(u, c) ==
  /\ Begins(u) /\ c \in Spawned
  /\ state' = [state EXCEPT ![c] = TRUE]
  /\ IF state[c] THEN UNCHANGED act ELSE Go(u, "wake_up", c, None)
  /\ UNCHANGED <<implVars, boxed, slot, cancelled, reg, done, masked, exited>>

\* Mutant of Take: the slot keeps the instance.
Take_keeps(a, l) ==
  /\ IF slot[Task(a)] = None THEN Rest(a) ELSE Go(a, l, Task(a), slot[Task(a)])
  /\ UNCHANGED <<implVars, boxed, state, slot, cancelled, reg, done, calls, masked, exited>>

\* take of the AtomicOption wait_coroutine: on to l with the instance, if there is one.
Take(a, l) ==
  /\ slot' = [slot EXCEPT ![Task(a)] = None]
  /\ IF slot[Task(a)] = None THEN Rest(a) ELSE Go(a, l, Task(a), slot[Task(a)])
  /\ UNCHANGED <<implVars, boxed, state, cancelled, reg, done, calls, masked, exited>>

wake_up(a) == At(a, "wake_up") /\ Take(a, "schedule")

schedule(a) ==
  /\ a # Spawner /\ At(a, "schedule")
  /\ Enqueue(Impl(a))
  /\ Rest(a)
  /\ UNCHANGED <<pool, code, cont, local, para, taskVars, calls, masked, exited>>

\* CancelImpl::cancel: the flag, then the registered slot, then what is in it.
cancel(u, c) ==
  /\ Begins(u) /\ c \in Spawned
  /\ Go(u, "cancel", c, None)
  /\ UNCHANGED <<implVars, taskVars, masked, exited>>

\* Mutant of cancel_flag: a flag already set ends the call.
cancel_flag_once(a) ==
  /\ At(a, "cancel")
  /\ cancelled' = [cancelled EXCEPT ![Task(a)] = IF @ % 2 = 0 THEN @ + 1 ELSE @]
  /\ IF cancelled[Task(a)] % 2 = 0 THEN Goto(a, "cancel_take") ELSE Rest(a)
  /\ UNCHANGED <<implVars, boxed, state, slot, reg, done, calls, masked, exited>>

cancel_flag(a) ==
  /\ At(a, "cancel")
  /\ cancelled' = [cancelled EXCEPT ![Task(a)] = IF @ % 2 = 0 THEN @ + 1 ELSE @]
  /\ Goto(a, "cancel_take")
  /\ UNCHANGED <<implVars, boxed, state, slot, reg, done, calls, masked, exited>>

cancel_take(a) ==
  /\ At(a, "cancel_take")
  /\ reg' = [reg EXCEPT ![Task(a)] = FALSE]
  /\ IF reg[Task(a)] THEN Goto(a, "cancel_slot") ELSE Rest(a)
  /\ UNCHANGED <<implVars, boxed, state, slot, cancelled, done, calls, masked, exited>>

cancel_slot(a) == At(a, "cancel_slot") /\ Take(a, "cancel_para")

set_coroutine_parameter(a) ==
  /\ At(a, "cancel_para")
  /\ para' = [para EXCEPT ![Impl(a)] = TRUE]
  /\ Goto(a, "schedule")
  /\ UNCHANGED <<pool, queue, code, cont, local, taskVars, calls, masked, exited>>

-----------------------------------------------------------------------------
Spawn == set_local_data \/ spawn_schedule \/ \E c \in Tasks, i \in Impls : init_code(c, i)
Call(a) ==
  \/ wake_up(a) \/ schedule(a) \/ cancel_flag(a) \/ cancel_take(a) \/ cancel_slot(a) \/ set_coroutine_parameter(a)
Work(w) ==
  \/ yield_back(w) \/ park(w) \/ finish(w) \/ drop_coroutine(w) \/ drop_local(w)
  \/ subscribe_store(w) \/ subscribe_recheck(w) \/ subscribe_register(w) \/ subscribe_cancel(w)
  \/ Call(w) \/ \E i \in Impls : run_coroutine(w, i)

Next ==
  \/ Spawn
  \/ \E w \in Workers : Work(w) \/ disable_cancel(w) \/ enable_cancel(w)
  \/ \E u \in Callers : Call(u) \/ \E c \in Tasks : unpark(u, c) \/ cancel(u, c)

\* Threads are scheduled and a running coroutine parks or finishes in time; nobody
\* has to call unpark or cancel.
Spec ==
  /\ Init /\ [][Next]_vars
  /\ WF_vars(Spawn)
  /\ \A w \in Workers : WF_vars(Work(w))
  /\ \A u \in Callers : WF_vars(Call(u))

-----------------------------------------------------------------------------
(* Properties.                                                             *)

\* An instance has one holder at any time: the pool, the ready queue, the slot it
\* waits in or one thread, whoever unparks, cancels and subscribes at once
\* (park.rs:65-79, cancel.rs:112-120, done.rs:28-30).
OneHolder ==
  \A i \in Impls :
    (IF i \in pool THEN 1 ELSE 0) + queue[i] + Cardinality({c \in Tasks : slot[c] = i})
      + Cardinality({a \in Actors : Impl(a) = i}) = 1

\* A running coroutine finds its own CoroutineLocal, and it is not freed yet
\* (builder.rs:112-117, lib.rs:93, done.rs:9).
LocalIsOwn ==
  \A w \in Workers : act[w].pc \in {"running", "yield_back", "drop"} =>
    local[Impl(w)] = Task(w) /\ Task(w) \in boxed

\* "This would affect future new coroutine that reuse the instance" (cancel.rs:95-96):
\* the parameter of a cancellation is cleared before the instance is reused, as long
\* as no coroutine disables its cancellation.
PoolIsClean == ~masked => \A i \in pool : ~para[i]

\* No unpark is lost: a parked coroutine with a token runs again, also when the token
\* comes while it is being put into the slot (park.rs:64-68).
UnparkWakes == \A c \in Tasks : slot[c] # None /\ state[c] ~> slot[c] = None \/ exited

\* No cancellation is lost: a parked coroutine that is cancelled runs again, also when
\* it is cancelled while it is being registered (cancel.rs:103-124).
CancelWakes == \A c \in Tasks : slot[c] # None /\ cancelled[c] = 1 ~> slot[c] = None \/ exited
=============================================================================
