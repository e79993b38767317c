-------------------------- MODULE Coroutine_proofs --------------------------
(***************************************************************************)
(* An instance has one holder, a running coroutine its own local storage,  *)
(* and the pool clean instances: for any number of coroutines, instances,  *)
(* workers, callers and calls.                                             *)
(***************************************************************************)
EXTENDS Coroutine, FiniteSetTheorems, TLAPS

\* The prover of a leaf that names none, and the seconds it may take.
USE ZenonT(30)

-----------------------------------------------------------------------------
(* The inductive invariant.                                                *)

\* The steps at which an actor has an instance in a variable, and the others.
Holding == {"local", "schedule", "running", "yield_back", "store", "drop", "cancel_para"}
Handless ==
  {"idle", "recheck", "register", "is_cancelled", "free", "wake_up", "cancel", "cancel_take", "cancel_slot"}

Step == [pc : Holding \cup Handless, task : Tasks \cup {None}, impl : Impls \cup {None}]

TypeOK ==
  /\ pool \subseteq Impls
  /\ queue \in [Impls -> Nat]
  /\ code \in [Impls -> Tasks \cup {None}]
  /\ cont \in [Impls -> {"start", "park"}]
  /\ local \in [Impls -> Tasks \cup {None}]
  /\ para \in [Impls -> BOOLEAN]
  /\ boxed \subseteq Tasks
  /\ state \in [Tasks -> BOOLEAN]
  /\ slot \in [Tasks -> Impls \cup {None}]
  /\ cancelled \in [Tasks -> Nat]
  /\ reg \in [Tasks -> BOOLEAN]
  /\ done \in [Tasks -> Nat]
  /\ act \in [Actors -> Step]
  /\ masked \in BOOLEAN /\ exited \in BOOLEAN

\* An actor has an instance exactly at these steps, of the coroutine it works on.
ActInv ==
  \A a \in Actors :
    /\ act[a].pc \in Holding <=> act[a].impl # None
    /\ act[a].pc # "idle" => act[a].task \in Tasks
    /\ act[a].impl # None => code[act[a].impl] = act[a].task
    /\ a = Spawner => act[a].pc \in {"idle", "local", "schedule"}
    /\ act[a].pc = "local" => a = Spawner

\* No two holders ...
Excl ==
  /\ \A i \in Impls : queue[i] \in {0, 1} /\ (i \in pool => queue[i] = 0)
  /\ \A c \in Tasks : slot[c] # None => slot[c] \notin pool /\ queue[slot[c]] = 0
  /\ \A a \in Actors : act[a].impl # None =>
       /\ act[a].impl \notin pool /\ queue[act[a].impl] = 0
       /\ \A c \in Tasks : slot[c] # act[a].impl
  /\ \A c, d \in Tasks : slot[c] = slot[d] /\ slot[c] # None => c = d
  /\ \A a, b \in Actors : act[a].impl = act[b].impl /\ act[a].impl # None => a = b

\* ... and always one.
Some ==
  \A i \in Impls :
    \/ i \in pool \/ queue[i] = 1
    \/ \E c \in Tasks : slot[c] = i
    \/ \E a \in Actors : act[a].impl = i

\* No two instances run one coroutine; a slot has its coroutine's instance.
CodeInv ==
  /\ \A i, j \in Impls : code[i] = code[j] /\ code[i] # None => i = j
  /\ \A c \in Tasks : slot[c] # None => code[slot[c]] = c /\ cont[slot[c]] = "park"
  /\ \A i \in Impls \ pool : code[i] # None

\* Local storage is there from set_local_data on until the instance is back in
\* the pool; who frees it works on a coroutine that is over.
LocalInv ==
  /\ \A i \in Impls \ pool :
       \/ act[Spawner].pc = "local" /\ act[Spawner].impl = i
       \/ local[i] = code[i] /\ code[i] \in boxed
  /\ \A a \in Actors : act[a].pc \in {"drop", "free"} => done[act[a].task] > 0
  /\ \A a \in Actors, i \in Impls : act[a].pc = "free" /\ code[i] = act[a].task => i \in pool

\* Who holds an instance that has parked.
ParkInv ==
  \A a \in Actors :
    act[a].pc \in {"store", "yield_back", "cancel_para"} \/ (act[a].pc = "schedule" /\ a # Spawner)
      => cont[act[a].impl] = "park"

\* While no cancellation was disabled, the parameter is set only on its way from
\* cancel to check_cancel, which then finds the state 1.
CleanInv ==
  ~masked =>
    /\ \A c \in Tasks : cancelled[c] \in {0, 1}
    /\ \A a \in Actors :
         act[a].pc \in {"cancel_take", "cancel_slot", "cancel_para"} => cancelled[act[a].task] = 1
    /\ \A i \in Impls : para[i] =>
         /\ i \notin pool /\ cont[i] = "park" /\ cancelled[code[i]] = 1
         /\ \A c \in Tasks : slot[c] # i
         /\ \A a \in Actors : act[a].impl = i => act[a].pc \in {"schedule", "yield_back"}

IInv == TypeOK /\ ActInv /\ Excl /\ Some /\ CodeInv /\ LocalInv /\ ParkInv /\ CleanInv

USE DEF At, Impl, Task, Actors, Idle, implVars, taskVars, Goto, Go, Rest, Enqueue

-----------------------------------------------------------------------------
(* What several actions do.                                                *)

\* Nothing changes, or the process exits.
LEMMA SameKeepsInv ==
  ASSUME IInv, UNCHANGED <<implVars, taskVars, act, masked>>, exited' \in BOOLEAN
  PROVE  IInv'
<1> USE CoroutineAssumption DEF IInv, TypeOK, Step, Holding, Handless, ActInv
<1>1. TypeOK'
  OBVIOUS
<1>2. ActInv'
  OBVIOUS
<1>3. Excl'
  BY DEF Excl
<1>4. Some'
  BY DEF Excl, Some
<1>5. CodeInv'
  BY DEF Excl, CodeInv
<1>6. LocalInv'
  BY DEF Excl, CodeInv, LocalInv
<1>7. ParkInv'
  BY DEF ParkInv
<1>8. CleanInv'
  BY SMTT(60) DEF Excl, CodeInv, ParkInv, CleanInv
<1> QED BY <1>1, <1>2, <1>3, <1>4, <1>5, <1>6, <1>7, <1>8

\* An actor without an instance goes on without one: unpark, cancel, the steps of
\* subscribe, and take of an empty slot.
LEMMA MoveKeepsInv ==
  ASSUME IInv, NEW a \in Actors, NEW l \in Handless, NEW c \in Tasks \cup {None},
         act[a].pc \in Handless, l # "free", a = Spawner => l = "idle",
         l # "idle" => c \in Tasks,
         l \in {"cancel_take", "cancel_slot"} => masked \/ cancelled[c] = 1,
         Go(a, l, c, None),
         state' \in [Tasks -> BOOLEAN], reg' \in [Tasks -> BOOLEAN], exited' \in BOOLEAN,
         UNCHANGED <<implVars, boxed, slot, cancelled, done, masked>>
  PROVE  IInv'
<1> USE CoroutineAssumption DEF IInv, TypeOK, Step, Holding, Handless, ActInv
<1>1. TypeOK'
  OBVIOUS
<1>2. ActInv'
  BY SMTT(60)
<1>3. Excl'
  BY DEF Excl
<1>4. Some'
  BY SMTT(60) DEF Excl, Some
<1>5. CodeInv'
  BY SMTT(60) DEF Excl, CodeInv
<1>6. LocalInv'
  BY SMTT(60) DEF Excl, CodeInv, LocalInv
<1>7. ParkInv'
  BY DEF ParkInv
<1>8. CleanInv'
  BY SMTT(60) DEF Excl, CodeInv, ParkInv, CleanInv
<1> QED BY <1>1, <1>2, <1>3, <1>4, <1>5, <1>6, <1>7, <1>8

\* take of a slot with an instance: by subscribe, unpark or cancel.
LEMMA TakeKeepsInv ==
  ASSUME IInv, NEW a \in Workers \cup Callers, NEW c \in Tasks,
         NEW l \in {"yield_back", "schedule", "cancel_para"},
         act[a].pc \in Handless, slot[c] # None,
         l = "cancel_para" => masked \/ cancelled[c] = 1,
         slot' = [slot EXCEPT ![c] = None],
         Go(a, l, c, slot[c]),
         UNCHANGED <<implVars, boxed, state, cancelled, reg, done, masked, exited>>
  PROVE  IInv'
<1> USE CoroutineAssumption DEF IInv, TypeOK, Step, Holding, Handless, ActInv
<1>1. TypeOK'
  OBVIOUS
<1>2. ActInv'
  BY SMTT(60) DEF CodeInv
<1>3. Excl'
  BY SMTT(60) DEF Excl, CodeInv
<1>4. Some'
  BY SMTT(60) DEF Excl, Some
<1>5. CodeInv'
  BY SMTT(60) DEF Excl, CodeInv
<1>6. LocalInv'
  BY SMTT(60) DEF Excl, CodeInv, LocalInv
<1>7. ParkInv'
  BY DEF ParkInv, CodeInv
<1>8. CleanInv'
  BY SMTT(60) DEF Excl, CodeInv, ParkInv, CleanInv
<1> QED BY <1>1, <1>2, <1>3, <1>4, <1>5, <1>6, <1>7, <1>8

\* An instance is scheduled: by the spawner, by unpark or by cancel.
LEMMA EnqueueKeepsInv ==
  ASSUME IInv, NEW a \in Actors, act[a].pc = "schedule",
         Enqueue(act[a].impl), Rest(a),
         UNCHANGED <<pool, code, cont, local, para, taskVars, masked, exited>>
  PROVE  IInv'
<1> USE CoroutineAssumption DEF IInv, TypeOK, Step, Holding, Handless, ActInv
<1>1. TypeOK'
  BY SMTT(60)
<1>2. ActInv'
  OBVIOUS
<1>3. Excl'
  BY SMTT(60) DEF Excl
<1>4. Some'
  BY SMTT(60) DEF Excl, Some
<1>5. CodeInv'
  BY DEF Excl, CodeInv
<1>6. LocalInv'
  BY SMTT(60) DEF Excl, CodeInv, LocalInv
<1>7. ParkInv'
  BY DEF ParkInv
<1>8. CleanInv'
  BY SMTT(60) DEF Excl, CodeInv, ParkInv, CleanInv
<1> QED BY <1>1, <1>2, <1>3, <1>4, <1>5, <1>6, <1>7, <1>8

-----------------------------------------------------------------------------
(* The actions.                                                            *)

\* spawn_impl: the instance leaves the pool, where nobody else has it.
LEMMA InitCodeKeepsInv ==
  ASSUME IInv, NEW c \in Tasks, NEW i \in Impls, init_code(c, i)
  PROVE  IInv'
<1> USE CoroutineAssumption DEF IInv, TypeOK, Step, Holding, Handless, ActInv, init_code, Spawned
<1>1. TypeOK'
  OBVIOUS
<1>2. ActInv'
  BY SMTT(60) DEF Excl
<1>3. Excl'
  BY SMTT(60) DEF Excl
<1>4. Some'
  BY SMTT(60) DEF Excl, Some, CodeInv
<1>5. CodeInv'
  BY SMTT(60) DEF Excl, CodeInv
<1>6. LocalInv'
  BY SMTT(60) DEF Excl, CodeInv, LocalInv
<1>7. ParkInv'
  BY SMTT(60) DEF ParkInv, Excl
<1>8. CleanInv'
  BY SMTT(60) DEF Excl, CodeInv, ParkInv, CleanInv
<1> QED BY <1>1, <1>2, <1>3, <1>4, <1>5, <1>6, <1>7, <1>8

\* spawn_impl: the local storage is there before the instance is scheduled.
LEMMA SetLocalKeepsInv ==
  ASSUME IInv, set_local_data
  PROVE  IInv'
<1> USE CoroutineAssumption DEF IInv, TypeOK, Step, Holding, Handless, ActInv, set_local_data
<1>1. TypeOK'
  BY SMTT(60)
<1>2. ActInv'
  BY SMTT(60)
<1>3. Excl'
  BY SMTT(60) DEF Excl
<1>4. Some'
  BY SMTT(60) DEF Excl, Some
<1>5. CodeInv'
  BY DEF Excl, CodeInv
<1>6. LocalInv'
  BY SMTT(60) DEF Excl, CodeInv, LocalInv
<1>7. ParkInv'
  BY SMTT(60) DEF ParkInv
<1>8. CleanInv'
  BY SMTT(60) DEF Excl, CodeInv, ParkInv, CleanInv
<1> QED BY <1>1, <1>2, <1>3, <1>4, <1>5, <1>6, <1>7, <1>8

\* run_coroutine: the instance goes from the queue to the worker.
LEMMA RunKeepsInv ==
  ASSUME IInv, NEW w \in Workers, NEW i \in Impls, run_coroutine(w, i)
  PROVE  IInv'
<1> USE CoroutineAssumption DEF IInv, TypeOK, Step, Holding, Handless, ActInv, run_coroutine
<1>1. TypeOK'
  BY SMTT(60)
<1>2. ActInv'
  BY SMTT(60) DEF Excl, CodeInv
<1>3. Excl'
  BY SMTT(60) DEF Excl
<1>4. Some'
  BY SMTT(60) DEF Excl, Some
<1>5. CodeInv'
  BY DEF Excl, CodeInv
<1>6. LocalInv'
  BY SMTT(60) DEF Excl, CodeInv, LocalInv
<1>7. ParkInv'
  BY DEF ParkInv
<1>8. CleanInv'
  BY SMTT(60) DEF Excl, CodeInv, ParkInv, CleanInv
<1> QED BY <1>1, <1>2, <1>3, <1>4, <1>5, <1>6, <1>7, <1>8

\* check_cancel finds the state 1 when the parameter is set.
LEMMA YieldBackKeepsInv ==
  ASSUME IInv, NEW w \in Workers, yield_back(w)
  PROVE  IInv'
<1> USE CoroutineAssumption DEF IInv, TypeOK, Step, Holding, Handless, ActInv, yield_back
<1>1. TypeOK'
  BY SMTT(60)
<1>2. ActInv'
  BY SMTT(60)
<1>3. Excl'
  BY SMTT(60) DEF Excl
<1>4. Some'
  BY SMTT(60) DEF Excl, Some
<1>5. CodeInv'
  BY DEF Excl, CodeInv
<1>6. LocalInv'
  BY SMTT(60) DEF Excl, CodeInv, LocalInv
<1>7. ParkInv'
  BY SMTT(60) DEF ParkInv
<1>8. CleanInv'
  BY SMTT(60) DEF Excl, CodeInv, ParkInv, CleanInv
<1> QED BY <1>1, <1>2, <1>3, <1>4, <1>5, <1>6, <1>7, <1>8

\* park yields.
LEMMA ParkKeepsInv ==
  ASSUME IInv, NEW w \in Workers, act[w].pc = "running",
         cont' = [cont EXCEPT ![act[w].impl] = "park"], Goto(w, "store"),
         UNCHANGED <<pool, queue, code, local, para, taskVars, masked, exited>>
  PROVE  IInv'
<1> USE CoroutineAssumption DEF IInv, TypeOK, Step, Holding, Handless, ActInv
<1>1. TypeOK'
  BY SMTT(60)
<1>2. ActInv'
  BY SMTT(60)
<1>3. Excl'
  BY SMTT(60) DEF Excl
<1>4. Some'
  BY SMTT(60) DEF Excl, Some
<1>5. CodeInv'
  BY SMTT(60) DEF Excl, CodeInv
<1>6. LocalInv'
  BY SMTT(60) DEF Excl, CodeInv, LocalInv
<1>7. ParkInv'
  BY SMTT(60) DEF ParkInv, Excl
<1>8. CleanInv'
  BY SMTT(60) DEF Excl, CodeInv, ParkInv, CleanInv
<1> QED BY <1>1, <1>2, <1>3, <1>4, <1>5, <1>6, <1>7, <1>8

\* park finds a token.
LEMMA TokenKeepsInv ==
  ASSUME IInv, NEW w \in Workers, act[w].pc = "running",
         state' = [state EXCEPT ![act[w].task] = FALSE],
         UNCHANGED <<implVars, boxed, slot, cancelled, reg, done, act, masked, exited>>
  PROVE  IInv'
<1> USE CoroutineAssumption DEF IInv, TypeOK, Step, Holding, Handless, ActInv
<1>1. TypeOK'
  OBVIOUS
<1>2. ActInv'
  OBVIOUS
<1>3. Excl'
  BY DEF Excl
<1>4. Some'
  BY DEF Excl, Some
<1>5. CodeInv'
  BY DEF Excl, CodeInv
<1>6. LocalInv'
  BY DEF Excl, CodeInv, LocalInv
<1>7. ParkInv'
  BY DEF ParkInv
<1>8. CleanInv'
  BY SMTT(60) DEF Excl, CodeInv, ParkInv, CleanInv
<1> QED BY <1>1, <1>2, <1>3, <1>4, <1>5, <1>6, <1>7, <1>8

\* subscribe: the slot is empty, as no other instance has the coroutine's code.
LEMMA StoreKeepsInv ==
  ASSUME IInv, NEW w \in Workers, subscribe_store(w)
  PROVE  IInv'
<1> USE CoroutineAssumption DEF IInv, TypeOK, Step, Holding, Handless, ActInv, subscribe_store
<1>1. TypeOK'
  OBVIOUS
<1>2. ActInv'
  OBVIOUS
<1>3. Excl'
  BY SMTT(60) DEF Excl, CodeInv
<1>4. Some'
  BY SMTT(60) DEF Excl, Some, CodeInv
<1>5. CodeInv'
  BY SMTT(60) DEF Excl, CodeInv, ParkInv
<1>6. LocalInv'
  BY SMTT(60) DEF Excl, CodeInv, LocalInv
<1>7. ParkInv'
  BY DEF ParkInv
<1>8. CleanInv'
  BY SMTT(60) DEF Excl, CodeInv, ParkInv, CleanInv
<1> QED BY <1>1, <1>2, <1>3, <1>4, <1>5, <1>6, <1>7, <1>8

\* disable_cancel.
LEMMA DisableKeepsInv ==
  ASSUME IInv, NEW w \in Workers, disable_cancel(w)
  PROVE  IInv'
<1> USE CoroutineAssumption DEF IInv, TypeOK, Step, Holding, Handless, ActInv, disable_cancel
<1>1. TypeOK'
  BY SMTT(60)
<1>2. ActInv'
  OBVIOUS
<1>3. Excl'
  BY DEF Excl
<1>4. Some'
  BY DEF Excl, Some
<1>5. CodeInv'
  BY DEF Excl, CodeInv
<1>6. LocalInv'
  BY DEF Excl, CodeInv, LocalInv
<1>7. ParkInv'
  BY DEF ParkInv
<1>8. CleanInv'
  BY DEF Excl, CodeInv, ParkInv, CleanInv
<1> QED BY <1>1, <1>2, <1>3, <1>4, <1>5, <1>6, <1>7, <1>8

\* enable_cancel.
LEMMA EnableKeepsInv ==
  ASSUME IInv, NEW w \in Workers, enable_cancel(w)
  PROVE  IInv'
<1> USE CoroutineAssumption DEF IInv, TypeOK, Step, Holding, Handless, ActInv, enable_cancel
<1>1. TypeOK'
  BY SMTT(60)
<1>2. ActInv'
  OBVIOUS
<1>3. Excl'
  BY DEF Excl
<1>4. Some'
  BY DEF Excl, Some
<1>5. CodeInv'
  BY DEF Excl, CodeInv
<1>6. LocalInv'
  BY DEF Excl, CodeInv, LocalInv
<1>7. ParkInv'
  BY DEF ParkInv
<1>8. CleanInv'
  BY SMTT(60) DEF Excl, CodeInv, ParkInv, CleanInv
<1> QED BY <1>1, <1>2, <1>3, <1>4, <1>5, <1>6, <1>7, <1>8

\* The closure is over.
LEMMA FinishKeepsInv ==
  ASSUME IInv, NEW w \in Workers, finish(w)
  PROVE  IInv'
<1> USE CoroutineAssumption DEF IInv, TypeOK, Step, Holding, Handless, ActInv, finish
<1>1. TypeOK'
  BY SMTT(60)
<1>2. ActInv'
  BY SMTT(60)
<1>3. Excl'
  BY SMTT(60) DEF Excl
<1>4. Some'
  BY SMTT(60) DEF Excl, Some
<1>5. CodeInv'
  BY DEF Excl, CodeInv
<1>6. LocalInv'
  BY SMTT(60) DEF Excl, CodeInv, LocalInv
<1>7. ParkInv'
  BY SMTT(60) DEF ParkInv
<1>8. CleanInv'
  BY SMTT(60) DEF Excl, CodeInv, ParkInv, CleanInv
<1> QED BY <1>1, <1>2, <1>3, <1>4, <1>5, <1>6, <1>7, <1>8

\* drop_coroutine: the instance goes from the worker to the pool.
LEMMA DropKeepsInv ==
  ASSUME IInv, NEW w \in Workers, act[w].pc = "drop",
         pool' = pool \cup {act[w].impl}, Go(w, "free", act[w].task, None),
         UNCHANGED <<queue, code, cont, local, para, taskVars, masked, exited>>
  PROVE  IInv'
<1> USE CoroutineAssumption DEF IInv, TypeOK, Step, Holding, Handless, ActInv
<1>1. TypeOK'
  OBVIOUS
<1>2. ActInv'
  OBVIOUS
<1>3. Excl'
  BY SMTT(60) DEF Excl
<1>4. Some'
  BY DEF Excl, Some
<1>5. CodeInv'
  BY DEF Excl, CodeInv
<1>6. LocalInv'
  BY SMTT(60) DEF Excl, CodeInv, LocalInv
<1>7. ParkInv'
  BY DEF ParkInv
<1>8. CleanInv'
  BY SMTT(60) DEF Excl, CodeInv, ParkInv, CleanInv
<1> QED BY <1>1, <1>2, <1>3, <1>4, <1>5, <1>6, <1>7, <1>8

\* drop_coroutine: the instance is freed, one to be created in its place.
LEMMA DropFreshKeepsInv ==
  ASSUME IInv, NEW w \in Workers, act[w].pc = "drop",
         pool' = pool \cup {act[w].impl}, Fresh(act[w].impl), Go(w, "free", act[w].task, None),
         UNCHANGED <<queue, taskVars, masked, exited>>
  PROVE  IInv'
<1> USE CoroutineAssumption DEF IInv, TypeOK, Step, Holding, Handless, ActInv, Fresh
<1>1. TypeOK'
  OBVIOUS
<1>2. ActInv'
  BY SMTT(60) DEF Excl
<1>3. Excl'
  BY SMTT(60) DEF Excl
<1>4. Some'
  BY DEF Excl, Some
<1>5. CodeInv'
  BY SMTT(60) DEF Excl, CodeInv
<1>6. LocalInv'
  BY SMTT(60) DEF Excl, CodeInv, LocalInv
<1>7. ParkInv'
  BY SMTT(60) DEF Excl, ParkInv
<1>8. CleanInv'
  BY SMTT(60) DEF Excl, CodeInv, ParkInv, CleanInv
<1> QED BY <1>1, <1>2, <1>3, <1>4, <1>5, <1>6, <1>7, <1>8

\* The CoroutineLocal is freed: no instance outside the pool is the coroutine's.
LEMMA DropLocalKeepsInv ==
  ASSUME IInv, NEW w \in Workers, drop_local(w)
  PROVE  IInv'
<1> USE CoroutineAssumption DEF IInv, TypeOK, Step, Holding, Handless, ActInv, drop_local
<1>1. TypeOK'
  OBVIOUS
<1>2. ActInv'
  OBVIOUS
<1>3. Excl'
  BY DEF Excl
<1>4. Some'
  BY SMTT(60) DEF Excl, Some
<1>5. CodeInv'
  BY DEF Excl, CodeInv
<1>6. LocalInv'
  BY DEF Excl, CodeInv, LocalInv
<1>7. ParkInv'
  BY DEF ParkInv
<1>8. CleanInv'
  BY SMTT(60) DEF Excl, CodeInv, ParkInv, CleanInv
<1> QED BY <1>1, <1>2, <1>3, <1>4, <1>5, <1>6, <1>7, <1>8

\* cancel: the flag.
LEMMA FlagKeepsInv ==
  ASSUME IInv, NEW a \in Workers \cup Callers, cancel_flag(a)
  PROVE  IInv'
<1> USE CoroutineAssumption DEF IInv, TypeOK, Step, Holding, Handless, ActInv, cancel_flag
<1>1. TypeOK'
  BY SMTT(60)
<1>2. ActInv'
  BY SMTT(60)
<1>3. Excl'
  BY SMTT(60) DEF Excl
<1>4. Some'
  BY SMTT(60) DEF Excl, Some
<1>5. CodeInv'
  BY DEF Excl, CodeInv
<1>6. LocalInv'
  BY SMTT(60) DEF Excl, CodeInv, LocalInv
<1>7. ParkInv'
  BY SMTT(60) DEF ParkInv
<1>8. CleanInv'
  BY SMTT(60) DEF Excl, CodeInv, ParkInv, CleanInv
<1> QED BY <1>1, <1>2, <1>3, <1>4, <1>5, <1>6, <1>7, <1>8

\* cancel: the parameter, on an instance the caller has.
LEMMA ParameterKeepsInv ==
  ASSUME IInv, NEW a \in Workers \cup Callers, set_coroutine_parameter(a)
  PROVE  IInv'
<1> USE CoroutineAssumption DEF IInv, TypeOK, Step, Holding, Handless, ActInv, set_coroutine_parameter
<1>1. TypeOK'
  BY SMTT(60)
<1>2. ActInv'
  BY SMTT(60)
<1>3. Excl'
  BY SMTT(60) DEF Excl
<1>4. Some'
  BY SMTT(60) DEF Excl, Some
<1>5. CodeInv'
  BY DEF Excl, CodeInv
<1>6. LocalInv'
  BY SMTT(60) DEF Excl, CodeInv, LocalInv
<1>7. ParkInv'
  BY SMTT(60) DEF ParkInv
<1>8. CleanInv'
  BY SMTT(60) DEF Excl, CodeInv, ParkInv, CleanInv
<1> QED BY <1>1, <1>2, <1>3, <1>4, <1>5, <1>6, <1>7, <1>8

-----------------------------------------------------------------------------
(* Actions with several outcomes.                                          *)

HIDE DEF At, Goto, Go, Rest, Enqueue, Idle

\* Only the step changes.
LEMMA GotoIsGo ==
  ASSUME TypeOK, NEW a \in Actors, NEW l, Goto(a, l)
  PROVE  Go(a, l, act[a].task, act[a].impl)
<1>1. act[a] \in Step
  BY DEF TypeOK
<1>2. [act[a] EXCEPT !.pc = l] = [pc |-> l, task |-> act[a].task, impl |-> act[a].impl]
  BY <1>1, SMTT(60) DEF Step
<1>3. act' = [act EXCEPT ![a] = [act[a] EXCEPT !.pc = l]]
  BY DEF Goto
<1> QED BY <1>2, <1>3 DEF Go

\* The actor is done.
LEMMA RestIsGo ==
  ASSUME NEW a, Rest(a)
  PROVE  Go(a, "idle", None, None)
BY DEF Rest, Go, Idle

\* What the invariant says of an actor without an instance.
LEMMA HandlessFacts ==
  ASSUME IInv, NEW a \in Actors, act[a].pc \in Handless
  PROVE  /\ act[a].impl = None
         /\ act[a].pc # "idle" => act[a].task \in Tasks /\ a # Spawner
BY DEF IInv, ActInv, Holding, Handless

\* park: with a token, and without.
LEMMA ParkActionKeepsInv ==
  ASSUME IInv, NEW w \in Workers, park(w)
  PROVE  IInv'
<1>1. CASE state[act[w].task]
  BY <1>1, TokenKeepsInv DEF park, At
<1>2. CASE ~state[act[w].task]
  BY <1>2, ParkKeepsInv DEF park, At
<1> QED BY <1>1, <1>2

\* take of the slot, by unpark or cancel.
LEMMA TakeActionKeepsInv ==
  ASSUME IInv, NEW a \in Workers \cup Callers, wake_up(a) \/ cancel_slot(a)
  PROVE  IInv'
<1>1. act[a].pc \in Handless /\ act[a].task \in Tasks
  <2>1. act[a].pc \in Handless /\ act[a].pc # "idle"
    BY DEF wake_up, cancel_slot, Handless, At
  <2> QED BY <2>1, HandlessFacts
<1>2. PICK l \in {"schedule", "cancel_para"} :
        Take(a, l) /\ (l = "cancel_para" => masked \/ cancelled[act[a].task] = 1)
  BY DEF wake_up, cancel_slot, At, IInv, CleanInv
<1> DEFINE c == act[a].task
<1>3. /\ slot' = [slot EXCEPT ![c] = None]
      /\ IF slot[c] = None THEN Rest(a) ELSE Go(a, l, c, slot[c])
      /\ UNCHANGED <<implVars, boxed, state, cancelled, reg, done, masked, exited>>
  BY <1>2 DEF Take
<1>4. c \in Tasks
  BY <1>1
<1> HIDE DEF c
<1>5. CASE slot[c] = None
  <2>1. slot' = slot
    BY <1>3, <1>4, <1>5 DEF IInv, TypeOK
  <2>2. Go(a, "idle", None, None)
    BY <1>3, <1>5, RestIsGo
  <2>3. state' \in [Tasks -> BOOLEAN] /\ reg' \in [Tasks -> BOOLEAN] /\ exited' \in BOOLEAN
    BY <1>3 DEF IInv, TypeOK
  <2>4. UNCHANGED <<implVars, boxed, slot, cancelled, done, masked>>
    BY <1>3, <2>1
  <2> QED BY <1>1, <2>2, <2>3, <2>4, MoveKeepsInv DEF Handless
<1>6. CASE slot[c] # None
  <2>1. Go(a, l, c, slot[c])
    BY <1>3, <1>6
  <2>2. l = "cancel_para" => masked \/ cancelled[c] = 1
    BY <1>2 DEF c
  <2>3. l \in {"yield_back", "schedule", "cancel_para"}
    OBVIOUS
  <2>4. act[a].pc \in Handless /\ slot' = [slot EXCEPT ![c] = None]
    BY <1>1, <1>3
  <2>5. UNCHANGED <<implVars, boxed, state, cancelled, reg, done, masked, exited>>
    BY <1>3
  <2> QED BY <1>4, <1>6, <2>1, <2>2, <2>3, <2>4, <2>5, TakeKeepsInv
<1> QED BY <1>5, <1>6

\* subscribe's second look at the token.
LEMMA RecheckKeepsInv ==
  ASSUME IInv, NEW w \in Workers, subscribe_recheck(w)
  PROVE  IInv'
<1> DEFINE c == act[w].task
<1>1. act[w].pc = "recheck" /\ act[w].pc \in Handless /\ c \in Tasks /\ act[w].impl = None
  <2>1. act[w].pc = "recheck" /\ act[w].pc \in Handless
    BY DEF subscribe_recheck, Handless, At
  <2> QED BY <2>1, HandlessFacts
<1>2. /\ IF ~state[c] THEN Goto(w, "register") /\ UNCHANGED slot
         ELSE /\ slot' = [slot EXCEPT ![c] = None]
              /\ IF slot[c] = None THEN Rest(w) ELSE Go(w, "yield_back", c, slot[c])
      /\ UNCHANGED <<implVars, boxed, state, cancelled, reg, done, masked, exited>>
  BY DEF subscribe_recheck
<1>3. state' \in [Tasks -> BOOLEAN] /\ reg' \in [Tasks -> BOOLEAN] /\ exited' \in BOOLEAN
  BY <1>2 DEF IInv, TypeOK
<1>4. CASE ~state[c]
  <2>1. Goto(w, "register") /\ UNCHANGED <<implVars, boxed, slot, cancelled, done, masked>>
    BY <1>2, <1>4
  <2>2. Go(w, "register", c, None)
    BY <1>1, <2>1, GotoIsGo DEF IInv
  <2> QED BY <1>1, <1>3, <2>1, <2>2, MoveKeepsInv, CoroutineAssumption DEF Handless
<1>5. CASE state[c] /\ slot[c] = None
  <2>1. slot' = slot
    BY <1>1, <1>2, <1>5, SMTT(60) DEF IInv, TypeOK
  <2>2. Go(w, "idle", None, None)
    BY <1>2, <1>5, RestIsGo
  <2>3. UNCHANGED <<implVars, boxed, slot, cancelled, done, masked>>
    BY <1>2, <2>1
  <2> QED BY <1>1, <1>3, <2>2, <2>3, MoveKeepsInv DEF Handless
<1>6. CASE state[c] /\ slot[c] # None
  BY <1>1, <1>2, <1>6, TakeKeepsInv
<1> QED BY <1>4, <1>5, <1>6

\* The steps that only look at flags: the rest of subscribe, and cancel's look
\* at the registration.
LEMMA FlagStepsKeepInv ==
  ASSUME IInv, NEW a \in Workers \cup Callers,
         subscribe_register(a) \/ subscribe_cancel(a) \/ cancel_take(a)
  PROVE  IInv'
<1>1. act[a].pc \in Handless /\ act[a].task \in Tasks /\ act[a].impl = None /\ a # Spawner
  <2>1. act[a].pc \in Handless /\ act[a].pc # "idle"
    BY DEF subscribe_register, subscribe_cancel, cancel_take, Handless, At
  <2> QED BY <2>1, HandlessFacts
<1>2. UNCHANGED <<implVars, boxed, slot, cancelled, done, masked>>
  BY DEF subscribe_register, subscribe_cancel, cancel_take
<1>3. state' \in [Tasks -> BOOLEAN] /\ exited' \in BOOLEAN
  BY DEF subscribe_register, subscribe_cancel, cancel_take, IInv, TypeOK
<1>4. reg' \in [Tasks -> BOOLEAN]
  <2> DEFINE c == act[a].task
  <2>1. \/ reg' = reg \/ reg' = [reg EXCEPT ![c] = TRUE] \/ reg' = [reg EXCEPT ![c] = FALSE]
    BY DEF subscribe_register, subscribe_cancel, cancel_take
  <2>2. c \in Tasks /\ reg \in [Tasks -> BOOLEAN]
    BY <1>1 DEF IInv, TypeOK
  <2> HIDE DEF c
  <2>3. [reg EXCEPT ![c] = TRUE] \in [Tasks -> BOOLEAN]
    BY <2>2
  <2>4. [reg EXCEPT ![c] = FALSE] \in [Tasks -> BOOLEAN]
    BY <2>2
  <2> QED BY <2>1, <2>2, <2>3, <2>4
<1>5. PICK l \in {"is_cancelled", "cancel", "cancel_slot", "idle"} :
        /\ Goto(a, l) \/ (l = "idle" /\ Rest(a))
        /\ l = "cancel_slot" => act[a].pc = "cancel_take"
  BY DEF subscribe_register, subscribe_cancel, cancel_take, At
<1>6. l = "cancel_slot" => masked \/ cancelled[act[a].task] = 1
  BY <1>5 DEF IInv, CleanInv
<1>7. l \in Handless /\ l # "free" /\ l # "cancel_take"
  BY DEF Handless
<1>8. CASE Goto(a, l)
  <2>1. Go(a, l, act[a].task, None)
    BY <1>1, <1>8, GotoIsGo DEF IInv
  <2> QED BY <1>1, <1>2, <1>3, <1>4, <1>6, <1>7, <2>1, MoveKeepsInv
<1>9. CASE l = "idle" /\ Rest(a)
  <2>1. Go(a, l, None, None)
    BY <1>9, RestIsGo
  <2> QED BY <1>1, <1>2, <1>3, <1>4, <1>7, <1>9, <2>1, MoveKeepsInv
<1> QED BY <1>5, <1>8, <1>9

\* A thread begins unpark or cancel.
LEMMA BeginKeepsInv ==
  ASSUME IInv, NEW u \in Callers, NEW c \in Tasks, unpark(u, c) \/ cancel(u, c)
  PROVE  IInv'
<1>1. act[u].pc = "idle" /\ act[u].pc \in Handless /\ u # Spawner
  BY CoroutineAssumption DEF unpark, cancel, Begins, At, Handless
<1>2. UNCHANGED <<implVars, boxed, slot, cancelled, done, masked>>
  BY DEF unpark, cancel
<1>3. reg' \in [Tasks -> BOOLEAN] /\ exited' \in BOOLEAN
  BY DEF unpark, cancel, IInv, TypeOK
<1>4. state' \in [Tasks -> BOOLEAN]
  <2>1. CASE unpark(u, c)
    BY <2>1 DEF unpark, IInv, TypeOK
  <2>2. CASE cancel(u, c)
    BY <2>2 DEF cancel, IInv, TypeOK
  <2> QED BY <2>1, <2>2
<1>5. CASE act' = act
  <2>1. act[u] \in Step /\ act[u].impl = None
    BY <1>1, HandlessFacts DEF IInv, TypeOK
  <2>2. act[u] = [pc |-> "idle", task |-> act[u].task, impl |-> None] /\ act[u].task \in Tasks \cup {None}
    BY <1>1, <2>1 DEF Step
  <2>3. act = [act EXCEPT ![u] = act[u]]
    BY DEF IInv, TypeOK
  <2>4. Go(u, "idle", act[u].task, None)
    BY <1>5, <2>2, <2>3 DEF Go
  <2>5. "idle" \in Handless /\ "idle" # "free"
    BY DEF Handless
  <2> QED BY <1>1, <1>2, <1>3, <1>4, <2>2, <2>4, <2>5, MoveKeepsInv
<1>6. CASE Go(u, "wake_up", c, None) \/ Go(u, "cancel", c, None)
  BY <1>1, <1>2, <1>3, <1>4, <1>6, MoveKeepsInv DEF Handless
<1> QED BY <1>5, <1>6 DEF unpark, cancel

\* drop_coroutine: the instance goes to the pool or is freed, or the process exits.
LEMMA DropActionKeepsInv ==
  ASSUME IInv, NEW w \in Workers, drop_coroutine(w)
  PROVE  IInv'
<1>1. CASE exited' = TRUE /\ UNCHANGED <<pool, code, cont, local, para, act>>
  BY <1>1, SameKeepsInv DEF drop_coroutine
<1>2. CASE /\ pool' = pool \cup {act[w].impl}
           /\ UNCHANGED <<code, cont, local, para>> \/ Fresh(act[w].impl)
           /\ Go(w, "free", act[w].task, None)
           /\ UNCHANGED exited
  <2>1. act[w].pc = "drop" /\ UNCHANGED <<queue, taskVars, masked, exited>>
    BY <1>2 DEF drop_coroutine, At
  <2>2. CASE UNCHANGED <<code, cont, local, para>>
    BY <1>2, <2>1, <2>2, DropKeepsInv
  <2>3. CASE Fresh(act[w].impl)
    BY <1>2, <2>1, <2>3, DropFreshKeepsInv
  <2> QED BY <1>2, <2>2, <2>3
<1> QED BY <1>1, <1>2 DEF drop_coroutine

\* The instance is scheduled.
LEMMA ScheduleKeepsInv ==
  ASSUME IInv, spawn_schedule \/ \E a \in Workers \cup Callers : schedule(a)
  PROVE  IInv'
<1>1. PICK a \in Actors :
        /\ act[a].pc = "schedule" /\ Enqueue(act[a].impl) /\ Rest(a)
        /\ UNCHANGED <<pool, code, cont, local, para, taskVars, masked, exited>>
  BY DEF spawn_schedule, schedule, At
<1> QED BY <1>1, EnqueueKeepsInv

-----------------------------------------------------------------------------
(* Theorems.                                                               *)

\* The invariant holds while every instance is in the pool.
LEMMA InitInv == Init => IInv
<1> SUFFICES ASSUME Init PROVE IInv
  OBVIOUS
<1> USE CoroutineAssumption DEF Init, Idle
<1>1. TypeOK
  <2>1. Idle \in Step
    BY DEF Step, Handless
  <2>2. act \in [Actors -> Step]
    BY <2>1
  <2>3. /\ pool \subseteq Impls /\ queue \in [Impls -> Nat] /\ code \in [Impls -> Tasks \cup {None}]
        /\ cont \in [Impls -> {"start", "park"}] /\ local \in [Impls -> Tasks \cup {None}]
        /\ para \in [Impls -> BOOLEAN]
    OBVIOUS
  <2>4. /\ boxed \subseteq Tasks /\ slot \in [Tasks -> Impls \cup {None}]
        /\ cancelled \in [Tasks -> Nat] /\ done \in [Tasks -> Nat]
    OBVIOUS
  <2>5. /\ state \in [Tasks -> BOOLEAN] /\ reg \in [Tasks -> BOOLEAN]
        /\ masked \in BOOLEAN /\ exited \in BOOLEAN
    OBVIOUS
  <2> QED BY <2>2, <2>3, <2>4, <2>5 DEF TypeOK
<1>2. ActInv
  BY DEF ActInv, Holding
<1>3. Excl
  BY DEF Excl
<1>4. Some /\ CodeInv /\ LocalInv
  BY DEF Some, CodeInv, LocalInv
<1>5. ParkInv /\ CleanInv
  BY DEF ParkInv, CleanInv
<1> QED BY <1>1, <1>2, <1>3, <1>4, <1>5 DEF IInv

\* The steps that a worker and a calling thread share keep the invariant.
LEMMA CallKeepsInv ==
  ASSUME IInv, NEW a \in Workers \cup Callers, Call(a)
  PROVE  IInv'
BY TakeActionKeepsInv, ScheduleKeepsInv, FlagKeepsInv, FlagStepsKeepInv, ParameterKeepsInv DEF Call

\* So do the worker's.
LEMMA WorkKeepsInv ==
  ASSUME IInv, NEW w \in Workers, Work(w)
  PROVE  IInv'
<1>1. CASE yield_back(w) \/ park(w) \/ finish(w) \/ drop_coroutine(w) \/ drop_local(w)
  BY <1>1, YieldBackKeepsInv, ParkActionKeepsInv, FinishKeepsInv, DropActionKeepsInv, DropLocalKeepsInv
<1>2. CASE \/ subscribe_store(w) \/ subscribe_recheck(w)
           \/ subscribe_register(w) \/ subscribe_cancel(w)
  BY <1>2, StoreKeepsInv, RecheckKeepsInv, FlagStepsKeepInv
<1>3. CASE Call(w) \/ \E i \in Impls : run_coroutine(w, i)
  BY <1>3, CallKeepsInv, RunKeepsInv
<1> QED BY <1>1, <1>2, <1>3 DEF Work

\* Every step keeps the invariant.
LEMMA NextInv == IInv /\ [Next]_vars => IInv'
<1> SUFFICES ASSUME IInv, [Next]_vars PROVE IInv'
  OBVIOUS
<1>1. CASE UNCHANGED vars
  BY <1>1, SameKeepsInv DEF vars, IInv, TypeOK
<1>2. CASE Spawn
  BY <1>2, InitCodeKeepsInv, SetLocalKeepsInv, ScheduleKeepsInv DEF Spawn
<1>3. ASSUME NEW w \in Workers, Work(w) \/ disable_cancel(w) \/ enable_cancel(w)
      PROVE  IInv'
  BY <1>3, WorkKeepsInv, DisableKeepsInv, EnableKeepsInv
<1>4. ASSUME NEW u \in Callers, Call(u) \/ \E c \in Tasks : unpark(u, c) \/ cancel(u, c)
      PROVE  IInv'
  BY <1>4, CallKeepsInv, BeginKeepsInv
<1> QED BY <1>1, <1>2, <1>3, <1>4 DEF Next

\* The inductive invariant holds in every execution.
THEOREM Invariance == Spec => []IInv
BY InitInv, NextInv, PTL DEF Spec

\* An instance is in the pool, in the ready queue, in a slot or with a thread, in
\* one of them and there once: however run_coroutine, subscribe, unpark and cancel
\* interleave, no instance is lost, scheduled twice or run by two workers.
THEOREM HolderUnique == Spec => []OneHolder
<1>1. IInv => OneHolder
  <2> SUFFICES ASSUME IInv, NEW i \in Impls
               PROVE  (IF i \in pool THEN 1 ELSE 0) + queue[i] + Cardinality({c \in Tasks : slot[c] = i})
                        + Cardinality({a \in Actors : act[a].impl = i}) = 1
    BY DEF OneHolder
  <2> DEFINE S == {c \in Tasks : slot[c] = i}
             A == {a \in Actors : act[a].impl = i}
  <2>1. i # None /\ queue[i] \in {0, 1}
    BY CoroutineAssumption DEF IInv, Excl
  <2>2. S = {} \/ \E c \in Tasks : S = {c}
    BY <2>1, SMTT(60) DEF IInv, Excl
  <2>3. A = {} \/ \E a \in Actors : A = {a}
    BY <2>1, SMTT(60) DEF IInv, Excl
  <2>0. Cardinality({}) = 0 /\ \A x : Cardinality({x}) = 1
    BY FS_EmptySet, FS_Singleton
  <2> HIDE DEF S, A
  <2>4. /\ S = {} => Cardinality(S) = 0
        /\ S # {} => Cardinality(S) = 1
    <3>1. CASE S = {}
      BY <3>1, <2>0
    <3>2. ASSUME NEW c \in Tasks, S = {c} PROVE Cardinality(S) = 1
      BY <3>2, <2>0
    <3> QED BY <2>2, <3>1, <3>2
  <2>5. /\ A = {} => Cardinality(A) = 0
        /\ A # {} => Cardinality(A) = 1
    <3>1. CASE A = {}
      BY <3>1, <2>0
    <3>2. ASSUME NEW a \in Actors, A = {a} PROVE Cardinality(A) = 1
      BY <3>2, <2>0
    <3> QED BY <2>3, <3>1, <3>2
  <2>6. /\ i \in pool => queue[i] = 0 /\ S = {} /\ A = {}
        /\ queue[i] = 1 => S = {} /\ A = {}
        /\ S = {} \/ A = {}
        /\ i \in pool \/ queue[i] = 1 \/ S # {} \/ A # {}
    BY <2>1, SMTT(60) DEF IInv, Excl, Some, S, A
  <2>7. (IF i \in pool THEN 1 ELSE 0) + queue[i] + Cardinality(S) + Cardinality(A) = 1
    BY <2>1, <2>4, <2>5, <2>6, SMTT(60)
  <2> QED BY <2>7 DEF S, A
<1> QED BY <1>1, Invariance, PTL

\* A running coroutine's instance points to the coroutine's own CoroutineLocal, which
\* is not freed: spawn_impl sets it before the instance is scheduled, and Done
\* frees it after the instance is back in the pool.
THEOREM LocalOwned == Spec => []LocalIsOwn
<1>1. IInv => LocalIsOwn
  BY CoroutineAssumption, SMTT(60) DEF IInv, TypeOK, Step, ActInv, Excl, LocalInv, LocalIsOwn, Holding
<1> QED BY <1>1, Invariance, PTL

\* No instance goes back to the pool with the parameter of a cancellation, as long
\* as no coroutine disables its cancellation.
THEOREM PoolClean == Spec => []PoolIsClean
<1>1. IInv => PoolIsClean
  BY DEF IInv, TypeOK, CleanInv, PoolIsClean
<1> QED BY <1>1, Invariance, PTL

=============================================================================
