----------------------------- MODULE Join_proofs -----------------------------
(* For any number of threads: wait and join do not return early, join gives  *)
(* the right answer, and with one waiter at a time no wake-up is lost.       *)
EXTENDS Join, TLAPS

\* The time a leaf may take, in seconds.
USE SMTT(60)

\* Both invariants hold when the coroutine is spawned.
LEMMA InitInv == Init => IInv /\ SoloInv
<1> SUFFICES ASSUME Init PROVE IInv /\ SoloInv
  OBVIOUS
<1> USE JoinAssumption DEF Init, ParkInit
<1>1. TypeOK
  <2>1. ParkTypeOK
    BY DEF ParkTypeOK
  <2>2. state \in BOOLEAN /\ packet \in BOOLEAN /\ panic \in BOOLEAN /\ crowd \in BOOLEAN
    BY Zenon
  <2> QED BY <2>1, <2>2 DEF TypeOK
<1>2. state /\ ~packet /\ ~panic /\ co = "run" /\ how = "none" /\ result = "none" /\ joiner = NoThread
  OBVIOUS
<1>3. IInv
  BY <1>1, <1>2 DEF IInv, JoinAnswers
<1>4. SoloInv
  BY DEF SoloInv, Solo
<1> QED BY <1>3, <1>4

\* The coroutine's steps touch no thread's program counter.
LEMMA CoroutineInv == IInv /\ Coroutine /\ UNCHANGED crowd => IInv'
<1> SUFFICES ASSUME IInv, Coroutine, UNCHANGED crowd PROVE IInv'
  OBVIOUS
<1> USE JoinAssumption DEF IInv, TypeOK, ParkTypeOK, JoinAnswers, parkVars, handleVars
<1>1. CASE store_packet
  BY <1>1 DEF store_packet
<1>2. ASSUME NEW data \in BOOLEAN, set_panic_data(data) PROVE IInv'
  BY <1>2 DEF set_panic_data
<1>3. CASE trigger_store
  BY Zenon, <1>3 DEF trigger_store
<1>4. CASE trigger_take
  BY <1>4 DEF trigger_take
<1>5. CASE trigger_unpark
  <2>1. CASE taken = NoThread
    BY <1>5, <2>1 DEF trigger_unpark
  <2>2. CASE taken # NoThread
    BY <1>5, <2>2 DEF trigger_unpark, unpark
  <2> QED BY <2>1, <2>2
<1> QED BY <1>1, <1>2, <1>3, <1>4, <1>5 DEF Coroutine

\* A joining thread's steps (wait, join, the park and its end) keep the invariant.
LEMMA ThreadInv ==
  ASSUME NEW t \in Threads, IInv, crowd' \in BOOLEAN,
         wait(t) \/ join(t) \/ wakes_up(t) \/ Step(t)
  PROVE  IInv'
<1> USE JoinAssumption DEF IInv, TypeOK, ParkTypeOK, JoinAnswers, parkVars, handleVars, Goto
<1>1. CASE wait(t)
  BY <1>1 DEF wait
<1>2. CASE join(t)
  BY <1>2 DEF join
<1>3. CASE wakes_up(t)
  BY <1>3 DEF wakes_up, spurious
<1>4. CASE register(t)
  BY <1>4 DEF register
<1>5. CASE recheck(t)
  BY <1>5 DEF recheck
<1>6. CASE park(t)
  BY <1>6 DEF park, Parks, park_timeout, Loop, Return
<1>7. CASE unparked(t)
  BY <1>7 DEF unparked, Parks, relock, Loop, Return
<1>8. CASE unregister(t)
  BY <1>8 DEF unregister
<1>9. CASE returns(t)
  BY <1>9 DEF returns
<1>10. CASE take_packet(t)
  <2>1. ~state /\ how # "none" /\ joiner = t /\ joiner # NoThread /\ result = "none" /\ (packet <=> how = "ok")
    BY <1>10 DEF take_packet
  <2>2. CASE packet
    <3>1. result' = how' /\ pc' = [pc EXCEPT ![t] = "joined"] /\ ~packet' /\ joiner' = t
      BY <1>10, <2>1, <2>2 DEF take_packet
    <3> QED BY Zenon, <1>10, <2>1, <3>1 DEF take_packet
  <2>3. CASE ~packet
    <3>1. result' = "none" /\ pc' = [pc EXCEPT ![t] = "failed"] /\ ~packet' /\ joiner' = t /\ how' # "ok"
      BY <1>10, <2>1, <2>3 DEF take_packet
    <3> QED BY Zenon, <1>10, <2>1, <3>1 DEF take_packet
  <2> QED BY <2>2, <2>3
<1>11. CASE take_panic(t)
  BY Zenon, <1>11 DEF take_panic
<1> QED BY Zenon, <1>1, <1>2, <1>3, <1>4, <1>5, <1>6, <1>7, <1>8, <1>9, <1>10, <1>11 DEF Step

\* Every step of the coroutine and of the joining threads keeps the invariant.
LEMMA NextInv == IInv /\ [Next]_vars => IInv'
<1>1. IInv /\ UNCHANGED vars => IInv'
  BY DEF vars, IInv, TypeOK, ParkTypeOK, JoinAnswers
<1>2. IInv /\ UNCHANGED crowd => crowd' \in BOOLEAN
  BY DEF IInv, TypeOK
<1>3. (crowd \/ Waiting) \in BOOLEAN
  BY Zenon DEF Waiting
<1> QED BY Zenon, <1>1, <1>2, <1>3, CoroutineInv, ThreadInv DEF Next

\* The state of the coroutine is settled before any wait returns, so NeverEarly
\* holds of every use of the handle (join.rs:39-62).
THEOREM WaitNeverEarly == Spec => []NeverEarly
<1>1. IInv => NeverEarly
  BY DEF IInv, NeverEarly
<1> QED BY <1>1, InitInv, NextInv, PTL DEF Spec

\* join answers with what the function left (join_handle.rs:52-59).
THEOREM JoinAnswersRight == Spec => []JoinAnswers
<1>1. IInv => JoinAnswers
  BY DEF IInv
<1> QED BY <1>1, InitInv, NextInv, PTL DEF Spec

-----------------------------------------------------------------------------
\* The coroutine's last steps (the packet, the panic, the trigger of Join) keep
\* what is true with one waiter.
LEMMA CoroutineSolo == IInv /\ Solo /\ Coroutine => Solo'
<1> SUFFICES ASSUME IInv, Solo, Coroutine PROVE Solo'
  OBVIOUS
<1> USE JoinAssumption DEF Solo, IInv, TypeOK, ParkTypeOK, parkVars, handleVars
<1>1. CASE store_packet
  BY <1>1 DEF store_packet
<1>2. ASSUME NEW data \in BOOLEAN, set_panic_data(data) PROVE Solo'
  BY <1>2 DEF set_panic_data
<1>3. CASE trigger_store
  BY <1>3 DEF trigger_store
<1>4. CASE trigger_take
  BY <1>4 DEF trigger_take
<1>5. CASE trigger_unpark
  <2>1. CASE taken = NoThread
    BY <1>5, <2>1 DEF trigger_unpark
  <2>2. CASE taken # NoThread
    BY <1>5, <2>2 DEF trigger_unpark, unpark
  <2> QED BY <2>1, <2>2
<1> QED BY <1>1, <1>2, <1>3, <1>4, <1>5 DEF Coroutine

\* A thread alone in wait has its blocker in the slot until trigger takes it.
LEMMA ThreadSolo ==
  ASSUME NEW t \in Threads, IInv, Solo,
         (wait(t) /\ ~Waiting) \/ join(t) \/ wakes_up(t) \/ Step(t)
  PROVE  Solo'
<1> USE JoinAssumption DEF Solo, IInv, TypeOK, ParkTypeOK, parkVars, handleVars, Goto
<1>1. CASE wait(t) /\ ~Waiting
  BY <1>1 DEF wait, Waiting
<1>2. CASE join(t)
  BY <1>2 DEF join
<1>3. CASE wakes_up(t)
  BY <1>3 DEF wakes_up, spurious
<1>4. CASE register(t)
  BY <1>4 DEF register
<1>5. CASE recheck(t)
  BY <1>5 DEF recheck
<1>6. CASE park(t)
  BY <1>6 DEF park, Parks, park_timeout, Loop, Return
<1>7. CASE unparked(t)
  BY <1>7 DEF unparked, Parks, relock, Loop, Return
<1>8. CASE unregister(t)
  BY <1>8 DEF unregister
<1>9. CASE returns(t)
  BY <1>9 DEF returns
<1>10. CASE take_packet(t)
  BY <1>10 DEF take_packet
<1>11. CASE take_panic(t)
  BY <1>11 DEF take_panic
<1> QED BY <1>1, <1>2, <1>3, <1>4, <1>5, <1>6, <1>7, <1>8, <1>9, <1>10, <1>11 DEF Step

\* Every step keeps what is true with one waiter.
LEMMA SoloNext == IInv /\ SoloInv /\ [Next]_vars => SoloInv'
<1> SUFFICES ASSUME IInv, SoloInv, [Next]_vars, ~crowd' PROVE Solo'
  BY DEF SoloInv
<1>1. CASE UNCHANGED vars
  BY <1>1 DEF vars, SoloInv, Solo
<1>2. CASE Coroutine /\ UNCHANGED crowd
  BY <1>2, CoroutineSolo DEF SoloInv
<1>3. ASSUME NEW t \in Threads, wait(t), crowd' = (crowd \/ Waiting) PROVE Solo'
  <2>1. ~crowd /\ ~Waiting
    BY Zenon, <1>3
  <2> QED BY <1>3, <2>1, ThreadSolo DEF SoloInv
<1>4. ASSUME NEW t \in Threads, join(t) \/ wakes_up(t) \/ Step(t), UNCHANGED crowd PROVE Solo'
  BY <1>4, ThreadSolo DEF SoloInv
<1> QED BY <1>1, <1>2, <1>3, <1>4 DEF Next

\* With one waiter at a time a sleeping waiter is always about to be woken
\* (join.rs:47-62): register before the second look at the state.
THEOREM WakeupNotLost == Spec => []NoLostWakeup
<1>1. IInv /\ SoloInv => NoLostWakeup
  BY DEF IInv, SoloInv, Solo, NoLostWakeup
<1> QED BY <1>1, InitInv, NextInv, SoloNext, PTL DEF Spec
=============================================================================
