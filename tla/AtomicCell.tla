----------------------------- MODULE AtomicCell -----------------------------
(***************************************************************************)
(* src/coroutine/src/sync/atomic_cell.rs. A type without an atomic         *)
(* instruction takes a lock: SeqLock. A type with one has here an integer  *)
(* cell, whose fetch operations and compare and swap are one step each and *)
(* whose fetch_update is a loop of them, and a cell of Option<T> with a    *)
(* destructor, as AtomicOption wraps it: storing swaps and then drops what *)
(* was there. atomic_swap and atomic_compare_exchange_weak are not in      *)
(* src/; they are one step each, and the weak exchange may also fail when  *)
(* the value is the expected one.                                          *)
(***************************************************************************)
EXTENDS SeqLock, FiniteSets

CONSTANTS
  Tokens,     \* the values with a destructor
  Owner,      \* the thread that makes each of them
  None,       \* the Option without a value
  Layouts,    \* size and alignment of the cells' types
  Limit       \* fetch_update's function refuses values from Limit on

ASSUME AtomicCellAssumption == None \notin Tokens /\ Owner \in [Tokens -> Threads] /\ Limit \in Nat

VARIABLES
  layout,     \* the type of the cells
  word,       \* the integer cell
  upd,        \* fetch_update of every thread: its step and `previous`
  lin,        \* what the completed operations make of the integer, one by one
  slot,       \* the cell of Option<T>
  mine,       \* the tokens every thread owns
  old,        \* what swap gave a store, still to be dropped
  drops,      \* how often every token has been dropped
  gone        \* the cell of Option<T> is dropped or taken apart

intVars == <<layout, word, upd, lin>>
ownVars == <<slot, mine, old, drops, gone>>
cellVars == <<intVars, ownVars>>
vars == <<lockVars, cellVars>>

Init ==
  /\ LockInit
  /\ layout \in Layouts
  /\ word = 0 /\ lin = 0
  /\ upd = [t \in Threads |-> [pc |-> "idle", previous |-> 0]]
  /\ slot = None /\ gone = FALSE
  /\ mine = [t \in Threads |-> {v \in Tokens : Owner[v] = t}]
  /\ old = [t \in Threads |-> None]
  /\ drops = [v \in Tokens |-> 0]

-----------------------------------------------------------------------------
\* fetch_add and the others: one atomic instruction.
fetch(t, op, val) ==
  /\ upd[t].pc = "idle"
  /\ word' = Fetched(op, word, val)
  /\ lin' = Fetched(op, lin, val)
  /\ UNCHANGED <<layout, upd, ownVars>>

\* f of fetch_update: Some(previous + 1) below Limit.
Accepts(previous) == previous < Limit
f(previous) == (previous + 1) % Size

fetch_update(t) ==
  /\ upd[t].pc = "idle"
  /\ upd' = [upd EXCEPT ![t] = [pc |-> "loop", previous |-> word]]
  /\ UNCHANGED <<layout, word, lin, ownVars>>

\* Mutant of compare_exchange: the loop stores without comparing.
compare_exchange_stores(t) ==
  /\ upd[t].pc = "loop" /\ Accepts(upd[t].previous)
  /\ word' = f(upd[t].previous)
  /\ lin' = f(lin)
  /\ upd' = [upd EXCEPT ![t].pc = "idle"]
  /\ UNCHANGED <<layout, ownVars>>

compare_exchange(t) ==
  /\ upd[t].pc = "loop" /\ Accepts(upd[t].previous)
  /\ \/ /\ word = upd[t].previous
        /\ word' = f(word)
        /\ lin' = f(lin)
        /\ upd' = [upd EXCEPT ![t].pc = "idle"]
     \/ /\ word # upd[t].previous
        /\ upd' = [upd EXCEPT ![t].previous = word]
        /\ UNCHANGED <<word, lin>>
  /\ UNCHANGED <<layout, ownVars>>

\* The weak exchange fails although the value is the expected one, which it returns.
compare_exchange_fails(t) ==
  /\ upd[t].pc = "loop" /\ Accepts(upd[t].previous) /\ word = upd[t].previous
  /\ UNCHANGED cellVars

\* The function returned None: Err(previous).
gives_up(t) ==
  /\ upd[t].pc = "loop" /\ ~Accepts(upd[t].previous)
  /\ upd' = [upd EXCEPT ![t].pc = "idle"]
  /\ UNCHANGED <<layout, word, lin, ownVars>>

-----------------------------------------------------------------------------
\* Mutant of store: the value is written over the one in the cell.
store_overwrites(t, v) ==
  /\ ~gone /\ old[t] = None /\ v \in mine[t]
  /\ slot' = v
  /\ mine' = [mine EXCEPT ![t] = @ \ {v}]
  /\ UNCHANGED <<old, drops, gone, intVars>>

\* store on a type with a destructor: the swap of drop(self.swap(value)).
store(t, v) ==
  /\ ~gone /\ old[t] = None /\ v \in mine[t]
  /\ slot' = v
  /\ old' = [old EXCEPT ![t] = slot]
  /\ mine' = [mine EXCEPT ![t] = @ \ {v}]
  /\ UNCHANGED <<drops, gone, intVars>>

\* The drop of drop(self.swap(value)).
store_drops(t) ==
  /\ old[t] # None
  /\ drops' = [drops EXCEPT ![old[t]] = @ + 1]
  /\ old' = [old EXCEPT ![t] = None]
  /\ UNCHANGED <<slot, mine, gone, intVars>>

\* take, and swap with a value of the thread's own.
Takes(t, v) ==
  /\ ~gone /\ old[t] = None
  /\ slot' = v
  /\ mine' = [mine EXCEPT ![t] = (@ \cup {slot}) \ {v, None}]
  /\ UNCHANGED <<old, drops, gone, intVars>>
take(t) == Takes(t, None)
swap(t, v) == v \in mine[t] /\ Takes(t, v)

\* into_inner owns the cell: nobody is in a store.  ManuallyDrop keeps drop away.
into_inner(t) ==
  /\ ~gone /\ \A u \in Threads : old[u] = None
  /\ gone' = TRUE /\ slot' = None
  /\ mine' = [mine EXCEPT ![t] = (@ \cup {slot}) \ {None}]
  /\ UNCHANGED <<old, drops, intVars>>

\* Drop for AtomicCell.
drop ==
  /\ ~gone /\ \A u \in Threads : old[u] = None
  /\ gone' = TRUE /\ slot' = None
  /\ drops' = [v \in Tokens |-> IF v = slot THEN drops[v] + 1 ELSE drops[v]]
  /\ UNCHANGED <<mine, old, intVars>>

Loop(t) == compare_exchange(t) \/ gives_up(t)
Steps(t) ==
  \/ Loop(t) \/ compare_exchange_fails(t) \/ fetch_update(t)
  \/ \E op \in FetchOps, val \in 0 .. Size - 1 : fetch(t, op, val)
  \/ store_drops(t) \/ take(t) \/ into_inner(t)
  \/ \E v \in Tokens : store(t, v) \/ swap(t, v)

\* The atomic! macro: an instruction if the type has one, else the lock.
Next ==
  \/ /\ atomic_is_lock_free(layout)
     /\ drop \/ \E t \in Threads : Steps(t)
     /\ UNCHANGED lockVars
  \/ ~atomic_is_lock_free(layout) /\ LockNext /\ UNCHANGED cellVars

\* Every thread inside an operation is scheduled, and its exchange does not fail
\* forever on the expected value.
Spec ==
  /\ Init /\ [][Next]_vars
  /\ \A t \in Threads : WF_vars(Loop(t) /\ UNCHANGED lockVars) /\ WF_vars(LockStep(t) /\ UNCHANGED cellVars)

-----------------------------------------------------------------------------
(* Properties.                                                             *)

\* No update is lost: the integer is what the completed operations make of it one
\* by one, though fetch_update reads it first and exchanges it later
\* (atomic_cell.rs:93-99).
NoLostUpdate == word = lin

\* In how many places a value is.
Places(v) ==
  Cardinality({t \in Threads : v \in mine[t]}) + Cardinality({t \in Threads : v = old[t]})
    + (IF v = slot THEN 1 ELSE 0) + drops[v]

\* A value with a destructor is in the cell, owned by one thread or dropped once:
\* none is lost when it is overwritten, none is dropped twice when store races
\* with take or the cell is dropped (atomic_cell.rs:47-49, :109-118).
OwnedOnce == \A v \in Tokens : Places(v) = 1

\* A thread is inside fetch_update or an operation under the lock, and begins one on
\* the integer or under the lock.
Busy(t) == upd[t].pc = "loop" \/ ~At(t, "idle")
Begins(t) ==
  \/ fetch_update(t) \/ \E op \in FetchOps, val \in 0 .. Size - 1 : fetch(t, op, val)
  \/ \E op \in Ops, c \in Cells, arg \in Args : call(t, op, c, arg)

\* Only operations that others keep beginning can hold one up: once they begin no more,
\* whatever is still under way, fetch_update gets its exchange through (atomic_cell.rs:93-99)
\* and write its guard, whoever made the lock word 1 and however a load left it
\* (seq_lock.rs:42-55, :72-77).
OperationsEnd ==
  \A t \in Threads :
    (\A u \in Threads \ {t} : <>[][~Begins(u)]_vars) => (Busy(t) ~> ~Busy(t))
=============================================================================
