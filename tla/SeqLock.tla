------------------------------ MODULE SeqLock -------------------------------
(***************************************************************************)
(* src/coroutine/src/sync/seq_lock.rs and the operations that use it: an   *)
(* AtomicCell whose type is too wide for an atomic instruction is guarded  *)
(* by one of a fixed set of stamped locks, shared by cells whose addresses *)
(* fall together.  A value is two digits to the base Half, its words, read *)
(* and written one after the other.  load tries an optimistic read first:  *)
(* stamp, words, stamp.  AtomicCell chooses between this and instructions. *)
(***************************************************************************)
EXTENDS AtomicOps

CONSTANTS
  Threads,
  Cells,
  Locks,
  LockOf,     \* the lock of every cell, LOCKS[addr % LEN]
  Ops,        \* the operations called: "load", "store" or fetch operations
  Half,       \* a word is 0 .. Half - 1
  Args,       \* the values operations are called with
  Stamps      \* bound: the lock word wraps at Stamps

ASSUME SeqLockAssumption ==
  LockOf \in [Cells -> Locks] /\ Half \in Nat /\ Size = Half * Half /\ Args \subseteq 0 .. Size - 1
  /\ Stamps \in Nat /\ Stamps > 3

VARIABLES
  lock,    \* SeqLock.state of every lock: 1 is locked, other values are stamps
  mem,     \* the two words of every cell
  th,      \* the operation every thread is in
  seq,     \* auxiliary: the value of every cell, as long as operations come one by one
  met      \* auxiliary: two operations have overlapped

lockVars == <<lock, mem, th, seq, met>>

Words == 1 .. 2
Split(v) == [w \in Words |-> IF w = 1 THEN v \div Half ELSE v % Half]
Value(ws) == ws[1] * Half + ws[2]
Idle == [pc |-> "idle", op |-> "none", cell |-> CHOOSE c \in Cells : TRUE, arg |-> 0, stamp |-> 0, got |-> Split(0)]

LockInit ==
  /\ lock = [l \in Locks |-> 0]
  /\ mem = [c \in Cells |-> Split(0)]
  /\ th = [t \in Threads |-> Idle]
  /\ seq = [c \in Cells |-> 0]
  /\ met = FALSE

At(t, l) == th[t].pc = l
Goto(t, l) == th' = [th EXCEPT ![t].pc = l]
LockOfOp(t) == LockOf[th[t].cell]

-----------------------------------------------------------------------------
\* AtomicCell::load, store, fetch_add and the others on a wide type.
call(t, op, c, arg) ==
  /\ At(t, "idle")
  /\ th' = [th EXCEPT ![t] = [Idle EXCEPT !.pc = IF op = "load" THEN "optimistic" ELSE "lock",
                                         !.op = op, !.cell = c, !.arg = arg]]
  /\ met' = (met \/ \E u \in Threads : ~At(u, "idle"))
  /\ seq' = IF met' THEN [x \in Cells |-> 0] ELSE seq
  /\ UNCHANGED <<lock, mem>>

optimistic_read(t) ==
  /\ At(t, "optimistic")
  /\ LET s == lock[LockOfOp(t)]
     IN th' = [th EXCEPT ![t].pc = IF s = 1 THEN "lock" ELSE "peek1", ![t].stamp = s]
  /\ UNCHANGED <<lock, mem, seq, met>>

\* ptr::read_volatile, ptr::read, `*val`: one word at a time.
read_word(t, from, w, to) ==
  /\ At(t, from)
  /\ th' = [th EXCEPT ![t].got[w] = mem[th[t].cell][w], ![t].pc = to]
  /\ UNCHANGED <<lock, mem, seq, met>>

validate_read(t) ==
  /\ At(t, "validate")
  /\ Goto(t, IF lock[LockOfOp(t)] = th[t].stamp THEN "done" ELSE "lock")
  /\ UNCHANGED <<lock, mem, seq, met>>

\* Mutant of write: the guard is given to who finds the stamp 0.
write_first_only(t) ==
  /\ At(t, "lock")
  /\ LET previous == lock[LockOfOp(t)]
     IN th' = [th EXCEPT ![t].stamp = previous,
                         ![t].pc = IF previous = 0 THEN (IF th[t].op = "store" THEN "write1" ELSE "read1") ELSE "lock"]
  /\ lock' = [lock EXCEPT ![LockOfOp(t)] = 1]
  /\ UNCHANGED <<mem, seq, met>>

\* write: swap(1) until the previous word is 1; snooze in between.
write(t) ==
  /\ At(t, "lock")
  /\ LET previous == lock[LockOfOp(t)]
     IN th' = [th EXCEPT ![t].stamp = previous,
                         ![t].pc = IF previous # 1 THEN "lock" ELSE IF th[t].op = "store" THEN "write1" ELSE "read1"]
  /\ lock' = [lock EXCEPT ![LockOfOp(t)] = 1]
  /\ UNCHANGED <<mem, seq, met>>

\* What an operation leaves in the cell that held old.
NewValue(t, old) ==
  CASE th[t].op = "load"     -> old
    [] th[t].op = "store"    -> th[t].arg
    [] th[t].op \in FetchOps -> Fetched(th[t].op, old, th[t].arg)
NewWord(t, w) == Split(NewValue(t, Value(th[t].got)))[w]

\* Mutant of write_word: the second word is left as it was.
write_word_once(t, from, w, to) ==
  /\ At(t, from)
  /\ mem' = IF w = 1 THEN [mem EXCEPT ![th[t].cell][w] = NewWord(t, w)] ELSE mem
  /\ Goto(t, to)
  /\ UNCHANGED <<lock, seq, met>>

write_word(t, from, w, to) ==
  /\ At(t, from)
  /\ mem' = [mem EXCEPT ![th[t].cell][w] = NewWord(t, w)]
  /\ Goto(t, to)
  /\ UNCHANGED <<lock, seq, met>>

\* SeqLockWriteGuard::abort and drop: the word saved, or the next stamp.
unlock(t) ==
  /\ At(t, "unlock")
  /\ lock' = [lock EXCEPT ![LockOfOp(t)] = IF th[t].op = "load" THEN th[t].stamp ELSE (th[t].stamp + 2) % Stamps]
  /\ Goto(t, "done")
  /\ UNCHANGED <<mem, seq, met>>

\* The operation returns; seq says what it should have done.
returns(t) ==
  /\ At(t, "done")
  /\ th' = [th EXCEPT ![t] = Idle]
  /\ seq' = IF met THEN seq ELSE [seq EXCEPT ![th[t].cell] = NewValue(t, @)]
  /\ UNCHANGED <<lock, mem, met>>

\* The words in the order of the program text.
LockStep(t) ==
  \/ optimistic_read(t) \/ validate_read(t) \/ write(t) \/ unlock(t) \/ returns(t)
  \/ read_word(t, "peek1", 1, "peek2") \/ read_word(t, "peek2", 2, "validate")
  \/ read_word(t, "read1", 1, "read2")
  \/ read_word(t, "read2", 2, IF th[t].op = "load" THEN "unlock" ELSE "write1")
  \/ write_word(t, "write1", 1, "write2") \/ write_word(t, "write2", 2, "unlock")

LockNext ==
  \E t \in Threads :
    LockStep(t) \/ \E op \in Ops, c \in Cells, arg \in Args : call(t, op, c, arg)

-----------------------------------------------------------------------------
(* Properties.                                                             *)

\* Threads whose operations do not overlap find every cell as it was left: it holds
\* the last value written to it and a load returns it, whatever the stamps the locks
\* went through and the cells that share them (atomic_macro.rs:56-61, sync/mod.rs:74-123).
OneByOne ==
  ~met =>
    /\ (\A t \in Threads : At(t, "idle")) => \A c \in Cells : mem[c] = Split(seq[c])
    /\ \A t \in Threads : At(t, "done") /\ th[t].op = "load" => Value(th[t].got) = seq[th[t].cell]
=============================================================================
