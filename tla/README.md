# A TLA+ verification of chiya

chiya is a Rust workspace of three crates: `bytes` (reference-counted byte
buffers and the cursors that read and write them), `date` (HTTP dates and a
cached current date) and `coroutine` (the runtime of stackful coroutines).  This
directory holds TLA+ models of their state machines and algorithms, the TLC
configurations that check them on small instances, and TLAPS proofs that hold for
every value of the constants.  `PROJECT.json` is the inventory: components, runs,
the map from definitions to source lines, one mutant per property, findings,
hazards and theorems.

    tlc -workers 2 -config MCBytes.cfg MCBytes      # one run
    tlapm BytesMut_proofs.tla                       # one module of proofs

## 1. The system and its parts

| part | source (under `src/`) | modules |
|---|---|---|
| `BytesMut`, and the `Bytes` frozen from it | `bytes/src/bytes_mut.rs` | `BytesMut`, `ByteStrings`, `BytesMutRefinement`, `BytesMut_lemmas`, `BytesMut_proofs`, `BytesMutRefinement_proofs` |
| `Bytes`: static, owned, promotable, shared | `bytes/src/bytes.rs` | `Bytes`, `Bytes_lemmas`, `Bytes_proofs` |
| `Buf`, `BufMut`, adapters, integers | `bytes/src/buf/` | `Buf`, `BufInts` |
| calendar, printing, parsing | `date/src/date_time.rs` | `DateTime` |
| the cached date and its thread | `date/src/lib.rs` | `DateCache`, `DateCache_proofs` |
| thread parker; join | `coroutine/src/sync/thread_park.rs`, `join.rs`, `join_handle.rs` | `ThreadPark`, `Join`, `Join_proofs` |
| life of a coroutine: spawn, run, park, unpark, cancel, done | `coroutine/src/builder.rs`, `lib.rs`, `park.rs`, `cancel.rs`, `done.rs` | `Coroutine`, `Coroutine_proofs` |
| context links, yield, signal handler | `coroutine/src/runtime.rs`, `yield_now.rs`, `guard.rs`, `stack/unix/overflow.rs` | `Runtime` |
| coroutine stacks | `coroutine/src/stack/` | `Stack` |
| `AtomicCell`, `SeqLock` | `coroutine/src/sync/` | `AtomicOps`, `SeqLock`, `AtomicCell` |

How they interact: `BytesMut` freezes into `Bytes` on the same allocation, and
one module holds both so that counts and views are checked together.  The
cursors of `Buf` are what `Bytes` and `BytesMut` implement.  `DateCache` prints
what `DateTime` converts.  `Join` is composed with `ThreadPark`: a step of a
waiter is a step of its parker.  `AtomicCell` is composed with `SeqLock`: the
layout of the cell's type decides which of the two an operation uses.
`Coroutine` hands instances around between the pool, the ready queue, `Park`'s
slot and the threads; `Join` is what its end triggers.

## 2. The models

**BytesMut.**  `hd` are the handles with the fields of the Rust structs, `heap`
the allocations with their cells, `sh` the boxed `Shared` blocks, `seen` the
handles whose thread has loaded a `ref_count` other than 1.  A handle is a view
`off .. off+cap-1` of one allocation; in `KIND_VEC` form it owns the allocation,
in `KIND_ARC` form a block owns it and counts.  Handles live on different
threads; the only memory two threads both write is a count, so an action is a
whole operation with at most one racing access to a count, and an `is_unique`
that answers false is a step of its own whose answer may be stale when the
copying branch releases.  A failed `assert!` panics before any assignment and is
a disabled action.  `ByteStrings` is the abstract specification: handles are
independent byte strings.

**Bytes.**  The four vtables of `bytes.rs`.  Threads clone one handle through
`&self`: the first clone of a boxed slice is two steps (`clone_begin`,
`clone_finish`) around the compare-and-swap.  A conversion that looks at the count
and acts on it later is two steps as well: `shared_not_unique` and `shared_copy`
(type `"copying"`), and for a `BytesMut`, whose count of 1 is only loaded,
`shared_unique` and `shared_in_place` (type `"taking"`).  `shared_to_vec_impl` wins
its count with a compare-and-swap, after which nobody else can see the block: one
step.  A conversion works on a `ManuallyDrop`, so one that panics leaves its
reference behind, and so does `owned_to_vec`: `kept` counts such references on the
block, or marks the allocation that has none.  `fault` records a misread pointer,
after which nothing is defined and nothing happens.

**Buf, BufInts.**  A trait method is an operator on the value it is called on,
with an arm per implementation; adapters nest.  The loops of `copy_to_slice`,
`put` and `put_slice` take a step per iteration.  `taken`, `given` and `orig` are
history: what left the source and what the sink accepted.  `BufInts` adds
integers put into a sink and read back, wherever their bytes are cut.  Bytes have
`ByteBits` bits and the widest integer `IntBytes` bytes.

**DateTime.**  Both conversions, the printer, the three parsers with their errors,
`is_valid` and `from_str` as operators over token lists (a token has a width, so
that the parsers' byte offsets are real).  The state is a day that moves forward through a reference calendar made
of the rules of the Gregorian calendar; every property compares the code's
arithmetic with it.

**DateCache.**  The bytes of the cached date are written and read one at a time,
in any order: nothing in the code orders the two.  A byte is the number of the
update that wrote it.

**ThreadPark, Join.**  A token and a condition variable with spurious wake-ups
for every thread; what happens under the mutex is one step.  In `Join` a step is
one atomic operation.  The coroutine stores its result or panic, stores the
state, takes the registered blocker and unparks it; threads wait or join at any
time.

**Coroutine.**  An actor (spawner, worker, caller) holds at most one instance;
every atomic operation of `unpark`, `cancel` and the subscription is a step of its
own.  The scheduler's queue and pool, `resume` and the parking side of `Park`
(`park`, `subscribe`) are not in the repository: they are external, modelled from
how the code uses them.

**Runtime.**  `parent` and `child` links as the code keeps them, `nest` as the
reference.  Faults run the signal handler while another thread registers it.
`push_context` and `pop_context` are external.

**Stack.**  Pages and words of a small address space; sizes in bytes wrap at
`Usize`.  mmap chooses any free pages, mprotect may fail.  `new` also writes a word
above the top of the mapping: in the guard page of a stack that happens to lie
there the process is killed, in memory that is no stack's it may or may not be.

**AtomicCell, SeqLock.**  For a type that has an instruction: integers with fetch
operations and `fetch_update` loops, and a cell of `Option<T>` whose values have
destructors.  For a wide type: values of two words under one of the shared
stamped locks, with optimistic reads.  The words are read and written in program
order; accesses are sequentially consistent.

### Auxiliary variables

Four models have a Boolean history variable that no guard reads.  It marks that
a behaviour has met a case in which the code does not keep a promise
(section 5); properties that depend on the promise are stated for the behaviours
before that, and all others for every behaviour.

| variable | becomes true when | what is conditional on it |
|---|---|---|
| `Bytes.lost` | a handle on a `Shared` block is cloned, by `clone` or inside `slice`, `split_off`, `split_to`, `truncate` or the second of two racing clones: all go through `shallow_clone_arc` | the equality in `CountsExact`, `NoDangling`, `ValuesKept`, `NoLeak` |
| `Join.crowd` | two threads are in `wait` at once | `NoLostWakeup`, `WaitReturns` |
| `SeqLock.met` | two operations on wide cells overlap | `OneByOne` |
| `Coroutine.masked` | a coroutine disables its cancellation | `PoolIsClean` |

## 3. The runs

| run | instance | shows |
|---|---|---|
| `buffers` | 2 handles, 3 allocations, 1 block, 2 byte values, capacity 2 | counts are exact, views lie in live memory, regions that may be written are exclusive, every allocation has one owner; `ValueSemantics`, the refinement of `ByteStrings`, which also says that no operation exposes a byte that was never written |
| `cursors` | 20 or so nested sources, 6 sinks, 3-byte message, 2-bit bytes | bytes come out once and in order and arrive as sent; no transfer panics midway; room is accounted; loops end; integers arrive |
| `bytes` | 3 handles, 2 allocations, 2 blocks, 2 threads, capacity 2 | one promotion per buffer whatever the race, exact layouts for the allocator, no count too high; while nothing is lost also exact counts, no dangling handle, no changed byte, no leak but the references `kept` |
| `is_unique` | the same | violation: two handles of one buffer both are "unique" |
| `calendar` | every day of 1970-2370 and 9999, three times of day | fields, panic bound and way back agree with the calendar; `from_str` misreads nothing; the asctime parser reads its texts and refuses spoiled ones |
| `year_range` | 2000 | violation: from 1 March 2000 the year leaves its range |
| `date_cache` | 3 bytes, 3 updates, a reader | no byte copied is older than the date complete at the start; the zero bytes go away |
| `join` | 3 threads | no early return, the right answer; alone, no lost wake-up and every wait returns |
| `coroutine` | 2 coroutines on 1 instance, 2 workers, 2 callers | one holder per instance, own local storage, clean pool; unpark and cancel wake |
| `contexts` | 3 generators, 2 signals | a parameter reaches its coroutine, a fault ends |
| `stacks` | 2 stacks, 7 pages of 2 words, 8 sizes | mappings owned once, too little room exactly when the bytes wrap, usage right while the scan stays in the stack |
| `atomic_cells` | 2 threads, 2 tokens, 2 wide cells on 1 lock | no lost update, values owned once; wide operations one by one are right; an operation ends once the others begin no more |

Every property has a mutant in `PROJECT.json`: a plausible mistake in the code it
is about, under which TLC finds it violated.

### Bounds

* `buffers`: capacity 2 has every relation of length, capacity, position and
  spare room that `reserve_inner` tests (empty, partly and exactly full, position
  past `MaxVecPos`, prefix at least the length); three allocations are what a
  copy out of a shared vector needs beside the old and an unrelated one.  Two
  handles let two owners race; for more handles all invariants are proved.
* `bytes`: three handles make a clone of a clone.  `OneAllocationLost` bounds
  what follows a lost count to one allocation: more only adds independent state.
* `cursors`: sources are cut at every place of the message, also at none;
  `UsizeMax` 7 makes saturation reachable, `VecMax` 4 and `VecGrowth` 2 the growth
  and the limit of a vector.  An integer of two 2-bit bytes has bytes that differ
  and widths below the full one.
* `calendar`: the conversion repeats after 400 years, all of which are walked from
  five starting days; the last year has the bound.  Each start runs `Span` days, a
  little over a century.  The texts of a day have one time of day, those of the next
  another, and from day to day another part is the spoiled one.
* `date_cache`: three bytes tell a first, a middle and a last one apart, three
  updates an older, the current and a newer date.  The theorem has no bound.
* `join`: with three threads one is registered, one replaced it and one leaves.
* `coroutine`: one instance for two coroutines forces reuse; an unpark and a
  cancel, or two of either, race with each other and with the subscription.
* `atomic_cells`: every fetch operation and argument on narrow cells; `load`,
  `store` and `add` of 3 (which carries into the first word) on wide ones.  The
  number of operations has no bound.  `OperationsEnd` has a condition instead: the
  loop of `fetch_update` and that of `SeqLock::write` can be held up for ever by a
  thread that keeps operating, and without the condition TLC finds how.
* `stacks`: usize wraps at 16 words.  Sizes, odd and even, from zero to three pages
  are granted, 9 words are beyond the limit, and 17 and 20 wrap to a smaller stack.

`CHECK_DEADLOCK FALSE` is used throughout: programs stop when their calls are
used up, everything is joined or the process has ended.

### Fairness

Weak fairness only, of threads inside an operation: the operating system runs
every thread, and a worker every instance it has resumed.  Specifically the loops
of `Buf`; the updater and the reader of `DateCache`; the coroutine and every thread
inside `wait` in `Join`; spawner, workers and threads inside a call in `Coroutine`
(a running coroutine parks or ends in time: they are cooperative); registration
and handler in `Runtime`; the exchange and the locked operations in `AtomicCell`,
where a weak exchange may fail on the expected value but not for ever.  Nobody
has to call `wait`, `unpark`, `cancel` or `append_date`, and no spurious wake-up
has to come.

## 4. What is proved

| theorem | module | statement |
|---|---|---|
| `Invariance` | `BytesMut_proofs` | `Spec => []IInv` |
| `TypeCorrect`, `CountsExact`, `NoDangling`, `VecRebuilt`, `Exclusive`, `OwnedOnce` | `BytesMut_proofs` | `TypeOK`, `RefCountExact`, `WithinLiveAllocation`, `RebuildsVec`, `ExclusiveRegions`, `OneOwner` always hold |
| `Refinement` | `BytesMutRefinement_proofs` | `Spec => ValueSemantics`: `BytesMut` implements `ByteStrings` |
| `OnlyWrittenBytes` | `BytesMutRefinement_proofs` | `Spec => []Initialized`: no handle shows a byte that was never written |
| `Invariance` | `Bytes_proofs` | `Spec => []IInv` |
| `LayoutsExact`, `PromotedOnce`, `Counting`, `Undangled`, `Immutable`, `Unleaked` | `Bytes_proofs` | `LayoutExact`, `OnePromotion`, `CountsExact`, `NoDangling`, `ValuesKept`, `NoLeak` always hold |
| `Invariance` | `Coroutine_proofs` | `Spec => []IInv` |
| `HolderUnique`, `LocalOwned`, `PoolClean` | `Coroutine_proofs` | `OneHolder`, `LocalIsOwn`, `PoolIsClean` always hold |
| `WaitNeverEarly`, `JoinAnswersRight`, `WakeupNotLost` | `Join_proofs` | `NeverEarly`, `JoinAnswers`, `NoLostWakeup` always hold |
| `NeverStale` | `DateCache_proofs` | `NoStaleByte` always holds |

In a proof a leaf that names no prover is Zenon's (or the solver's, in the two
short modules), as the `USE` at the head of the module says; `SMTT` marks the
leaves that need arithmetic, sequences or records.

**BytesMut**, for any finite set of handles and any allocations, blocks, bytes
and limits (`ConstantsAssumption`).  None of the invariants is inductive alone:
that a release may free the block needs the exact count, that needs to know
which handles are on it, and that a handle may write in place when it is unique
needs that no second owner has the same allocation.  `IInv` is the conjunction
`TypeOK /\ HandleInv /\ OwnerInv /\ RefCountExact /\ RegionInv /\ ReachInv`: what
a handle knows of its allocation and block, that no two owners share an
allocation, exact counts, disjointness written as inequalities of offsets, which
the SMT solver handles where sets of indices are beyond it, and that a live
allocation is reached by some handle.  The last is what `OneOwner` needs beside
`OwnerInv`: there is not only at most one owner but also at least one.
`BytesMut_lemmas` has the types of the operators, counting (adding or removing
one holder) and one lemma per kind of state change (creating, narrowing,
reallocating, releasing, sharing, promoting, joining, taking apart);
`BytesMut_proofs` reduces every action to one of these.

**The refinement of `ByteStrings`**, under the same assumptions.  `Obj` maps a
handle to its type and the cells it dereferences to.  A step is shown to be one
of `ByteStrings` in three layers.  First, what a window on an array of cells
(`View`) becomes when the array is written behind the window, copied, moved to
the front or stored into.  These need no induction: two windows are equal when
their cells are, position by position.  Second, what an assignment to one or two
handles is in `ByteStrings` (`StepNarrow`, `StepSplit`, `StepJoin` and the rest).
Third, one lemma per action, and one per branch of `reserve_inner`, that joins
the two.  What makes them true is `IInv`: the strings of the other handles stay
as they are because the handle is alone on the allocation it rewrites
(`OwnerInv`, exact counts), or because it writes inside its own region only
(`RegionInv`), or because the allocation is fresh.  `ByteStrings` has only
written bytes, so the step also needs that the string extended has only such,
`Initialized`, which is inductive together with the refinement: an abstract step
from written bytes ends in written bytes.
The windows are at the end of `BytesMut_lemmas`, the abstract steps, splitting and
editing at the end of `BytesMut_proofs`, the other actions and the theorems in
`BytesMutRefinement_proofs`.

**Bytes**, for any finite set of handles and any allocations, blocks, threads,
limits and static memory (`BytesAssumption`).  `IInv` has seven parts: types;
`HandleInv`, what the vtable says of a handle's pointers, that its bytes lie in
the allocation and, until a count is lost, are the ones it was made with, and that
one about to take its block apart finds the count still at 1;
`BlockInv`, that a live block has a live allocation, of the capacity it
remembers, and a count of at least one; `OwnerInv`, that an allocation has one
handle without a block or one block; the counts; `LeakInv`; and that a handle
some thread is cloning stays promotable.  They lean on each other: the
conversion of the only owner moves bytes within the allocation, which leaves all
other handles' bytes alone only because the count is exact, and the
compare-and-swap installs the only block of the allocation only because before
it the handle was its only owner.  The parts are operators on values, not on the
variables: `Inv(H, M, B, C, lo)` speaks of any handles, heap, blocks and clones
in progress, with `lo` for `lost`.  `truncate`, `split_off` or a conversion makes
several changes in one step (a clone, a narrower handle, a drop), and each of
them is a lemma from `Inv` of one tuple of values to `Inv` of the next; the
action's lemma chains them.  With `lo` true the same lemmas show what survives a
lost count: layouts, one block per allocation and the upper bound of the counts.
`Bytes_lemmas` has the lemmas on the single changes, `Bytes_proofs` those of the
actions and the theorems.

**Coroutine**, for any coroutines, instances, workers, callers and number of calls
(`CoroutineAssumption`).  `OneHolder` counts the places an instance is in.  `IInv`
says that no two of pool, queue, slots and hands have one (`Excl`) and that one
always does (`Some`), at which steps a thread has an instance in hand and whose
(`ActInv`, `ParkInv`), that no two instances run one coroutine (`CodeInv`), from
when to when the local storage is there (`LocalInv`: who frees it works on a
coroutine whose instance is back in the pool), and, while no cancellation was
disabled, where an instance with a cancellation's parameter can be (`CleanInv`).

**Join**, for any set of threads.  `NeverEarly` needs that a token, a parked
thread outside its condition variable and a waiter past its second look each
imply that the state is false, and `JoinAnswers` that packet and panic data agree
with how the function ended until the joiner takes them: that is `IInv`.
`NoLostWakeup` needs `SoloInv`: as long as no two threads have been in `wait` at once, a
registered waiter is in `to_wake`, or taken by `trigger`, or has a token.

**DateCache**, for any number of readers, bytes and updates.  `IInv` says that no
byte is older than the last complete update and that no reader began with a
later one.

Only model-checked:

* everything temporal: liveness under fairness is beyond the prover;
* `Buf`, `BufInts` and `DateTime`: adapters nest and parsers recurse, and what a
  recursive definition computes for every input needs an induction over data that
  the provers cannot do;
* `AtomicCell` and `SeqLock`, whose fetch operations are bitwise;
* `Stack`, whose invariants divide sizes by the page size, arithmetic the solver
  does not decide for an unknown page size;
* `Runtime`: `FaultEnds` is liveness; `ParaToOwner` is an action property, but the
  walk of `coroutine_ctx` follows links any number of times (`Up`), and where it
  arrives needs an induction over their number.

## 5. Where the code and its documentation disagree

Shown by a run:

* `Bytes::is_unique`, "Returns true if this is the only reference to the data":
  `shallow_clone_arc` (`bytes.rs:1149`) loads the count instead of raising it.
  Run `is_unique`.
* `DateTime.year`, "Year: 1970..9999": the expression at `date_time.rs:92` ends in
  `+ 400 & qc_cycles`, which masks the sum instead of adding 400 years per cycle.
  Run `year_range`; `FieldsAgree` is about the other fields.

Modelled as the code has it, and visible in how a property is stated:

* `Join` has one slot for a blocker; a second waiter replaces the first, who may
  sleep for ever (`join.rs:52`).  `crowd`.
* `SeqLock::write` returns its guard when the word was 1, that is taken, and
  remembers 1 instead of the stamp (`seq_lock.rs:45`): two writers are let in, and
  an optimistic read cannot notice a store.  `met`.
* `cancel` sets the parameter also while cancellation is disabled, and
  `check_cancel` clears it only if the state is exactly 1 (`cancel.rs:94`); it
  does not panic either, as its comment says.  `masked`.
* The readers of the cached date may copy parts of two dates, or zero bytes
  (`date/src/lib.rs:43`); `NoStaleByte` is what remains true.
* `promotable_to_vec` asserts the kind its branch excludes, `promotable_to_mut`
  multiplies by the mask (`bytes.rs:872`, `:893`): a panic that forgets the handle
  (`promotable_asserts`), or, without debug assertions and on a promoted handle, a
  `Shared` block taken for the bytes (`promoted_to_mut`).  `slice_ref`'s assertion
  on the start of the subset is the wrong way round (`bytes.rs:182`): only a subset
  that starts where the handle does, or an empty one, gets through.
* `owned_to_vec` keeps its reference (`bytes.rs:776`): `kept` in `CountsExact` and
  `NoLeak`, which like a panicking conversion's is the only one that stays.
* `parse_imf_fixdate` and `parse_rfc850_date` compare four bytes with `b"GMT"`
  (`date_time.rs:291`, `:350`) and refuse every text.  `is_valid` compares a date
  with its conversion to a time and back (`date_time.rs:37`), whose year is wrong, so
  `from_str` refuses the asctime texts as well.  `ParsersSound` says that `from_str`
  misreads nothing, and of `parse_asctime`, before `is_valid`, that it reads exactly
  the texts it should.
* `try_reclaim` passes `allocate = true` and may allocate (`bytes_mut.rs:382`).
* `can_transmute` compares sizes twice and no alignment (`sync/mod.rs:36`).
* `signal_handler` compares the fault with the guard of the outermost generator,
  and an overflow aborts the process: the `yield_now` in scope is the standard
  library's.  Both registrations save the previous action in one place
  (`overflow.rs:52`, `:69`).
* `mprotect`'s error path leaves the mapping (`leaked`), and a stack of size 0 is
  a mapped page although documented as a dummy (`stack/mod.rs:20`).  The
  multiplication of the size by the word size wraps in a build without overflow
  checks (`stack/mod.rs:23`), and the smaller stack is granted: `EnoughRoom` says
  that nothing else makes a stack too small.
* `Stack::get_offset` points one word above the mapping, and `new` writes there
  (`stack/mod.rs:44`): `killed`.  `get_used_size` has no stop at the top and scans on
  above a tracked stack that was never used (`stack/mod.rs:60`): `Beyond`.
* A clock that `DateTime` refuses panics in the thread of the cached date
  (`date/src/lib.rs:66`), which then stays what it was: the exception in `CacheFills`.

Read in code that is not modelled: `Chain::chunks_vectored` hands its second half
`dst[..n]` instead of `dst[n..]`; `get_int` shifts by `(8 - nbytes) + 8` bits;
`Extend<u8> for BytesMut` calls itself; `Backoff::is_completed` is never true after
`snooze`.

## 6. Not modelled

* The `coroutine` crate is unfinished and does not compile as it stands: it uses
  `get_scheduler`, `CoroutineImpl`, `push_context`, `pop_context`, `Park::park`,
  `atomic_swap`, `atomic_compare_exchange_weak` and others that are not in `src/`.
  What the models need of them is external.  `spawn_impl` both schedules the
  instance and returns it, and `spawn` schedules it again (`builder.rs:68`): one
  value with two owners, which the language does not allow, so only the first
  schedule is in the model.  `ThreadPark` moves its guard into the wait; the model
  takes it back from there.
* Durations: the one caller of `park_timeout` in `src/` passes none.  Cancellable
  I/O, `ignore_cancel` and `wait_kernel` have no code behind them.
* `Blocker` and `Parker`, a choice between a thread's and a coroutine's parker.
  `Join` uses the thread's, one per thread.
* `Backoff`, which only decides how long a loop pauses.
* Return values and typed parameters of generators (`get_para`, `set_ret`).
* `chunks_vectored`, which moves no cursor, and the sign extension of the signed
  getters; the fetch operations of `bool` cells; the check for ASCII and the
  trimming of blanks in `DateTime::from_str`.  Nobody in `src/` calls
  `Stack::drop_stack`; the model's action is what a caller could do.
* Formatting, comparison and hashing of byte strings; the panic helpers.
* The map of coroutine-local values, which nothing in `src/` reads or writes.
* Registers, assembly, libc bindings, branch hints.
* Memory orderings weaker than sequential consistency.  A word of a stack that
  its user sets to the mark's own pattern.
