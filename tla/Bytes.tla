------------------------------- MODULE Bytes -------------------------------
(***************************************************************************)
(* src/bytes/src/bytes.rs: the immutable handles and their four vtables.   *)
(* A static handle points to memory that lives for ever; an owned one to   *)
(* the buffer of an owner kept in a counted Owned<T>; a promotable one     *)
(* either owns its boxed slice (data is tagged KIND_VEC, here sh =         *)
(* NoShared) or, after its first clone, points to a counted Shared block;  *)
(* a shared one points to a Shared block.  Bytes is Sync and clone takes   *)
(* &self: threads clone one promotable handle at the same time and settle  *)
(* with a compare-and-swap.  All other calls have the handle to themselves *)
(* but share the block with the owners of its clones.                      *)
(***************************************************************************)
EXTENDS Integers, Sequences, FiniteSets

CONSTANTS
  Handles,          \* variables that hold a Bytes, or the vector made from one
  Bufs,             \* addresses of heap allocations
  Shareds,          \* addresses of boxed Shared and Owned blocks
  Threads,          \* threads that clone through a shared reference
  MaxCap,           \* bound: the largest allocation
  MaxRefs,          \* bound: the largest count of an Owned block
  StaticBytes,      \* the contents of the 'static memory
  NoBuf, NoShared

ASSUME BytesAssumption ==
  /\ MaxCap \in Nat /\ MaxRefs \in Nat /\ StaticBytes \in Seq(Nat)
  /\ IsFiniteSet(Handles) /\ "idle" \notin Handles
  /\ NoBuf \notin Bufs /\ NoShared \notin Shareds

VARIABLES
  hd,     \* the handles
  heap,   \* the allocations
  sh,     \* the Shared and Owned blocks
  cl,     \* per thread, the clone in progress
  fault,  \* "none", or "wild" after a misread pointer
  lost    \* auxiliary: a counted handle was cloned (shallow_clone_arc); from then
          \* on the count of a block may be too low

vars == <<hd, heap, sh, cl, fault, lost>>

None  == [vt |-> "none", buf |-> NoBuf, sh |-> NoShared, off |-> 0, len |-> 0, cap |-> 0, val |-> <<>>]
\* kept is auxiliary.  Of a block: its references whose holder went without giving
\* them back.  Of an allocation without a block: its owner did.
NoBlock == [live |-> FALSE, buf |-> NoBuf, cap |-> 0, ref |-> 0, owned |-> FALSE, kept |-> 0]
NoAlloc == [live |-> FALSE, bytes |-> <<>>, kept |-> FALSE]
Allocated(bytes) == [live |-> TRUE, bytes |-> bytes, kept |-> FALSE]
Idle == [h |-> "idle"]

Sub(s, off, len) == SubSeq(s, off + 1, off + len)

\* A Bytes without a heap allocation: from_static, new_empty_with_ptr.
Static(off, len) == [None EXCEPT !.vt = "static", !.off = off, !.len = len, !.val = Sub(StaticBytes, off, len)]
Empty == Static(0, 0)

Counted(b) == b.sh # NoShared
IsBytes(h) == hd[h].vt \in {"static", "owned", "promotable", "shared"}
Borrowed(h) == \E t \in Threads : cl[t].h = h
Alive(b) == (b.buf # NoBuf => heap[b.buf].live) /\ (Counted(b) => sh[b.sh].live)

\* Nothing is defined any more once a handle is left on freed memory.
Defined == fault = "none" /\ \A h \in Handles : Alive(hd[h])
\* h can be used through &mut self, or by value.
Mine(h) == Defined /\ IsBytes(h) /\ ~Borrowed(h)
Free(h) == Defined /\ hd[h] = None

\* The bytes a handle shows.
AsSlice(b) == IF b.buf = NoBuf THEN Sub(StaticBytes, b.off, b.len) ELSE Sub(heap[b.buf].bytes, b.off, b.len)

FreshBufs == {b \in Bufs : ~heap[b].live}
FreshShareds == {s \in Shareds : ~sh[s].live}

Init ==
  /\ hd = [h \in Handles |-> None]
  /\ heap = [b \in Bufs |-> NoAlloc]
  /\ sh = [s \in Shareds |-> NoBlock]
  /\ cl = [t \in Threads |-> Idle]
  /\ fault = "none"
  /\ lost = FALSE

-----------------------------------------------------------------------------
(* Blocks.                                                                 *)

Block(buf, cap, ref) == [live |-> TRUE, buf |-> buf, cap |-> cap, ref |-> ref, owned |-> FALSE, kept |-> 0]

\* Mutant of Released: the count goes down, the last reference frees nothing.
ReleasedNever(blocks, s) == [sh |-> [blocks EXCEPT ![s].ref = @ - 1], heap |-> heap]

\* release_shared and owned_drop_impl: the last reference frees block and buffer.
Released(blocks, s) ==
  IF blocks[s].ref = 1
  THEN [sh |-> [blocks EXCEPT ![s] = NoBlock], heap |-> [heap EXCEPT ![blocks[s].buf] = NoAlloc]]
  ELSE [sh |-> [blocks EXCEPT ![s].ref = @ - 1], heap |-> heap]

\* Drop of a Bytes, or of the vector made from one.
Dropped(b, blocks) ==
  CASE Counted(b)   -> Released(blocks, b.sh)
    [] ~Counted(b) /\ b.buf = NoBuf -> [sh |-> blocks, heap |-> heap]
    [] ~Counted(b) /\ b.buf # NoBuf -> [sh |-> blocks, heap |-> [heap EXCEPT ![b.buf] = NoAlloc]]

\* A Bytes that is not dropped and can never be again: its reference stays.
Forgotten(b) ==
  IF Counted(b) THEN [sh |-> [sh EXCEPT ![b.sh].kept = @ + 1], heap |-> heap]
  ELSE [sh |-> sh, heap |-> [heap EXCEPT ![b.buf].kept = TRUE]]

\* shallow_clone_arc reads the count and leaves it as it is.
shallow_clone_arc(b) == [old |-> b, new |-> [b EXCEPT !.vt = "shared"], sh |-> sh, lost |-> TRUE]

owned_clone(b) == [old |-> b, new |-> b, sh |-> [sh EXCEPT ![b.sh].ref = @ + 1], lost |-> lost]

\* shallow_clone_vec when its compare_exchange succeeds.
shallow_clone_vec(b, s) ==
  LET p == [b EXCEPT !.sh = s]
  IN [old |-> p, new |-> [p EXCEPT !.vt = "shared"],
      sh  |-> [sh EXCEPT ![s] = Block(b.buf, b.off + b.len, 2)], lost |-> lost]

Clone(b, s) ==
  CASE b.vt = "static" -> [old |-> b, new |-> b, sh |-> sh, lost |-> lost]
    [] b.vt = "owned"  -> owned_clone(b)
    [] b.vt = "promotable" /\ ~Counted(b) -> shallow_clone_vec(b, s)
    [] b.vt \in {"promotable", "shared"} /\ Counted(b) -> shallow_clone_arc(b)

\* The block a clone of b needs, none unless it promotes.  owned_clone aborts
\* the process above half the range of the count, long after MaxRefs.
CloneBlocks(b) ==
  CASE b.vt = "promotable" /\ ~Counted(b)         -> FreshShareds
    [] b.vt = "owned" /\ sh[b.sh].ref >= MaxRefs   -> {}
    [] OTHER                                       -> {NoShared}

\* inc_start, and a shorter length.
IncStart(b, by) == [b EXCEPT !.off = @ + by, !.len = @ - by, !.val = Sub(@, by, Len(@) - by)]
Shorten(b, len) == [b EXCEPT !.len = len, !.val = Sub(@, 0, len)]

-----------------------------------------------------------------------------
(* Construction.                                                           *)

from_static(h) ==
  /\ Free(h)
  /\ hd' = [hd EXCEPT ![h] = Static(0, Len(StaticBytes))]
  /\ UNCHANGED <<heap, sh, cl, fault, lost>>

\* From<Vec<u8>>, From<Box<[u8]>>, copy_from_slice.
from_vec(h, b, s, len, cap) ==
  /\ Free(h) /\ b \in FreshBufs /\ len <= cap
  /\ LET bytes == [i \in 1 .. cap |-> i]
         new == [None EXCEPT !.vt = "promotable", !.buf = b, !.len = len, !.val = Sub(bytes, 0, len)]
     IN CASE cap = 0 -> s = NoShared /\ hd' = [hd EXCEPT ![h] = Empty] /\ UNCHANGED <<heap, sh>>
          [] cap > 0 /\ len = cap ->
               /\ s = NoShared
               /\ hd' = [hd EXCEPT ![h] = new]
               /\ heap' = [heap EXCEPT ![b] = Allocated(bytes)]
               /\ UNCHANGED sh
          [] cap > 0 /\ len < cap ->
               /\ s \in FreshShareds
               /\ hd' = [hd EXCEPT ![h] = [new EXCEPT !.vt = "shared", !.sh = s]]
               /\ heap' = [heap EXCEPT ![b] = Allocated(bytes)]
               /\ sh' = [sh EXCEPT ![s] = Block(b, cap, 1)]
  /\ UNCHANGED <<cl, fault, lost>>

from_owner(h, b, s, len) ==
  /\ Free(h) /\ b \in FreshBufs /\ s \in FreshShareds
  /\ LET bytes == [i \in 1 .. len |-> i]
     IN /\ hd' = [hd EXCEPT ![h] = [None EXCEPT !.vt = "owned", !.buf = b, !.sh = s, !.len = len, !.val = bytes]]
        /\ heap' = [heap EXCEPT ![b] = Allocated(bytes)]
        /\ sh' = [sh EXCEPT ![s] = [Block(b, len, 1) EXCEPT !.owned = TRUE]]
  /\ UNCHANGED <<cl, fault, lost>>

-----------------------------------------------------------------------------
(* Clones through &self.                                                   *)

\* clone of a handle that needs no compare-and-swap.
clone(h, n) ==
  /\ Defined /\ IsBytes(h) /\ Free(n)
  /\ CloneBlocks(hd[h]) = {NoShared}
  /\ LET c == Clone(hd[h], NoShared) IN hd' = [hd EXCEPT ![n] = c.new] /\ sh' = c.sh /\ lost' = c.lost
  /\ UNCHANGED <<heap, cl, fault>>

\* promotable_even_clone, promotable_odd_clone: data is loaded, tagged KIND_VEC.
clone_begin(t, h) ==
  /\ Defined /\ cl[t] = Idle
  /\ hd[h].vt = "promotable" /\ ~Counted(hd[h])
  /\ cl' = [cl EXCEPT ![t] = [h |-> h]]
  /\ UNCHANGED <<hd, heap, sh, fault, lost>>

\* Mutant of clone_finish: a store in place of the compare_exchange.
clone_stores(t, n, s) ==
  /\ Defined /\ cl[t] # Idle /\ Free(n) /\ s \in FreshShareds
  /\ LET c == shallow_clone_vec(hd[cl[t].h], s)
     IN hd' = [hd EXCEPT ![cl[t].h] = c.old, ![n] = c.new] /\ sh' = c.sh /\ lost' = c.lost
  /\ cl' = [cl EXCEPT ![t] = Idle]
  /\ UNCHANGED <<heap, fault>>

\* shallow_clone_vec: a new block, then the compare_exchange; who loses frees its
\* block and clones from the winner's.
clone_finish(t, n, s) ==
  /\ Defined /\ cl[t] # Idle /\ Free(n) /\ s \in FreshShareds
  /\ LET h == cl[t].h
         c == IF Counted(hd[h]) THEN shallow_clone_arc(hd[h]) ELSE shallow_clone_vec(hd[h], s)
     IN hd' = [hd EXCEPT ![h] = c.old, ![n] = c.new] /\ sh' = c.sh /\ lost' = c.lost
  /\ cl' = [cl EXCEPT ![t] = Idle]
  /\ UNCHANGED <<heap, fault>>

\* slice(begin..end)
slice(h, n, begin, end, s) ==
  /\ Defined /\ IsBytes(h) /\ Free(n)
  /\ begin <= end /\ end <= hd[h].len
  /\ IF begin = end THEN s = NoShared /\ hd' = [hd EXCEPT ![n] = Empty] /\ UNCHANGED <<sh, lost>>
     ELSE /\ s \in CloneBlocks(hd[h])
          /\ LET c == Clone(hd[h], s)
             IN /\ hd' = [hd EXCEPT ![h] = c.old, ![n] = Shorten(IncStart(c.new, begin), end - begin)]
                /\ sh' = c.sh /\ lost' = c.lost
  /\ UNCHANGED <<heap, cl, fault>>

\* slice_ref of the bytes begin..end of h itself: the assertion on the pointers
\* panics, before anything is assigned, for every subset that does not start where
\* h starts.
slice_ref(h, n, begin, end, s) == (begin = 0 \/ begin = end) /\ slice(h, n, begin, end, s)

-----------------------------------------------------------------------------
(* Calls on &mut self.                                                     *)

split_off(h, n, at, s) ==
  /\ Mine(h) /\ Free(n) /\ at <= hd[h].len
  /\ IF at \in {0, hd[h].len}
     THEN /\ s = NoShared /\ UNCHANGED <<sh, lost>>
          /\ hd' = IF at = hd[h].len THEN [hd EXCEPT ![n] = Empty] ELSE [hd EXCEPT ![n] = hd[h], ![h] = Empty]
     ELSE /\ s \in CloneBlocks(hd[h])
          /\ LET c == Clone(hd[h], s)
             IN hd' = [hd EXCEPT ![h] = Shorten(c.old, at), ![n] = IncStart(c.new, at)] /\ sh' = c.sh /\ lost' = c.lost
  /\ UNCHANGED <<heap, cl, fault>>

\* split_to, Buf::copy_to_bytes.
split_to(h, n, at, s) ==
  /\ Mine(h) /\ Free(n) /\ at <= hd[h].len
  /\ IF at \in {0, hd[h].len}
     THEN /\ s = NoShared /\ UNCHANGED <<sh, lost>>
          /\ hd' = IF at = hd[h].len THEN [hd EXCEPT ![n] = hd[h], ![h] = Empty] ELSE [hd EXCEPT ![n] = Empty]
     ELSE /\ s \in CloneBlocks(hd[h])
          /\ LET c == Clone(hd[h], s)
             IN hd' = [hd EXCEPT ![h] = IncStart(c.old, at), ![n] = Shorten(c.new, at)] /\ sh' = c.sh /\ lost' = c.lost
  /\ UNCHANGED <<heap, cl, fault>>

\* Mutant of truncate: a promotable handle is shortened in place like the others.
truncate_in_place(h, len, s) ==
  /\ Mine(h) /\ len < hd[h].len /\ s = NoShared
  /\ hd' = [hd EXCEPT ![h] = Shorten(@, len)]
  /\ UNCHANGED <<heap, sh, cl, fault, lost>>

\* truncate, clear: a promotable handle keeps a clone and drops the rest.
truncate(h, len, s) ==
  /\ Mine(h) /\ len < hd[h].len
  /\ LET b == hd[h]
         c == Clone(b, s)
     IN CASE b.vt # "promotable" ->
               s = NoShared /\ hd' = [hd EXCEPT ![h] = Shorten(b, len)] /\ UNCHANGED <<heap, sh, lost>>
          [] b.vt = "promotable" /\ len = 0 ->
               /\ s = NoShared /\ hd' = [hd EXCEPT ![h] = Empty]
               /\ heap' = Dropped(b, sh).heap /\ sh' = Dropped(b, sh).sh /\ UNCHANGED lost
          [] b.vt = "promotable" /\ len > 0 ->
               /\ s \in CloneBlocks(b)
               /\ hd' = [hd EXCEPT ![h] = Shorten(c.old, len)]
               /\ heap' = Dropped(c.new, c.sh).heap /\ sh' = Dropped(c.new, c.sh).sh /\ lost' = c.lost
  /\ UNCHANGED <<cl, fault>>

advance(h, cnt) ==
  /\ Mine(h) /\ cnt <= hd[h].len
  /\ hd' = [hd EXCEPT ![h] = IncStart(@, cnt)]
  /\ UNCHANGED <<heap, sh, cl, fault, lost>>

drop(h) ==
  /\ Mine(h) \/ (Defined /\ hd[h].vt = "vec")
  /\ hd' = [hd EXCEPT ![h] = None]
  /\ heap' = Dropped(hd[h], sh).heap /\ sh' = Dropped(hd[h], sh).sh
  /\ UNCHANGED <<cl, fault, lost>>

-----------------------------------------------------------------------------
(* Into<Vec<u8>> and Into<BytesMut>.  The result, a vector or a BytesMut   *)
(* that still is one, is a handle of type "vec" that owns its allocation.  *)

Vec(buf, off, len, cap, val) ==
  [None EXCEPT !.vt = "vec", !.buf = buf, !.off = off, !.len = len, !.cap = cap, !.val = val]

\* slice.to_vec() into the allocation v; an empty vector has none.
ToVec(b) == IF b.len = 0 THEN {NoBuf} ELSE FreshBufs
CopyOf(b, v) == Vec(v, 0, b.len, b.len, b.val)
WithCopy(hp, b, v) == IF v = NoBuf THEN hp ELSE [hp EXCEPT ![v] = Allocated(AsSlice(b))]

\* ptr::copy(ptr, buf, len)
CopiedBack(b) ==
  [heap EXCEPT ![b.buf].bytes = [i \in DOMAIN @ |-> IF i <= b.len THEN @[b.off + i] ELSE @[i]]]

\* static_to_vec, static_to_mut.
static_to_vec(h, v) ==
  /\ Mine(h) /\ hd[h].vt = "static" /\ v \in ToVec(hd[h])
  /\ hd' = [hd EXCEPT ![h] = CopyOf(hd[h], v)]
  /\ heap' = WithCopy(heap, hd[h], v)
  /\ UNCHANGED <<sh, cl, fault, lost>>

\* owned_to_vec copies; its reference is never given back.
owned_to_vec(h, v) ==
  /\ Mine(h) /\ hd[h].vt = "owned" /\ v \in ToVec(hd[h])
  /\ hd' = [hd EXCEPT ![h] = CopyOf(hd[h], v)]
  /\ LET f == Forgotten(hd[h]) IN heap' = WithCopy(f.heap, hd[h], v) /\ sh' = f.sh
  /\ UNCHANGED <<cl, fault, lost>>

owned_to_mut(h, v) ==
  /\ Mine(h) /\ hd[h].vt = "owned" /\ v \in ToVec(hd[h])
  /\ hd' = [hd EXCEPT ![h] = CopyOf(hd[h], v)]
  /\ LET r == Released(sh, hd[h].sh) IN heap' = WithCopy(r.heap, hd[h], v) /\ sh' = r.sh
  /\ UNCHANGED <<cl, fault, lost>>

\* promotable_to_vec and promotable_to_mut on a boxed slice: the vector is
\* rebuilt in place, for a Vec with its contents moved to the front.
promotable_in_place(h, mut) ==
  /\ Mine(h) /\ hd[h].vt = "promotable" /\ ~Counted(hd[h])
  /\ LET b == hd[h]
     IN /\ hd' = [hd EXCEPT ![h] = Vec(b.buf, IF mut THEN b.off ELSE 0, b.len, b.off + b.len, b.val)]
        /\ heap' = IF mut THEN heap ELSE CopiedBack(b)
  /\ UNCHANGED <<sh, cl, fault, lost>>

\* Both have a debug assertion no boxed slice passes; promotable_to_mut computes
\* its kind with `*`, so a counted handle fails there too.  The panic unwinds one
\* thread, and the handle is in a ManuallyDrop: nobody drops it any more.
promotable_asserts(h) ==
  /\ Mine(h) /\ hd[h].vt = "promotable"
  /\ hd' = [hd EXCEPT ![h] = None]
  /\ heap' = Forgotten(hd[h]).heap /\ sh' = Forgotten(hd[h]).sh
  /\ UNCHANGED <<cl, fault, lost>>

\* A build without debug assertions takes the Shared block for the bytes.
promoted_to_mut(h) ==
  /\ Mine(h) /\ hd[h].vt = "promotable" /\ Counted(hd[h])
  /\ fault' = "wild"
  /\ UNCHANGED <<hd, heap, sh, cl, lost>>

\* Who may take the block apart: compare_exchange(1, 0), load() == 1.
AnyRef(s)  == TRUE
Unique(s) == sh[s].ref = 1

\* shared_to_mut_impl loads a count of 1; it takes the block apart later.
shared_unique(h) ==
  /\ Mine(h) /\ hd[h].vt = "shared" /\ Unique(hd[h].sh)
  /\ hd' = [hd EXCEPT ![h].vt = "taking"]
  /\ UNCHANGED <<heap, sh, cl, fault, lost>>

\* The only reference takes the vector: shared_to_vec_impl with its
\* compare_exchange, shared_to_mut_impl some time after its load.
shared_in_place(h, mut) ==
  /\ IF mut THEN Defined /\ hd[h].vt = "taking"
     ELSE Mine(h) /\ hd[h].vt \in {"shared", "promotable"} /\ Counted(hd[h]) /\ Unique(hd[h].sh)
  /\ LET b == hd[h]
     IN /\ hd' = [hd EXCEPT ![h] = Vec(b.buf, IF mut THEN b.off ELSE 0, b.len, sh[b.sh].cap, b.val)]
        /\ heap' = IF mut THEN heap ELSE CopiedBack(b)
        /\ sh' = [sh EXCEPT ![b.sh] = NoBlock]
  /\ UNCHANGED <<cl, fault, lost>>

\* Another reference was seen: copy first, release later.
shared_not_unique(h) ==
  /\ Mine(h) /\ Counted(hd[h]) /\ ~Unique(hd[h].sh)
  /\ hd[h].vt \in {"shared", "promotable"}
  /\ hd' = [hd EXCEPT ![h].vt = "copying"]
  /\ UNCHANGED <<heap, sh, cl, fault, lost>>

shared_copy(h, v) ==
  /\ Defined /\ hd[h].vt = "copying" /\ v \in ToVec(hd[h])
  /\ hd' = [hd EXCEPT ![h] = CopyOf(hd[h], v)]
  /\ LET r == Released(sh, hd[h].sh) IN heap' = WithCopy(r.heap, hd[h], v) /\ sh' = r.sh
  /\ UNCHANGED <<cl, fault, lost>>

-----------------------------------------------------------------------------
Blocks == Shareds \cup {NoShared}
Lens == 0 .. MaxCap

\* A new Bytes in the variable h.
Making(h) ==
  \/ \E b \in Bufs, s \in Blocks, len, cap \in Lens : from_vec(h, b, s, len, cap)
  \/ \E b \in Bufs, s \in Shareds, len \in Lens : from_owner(h, b, s, len)
  \/ from_static(h)

\* What needs no other handle.
Alone(h) ==
  \/ drop(h) \/ shared_unique(h) \/ shared_not_unique(h) \/ promotable_asserts(h) \/ promoted_to_mut(h)
  \/ \E cnt \in Lens : advance(h, cnt)
  \/ \E s \in Blocks, len \in Lens : truncate(h, len, s)
  \/ \E v \in Bufs \cup {NoBuf} :
       static_to_vec(h, v) \/ owned_to_vec(h, v) \/ owned_to_mut(h, v) \/ shared_copy(h, v)
  \/ \E mut \in BOOLEAN : promotable_in_place(h, mut) \/ shared_in_place(h, mut)

\* What makes a second Bytes of h, in the variable n.
Doubling(h, n) ==
  \/ clone(h, n)
  \/ \E s \in Blocks, i, j \in Lens : slice(h, n, i, j, s) \/ slice_ref(h, n, i, j, s)
  \/ \E s \in Blocks, at \in Lens : split_off(h, n, at, s) \/ split_to(h, n, at, s)

Next ==
  \/ \E h \in Handles : (hd[h] = None /\ Making(h)) \/ (hd[h] # None /\ Alone(h))
  \/ \E h, n \in Handles : IsBytes(h) /\ Free(n) /\ Doubling(h, n)
  \/ \E t \in Threads, h \in Handles : clone_begin(t, h) \/ \E s \in Shareds : clone_finish(t, h, s)

Spec == Init /\ [][Next]_vars

-----------------------------------------------------------------------------
(* Properties.                                                             *)

Holders(s) == {h \in Handles : hd[h].sh = s}

\* free_boxed_slice (bytes.rs:1010), Shared's Drop and the rebuilt vectors hand
\* the allocator the capacity that was allocated: a promotable handle's
\* offset + len is the size of its box whatever was done to it.
LayoutExact ==
  /\ \A h \in Handles :
       LET b == hd[h] IN b.buf # NoBuf /\ heap[b.buf].live =>
         /\ b.vt = "promotable" /\ ~Counted(b) => b.off + b.len = Len(heap[b.buf].bytes)
         /\ b.vt = "vec" => b.cap = Len(heap[b.buf].bytes)
  /\ \A s \in Shareds : sh[s].live /\ heap[sh[s].buf].live => sh[s].cap = Len(heap[sh[s].buf].bytes)

\* However many threads clone one promotable handle at once, one block is
\* installed for its buffer (bytes.rs:1186-1203).
OnePromotion ==
  \A s1, s2 \in Shareds : sh[s1].live /\ sh[s2].live /\ sh[s1].buf = sh[s2].buf => s1 = s2

\* The count never exceeds the handles and the references nobody will give back,
\* so that the last release frees the block (bytes.rs:1208); it is their number
\* until a counted handle is cloned.
CountsExact ==
  /\ \A s \in Shareds : sh[s].live => sh[s].ref <= Cardinality(Holders(s)) + sh[s].kept
  /\ ~lost => \A s \in Shareds :
       /\ sh[s].live => sh[s].ref = Cardinality(Holders(s)) + sh[s].kept
       /\ ~sh[s].live => Holders(s) = {}

\* No handle is left on memory that another handle's drop or conversion freed
\* (bytes.rs:1074, 1101, 1218).
NoDangling == ~lost => \A h \in Handles : Alive(hd[h])

\* A Bytes is immutable: a conversion that moves bytes to the front of their
\* allocation (bytes.rs:878, 1080) never shows in another handle.
ValuesKept == ~lost => \A h \in Handles : hd[h].vt # "none" => AsSlice(hd[h]) = hd[h].val

\* An allocation without handle is freed, but for the very ones whose reference
\* was never given back: by owned_to_vec (bytes.rs:776), or by a conversion that
\* panicked on its ManuallyDrop (bytes.rs:670, 683).
NoLeak ==
  ~lost => \A b \in Bufs : heap[b].live =>
    \/ \E h \in Handles : hd[h].buf = b
    \/ heap[b].kept
    \/ \E s \in Shareds : sh[s].live /\ sh[s].buf = b /\ sh[s].kept > 0

\* Bytes::is_unique (bytes.rs:119-121) for a promotable or shared handle.
IsUnique(h) ==
  hd[h].vt \in {"promotable", "shared"} /\ (Counted(hd[h]) => sh[hd[h].sh].ref = 1)

\* "Returns true if this is the only reference to the data" (bytes.rs:117).
UniqueIsOnly ==
  \A h, g \in Handles : IsBytes(h) /\ IsUnique(h) /\ hd[h].buf # NoBuf /\ hd[g].buf = hd[h].buf => g = h
=============================================================================
